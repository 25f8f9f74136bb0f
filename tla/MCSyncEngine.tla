----------------------------- MODULE MCSyncEngine -----------------------------
(* Small instances of SyncEngine: two target folders, two modules, one of     *)
(* them with two files.                                                       *)
EXTENDS SyncEngineProps, TLC

CONSTANTS a, b, a1, a2, b1, v1, v2

MCModuleOf == (a1 :> a) @@ (a2 :> a) @@ (b1 :> b)

OnlyA(t) == [target |-> t, mods |-> {a}]
Both(t) == [target |-> t, mods |-> {a, b}]

\* Modules come and go within a target folder, and the folder changes.
AllConfigs == {OnlyA(1), Both(1), Both(2)}
OneConfig == {Both(1)}
NoConfig == {}

\* The engine compares contents only for equality.
ContentSymmetry == Permutations({v1, v2})

\* With MaxFaults = 0 neither ApplyError nor Crash can happen.
FaultlessSpec == Init /\ [][EngineStep \/ World]_vars
=============================================================================
