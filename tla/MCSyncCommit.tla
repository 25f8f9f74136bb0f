----------------------------- MODULE MCSyncCommit -----------------------------
(* Small instances of SyncCommit: two target folders, two modules, one of     *)
(* them with two files.                                                       *)
EXTENDS SyncCommit, TLC

CONSTANTS a, b, a1, a2, b1, v1, v2

MCModuleOf == (a1 :> a) @@ (a2 :> a) @@ (b1 :> b)

OnlyA(t) == [target |-> t, mods |-> {a}]
Both(t) == [target |-> t, mods |-> {a, b}]

\* Modules come and go within a target folder, and the folder changes.
AllConfigs == {OnlyA(1), Both(1), Both(2)}
OneTarget == {OnlyA(1), Both(1)}
OneConfig == {Both(1)}
NoConfig == {}

\* Contents of different files are never compared, so that it does not matter
\* which of them the store publishes first.
FirstReleaseInit == CommitInit /\ store = [f \in Files |-> v1]
FirstRelease ==
    /\ FirstReleaseInit
    /\ [][CommitNext]_commitVars
    /\ WF_commitVars(Plan) /\ WF_commitVars(SyncRun) /\ WF_commitVars(NewClone)
=============================================================================
