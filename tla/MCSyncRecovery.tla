---------------------------- MODULE MCSyncRecovery ----------------------------
(* Small instances of SyncRecovery: two target folders and a module with two  *)
(* files, one of which may be withdrawn while the other keeps the module.     *)
EXTENDS SyncRecovery, TLC

CONSTANTS a, a1, a2, v1, v2

MCModuleOf == (a1 :> a) @@ (a2 :> a)

OnlyA(t) == [target |-> t, mods |-> {a}]
BothTargets == {OnlyA(1), OnlyA(2)}
SecondTarget == {OnlyA(2)}

\* A workspace an older release has synced; it does not matter which contents
\* the store published first.
UpgradeInit == RecoveryInit /\ legacy # None /\ store = [f \in Files |-> v1]
UpgradeSpec ==
    /\ UpgradeInit /\ [][RecoveryNext]_recoveryVars
    /\ WF_recoveryVars(BuildPlan /\ Remember) /\ WF_recoveryVars(RunStep /\ Remember)
=============================================================================
