----------------------------- MODULE SyncRecovery -----------------------------
(***************************************************************************)
(* The engine on a workspace that is kept from run to run, as on a         *)
(* self-hosted runner, when runs are interrupted: a run that ends before   *)
(* its lock leaves files no lock lists, and one that ends after its lock   *)
(* leaves files the lock does not list any more.                           *)
(*                                                                         *)
(* A history variable adds to the specification which files an interrupted *)
(* run had put at that risk.  It has no effect on the engine.              *)
(***************************************************************************)
EXTENDS SyncEngineProps

VARIABLE forgotten      \* files at risk when a run was interrupted

recoveryVars == <<vars, forgotten>>

\* Files TaskOtter wrote that no lock a run could read lists any more.
Orphans ==
    {p \in Path : tree[p] \in Contents /\
        \A t \in Targets : Recorded(t) => p \notin Listed(lock[t].files)}

\* What a run puts at risk at the point it has reached: the files it has promoted
\* until the lock and the metadata list them, and the files it is to remove from
\* the lock on.
AtRisk ==
    CASE pc = "stage" -> {}
      [] pc = "promote" -> Listed(want) \ todo
      [] pc = "metadata" -> Listed(want) \cup Stale(old)
      [] OTHER -> Stale(old)

Interrupted == faults' # faults

\* A file is forgotten until it is gone or a run that ends well lists it again.
Remember ==
    forgotten' = {p \in forgotten \cup IF Interrupted THEN AtRisk ELSE {} :
                     /\ tree'[p] \in Contents
                     /\ outcome' = "synced" => p \notin Listed(want)}

RecoveryInit == Init /\ forgotten = {}
RecoveryNext ==
    \/ BuildPlan /\ Remember
    \/ RunStep /\ Remember
    \/ World /\ Remember
    \/ ApplyError /\ Remember
    \/ Crash /\ Remember

RecoverySpec ==
    /\ RecoveryInit /\ [][RecoveryNext]_recoveryVars
    /\ WF_recoveryVars(BuildPlan /\ Remember) /\ WF_recoveryVars(RunStep /\ Remember)

-----------------------------------------------------------------------------
(* Properties. *)

\* "nor loses track of what it manages" (ADR 0008), as far as it is true of
\* interrupted runs: TaskOtter loses track of a file only if the run that wrote
\* it was interrupted before its lock and metadata were written, or the run that
\* was to remove it after its lock was, never of a file of any other run.
OnlyInterruptedRunsForget == pc = "idle" => Orphans \subseteq forgotten
=============================================================================
