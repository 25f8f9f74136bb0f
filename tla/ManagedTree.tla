----------------------------- MODULE ManagedTree -----------------------------
(***************************************************************************)
(* What a workflow promises of the consumer's repository, run by run: the  *)
(* committed files and the manifest of those that are TaskOtter's.  A run  *)
(* that gets through takes both, in one atomic step, from one manifest to  *)
(* the next; every other change of the files is a commit of the user's.    *)
(* SyncCommit implements this.                                             *)
(***************************************************************************)

CONSTANTS
    Path,           \* managed locations
    Configs,        \* configurations
    Stores,         \* what the store may publish
    Wanted(_, _),   \* the files a configuration wants of the store
    LegacyConfigs,  \* configurations that may be synced from the beginning
    Absent,         \* no file
    Hand,           \* content written by the user
    None            \* nothing was ever synced

VARIABLES
    files,      \* content of every managed location
    manifest,   \* what was synced last: a configuration and its files
    store,      \* what the store publishes
    config      \* the action's inputs

vars == <<files, manifest, store, config>>

Listed(fs) == {p \in Path : fs[p] # Absent}
Owned == IF manifest = None THEN {} ELSE Listed(manifest.files)

Init ==
    /\ store \in Stores
    /\ config \in Configs
    /\ \/ files = [p \in Path |-> Absent] /\ manifest = None
       \/ \E c \in LegacyConfigs :
             /\ files = Wanted(c, store)
             /\ manifest = [cfg |-> c, files |-> files]

\* All that is wanted is there, all that was owned and is not wanted is gone,
\* and nothing else has changed.
Sync ==
    LET wanted == Wanted(config, store) IN
    /\ files' = [p \in Path |->
                    IF wanted[p] # Absent THEN wanted[p]
                    ELSE IF p \in Owned THEN Absent ELSE files[p]]
    /\ manifest' = [cfg |-> config, files |-> wanted]
    /\ UNCHANGED <<store, config>>

\* A commit of the user's.
Edit ==
    /\ \A p \in Path : files'[p] \in {files[p], Hand, Absent}
    /\ UNCHANGED <<manifest, store, config>>

\* Another release of the store or another configuration.
Reconfigure ==
    /\ store' \in Stores
    /\ config' \in Configs
    /\ UNCHANGED <<files, manifest>>

Next == Sync \/ Edit \/ Reconfigure

Spec == Init /\ [][Next]_vars
=============================================================================
