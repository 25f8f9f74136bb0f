----------------------------- MODULE SyncEngine -----------------------------
(***************************************************************************)
(* The sync engine of internal/features/plan: BuildPlan reads the state a  *)
(* previous run left in the workspace, refuses destinations it does not    *)
(* manage and computes what the store's snapshot wants; ApplyPlan stages   *)
(* the files, promotes them one by one, writes the lock and the metadata,  *)
(* removes what is obsolete and cleans up.  The workspace outlives a run:  *)
(* the next one may come after an edit, a store release, a new             *)
(* configuration, an I/O error or a crash in the middle.                   *)
(*                                                                         *)
(* The engine is modelled with sync-root: false (no root Taskfile), a      *)
(* target folder other than "." and target folders and destination         *)
(* directories that are not nested in one another.                         *)
(***************************************************************************)
EXTENDS Naturals

CONSTANTS
    Targets,        \* target folders, numbered in the order of their names
    Modules,        \* destination modules
    Files,          \* module files the store may publish
    ModuleOf,       \* the module a file belongs to
    Contents,       \* contents the store may publish
    Configs,        \* configurations: a target folder and resolved modules
    LegacyConfigs,  \* configurations an older release may have left synced
    Absent,         \* no file at a path, or a file the store does not publish
    Hand,           \* content written by the user
    None,           \* no lock, metadata or target
    FreshCheckout,  \* every run starts from a clone of what was last merged
    MaxEdits,       \* bound on edits, releases and reconfigurations
    MaxFaults       \* bound on I/O errors and crashes

Path == Targets \X Files
Dir == Targets \X Modules
DirOf(p) == <<p[1], ModuleOf[p[2]]>>

\* ManagedFiles of a plan or of a lock: what is listed, with its hash.
Manifest == [Path -> Contents \cup {Absent}]
Lock == [cfg : Configs, files : Manifest]

ASSUME ConstantsAssumption ==
    /\ Targets \subseteq Nat
    /\ ModuleOf \in [Files -> Modules]
    /\ Configs \subseteq [target : Targets, mods : (SUBSET Modules) \ {{}}]
    /\ LegacyConfigs \subseteq Configs
    /\ FreshCheckout \in BOOLEAN
    /\ MaxEdits \in Nat
    /\ MaxFaults \in Nat

ASSUME SentinelsAssumption ==
    /\ {Absent, Hand} \cap Contents = {}
    /\ Absent # Hand
    /\ None \notin Targets
    /\ None \notin Configs
    /\ None \notin Lock

VARIABLES
    tree,       \* content of every managed location of the workspace
    dirs,       \* module directories that exist
    lock,       \* <target>/.taskotter-lock.yml
    meta,       \* <target>/.taskotter/metadata.yml
    legacy,     \* target named by .taskotter/metadata.yml of an older release
    leftovers,  \* targets whose .taskotter/staging holds a crashed run's copy
    store,      \* what the store publishes
    config,     \* the action's inputs
    pc,         \* where the run is in ApplyPlan
    old,        \* plan.OldLock
    oldTarget,  \* plan.OldTargetFolder
    todo,       \* paths still to promote or to remove
    base,       \* the merged workspace a fresh checkout restores
    outcome,    \* how the last run ended
    edits,      \* edits, releases and reconfigurations so far
    faults      \* I/O errors and crashes so far

workspace == <<tree, dirs, lock, meta, legacy, leftovers>>
plan == <<old, oldTarget, todo, base>>
vars == <<workspace, store, config, pc, plan, outcome, edits, faults>>

-----------------------------------------------------------------------------
(* What a configuration wants of the store's snapshot. *)

\* Managed files of a plan: every file of a resolved module, under the target.
Wanted(c, s) ==
    [p \in Path |->
        IF p[1] = c.target /\ ModuleOf[p[2]] \in c.mods THEN s[p[2]] ELSE Absent]

want == Wanted(config, store)
NewLock == [cfg |-> config, files |-> want]
Listed(files) == {p \in Path : files[p] # Absent}

\* A resolved module whose source directory the snapshot does not have.
SourceMissing ==
    \E m \in config.mods : \A f \in Files : ModuleOf[f] = m => store[f] = Absent

(* What a previous run left. *)

\* discoverPreviousMetadata: metadata of another target folder, or the copy a
\* crashed run left below any target's staging directory.
Candidates == {t \in Targets : t # config.target /\ meta[t] # None} \cup leftovers

\* loadCurrentMetadata: the current target's metadata, else the legacy file,
\* else the first candidate in the order of the paths, else none.
PreviousTarget(t) ==
    \/ meta[config.target] # None /\ t = config.target
    \/ meta[config.target] = None /\ legacy # None /\ t = legacy
    \/ /\ meta[config.target] = None /\ legacy = None
       /\ t \in Candidates
       /\ \A u \in Candidates : t <= u
    \/ /\ meta[config.target] = None /\ legacy = None /\ Candidates = {}
       /\ t = None

\* loadPreviousLock: without metadata the lock of the current target is read.
LockAt(t) == IF t = None THEN lock[config.target] ELSE lock[t]
TargetAt(t) ==
    IF t = None /\ LockAt(t) # None THEN LockAt(t).cfg.target ELSE t

(* The decisions of BuildPlan. *)

Occupied == {DirOf(p) : p \in {q \in Path : tree[q] # Absent}}
VisibleDirs == IF FreshCheckout THEN Occupied ELSE dirs

\* Mutant: only a lock of the very same configuration manages anything.
ManagedBySameConfig(l, m) == l # None /\ l.cfg = config /\ m \in l.cfg.mods

\* isDestinationManaged: the lock lists some file of a module of that name.
IsDestinationManaged(l, m) ==
    l # None /\ \E p \in Listed(l.files) : ModuleOf[p[2]] = m

\* Mutant: any lock at all lets a run write anywhere.
UnmanagedWithoutLock(l) ==
    l = None /\ \E m \in config.mods : <<config.target, m>> \in VisibleDirs

\* validateDestination fails for some module of the plan.
UnmanagedDestination(l) ==
    \E m \in config.mods :
        <<config.target, m>> \in VisibleDirs /\ ~IsDestinationManaged(l, m)

\* diffRemovedFiles, and what removeStaleManagedFiles deletes.
Stale(l) == IF l = None THEN {} ELSE Listed(l.files) \ Listed(want)

\* Mutants: only added and updated files count; metadata does not count.
ChangedWantedFiles(l) == \E p \in Listed(want) : tree[p] # want[p]
ChangedBesidesMetadata(l) == ChangedWantedFiles(l) \/ Stale(l) # {} \/ l # NewLock

\* Mutant: a lock with the time of the run in it is always another one.
ChangedByTimestamp(l) == TRUE

\* anyChanges: files to add, update or remove, another lock, other metadata.
Changed(l) ==
    \/ \E p \in Listed(want) : tree[p] # want[p]
    \/ Stale(l) # {}
    \/ l # NewLock
    \/ meta[config.target] # config

OldTargetUnchanged ==
    old = None \/ oldTarget = None \/ oldTarget = config.target

-----------------------------------------------------------------------------
(* The initial workspace holds nothing of TaskOtter, or what an older        *)
(* release left: a synced tree whose metadata is at the workspace root.      *)

EmptyManifest == [p \in Path |-> Absent]

NothingSynced ==
    /\ tree = EmptyManifest
    /\ dirs = {}
    /\ lock = [t \in Targets |-> None]
    /\ legacy = None

LegacySynced(c) ==
    /\ tree = Wanted(c, store)
    /\ dirs = Occupied
    /\ lock = [t \in Targets |->
                  IF t = c.target
                  THEN [cfg |-> c, files |-> Wanted(c, store)] ELSE None]
    /\ legacy = c.target

Init ==
    /\ store \in [Files -> Contents]
    /\ config \in Configs
    /\ NothingSynced \/ \E c \in LegacyConfigs : LegacySynced(c)
    /\ meta = [t \in Targets |-> None]
    /\ leftovers = {}
    /\ pc = "idle"
    /\ old = None /\ oldTarget = None /\ todo = {} /\ base = None
    /\ outcome = "none"
    /\ edits = 0 /\ faults = 0

-----------------------------------------------------------------------------
(* The world between two runs. *)

Environment ==
    /\ pc = "idle"
    /\ edits < MaxEdits
    /\ edits' = edits + 1
    /\ outcome' = "none"
    /\ UNCHANGED <<lock, meta, legacy, leftovers, pc, plan, faults>>

\* The user writes a file of their own at a path.
WriteByHand(p) ==
    /\ Environment
    /\ tree[p] # Hand
    /\ tree' = [tree EXCEPT ![p] = Hand]
    /\ dirs' = dirs \cup {DirOf(p)}
    /\ UNCHANGED <<store, config>>

\* The user deletes a file; a directory that becomes empty goes with it.
DeleteByHand(p) ==
    /\ Environment
    /\ tree[p] # Absent
    /\ tree' = [tree EXCEPT ![p] = Absent]
    /\ dirs' = IF \E q \in Path \ {p} : DirOf(q) = DirOf(p) /\ tree[q] # Absent
               THEN dirs ELSE dirs \ {DirOf(p)}
    /\ UNCHANGED <<store, config>>

\* The user removes a whole module directory.
RemoveDirectory(d) ==
    /\ Environment
    /\ d \in dirs
    /\ tree' = [p \in Path |-> IF DirOf(p) = d THEN Absent ELSE tree[p]]
    /\ dirs' = dirs \ {d}
    /\ UNCHANGED <<store, config>>

\* The store publishes, changes or withdraws a file.
Publish(f, c) ==
    /\ Environment
    /\ store[f] # c
    /\ store' = [store EXCEPT ![f] = c]
    /\ UNCHANGED <<tree, dirs, config>>

\* The workflow file's inputs change.
Reconfigure(c) ==
    /\ Environment
    /\ config # c
    /\ config' = c
    /\ UNCHANGED <<tree, dirs, store>>

-----------------------------------------------------------------------------
(* A run. *)

\* BuildPlan ends the run: a source or a destination is refused, or nothing
\* has changed.
EndPlanning(result) ==
    /\ pc' = "idle"
    /\ outcome' = result
    /\ UNCHANGED plan

\* BuildPlan hands a plan over to ApplyPlan.
StartApply(l, t) ==
    /\ pc' = "stage"
    /\ outcome' = "none"
    /\ old' = l
    /\ oldTarget' = t
    /\ todo' = Listed(want)
    /\ base' = IF FreshCheckout
               THEN [tree |-> tree, lock |-> lock, meta |-> meta, legacy |-> legacy]
               ELSE None

BuildPlanFrom(l, t) ==
    IF SourceMissing THEN EndPlanning("failed")
    ELSE IF UnmanagedDestination(l) THEN EndPlanning("refused")
    ELSE IF ~Changed(l) THEN EndPlanning("unchanged")
    ELSE StartApply(l, t)

BuildPlan ==
    /\ pc = "idle"
    /\ \E t \in Targets \cup {None} :
          PreviousTarget(t) /\ BuildPlanFrom(LockAt(t), TargetAt(t))
    /\ dirs' = VisibleDirs
    /\ UNCHANGED <<tree, lock, meta, legacy, leftovers, store, config, edits, faults>>

Apply(from, to) ==
    /\ pc = from
    /\ pc' = to
    /\ UNCHANGED <<store, config, old, oldTarget, base, edits, faults, leftovers>>

\* stagePlanFiles copies everything below <target>/.taskotter/staging/apply-*
\* and validateGeneratedYAML accepts it.
StageFiles ==
    /\ Apply("stage", "promote")
    /\ UNCHANGED <<tree, dirs, lock, meta, legacy, todo, outcome>>

\* writeStagedFiles promotes one module file by an atomic rename.
PromoteFile(p) ==
    /\ Apply("promote", "promote")
    /\ p \in todo
    /\ tree' = [tree EXCEPT ![p] = want[p]]
    /\ dirs' = dirs \cup {DirOf(p)}
    /\ todo' = todo \ {p}
    /\ UNCHANGED <<lock, meta, legacy, outcome>>

\* Mutant: the lock may be written before all module files are.
WriteLockEarly ==
    /\ Apply("promote", "metadata")
    /\ lock' = [lock EXCEPT ![config.target] = NewLock]
    /\ UNCHANGED <<tree, dirs, meta, legacy, todo, outcome>>

\* The lock file is staged after the module files.
WriteLock ==
    /\ Apply("promote", "metadata")
    /\ todo = {}
    /\ lock' = [lock EXCEPT ![config.target] = NewLock]
    /\ UNCHANGED <<tree, dirs, meta, legacy, todo, outcome>>

\* Mutant: the metadata stays in the old target folder.
WriteMetadataInPlace ==
    /\ Apply("metadata", "stale")
    /\ meta' = [meta EXCEPT ![IF oldTarget = None THEN config.target ELSE oldTarget] = config]
    /\ todo' = Stale(old)
    /\ UNCHANGED <<tree, dirs, lock, legacy, outcome>>

\* The metadata is the last staged file.
WriteMetadata ==
    /\ Apply("metadata", "stale")
    /\ meta' = [meta EXCEPT ![config.target] = config]
    /\ todo' = Stale(old)
    /\ UNCHANGED <<tree, dirs, lock, legacy, outcome>>

\* removeStaleManagedFile deletes a file the old lock lists and the plan does
\* not; the directory of the module itself is never pruned.
RemoveStale(p) ==
    /\ Apply("stale", "stale")
    /\ p \in todo
    /\ tree' = [tree EXCEPT ![p] = Absent]
    /\ todo' = todo \ {p}
    /\ UNCHANGED <<dirs, lock, meta, legacy, outcome>>

\* Mutant: obsolete files that are still there are skipped.
RemoveOldFilesAtOnce ==
    /\ Apply("stale", IF OldTargetUnchanged THEN "legacy" ELSE "oldlock")
    /\ tree' = IF OldTargetUnchanged THEN tree
               ELSE [p \in Path |->
                        IF p \in Listed(old.files) /\ p[1] = oldTarget
                        THEN Absent ELSE tree[p]]
    /\ UNCHANGED <<dirs, lock, meta, legacy, todo, outcome>>

\* removeOldTargetFiles, unless the target folder is the same.
RemoveOldFiles ==
    /\ Apply("stale", IF OldTargetUnchanged THEN "legacy" ELSE "oldlock")
    /\ todo = {}
    /\ tree' = IF OldTargetUnchanged THEN tree
               ELSE [p \in Path |->
                        IF p \in Listed(old.files) /\ p[1] = oldTarget
                        THEN Absent ELSE tree[p]]
    /\ UNCHANGED <<dirs, lock, meta, legacy, todo, outcome>>

RemoveOldLock ==
    /\ Apply("oldlock", "oldmeta")
    /\ lock' = [lock EXCEPT ![oldTarget] = None]
    /\ UNCHANGED <<tree, dirs, meta, legacy, todo, outcome>>

RemoveOldMetadata ==
    /\ Apply("oldmeta", "legacy")
    /\ meta' = [meta EXCEPT ![oldTarget] = None]
    /\ UNCHANGED <<tree, dirs, lock, legacy, todo, outcome>>

CleanupLegacyMetadata ==
    /\ Apply("legacy", "unstage")
    /\ legacy' = None
    /\ UNCHANGED <<tree, dirs, lock, meta, todo, outcome>>

\* The deferred cleanupStagingDir, after which the run has succeeded.
CleanupStaging ==
    /\ Apply("unstage", "idle")
    /\ outcome' = "synced"
    /\ UNCHANGED <<tree, dirs, lock, meta, legacy, todo>>

\* What a run that does not finish leaves to the next one.  On a fresh checkout
\* the workspace is discarded and the next run clones the merged one again.
Abandon(crashed) ==
    /\ pc # "idle"
    /\ faults < MaxFaults
    /\ faults' = faults + 1
    /\ pc' = "idle"
    /\ outcome' = "failed"
    /\ todo' = {}
    /\ IF FreshCheckout
       THEN /\ tree' = base.tree /\ lock' = base.lock
            /\ meta' = base.meta /\ legacy' = base.legacy
            /\ UNCHANGED leftovers
       ELSE /\ leftovers' = IF crashed /\ pc # "stage"
                            THEN leftovers \cup {config.target} ELSE leftovers
            /\ UNCHANGED <<tree, lock, meta, legacy>>
    /\ UNCHANGED <<dirs, store, config, old, oldTarget, base, edits>>

\* A step of ApplyPlan returns an error: the deferred cleanup removes staging.
ApplyError == Abandon(FALSE)

\* The process is killed: nothing is cleaned up.
Crash == Abandon(TRUE)

-----------------------------------------------------------------------------
RunStep ==
    \/ StageFiles
    \/ \E p \in todo : PromoteFile(p)
    \/ WriteLock
    \/ WriteMetadata
    \/ \E p \in todo : RemoveStale(p)
    \/ RemoveOldFiles
    \/ RemoveOldLock
    \/ RemoveOldMetadata
    \/ CleanupLegacyMetadata
    \/ CleanupStaging

EngineStep == BuildPlan \/ RunStep

World ==
    \/ \E p \in Path : WriteByHand(p) \/ DeleteByHand(p)
    \/ \E d \in Dir : RemoveDirectory(d)
    \/ \E f \in Files, c \in Contents \cup {Absent} : Publish(f, c)
    \/ \E c \in Configs : Reconfigure(c)

Next == EngineStep \/ World \/ ApplyError \/ Crash

Spec == Init /\ [][Next]_vars

\* The workflow is scheduled again and again, and a run that is not
\* interrupted takes its next step; edits and faults need not happen.
FairSpec == Spec /\ WF_vars(BuildPlan) /\ WF_vars(RunStep)
=============================================================================
