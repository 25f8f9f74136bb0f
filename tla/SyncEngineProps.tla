--------------------------- MODULE SyncEngineProps ---------------------------
(***************************************************************************)
(* What the sync engine promises from one run to the next.                 *)
(***************************************************************************)
EXTENDS SyncEngine

Base == [tree : [Path -> Contents \cup {Absent, Hand}],
         lock : [Targets -> Lock \cup {None}],
         meta : [Targets -> Configs \cup {None}],
         legacy : Targets \cup {None}]

\* Every variable has its type; the merged workspace is remembered exactly
\* while a run on a fresh checkout may still have to give it back.
TypeOK ==
    /\ tree \in [Path -> Contents \cup {Absent, Hand}]
    /\ dirs \subseteq Dir
    /\ lock \in [Targets -> Lock \cup {None}]
    /\ meta \in [Targets -> Configs \cup {None}]
    /\ legacy \in Targets \cup {None}
    /\ leftovers \subseteq Targets
    /\ store \in [Files -> Contents \cup {Absent}]
    /\ config \in Configs
    /\ pc \in {"idle", "stage", "promote", "metadata", "stale",
               "oldlock", "oldmeta", "legacy", "unstage"}
    /\ old \in Lock \cup {None}
    /\ oldTarget \in Targets \cup {None}
    /\ todo \subseteq Path
    /\ base \in Base \cup {None}
    /\ (FreshCheckout /\ pc # "idle") => base \in Base
    /\ outcome \in {"none", "synced", "unchanged", "refused", "failed"}
    /\ edits \in 0 .. MaxEdits
    /\ faults \in 0 .. MaxFaults

-----------------------------------------------------------------------------
(* The state between two runs. *)

\* A target folder TaskOtter has state of its own in.
Inhabited(t) == lock[t] # None \/ meta[t] # None \/ legacy = t

\* The lock the next run of an unchanged target would find.
Recorded(t) == (meta[t] # None \/ legacy = t) /\ lock[t] # None

\* "nor loses track of what it manages" (ADR 0008): between two runs every file
\* TaskOtter wrote is listed, with its content, in the lock the next run reads.
Tracked ==
    pc = "idle" =>
        \A p \in Path : tree[p] \in Contents =>
            \E t \in Targets : Recorded(t) /\ lock[t].files[p] = tree[p]

\* Between two runs at most one target folder has TaskOtter state, so that a
\* changed target-folder leaves no lock or metadata behind that a later run
\* could take for the previous one.
OneHome ==
    pc = "idle" =>
        \A t, u \in Targets : Inhabited(t) /\ Inhabited(u) => t = u

\* The workspace holds what the configuration wants of the store and nothing
\* else of TaskOtter's: no missing, outdated or orphaned file, no other lock,
\* no other metadata.
InSync ==
    /\ \A p \in Path : want[p] # Absent => tree[p] = want[p]
    /\ \A p \in Path : tree[p] \in Contents => tree[p] = want[p]
    /\ lock = [t \in Targets |-> IF t = config.target THEN NewLock ELSE None]
    /\ meta = [t \in Targets |-> IF t = config.target THEN config ELSE None]
    /\ legacy = None

\* A run that ends well, with or without changes, leaves the workspace in sync,
\* whatever target folder, modules or release it was synced from: nothing is
\* missed by the comparison behind plan.Changed and nothing is left behind.
SuccessMeansInSync ==
    pc = "idle" /\ outcome \in {"synced", "unchanged"} => InSync

\* "No commit or PR when synchronized content is unchanged" (README): a second
\* run right after a successful one finds nothing to do.
SecondRunIsUnchanged ==
    [][BuildPlan /\ outcome = "synced" => outcome' = "unchanged"]_vars

\* A file of the user stands in a directory the configuration wants.
HandWrittenInTheWay ==
    \E m \in config.mods, p \in Path :
        DirOf(p) = <<config.target, m>> /\ tree[p] = Hand

\* A destination is refused only to protect content of the user: directories
\* TaskOtter created itself never make a later run fail.
RefusalProtectsSomething ==
    outcome = "refused" => HandWrittenInTheWay

-----------------------------------------------------------------------------
(* What a step of a run may do to files of the user. *)

Destroys(p) == tree[p] = Hand /\ tree'[p] # Hand

\* A run replaces or deletes content of the user only in modules the previous
\* lock manages, and only files the old lock lists or the plan wants.
HandWrittenModulesKept ==
    [][EngineStep => \A p \in Path : Destroys(p) =>
        /\ IsDestinationManaged(old, ModuleOf[p[2]])
        /\ p \in Listed(old.files) \cup Listed(want)]_vars

\* "planning fails when a destination directory exists without a lock entry"
\* (ADR 0008): no lock in the workspace lists a file in the directory.
UnlistedDestinationFails ==
    [][BuildPlan /\ (\E m \in config.mods :
            LET d == <<config.target, m>> IN
            /\ d \in VisibleDirs
            /\ \A t \in Targets : lock[t] # None =>
                  \A p \in Listed(lock[t].files) : DirOf(p) # d)
        => outcome' \in {"refused", "failed"}]_vars

-----------------------------------------------------------------------------
(* What happens in the end, once edits and faults are over. *)

\* The wanted files, the lock and the metadata are in place.
UpToDate ==
    /\ \A p \in Path : want[p] # Absent => tree[p] = want[p]
    /\ lock[config.target] = NewLock
    /\ meta[config.target] = config

\* Scheduled runs on fresh checkouts bring the workspace in sync and keep it
\* there, unless a source module is gone or content of the user is in the way.
Converges == <>[](InSync \/ SourceMissing \/ HandWrittenInTheWay)

\* A change of the target folder was interrupted in such a way that the state the
\* next run starts from is that of a folder without a lock, while another folder
\* has one: the staged copy of a crashed run stands before the metadata of the old
\* folder, or the legacy metadata names a folder whose lock was removed.
Misled ==
    \E t \in Targets :
        PreviousTarget(t) /\ lock[t] = None /\ \E u \in Targets : lock[u] # None

\* "Safe upgrades" (ADR 0008): with configurations that differ in the target
\* folder only, crashes and errors in the middle of upgrades and of changes of the
\* folder do not keep scheduled runs from bringing the workspace up to date.
UpgradesRecover == <>[](UpToDate \/ SourceMissing \/ Misled)

-----------------------------------------------------------------------------
(* The inductive invariant behind Tracked, OneHome and SuccessMeansInSync.    *)
(* It holds of runs that are never interrupted, and of interrupted runs on    *)
(* fresh checkouts.                                                           *)

Undisturbed == FreshCheckout \/ MaxFaults = 0

\* A workspace as a finished run leaves it, and as edits by hand keep it: one
\* target has lock and metadata, the lock lists files of that target, and every
\* file with content of the store is in the lock with that content.
Settled(tr, lk, mt, lg) ==
    /\ \A t, u \in Targets :
          lk[t] # None /\ (lk[u] # None \/ mt[u] # None \/ lg = u) => t = u
    /\ \A t \in Targets : lk[t] = None => mt[t] = None /\ lg # t
    /\ \A t \in Targets : lg # None => mt[t] = None
    /\ \A t \in Targets : lk[t] # None =>
          /\ mt[t] # None \/ lg = t
          /\ lk[t].cfg.target = t
          /\ \A p \in Listed(lk[t].files) : p[1] = t
    /\ \A p \in Path : tr[p] \in Contents =>
          \E t \in Targets : lk[t] # None /\ lk[t].files[p] = tr[p]

Unwritten == {"stage", "promote"}           \* the lock is still the old one
Locked == {"metadata", "stale", "oldlock"}  \* both locks may be there
Swept == {"oldlock", "oldmeta", "legacy", "unstage"}

\* plan.OldLock and plan.OldTargetFolder belong together.
OldStateConsistent ==
    /\ old = None <=> oldTarget = None
    /\ old # None => \A p \in Listed(old.files) : p[1] = oldTarget

\* Which lock and metadata files exist in which phase of ApplyPlan.
StateFilesByPhase ==
    /\ \A t \in Targets :
          lock[t] = IF t = config.target /\ pc \notin Unwritten THEN NewLock
                    ELSE IF t = oldTarget /\ pc \in Unwritten \cup Locked THEN old
                    ELSE None
    /\ pc \in Unwritten \cup {"metadata"} =>
          \A t \in Targets : meta[t] # None => t = oldTarget
    /\ pc \in {"stale", "oldlock", "oldmeta"} =>
          /\ meta[config.target] = config
          /\ \A t \in Targets : meta[t] # None => t \in {config.target, oldTarget}
    /\ pc \in {"legacy", "unstage"} =>
          \A t \in Targets :
             meta[t] = IF t = config.target THEN config ELSE None
    /\ legacy # None => legacy = oldTarget
    /\ pc = "unstage" => legacy = None
    /\ pc \in {"oldlock", "oldmeta"} => ~OldTargetUnchanged

\* Which files are promoted and which are removed in which phase.
FilesByPhase ==
    /\ \A p \in Path : tree[p] \in Contents =>
          tree[p] = want[p] \/ (old # None /\ tree[p] = old.files[p])
    /\ pc = "stage" => todo = Listed(want)
    /\ pc = "promote" => \A p \in Listed(want) : p \in todo \/ tree[p] = want[p]
    /\ pc = "promote" => todo \subseteq Listed(want)
    /\ pc \notin Unwritten => \A p \in Listed(want) : tree[p] = want[p]
    /\ pc = "stale" => \A p \in Stale(old) : p \in todo \/ tree[p] = Absent
    /\ pc = "stale" => todo \subseteq Stale(old)
    /\ pc \in Swept => \A p \in Stale(old) : tree[p] = Absent

\* The clauses above, for the workspace at rest, the workspace of a run and the
\* workspace a fresh checkout goes back to.
IInv ==
    /\ TypeOK
    /\ leftovers = {}
    /\ pc = "idle" => Settled(tree, lock, meta, legacy)
    /\ pc # "idle" => OldStateConsistent /\ StateFilesByPhase /\ FilesByPhase
    /\ pc # "idle" /\ FreshCheckout =>
          Settled(base.tree, base.lock, base.meta, base.legacy)
    /\ SuccessMeansInSync

\* What a step of a run relies on, whatever was interrupted before: the plan has
\* seen the directory of every file of the user's, it found the directories it
\* promotes into managed, and its sources are there until the world changes.
StepInv ==
    /\ ~FreshCheckout => Occupied \subseteq dirs
    /\ pc \in Unwritten =>
          /\ todo \subseteq Listed(want)
          /\ \A p \in Listed(want) :
                tree[p] = Hand => IsDestinationManaged(old, ModuleOf[p[2]])
    /\ pc = "stale" => todo \subseteq Stale(old)
    /\ pc # "idle" \/ outcome = "synced" => ~SourceMissing

EngineInv == IInv /\ StepInv
=============================================================================
