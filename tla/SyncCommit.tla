----------------------------- MODULE SyncCommit -----------------------------
(***************************************************************************)
(* The engine in a clone of the consumer's repository: after BuildPlan the *)
(* git adapter looks for changes that are not the plan's, after ApplyPlan  *)
(* it stages the paths the plan names, commits, and the commit is merged.  *)
(* The next run clones what was committed, never what was in the workspace.*)
(* An earlier step of the workflow, or somebody who runs the action in     *)
(* their own clone, may have changed files without a commit, and staged    *)
(* them or not.                                                            *)
(*                                                                         *)
(* Publication to GitHub is the subject of GitPublish.                     *)
(***************************************************************************)
EXTENDS SyncEngineProps

ASSUME FreshCheckoutAssumption == FreshCheckout

VARIABLES
    head,       \* what the commit holds that was cloned
    index       \* files of the clone's index

commitVars == <<vars, head, index>>

Workspace == [tree |-> tree, lock |-> lock, meta |-> meta, legacy |-> legacy]

-----------------------------------------------------------------------------
(* plan.StagePaths, computed with the plan. *)

\* Mutant: only what the plan wants is staged, not what it removes.
StagedWantedFiles == Listed(want)

\* baseStagePaths and addOldManagedFilePaths.
StagedFiles ==
    Listed(want) \cup Stale(old) \cup
    (IF OldTargetUnchanged THEN {} ELSE {p \in Listed(old.files) : p[1] = oldTarget})

\* Mutant: the lock of the old target folder is forgotten.
StagedNewLock == {config.target}

StagedLocks ==
    {config.target} \cup (IF OldTargetUnchanged THEN {} ELSE {oldTarget})

\* addMetadataStagePaths and addOldTargetStagePaths look whether the files exist
\* before ApplyPlan removes them.
StagedMeta ==
    {config.target} \cup
    (IF OldTargetUnchanged \/ base.meta[oldTarget] = None THEN {} ELSE {oldTarget})

\* Mutant: the legacy metadata is looked for when it is gone.
LegacyStagedAfterwards == legacy # None

StagesLegacy == base.legacy # None

-----------------------------------------------------------------------------
(* git. *)

Dirty == {p \in Path : tree[p] # head.tree[p] \/ index[p] # head.tree[p]}

\* Tracked by the index and not staged: the line of git status begins with a
\* blank.
Unstaged(p) == index[p] # Absent /\ index[p] = head.tree[p]

\* In the workspace and not in the index, also after its deletion was staged.
\* When no file of its directory is in the index the line names the directory.
Untracked(p) == tree[p] # Absent /\ index[p] = Absent
InUntrackedDir(p) ==
    Untracked(p) /\ \A q \in Path : DirOf(q) = DirOf(p) => index[q] = Absent

\* Files the commit or the index has come first, in the order of their names.
FirstLines ==
    LET known == {p \in Dirty : head.tree[p] # Absent \/ index[p] # Absent} IN
    IF known = {} THEN Dirty ELSE known

\* Mutant: only files git does not know count as unrelated.
UnrelatedIfUntracked(first) == \E p \in Dirty : Untracked(p) /\ p \notin StagedFiles

\* hasUnrelatedStatusLines: the output is trimmed as a whole, so that the path of
\* the first line loses a character when the line began with a blank, and is no
\* path of the plan's then.
HasUnrelatedChanges(first) ==
    \/ \E p \in Dirty : p \notin StagedFiles \/ InUntrackedDir(p)
    \/ Unstaged(first)

\* git add fails for a path that neither the workspace nor the index has.
Gone == {p \in StagedFiles : tree[p] = Absent /\ index[p] = Absent}

\* The index after git add -f.
Staged ==
    [tree |-> [p \in Path |-> IF p \in StagedFiles THEN tree[p] ELSE index[p]],
     lock |-> [t \in Targets |-> IF t \in StagedLocks THEN lock[t] ELSE head.lock[t]],
     meta |-> [t \in Targets |-> IF t \in StagedMeta THEN meta[t] ELSE head.meta[t]],
     legacy |-> IF StagesLegacy THEN legacy ELSE head.legacy]

-----------------------------------------------------------------------------
(* A run. *)

\* The workspace of the next run is a clone of the commit.
Clone(commit) ==
    /\ tree' = commit.tree
    /\ lock' = commit.lock
    /\ meta' = commit.meta
    /\ legacy' = commit.legacy
    /\ index' = commit.tree
    /\ UNCHANGED <<dirs, leftovers, store, config, edits>>

\* The run ends with an error; the clone is discarded.
Discard ==
    /\ Clone(head)
    /\ pc' = "idle"
    /\ outcome' = "failed"
    /\ todo' = {}
    /\ UNCHANGED <<head, old, oldTarget, base>>

Plan == BuildPlan /\ UNCHANGED <<head, index>>

\* checkUnrelatedChanges, before the first file is written.
RefuseUnrelated ==
    /\ pc = "stage"
    /\ \E first \in FirstLines : HasUnrelatedChanges(first)
    /\ Discard
    /\ UNCHANGED faults

ApplyStep ==
    /\ pc = "stage" =>
          Dirty = {} \/ \E first \in FirstLines : ~HasUnrelatedChanges(first)
    /\ pc # "unstage"
    /\ RunStep
    /\ UNCHANGED <<head, index>>

\* Stage fails before anything is staged.
StageFails ==
    /\ pc = "unstage"
    /\ Gone # {}
    /\ Discard
    /\ UNCHANGED faults

\* git commit has nothing to do and says so on its standard output, while
\* isNothingToCommit looks into its standard error.
CommitFails ==
    /\ pc = "unstage"
    /\ Gone = {}
    /\ Staged = head
    /\ Discard
    /\ UNCHANGED faults

\* CreateOrResetBranch, Stage and Commit; the commit is pushed and merged.
CommitSync ==
    /\ pc = "unstage"
    /\ Gone = {}
    /\ Staged # head
    /\ head' = Staged
    /\ Clone(Staged)
    /\ pc' = "idle"
    /\ outcome' = "synced"
    /\ UNCHANGED <<todo, old, oldTarget, base, faults>>

\* An I/O error, a failing call or a killed runner.
Fault ==
    /\ pc # "idle"
    /\ faults < MaxFaults
    /\ faults' = faults + 1
    /\ Discard

\* A run of the schedule starts from a clone of its own.
NewClone ==
    /\ pc = "idle"
    /\ Workspace # head \/ index # head.tree
    /\ Clone(head)
    /\ outcome' = "none"
    /\ UNCHANGED <<head, pc, plan, faults>>

-----------------------------------------------------------------------------
\* Commits of the user's, releases of the store and other configurations.
CommittedEdit ==
    /\ Workspace = head /\ index = head.tree
    /\ World
    /\ head' = Workspace'
    /\ index' = tree'

\* A file is changed without a commit; git add may follow.
UncommittedEdit(p) ==
    /\ WriteByHand(p) \/ DeleteByHand(p)
    /\ index' \in {index, tree'}
    /\ UNCHANGED head

CommitInit == Init /\ head = Workspace /\ index = tree

SyncRun ==
    \/ RefuseUnrelated \/ ApplyStep
    \/ StageFails \/ CommitFails \/ CommitSync

CommitNext ==
    \/ Plan \/ SyncRun \/ Fault \/ NewClone
    \/ CommittedEdit
    \/ \E p \in Path : UncommittedEdit(p)

CommitSpec == CommitInit /\ [][CommitNext]_commitVars

\* The workflow is scheduled again and again, each time in a new clone, and a
\* run that is not interrupted takes its next step.
FairCommitSpec ==
    /\ CommitSpec
    /\ WF_commitVars(Plan) /\ WF_commitVars(SyncRun) /\ WF_commitVars(NewClone)

-----------------------------------------------------------------------------
(* Properties. *)

\* Until the run ends the commit that was cloned is known, and the workspace of a
\* run that ended with an error is never seen again.
CommitTypeOK ==
    /\ TypeOK
    /\ head \in Base
    /\ index \in [Path -> Contents \cup {Absent, Hand}]

(* The inductive invariant behind the properties. *)

\* The state a run has planned with is that of the commit that was cloned.
PlannedFromHead ==
    /\ base.lock = head.lock /\ base.meta = head.meta /\ base.legacy = head.legacy
    /\ \A t \in Targets : head.lock[t] = IF t = oldTarget THEN old ELSE None
    /\ \A t \in Targets : head.meta[t] # None => t = oldTarget

\* ... and it has found something to change.
ChangePlanned ==
    \/ \E p \in Listed(want) : base.tree[p] # want[p]
    \/ old # NewLock
    \/ base.meta[config.target] # config

\* Once the clone was looked at, nothing differs from the commit but what the
\* plan names.
NothingUnrelated ==
    \A p \in Path \ StagedFiles : tree[p] = head.tree[p] /\ index[p] = head.tree[p]

CommitInv ==
    /\ IInv
    /\ CommitTypeOK
    /\ Settled(head.tree, head.lock, head.meta, head.legacy)
    /\ pc = "idle" => lock = head.lock /\ meta = head.meta /\ legacy = head.legacy
    /\ pc # "idle" => PlannedFromHead /\ ChangePlanned /\ outcome = "none"
    /\ pc \notin {"idle", "stage"} => NothingUnrelated
    /\ RefusalProtectsSomething

\* The lock a commit holds, wherever it is.
ManifestOf(commit) ==
    IF \A t \in Targets : commit.lock[t] = None THEN None
    ELSE commit.lock[CHOOSE t \in Targets : commit.lock[t] # None]

Abstract == INSTANCE ManagedTree WITH
    files <- head.tree,
    manifest <- ManifestOf(head),
    Stores <- [Files -> Contents \cup {Absent}]

\* The commits of the repository are those of ManagedTree: a run commits exactly
\* what its plan says, whatever it did on the way, and neither leaves out a file
\* ApplyPlan wrote or removed nor takes in a change somebody else left in the
\* clone ("subsequent syncs can diff and update managed content
\* deterministically", ADR 0008).
ImplementsManagedTree == Abstract!Spec

\* A run that found changes has something to commit, so that it does not end with
\* an error of git commit, unless the clone was changed before it started.
CommitsSomething ==
    pc = "unstage" /\ Gone = {} /\ base = head => Staged # head

\* The lock of the cloned commit lists a file that is not wanted any more and
\* that the repository does not have.
ListedFileGone ==
    LET l == ManifestOf(head) IN
    l # None /\ \E p \in Listed(l.files) : want[p] = Absent /\ head.tree[p] = Absent

\* Scheduled runs bring the repository in sync and keep it there, unless a source
\* module is gone, content of the user is in the way, or the user has deleted a
\* file that is to be removed.
ConvergesUnlessGone ==
    <>[](InSync \/ SourceMissing \/ HandWrittenInTheWay \/ ListedFileGone)
=============================================================================
