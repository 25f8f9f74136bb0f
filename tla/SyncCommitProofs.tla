-------------------------- MODULE SyncCommitProofs --------------------------
(***************************************************************************)
(* Proofs about SyncCommit: what a run commits is the workspace it has     *)
(* built, so that what SyncEngineProofs says of the workspace holds of the *)
(* commits, and the commits are those of ManagedTree.                      *)
(***************************************************************************)
EXTENDS SyncCommit, SyncEngineProofs

-----------------------------------------------------------------------------
(* The commit. *)

\* At the end of ApplyPlan git stages exactly the workspace: nothing the engine
\* has changed is left out, and nothing else is taken in.
LEMMA StagedIsWorkspace ==
    ASSUME CommitInv, pc = "unstage"
    PROVE  Staged = Workspace
  <1>1. /\ TypeOK /\ head \in Base /\ config.target \in Targets
        /\ StateFilesByPhase /\ PlannedFromHead /\ NothingUnrelated
        /\ OldStateConsistent
    BY ConstantsAssumption DEF CommitInv, CommitTypeOK, IInv, TypeOK
  <1>2. \A t \in Targets : lock[t] = IF t = config.target THEN NewLock ELSE None
    BY <1>1 DEF StateFilesByPhase, Unwritten, Locked
  <1>3. \A t \in Targets : meta[t] = IF t = config.target THEN config ELSE None
    BY <1>1 DEF StateFilesByPhase
  <1>4. Staged.tree = tree
    BY <1>1 DEF Staged, NothingUnrelated, TypeOK
  <1>5. Staged.lock = lock
    <2>1. ASSUME NEW t \in Targets, t \notin StagedLocks
          PROVE  head.lock[t] = lock[t]
      <3>1. t # config.target /\ lock[t] = None
        BY <1>2, <2>1 DEF StagedLocks
      <3>2. t = oldTarget => old = None
        BY <2>1, <3>1, SentinelsAssumption DEF StagedLocks, OldTargetUnchanged
      <3>. QED
        BY <1>1, <3>1, <3>2 DEF PlannedFromHead
    <2>. QED
      BY <1>1, <2>1 DEF Staged, TypeOK
  <1>6. Staged.meta = meta
    <2>1. ASSUME NEW t \in Targets, t \notin StagedMeta
          PROVE  head.meta[t] = meta[t]
      <3>1. t # config.target /\ meta[t] = None
        BY <1>3, <2>1 DEF StagedMeta
      <3>2. head.meta[t] = None
        <4>1. CASE t # oldTarget
          BY <1>1, <4>1 DEF PlannedFromHead
        <4>2. CASE t = oldTarget
          <5>1. ~OldTargetUnchanged
            BY <1>1, <3>1, <4>2, SentinelsAssumption
            DEF OldTargetUnchanged, OldStateConsistent
          <5>2. base.meta[oldTarget] = None
            BY <2>1, <4>2, <5>1 DEF StagedMeta
          <5>. QED
            BY <1>1, <4>2, <5>2 DEF PlannedFromHead
        <4>. QED
          BY <4>1, <4>2
      <3>. QED
        BY <3>1, <3>2
    <2>. QED
      BY <1>1, <2>1 DEF Staged, TypeOK
  <1>7. Staged.legacy = legacy
    BY <1>1 DEF Staged, StagesLegacy, PlannedFromHead, StateFilesByPhase
  <1>. QED
    BY <1>4, <1>5, <1>6, <1>7 DEF Staged, Workspace

\* What has to change does change, so that there is something to commit.
LEMMA WorkspaceDiffers ==
    ASSUME CommitInv, pc = "unstage", base = head
    PROVE  Workspace # head
  <1>1. /\ TypeOK /\ config.target \in Targets /\ ChangePlanned
        /\ StateFilesByPhase /\ FilesByPhase /\ PlannedFromHead
        /\ OldStateConsistent
        /\ NewLock # None
    BY ConstantsAssumption, NewLockIsLock DEF CommitInv, CommitTypeOK, IInv, TypeOK
  <1>2. CASE \E p \in Listed(want) : base.tree[p] # want[p]
    BY <1>1, <1>2 DEF Workspace, FilesByPhase, Unwritten
  <1>3. CASE old # NewLock
    <2>1. lock[config.target] = NewLock
      BY <1>1 DEF StateFilesByPhase, Unwritten
    <2>2. head.lock[config.target] # NewLock
      BY <1>1, <1>3 DEF PlannedFromHead
    <2>. QED
      BY <2>1, <2>2 DEF Workspace
  <1>4. CASE base.meta[config.target] # config
    BY <1>1, <1>4 DEF Workspace, StateFilesByPhase
  <1>. QED
    BY <1>1, <1>2, <1>3, <1>4 DEF ChangePlanned

-----------------------------------------------------------------------------
(* The inductive invariant. *)

LEMMA CommitInitInv == CommitInit => CommitInv
  <1> SUFFICES ASSUME CommitInit PROVE CommitInv
    OBVIOUS
  <1>1. Init /\ IInv /\ head = Workspace /\ index = tree
    BY InitInv DEF CommitInit
  <1>2. head \in Base /\ CommitTypeOK
    BY <1>1 DEF IInv, TypeOK, CommitTypeOK, Workspace, Base
  <1>3. Settled(head.tree, head.lock, head.meta, head.legacy)
    BY <1>1 DEF IInv, Init, Workspace, Settled, Listed
  <1>. QED
    BY <1>1, <1>2, <1>3
    DEF CommitInv, Init, Workspace, RefusalProtectsSomething

\* A destination is refused for content of the user's, as all content of the
\* store is listed in the lock.
LEMMA RefusalIsFounded ==
    ASSUME CommitInv, NEW t \in Targets \cup {None}, PreviousTarget(t),
           UnmanagedDestination(LockAt(t)), pc = "idle"
    PROVE  HandWrittenInTheWay
  <1>1. /\ TypeOK /\ leftovers = {} /\ Settled(tree, lock, meta, legacy)
        /\ config.mods \subseteq Modules
    BY ConstantsAssumption DEF CommitInv, IInv, TypeOK
  <1>2. PICK m \in config.mods :
           /\ <<config.target, m>> \in VisibleDirs
           /\ ~IsDestinationManaged(LockAt(t), m)
    BY DEF UnmanagedDestination
  <1>3. PICK p \in Path : tree[p] # Absent /\ DirOf(p) = <<config.target, m>>
    BY <1>2, FreshCheckoutAssumption DEF VisibleDirs, Occupied
  <1>4. tree[p] \notin Contents
    <2> SUFFICES ASSUME tree[p] \in Contents PROVE FALSE
      OBVIOUS
    <2>1. LockAt(t) # None /\ tree[p] = LockAt(t).files[p]
      BY <1>1, PreviousStateFound
    <2>2. ModuleOf[p[2]] = m
      BY <1>3 DEF DirOf
    <2>. QED
      BY <1>2, <1>3, <2>1, <2>2 DEF IsDestinationManaged, Listed
  <1>. QED
    BY <1>1, <1>3, <1>4 DEF TypeOK, HandWrittenInTheWay

LEMMA PlanInv == CommitInv /\ Plan => CommitInv'
  <1> SUFFICES ASSUME CommitInv, Plan PROVE CommitInv'
    OBVIOUS
  <1>1. /\ BuildPlan /\ IInv /\ IInv' /\ pc = "idle"
        /\ TypeOK /\ leftovers = {} /\ Settled(tree, lock, meta, legacy)
        /\ UNCHANGED <<tree, lock, meta, legacy, store, config, head, index>>
    BY BuildPlanInv DEF Plan, BuildPlan, CommitInv, IInv
  <1>2. CommitTypeOK' /\ Settled(head.tree, head.lock, head.meta, head.legacy)'
    BY <1>1 DEF CommitInv, CommitTypeOK, IInv, Settled, Listed
  <1>3. lock = head.lock /\ meta = head.meta /\ legacy = head.legacy
    BY <1>1 DEF CommitInv
  <1>4. want' = want /\ NewLock' = NewLock
    BY <1>1, WantUnchanged
  <1>5. PICK t \in Targets \cup {None} :
           PreviousTarget(t) /\ BuildPlanFrom(LockAt(t), TargetAt(t))
    BY <1>1 DEF BuildPlan
  <1>6. ASSUME NEW r \in {"failed", "unchanged"}, EndPlanning(r) PROVE CommitInv'
    BY <1>1, <1>2, <1>3, <1>6
    DEF EndPlanning, CommitInv, RefusalProtectsSomething
  <1>7. CASE UnmanagedDestination(LockAt(t)) /\ EndPlanning("refused")
    <2>1. HandWrittenInTheWay'
      BY <1>1, <1>5, <1>7, RefusalIsFounded DEF HandWrittenInTheWay
    <2>. QED
      BY <1>1, <1>2, <1>3, <1>7, <2>1
      DEF EndPlanning, CommitInv, RefusalProtectsSomething
  <1>8. CASE Changed(LockAt(t)) /\ StartApply(LockAt(t), TargetAt(t))
    <2>1. /\ pc' = "stage" /\ outcome' = "none"
          /\ old' = LockAt(t) /\ oldTarget' = t
          /\ base' = Workspace
      BY <1>1, <1>5, <1>8, PreviousStateFound, FreshCheckoutAssumption
      DEF StartApply, Workspace
    <2>2. PlannedFromHead'
      BY <1>1, <1>3, <1>5, <2>1, PreviousStateFound DEF PlannedFromHead, Workspace
    <2>3. ChangePlanned'
      <3>1. Stale(LockAt(t)) # {} => LockAt(t) # NewLock
        BY DEF Stale, Listed, NewLock
      <3>2. \/ \E p \in Listed(want) : tree[p] # want[p]
            \/ LockAt(t) # NewLock
            \/ meta[config.target] # config
        BY <1>8, <3>1 DEF Changed, Listed
      <3>. QED
        BY <1>1, <1>4, <2>1, <3>2 DEF ChangePlanned, Workspace, Listed
    <2>. QED
      BY <1>1, <1>2, <2>1, <2>2, <2>3 DEF CommitInv, RefusalProtectsSomething
  <1>. QED
    BY <1>5, <1>6, <1>7, <1>8 DEF BuildPlanFrom

\* The paths a plan names do not change while it is applied.
LEMMA StagedFilesFixed ==
    ASSUME UNCHANGED <<store, config, old, oldTarget, base>>
    PROVE  /\ StagedFiles' = StagedFiles
           /\ want' = want /\ NewLock' = NewLock
           /\ Listed(want)' = Listed(want)
  BY WantUnchanged DEF StagedFiles, Listed, Stale, OldTargetUnchanged

\* ApplyPlan changes no file that will not be staged.
LEMMA OnlyStagedFilesChange ==
    ASSUME CommitInv, RunStep, NEW p \in Path \ StagedFiles
    PROVE  tree'[p] = tree[p]
  <1>1. TypeOK /\ FilesByPhase
    BY DEF CommitInv, IInv, RunStep, Apply, StageFiles, PromoteFile, WriteLock,
           WriteMetadata, RemoveStale, RemoveOldFiles, RemoveOldLock,
           RemoveOldMetadata, CleanupLegacyMetadata, CleanupStaging
  <1>2. ASSUME NEW q \in todo, PromoteFile(q) PROVE tree'[p] = tree[p]
    <2>1. q \in StagedFiles
      BY <1>1, <1>2 DEF PromoteFile, Apply, FilesByPhase, StagedFiles
    <2>. QED
      BY <1>1, <1>2, <2>1 DEF PromoteFile, TypeOK
  <1>3. ASSUME NEW q \in todo, RemoveStale(q) PROVE tree'[p] = tree[p]
    <2>1. q \in StagedFiles
      BY <1>1, <1>3 DEF RemoveStale, Apply, FilesByPhase, StagedFiles
    <2>. QED
      BY <1>1, <1>3, <2>1 DEF RemoveStale, TypeOK
  <1>4. CASE RemoveOldFiles
    BY <1>4 DEF RemoveOldFiles, StagedFiles
  <1>. QED
    BY <1>2, <1>3, <1>4
    DEF RunStep, StageFiles, WriteLock, WriteMetadata, RemoveOldLock,
        RemoveOldMetadata, CleanupLegacyMetadata, CleanupStaging

LEMMA ApplyStepInv == CommitInv /\ ApplyStep => CommitInv'
  <1> SUFFICES ASSUME CommitInv, ApplyStep PROVE CommitInv'
    OBVIOUS
  <1>1. /\ RunStep /\ IInv /\ pc # "idle" /\ pc # "unstage" /\ ~CleanupStaging
        /\ UNCHANGED <<head, index>>
    BY ApplyFrame DEF ApplyStep, CommitInv, CleanupStaging, Apply
  <1>2. IInv'
    BY <1>1, PromotionInv, RemovalInv, SweepInv DEF RunStep
  <1>3. /\ UNCHANGED <<store, config, old, oldTarget, base, outcome>>
        /\ pc' \notin {"idle", "stage"}
    BY <1>1 DEF RunStep, Apply, StageFiles, PromoteFile, WriteLock, WriteMetadata,
           RemoveStale, RemoveOldFiles, RemoveOldLock, RemoveOldMetadata,
           CleanupLegacyMetadata
  <1>4. CommitTypeOK' /\ Settled(head.tree, head.lock, head.meta, head.legacy)'
    BY <1>1, <1>2 DEF CommitInv, CommitTypeOK, IInv, Settled, Listed
  <1>5. PlannedFromHead' /\ ChangePlanned' /\ outcome' = "none"
    BY <1>1, <1>3, StagedFilesFixed DEF CommitInv, PlannedFromHead, ChangePlanned
  <1>6. NothingUnrelated
    <2>1. CASE pc = "stage"
      <3>1. \A p \in Dirty : p \in StagedFiles
        BY <2>1 DEF ApplyStep, HasUnrelatedChanges
      <3>. QED
        BY <3>1 DEF Dirty, NothingUnrelated
    <2>. QED
      BY <1>1, <2>1 DEF CommitInv
  <1>7. NothingUnrelated'
    BY <1>1, <1>3, <1>6, StagedFilesFixed, OnlyStagedFilesChange
    DEF NothingUnrelated
  <1>. QED
    BY <1>2, <1>3, <1>4, <1>5, <1>7 DEF CommitInv, RefusalProtectsSomething

\* A workspace that is a clone of the commit, at rest.
LEMMA CloneInv ==
    ASSUME CommitInv, Clone(head), UNCHANGED head, pc' = "idle",
           old' \in Lock \cup {None}, oldTarget' \in Targets \cup {None},
           todo' \subseteq Path, base' \in Base \cup {None},
           outcome' \in {"none", "failed"}, faults' \in 0 .. MaxFaults
    PROVE  CommitInv'
  <1>1. TypeOK' /\ CommitTypeOK'
    BY DEF CommitInv, CommitTypeOK, IInv, TypeOK, Clone, Base
  <1>2. /\ Settled(tree, lock, meta, legacy)'
        /\ Settled(head.tree, head.lock, head.meta, head.legacy)'
    BY DEF CommitInv, Clone, Settled, Listed
  <1>3. IInv'
    BY <1>1, <1>2 DEF CommitInv, IInv, Clone, SuccessMeansInSync
  <1>. QED
    BY <1>1, <1>2, <1>3 DEF CommitInv, Clone, RefusalProtectsSomething

LEMMA DiscardInv ==
    CommitInv /\ (RefuseUnrelated \/ StageFails \/ CommitFails \/ Fault) => CommitInv'
  <1> SUFFICES ASSUME CommitInv, RefuseUnrelated \/ StageFails \/ CommitFails \/ Fault
               PROVE  CommitInv'
    OBVIOUS
  <1>1. Discard /\ faults' \in 0 .. MaxFaults
    BY ConstantsAssumption
    DEF RefuseUnrelated, StageFails, CommitFails, Fault, CommitInv, IInv, TypeOK
  <1>. QED
    BY <1>1, CloneInv DEF Discard, CommitInv, IInv, TypeOK

\* Staging and committing the workspace is the end of a run of the engine.
LEMMA CommitSyncInv == CommitInv /\ CommitSync => CommitInv'
  <1> SUFFICES ASSUME CommitInv, CommitSync PROVE CommitInv'
    OBVIOUS
  <1>1. /\ Staged = Workspace /\ head' = Workspace /\ index' = tree
        /\ UNCHANGED <<tree, lock, meta, legacy>>
        /\ pc' = "idle" /\ outcome' = "synced"
    BY StagedIsWorkspace DEF CommitSync, Clone, Workspace
  <1>2. CleanupStaging /\ RunStep
    BY <1>1 DEF CommitSync, Clone, CleanupStaging, Apply, RunStep
  <1>3. IInv'
    BY <1>2, FinishInv DEF CommitInv
  <1>4. CommitTypeOK'
    BY <1>1, <1>3 DEF IInv, TypeOK, CommitTypeOK, Workspace, Base
  <1>5. Settled(head.tree, head.lock, head.meta, head.legacy)'
    BY <1>1, <1>3 DEF IInv, Settled, Listed, Workspace
  <1>. QED
    BY <1>1, <1>3, <1>4, <1>5 DEF CommitInv, Workspace, RefusalProtectsSomething

\* Edits, releases and configurations, committed or not.
LEMMA EditInv ==
    CommitInv /\ (CommittedEdit \/ \E p \in Path : UncommittedEdit(p)) => CommitInv'
  <1> SUFFICES ASSUME CommitInv, CommittedEdit \/ \E p \in Path : UncommittedEdit(p)
               PROVE  CommitInv'
    OBVIOUS
  <1>1. World
    BY DEF CommittedEdit, UncommittedEdit, World
  <1>2. IInv' /\ TypeOK' /\ Environment
    BY <1>1, WorldInv
    DEF CommitInv, IInv, World, WriteByHand, DeleteByHand, RemoveDirectory,
        Publish, Reconfigure
  <1>3. pc = "idle" /\ pc' = "idle" /\ outcome' = "none"
        /\ UNCHANGED <<lock, meta, legacy>>
    BY <1>2 DEF Environment
  <1>4. CASE CommittedEdit
    <2>1. head' = Workspace' /\ index' = tree'
      BY <1>4 DEF CommittedEdit
    <2>2. CommitTypeOK'
      BY <1>2, <2>1 DEF TypeOK, CommitTypeOK, Workspace, Base
    <2>3. Settled(head.tree, head.lock, head.meta, head.legacy)'
      BY <1>2, <1>3, <2>1 DEF IInv, Settled, Listed, Workspace
    <2>. QED
      BY <1>2, <1>3, <2>1, <2>2, <2>3
      DEF CommitInv, Workspace, RefusalProtectsSomething
  <1>5. CASE \E p \in Path : UncommittedEdit(p)
    <2>1. UNCHANGED head /\ index' \in {index, tree'}
      BY <1>5 DEF UncommittedEdit
    <2>2. CommitTypeOK' /\ Settled(head.tree, head.lock, head.meta, head.legacy)'
      BY <1>2, <2>1 DEF CommitInv, CommitTypeOK, TypeOK, Settled, Listed
    <2>. QED
      BY <1>2, <1>3, <2>1, <2>2 DEF CommitInv, RefusalProtectsSomething
  <1>. QED
    BY <1>4, <1>5

LEMMA CommitNextInv == CommitInv /\ [CommitNext]_commitVars => CommitInv'
  <1> SUFFICES ASSUME CommitInv, [CommitNext]_commitVars PROVE CommitInv'
    OBVIOUS
  <1>1. CASE UNCHANGED commitVars
    <2>1. UNCHANGED <<tree, dirs, lock, meta, legacy, leftovers, store, config, pc,
                      old, oldTarget, todo, base, outcome, edits, faults, head, index>>
      BY <1>1 DEF commitVars, vars, workspace, plan
    <2>2. IInv'
      BY <2>1, WantUnchanged
      DEF CommitInv, IInv, TypeOK, Settled, OldStateConsistent, StateFilesByPhase,
          FilesByPhase, SuccessMeansInSync, InSync, Listed, Stale,
          OldTargetUnchanged
    <2>. QED
      BY <2>1, <2>2, StagedFilesFixed
      DEF CommitInv, CommitTypeOK, TypeOK, Settled, Listed, PlannedFromHead,
          ChangePlanned, NothingUnrelated, RefusalProtectsSomething,
          HandWrittenInTheWay
  <1>2. CASE NewClone
    BY <1>2, CloneInv DEF NewClone, plan, CommitInv, IInv, TypeOK
  <1>. QED
    BY <1>1, <1>2, PlanInv, ApplyStepInv, DiscardInv, CommitSyncInv, EditInv
    DEF CommitNext, SyncRun

-----------------------------------------------------------------------------
(* What follows for the commits. *)

\* In every state the workspace, the clone's index and the commit are what
\* CommitInv says, whatever the runs, faults and edits were.
THEOREM CommitInvariant == CommitSpec => []CommitInv
  BY CommitInitInv, CommitNextInv, PTL DEF CommitSpec

\* Types, and the reason for every refusal, in every state.
THEOREM CommitTypeCorrect == CommitSpec => []CommitTypeOK
  <1>1. CommitInv => CommitTypeOK
    BY DEF CommitInv
  <1>. QED
    BY <1>1, CommitInvariant, PTL

\* A destination is refused only for content of the user's.
THEOREM RefusalAlwaysFounded == CommitSpec => []RefusalProtectsSomething
  <1>1. CommitInv => RefusalProtectsSomething
    BY DEF CommitInv
  <1>. QED
    BY <1>1, CommitInvariant, PTL

\* Nothing TaskOtter wrote is lost track of, in one place, and success means in
\* sync, of commits as well as of workspaces.
THEOREM CommitsStayTracked ==
    CommitSpec => [](Tracked /\ OneHome /\ SuccessMeansInSync)
  <1>1. CommitInv => Tracked /\ OneHome /\ SuccessMeansInSync
    BY DEF CommitInv, IInv, Settled, Tracked, Recorded, OneHome, Inhabited
  <1>. QED
    BY <1>1, CommitInvariant, PTL

\* A run that got as far as git commit has something to commit, unless the clone
\* had been changed before.
THEOREM AlwaysCommitsSomething == CommitSpec => []CommitsSomething
  <1>1. CommitInv => CommitsSomething
    BY StagedIsWorkspace, WorkspaceDiffers DEF CommitsSomething
  <1>. QED
    BY <1>1, CommitInvariant, PTL

-----------------------------------------------------------------------------
(* The commits are those of ManagedTree. *)

\* Of a settled commit the manifest is the one lock it holds.
LEMMA ManifestFound ==
    ASSUME NEW commit, NEW t \in Targets, commit.lock[t] # None,
           \A u \in Targets : commit.lock[u] # None => u = t
    PROVE  ManifestOf(commit) = commit.lock[t]
  BY DEF ManifestOf

LEMMA InitRefines == CommitInit => Abstract!Init
  <1> SUFFICES ASSUME CommitInit PROVE Abstract!Init
    OBVIOUS
  <1>1. Init /\ TypeOK /\ head = Workspace
    BY InitTyped DEF CommitInit
  <1>2. store \in [Files -> Contents \cup {Absent}] /\ config \in Configs
    BY <1>1 DEF TypeOK
  <1>3. CASE NothingSynced
    <2>1. head.tree = [p \in Path |-> Absent] /\ \A t \in Targets : head.lock[t] = None
      BY <1>1, <1>3 DEF NothingSynced, EmptyManifest, Workspace
    <2>2. ManifestOf(head) = None
      BY <2>1 DEF ManifestOf
    <2>. QED
      BY <1>2, <2>1, <2>2 DEF Abstract!Init
  <1>4. ASSUME NEW c \in LegacyConfigs, LegacySynced(c) PROVE Abstract!Init
    <2>1. c \in Configs /\ c.target \in Targets
      BY ConstantsAssumption
    <2>2. [cfg |-> c, files |-> Wanted(c, store)] # None
      BY <1>2, <2>1, WantedIsManifest, SentinelsAssumption DEF Lock
    <2>3. /\ head.tree = Wanted(c, store)
          /\ head.lock[c.target] = [cfg |-> c, files |-> Wanted(c, store)]
          /\ \A t \in Targets : t # c.target => head.lock[t] = None
      BY <1>1, <1>4, <2>1 DEF LegacySynced, Workspace
    <2>4. ManifestOf(head) = [cfg |-> c, files |-> head.tree]
      BY <2>1, <2>2, <2>3, ManifestFound
    <2>. QED
      BY <1>2, <2>3, <2>4 DEF Abstract!Init
  <1>. QED
    BY <1>1, <1>3, <1>4 DEF Init

\* A run's commit is one step of ManagedTree.
LEMMA CommitSyncRefines == CommitInv /\ CommitSync => Abstract!Sync
  <1> SUFFICES ASSUME CommitInv, CommitSync PROVE Abstract!Sync
    OBVIOUS
  <1>1. /\ TypeOK /\ config.target \in Targets /\ pc = "unstage"
        /\ StateFilesByPhase /\ FilesByPhase /\ OldStateConsistent
        /\ PlannedFromHead /\ NothingUnrelated
        /\ old \in Lock \cup {None} /\ oldTarget \in Targets \cup {None}
        /\ NewLock # None
    BY ConstantsAssumption, NewLockIsLock
    DEF CommitInv, IInv, TypeOK, CommitSync
  <1>2. head' = Workspace /\ UNCHANGED <<store, config>>
    BY <1>1, StagedIsWorkspace DEF CommitSync, Clone
  <1>3. ManifestOf(head) = old
    <2>1. CASE old = None
      BY <1>1, <2>1 DEF PlannedFromHead, ManifestOf
    <2>2. CASE old # None
      BY <1>1, <2>2, ManifestFound DEF PlannedFromHead, OldStateConsistent
    <2>. QED
      BY <2>1, <2>2
  <1>4. ManifestOf(head)' = NewLock
    <2>1. \A t \in Targets : lock[t] = IF t = config.target THEN NewLock ELSE None
      BY <1>1 DEF StateFilesByPhase, Unwritten, Locked
    <2>2. ManifestOf(Workspace) = NewLock
      BY <1>1, <2>1, ManifestFound DEF Workspace
    <2>. QED
      BY <1>2, <2>2 DEF ManifestOf
  <1>5. ASSUME NEW p \in Path
        PROVE  tree[p] = IF want[p] # Absent THEN want[p]
                         ELSE IF old # None /\ old.files[p] # Absent THEN Absent
                         ELSE head.tree[p]
    <2>1. CASE want[p] # Absent
      BY <1>1, <2>1 DEF FilesByPhase, Unwritten, Listed
    <2>2. CASE want[p] = Absent /\ old # None /\ old.files[p] # Absent
      BY <1>1, <2>2 DEF FilesByPhase, Swept, Stale, Listed
    <2>3. CASE want[p] = Absent /\ ~(old # None /\ old.files[p] # Absent)
      <3>1. p \notin StagedFiles
        BY <2>3 DEF StagedFiles, Stale, Listed, OldTargetUnchanged
      <3>. QED
        BY <1>1, <2>3, <3>1 DEF NothingUnrelated
    <2>. QED
      BY <2>1, <2>2, <2>3
  <1>6. Abstract!Owned = IF old = None THEN {} ELSE {p \in Path : old.files[p] # Absent}
    BY <1>3 DEF Abstract!Owned, Abstract!Listed
  <1>7. tree = [p \in Path |->
                   IF want[p] # Absent THEN want[p]
                   ELSE IF p \in Abstract!Owned THEN Absent ELSE head.tree[p]]
    BY <1>1, <1>5, <1>6 DEF TypeOK
  <1>. QED
    BY <1>2, <1>4, <1>7 DEF Abstract!Sync, Workspace, want, NewLock

\* A commit of the user's, a release or a configuration is one, too.
LEMMA CommittedEditRefines ==
    CommitInv /\ CommittedEdit => Abstract!Edit \/ Abstract!Reconfigure
  <1> SUFFICES ASSUME CommitInv, CommittedEdit
               PROVE  Abstract!Edit \/ Abstract!Reconfigure
    OBVIOUS
  <1>1. /\ Workspace = head /\ head' = Workspace' /\ World /\ TypeOK /\ TypeOK'
    BY WorldTyped DEF CommittedEdit, CommitInv, IInv
  <1>2. /\ head.tree = tree /\ head'.tree = tree'
        /\ head.lock = lock /\ head'.lock = lock'
    BY <1>1 DEF Workspace
  <1>3. UNCHANGED lock
    BY <1>1 DEF World, WriteByHand, DeleteByHand, RemoveDirectory, Publish,
                Reconfigure, Environment
  <1>4. ManifestOf(head)' = ManifestOf(head)
    BY <1>2, <1>3 DEF ManifestOf
  <1>5. CASE \/ \E p \in Path : WriteByHand(p) \/ DeleteByHand(p)
             \/ \E d \in Dir : RemoveDirectory(d)
    <2>1. /\ UNCHANGED <<store, config>>
          /\ \A p \in Path : tree'[p] \in {tree[p], Hand, Absent}
      BY <1>1, <1>5 DEF TypeOK, WriteByHand, DeleteByHand, RemoveDirectory
    <2>. QED
      BY <1>2, <1>4, <2>1 DEF Abstract!Edit
  <1>6. CASE \/ \E f \in Files, c \in Contents \cup {Absent} : Publish(f, c)
             \/ \E c \in Configs : Reconfigure(c)
    <2>1. /\ UNCHANGED tree
          /\ store' \in [Files -> Contents \cup {Absent}] /\ config' \in Configs
      BY <1>1, <1>6 DEF TypeOK, Publish, Reconfigure
    <2>. QED
      BY <1>2, <1>4, <2>1 DEF Abstract!Reconfigure
  <1>. QED
    BY <1>1, <1>5, <1>6 DEF World

\* The repository only ever goes from one state of ManagedTree to the next: a run
\* is one atomic change, and whatever else runs do leaves no trace in it.
THEOREM RefinesManagedTree == CommitSpec => ImplementsManagedTree
  <1>1. CommitInv /\ [CommitNext]_commitVars => [Abstract!Next]_Abstract!vars
    <2> SUFFICES ASSUME CommitInv, [CommitNext]_commitVars
                 PROVE  Abstract!Next \/ UNCHANGED Abstract!vars
      OBVIOUS
    <2>1. ASSUME UNCHANGED <<head, store, config>> PROVE UNCHANGED Abstract!vars
      BY <2>1 DEF Abstract!vars, ManifestOf
    <2>2. CASE CommitSync
      BY <2>2, CommitSyncRefines DEF Abstract!Next
    <2>3. CASE CommittedEdit
      BY <2>3, CommittedEditRefines DEF Abstract!Next
    <2>4. ASSUME NEW p \in Path, UncommittedEdit(p)
          PROVE  UNCHANGED <<head, store, config>>
      BY <2>4 DEF UncommittedEdit, WriteByHand, DeleteByHand
    <2>5. ASSUME Plan PROVE UNCHANGED <<head, store, config>>
      BY <2>5 DEF Plan, BuildPlan
    <2>6. ASSUME ApplyStep PROVE UNCHANGED <<head, store, config>>
      BY <2>6 DEF ApplyStep, RunStep, Apply, StageFiles, PromoteFile, WriteLock,
                  WriteMetadata, RemoveStale, RemoveOldFiles, RemoveOldLock,
                  RemoveOldMetadata, CleanupLegacyMetadata, CleanupStaging
    <2>7. ASSUME RefuseUnrelated \/ StageFails \/ CommitFails \/ Fault \/ NewClone
          PROVE  UNCHANGED <<head, store, config>>
      BY <2>7 DEF RefuseUnrelated, StageFails, CommitFails, Fault, NewClone, Discard,
                  Clone
    <2>8. ASSUME UNCHANGED commitVars PROVE UNCHANGED <<head, store, config>>
      BY <2>8 DEF commitVars, vars
    <2>9. \/ UNCHANGED <<head, store, config>>
          \/ CommitSync \/ CommittedEdit
      BY <2>4, <2>5, <2>6, <2>7, <2>8 DEF CommitNext, SyncRun
    <2>. QED
      BY <2>1, <2>2, <2>3, <2>9
  <1>. QED
    BY <1>1, InitRefines, CommitInvariant, PTL
    DEF ImplementsManagedTree, Abstract!Spec, CommitSpec
=============================================================================
