--------------------------- MODULE GitPublishProofs ---------------------------
(***************************************************************************)
(* Proofs about GitPublish: overlapping runs never take the sync branch or *)
(* a ref back to an older version of the store.                            *)
(***************************************************************************)
EXTENDS GitPublish, TLAPS

USE PublishAssumption

LEMMA InitTyped == Init => PublishTypeOK
  BY DEF Init, PublishTypeOK, Versions, PCs

\* A run's own steps keep the types.
LEMMA PipelineTyped ==
    ASSUME PublishTypeOK, NEW r \in Runs, Pipeline(r)
    PROVE  PublishTypeOK'
  <1> USE DEF PublishTypeOK, Go, Stop, remote, clone, PCs
  <1>1. CASE ResolveRef(r)
    BY <1>1 DEF ResolveRef
  <1>2. CASE BuildPlan(r)
    BY <1>2 DEF BuildPlan
  <1>3. CASE EnsureBranchOwned(r)
    BY <1>3 DEF EnsureBranchOwned
  <1>4. CASE ApplyPlan(r)
    BY <1>4 DEF ApplyPlan
  <1>5. CASE CreateOrResetBranch(r)
    BY <1>5 DEF CreateOrResetBranch
  <1>6. CASE StageAndCommit(r)
    BY <1>6 DEF StageAndCommit
  <1>7. CASE PushForceWithLease(r)
    <2>1. SyncCommit(r) \in Commit
      BY DEF SyncCommit, Commit
    <2>2. CASE LeaseHolds(r)
      <3>1. branch' = SyncCommit(r) /\ lease' = LeasesAfter({r})
        BY <1>7, <2>2 DEF PushForceWithLease
      <3>2. LeasesAfter({r}) \in [Runs -> {"absent", "current", "stale"}]
        BY DEF LeasesAfter
      <3>. QED
        BY <1>7, <2>1, <2>2, <3>1, <3>2 DEF PushForceWithLease
    <2>3. CASE ~LeaseHolds(r)
      BY <1>7, <2>3 DEF PushForceWithLease
    <2>. QED
      BY <2>2, <2>3
  <1>8. CASE FindOpenPR(r)
    BY <1>8 DEF FindOpenPR
  <1>9. CASE CreatePR(r)
    BY <1>9 DEF CreatePR, base
  <1>10. CASE UpdatePRBody(r)
    BY <1>10 DEF UpdatePRBody, base
  <1>. QED
    BY <1>1, <1>2, <1>3, <1>4, <1>5, <1>6, <1>7, <1>8, <1>9, <1>10 DEF Pipeline

\* So do checkouts, reruns and faults, releases and maintainers.
LEMMA WorldTyped ==
    ASSUME PublishTypeOK,
           Others \/ \E r \in Runs : Invoked(r) \/ Fail(r)
    PROVE  PublishTypeOK'
  <1> USE DEF PublishTypeOK, Go, Stop, remote, clone, PCs
  <1>1. ASSUME NEW r \in Runs, NEW b \in Refs, Checkout(r, b) PROVE PublishTypeOK'
    BY <1>1 DEF Checkout
  <1>2. ASSUME NEW r \in Runs, RunAgain(r) PROVE PublishTypeOK'
    BY <1>2 DEF RunAgain
  <1>3. ASSUME NEW r \in Runs, Fail(r) PROVE PublishTypeOK'
    BY <1>3 DEF Fail
  <1>4. CASE Release
    BY <1>4 DEF Release, Versions
  <1>5. ASSUME NEW b \in Refs, NEW deleted \in BOOLEAN,
               Merge(b, deleted) \/ Close(b, deleted)
        PROVE  PublishTypeOK'
    <2>1. edits' \in 0 .. MaxEdits
      BY <1>5 DEF Merge, Close, Maintainer
    <2>2. content' \in [Refs -> Versions]
      BY <1>5 DEF Merge, Close, Commit
    <2>3. /\ prs' \in [Refs -> Versions \cup {None}]
          /\ branch' \in Commit \cup {None}
          /\ lease' \in [Runs -> {"absent", "current", "stale"}]
          /\ found' \subseteq found
      BY <1>5 DEF Merge, Close, ClosePRs, LeasesAfter
    <2>. QED
      BY <1>5, <2>1, <2>2, <2>3 DEF Merge, Close, Maintainer
  <1>6. CASE CommitOnTop
    <2>1. branch' \in Commit
      BY <1>6 DEF CommitOnTop, Commit
    <2>. QED
      BY <1>6, <2>1 DEF CommitOnTop, Maintainer, LeasesAfter
  <1>. QED
    BY <1>1, <1>2, <1>3, <1>4, <1>5, <1>6 DEF Others, Invoked

\* Every variable of GitPublish keeps its type, and only a run between
\* FindOpenPR and UpdatePRBody remembers a pull request.
THEOREM PublishTypeCorrect == Spec => []PublishTypeOK
  <1>1. PublishTypeOK /\ [Next]_vars => PublishTypeOK'
    <2>1. CASE UNCHANGED vars
      BY <2>1 DEF PublishTypeOK, vars, remote, clone
    <2>. QED
      BY <2>1, PipelineTyped, WorldTyped DEF Next
  <1>. QED
    BY <1>1, InitTyped, PTL DEF Spec

-----------------------------------------------------------------------------
(* Versions only move forward. *)

LEMMA InitOrdered == Init => VersionsOrdered
  BY DEF Init, VersionsOrdered, Resolved

\* What a push, or its refusal, does to the sync branch and to the leases.
LEMMA PushOrdered ==
    ASSUME PublishTypeOK, VersionsOrdered, NEW r \in Runs, PushForceWithLease(r)
    PROVE  /\ branch' # branch /\ branch # None => branch.version <= branch'.version
           /\ VersionsOrdered'
  <1> USE DEF PublishTypeOK
  <1>1. pc[r] = "committed" /\ pc[r] \in Resolved
    BY DEF PushForceWithLease, Resolved, PCs
  <1>2. CASE LeaseHolds(r)
    <2>1. /\ branch' = SyncCommit(r)
          /\ branch' # None
          /\ branch'.version = wanted[r] /\ branch'.parent = forked[r]
      <3>1. branch' = SyncCommit(r)
        BY <1>1, <1>2 DEF PushForceWithLease
      <3>2. SyncCommit(r) \in Commit
        BY DEF SyncCommit, Commit
      <3>3. SyncCommit(r).version = tree[r] /\ SyncCommit(r).parent = forked[r]
        BY DEF SyncCommit
      <3>. QED
        BY <1>1, <3>1, <3>2, <3>3 DEF VersionsOrdered
    <2>2. branch # None => branch.version <= branch'.version
      BY <1>1, <1>2, <2>1 DEF LeaseHolds, VersionsOrdered
    <2>3. /\ \A s \in Runs : lease'[s] = "current" => s = r
          /\ pc' = [pc EXCEPT ![r] = "pushed"]
          /\ UNCHANGED <<store, content, forked, tree, wanted>>
      <3>1. /\ lease' = LeasesAfter({r})
            /\ pc' = [pc EXCEPT ![r] = "pushed"]
            /\ UNCHANGED <<store, content, forked, tree, wanted>>
        BY <1>2 DEF PushForceWithLease, Go
      <3>2. \A s \in Runs : LeasesAfter({r})[s] = "current" => s = r
        BY DEF LeasesAfter
      <3>. QED
        BY <3>1, <3>2
    <2>4. branch'.version \in Nat /\ wanted[r] <= store /\ forked[r] <= wanted[r]
      BY <1>1, <2>1 DEF VersionsOrdered, Versions
    <2>5. VersionsOrdered'
      BY <1>1, <2>1, <2>3, <2>4 DEF VersionsOrdered, Resolved, PCs, Versions
    <2>. QED
      BY <2>2, <2>5
  <1>3. CASE ~LeaseHolds(r)
    BY <1>3 DEF PushForceWithLease, Stop, VersionsOrdered, Resolved, PCs
  <1>. QED
    BY <1>2, <1>3

\* The other steps of a run.
LEMMA PipelineOrdered ==
    ASSUME PublishTypeOK, VersionsOrdered, NEW r \in Runs, Pipeline(r)
    PROVE  VersionsOrdered'
  <1> USE DEF PublishTypeOK, VersionsOrdered, Go, Stop, remote, clone, Resolved, PCs
  <1>1. CASE ResolveRef(r)
    BY <1>1 DEF ResolveRef, Versions, Commit
  <1>2. CASE BuildPlan(r)
    BY <1>2 DEF BuildPlan
  <1>3. CASE EnsureBranchOwned(r)
    BY <1>3 DEF EnsureBranchOwned
  <1>4. CASE ApplyPlan(r)
    BY <1>4 DEF ApplyPlan
  <1>5. CASE CreateOrResetBranch(r)
    BY <1>5 DEF CreateOrResetBranch
  <1>6. CASE StageAndCommit(r)
    BY <1>6 DEF StageAndCommit
  <1>7. CASE PushForceWithLease(r)
    BY <1>7, PushOrdered
  <1>8. CASE FindOpenPR(r)
    BY <1>8 DEF FindOpenPR
  <1>9. CASE CreatePR(r)
    BY <1>9 DEF CreatePR
  <1>10. CASE UpdatePRBody(r)
    BY <1>10 DEF UpdatePRBody
  <1>. QED
    BY <1>1, <1>2, <1>3, <1>4, <1>5, <1>6, <1>7, <1>8, <1>9, <1>10 DEF Pipeline

\* Whatever happens to the sync branch outside a run costs the runs their lease.
LEMMA WorldOrdered ==
    ASSUME PublishTypeOK, VersionsOrdered,
           Others \/ \E r \in Runs : Invoked(r) \/ Fail(r)
    PROVE  /\ VersionsOrdered'
           /\ \A b \in Refs : content[b] <= content'[b]
  <1> USE DEF PublishTypeOK, VersionsOrdered, Go, Stop, remote, clone, Resolved, PCs,
              Versions
  <1>1. ASSUME NEW r \in Runs, NEW b \in Refs, Checkout(r, b)
        PROVE  VersionsOrdered' /\ UNCHANGED content
    BY <1>1 DEF Checkout
  <1>2. ASSUME NEW r \in Runs, RunAgain(r) PROVE VersionsOrdered' /\ UNCHANGED content
    BY <1>2 DEF RunAgain
  <1>3. ASSUME NEW r \in Runs, Fail(r) PROVE VersionsOrdered' /\ UNCHANGED content
    BY <1>3 DEF Fail
  <1>4. CASE Release
    <2>1. \A n \in Nat : n <= store => n <= store'
      BY <1>4 DEF Release
    <2>2. branch # None => branch.version \in Nat
      BY DEF Commit
    <2>. QED
      BY <1>4, <2>1, <2>2 DEF Release
  <1>5. ASSUME NEW b \in Refs, NEW deleted \in BOOLEAN,
               Merge(b, deleted) \/ Close(b, deleted)
        PROVE  VersionsOrdered' /\ \A c \in Refs : content[c] <= content'[c]
    <2>1. /\ UNCHANGED <<store, pc, forked, tree, wanted>>
          /\ deleted => branch' = None /\ \A r \in Runs : lease'[r] # "current"
          /\ ~deleted => UNCHANGED <<branch, lease>>
      BY <1>5 DEF Merge, Close, Maintainer, ClosePRs, LeasesAfter
    <2>2. \A c \in Refs : content[c] <= content'[c] /\ content'[c] <= store
      BY <1>5 DEF Merge, Close, Commit
    <2>. QED
      BY <2>1, <2>2
  <1>6. CASE CommitOnTop
    <2>1. /\ UNCHANGED <<store, content, pc, forked, tree, wanted>>
          /\ \A r \in Runs : lease'[r] # "current"
          /\ branch' = [branch EXCEPT !.foreign = TRUE] /\ branch # None
      BY <1>6 DEF CommitOnTop, Maintainer, LeasesAfter
    <2>2. branch'.version = branch.version /\ branch'.parent = branch.parent
      BY <2>1 DEF Commit
    <2>. QED
      BY <2>1, <2>2
  <1>. QED
    BY <1>1, <1>2, <1>3, <1>4, <1>5, <1>6 DEF Others, Invoked

\* Nothing is newer than the store, and no run that still holds its lease wants
\* an older version than the sync branch holds.
THEOREM VersionsAlwaysOrdered == Spec => [](PublishTypeOK /\ VersionsOrdered)
  <1>1. PublishTypeOK /\ VersionsOrdered /\ [Next]_vars => VersionsOrdered'
    <2>1. CASE UNCHANGED vars
      BY <2>1 DEF VersionsOrdered, vars, remote, clone, Resolved
    <2>. QED
      BY <2>1, PipelineOrdered, WorldOrdered DEF Next
  <1>. QED
    BY <1>1, InitOrdered, PublishTypeCorrect, PTL DEF Spec

\* No push replaces the sync branch by an older version of the store, whatever
\* runs overlap, fail or run again in their workspace.
THEOREM NeverDowngraded == Spec => NoDowngrade
  <1>1. /\ PublishTypeOK /\ VersionsOrdered /\ [Next]_vars
        => [\A r \in Runs : PushForceWithLease(r) /\ branch # None /\ branch' # branch
              => branch.version <= branch'.version]_vars
    BY PushOrdered
  <1>. QED
    BY <1>1, VersionsAlwaysOrdered, PTL DEF Spec, NoDowngrade

\* A ref never goes back to an older version when a sync is merged.
THEOREM RefsMoveForward == Spec => MergesMoveForward
  <1>1. /\ PublishTypeOK /\ VersionsOrdered /\ [Next]_vars
        => [\A b \in Refs : content[b] <= content'[b]]_vars
    <2> SUFFICES ASSUME PublishTypeOK, VersionsOrdered, Next, NEW b \in Refs
                 PROVE  content[b] <= content'[b]
      OBVIOUS
    <2>1. ASSUME NEW r \in Runs, Pipeline(r) PROVE UNCHANGED content
      BY <2>1 DEF Pipeline, ResolveRef, BuildPlan, EnsureBranchOwned, ApplyPlan,
                  CreateOrResetBranch, StageAndCommit, PushForceWithLease,
                  FindOpenPR, CreatePR, UpdatePRBody, remote
    <2>2. content[b] \in Nat
      BY DEF PublishTypeOK, Versions
    <2>. QED
      BY <2>1, <2>2, WorldOrdered DEF Next
  <1>. QED
    BY <1>1, VersionsAlwaysOrdered, PTL DEF Spec, MergesMoveForward
=============================================================================
