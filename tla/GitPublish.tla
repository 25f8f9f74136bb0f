----------------------------- MODULE GitPublish -----------------------------
(***************************************************************************)
(* Publishing a sync: runPipeline of the orchestrator with the git CLI     *)
(* adapter and the pull request adapter.  Workflow runs of one             *)
(* configuration may overlap.  Each has its own clone; all share the       *)
(* repository on GitHub: the branches, the sync branch                     *)
(* taskotter/sync-<hash>, the same for every run of the configuration, and *)
(* the open pull requests with that branch as their head.                  *)
(*                                                                         *)
(* What a synced tree holds is the version of the store it was built from. *)
(* Versions are numbered in the order the store publishes them.            *)
(***************************************************************************)
EXTENDS Naturals

CONSTANTS
    Runs,       \* runners that execute the workflow
    Refs,       \* refs a workflow run is invoked on
    BaseOf,     \* where a run's pull request goes: the ref, or what the
                \* workflow's own pull request would be merged into
    None,       \* no branch, no pull request
    FullClone,  \* the checkout step fetches every branch (fetch-depth: 0)
    Reruns,     \* the action may run again in the same workspace
    MaxVersion, \* bound on store releases
    MaxEdits,   \* bound on what maintainers do
    MaxFaults   \* bound on API errors, timeouts and crashes

Versions == 0 .. MaxVersion
Commit == [version : Versions,   \* what its tree holds
           parent : Versions,    \* what the tree held where it forked off
           foreign : BOOLEAN]    \* somebody else's commit is on top

ASSUME PublishAssumption ==
    /\ BaseOf \in [Refs -> Refs]
    /\ FullClone \in BOOLEAN
    /\ Reruns \in BOOLEAN
    /\ MaxVersion \in Nat \ {0}
    /\ MaxEdits \in Nat
    /\ MaxFaults \in Nat
    /\ None \notin Commit
    /\ None \notin Versions

VARIABLES
    store,    \* latest version the store publishes
    content,  \* version the tree of each ref holds
    branch,   \* head of origin's sync branch
    prs,      \* body of the open pull request of the sync branch into a ref
    pc,       \* where a run is in the pipeline
    ref,      \* the ref a run was invoked on
    forked,   \* version its clone was checked out with
    tree,     \* version its workspace holds
    local,    \* tip of its local sync branch
    lease,    \* what its remote-tracking ref of the sync branch is worth
    wanted,   \* version its snapshot was downloaded from
    found,    \* runs whose pull request from FindOpenPR is still open
    exit,     \* how its last execution of the action ended
    edits,    \* what maintainers did so far
    faults    \* faults so far

remote == <<store, content, branch, prs>>
clone == <<ref, forked, tree, local, lease>>
vars == <<remote, pc, clone, wanted, found, exit, edits, faults>>

Init ==
    /\ store = 1
    /\ content = [b \in Refs |-> 0]
    /\ branch = None
    /\ prs = [b \in Refs |-> None]
    /\ pc = [r \in Runs |-> "idle"]
    /\ ref \in [Runs -> Refs]
    /\ forked = [r \in Runs |-> 0]
    /\ tree = [r \in Runs |-> 0]
    /\ local = [r \in Runs |-> "none"]
    /\ lease = [r \in Runs |-> "absent"]
    /\ wanted = [r \in Runs |-> 0]
    /\ found = {}
    /\ exit = [r \in Runs |-> "none"]
    /\ edits = 0
    /\ faults = 0

base(r) == BaseOf[ref[r]]

\* The leases once the sync branch has moved: current for the run that pushed,
\* stale for any other clone that knows the branch.
LeasesAfter(pushers) ==
    [s \in Runs |-> IF s \in pushers THEN "current"
                    ELSE IF lease[s] = "current" THEN "stale" ELSE lease[s]]

-----------------------------------------------------------------------------
(* One execution of the action. *)

Go(r, from, to) ==
    /\ pc[r] = from
    /\ pc' = [pc EXCEPT ![r] = to]

\* Mutant: a run does not forget the pull request it has found.
StopRemembering(r, how) ==
    /\ pc' = [pc EXCEPT ![r] = "idle"]
    /\ exit' = [exit EXCEPT ![r] = how]
    /\ UNCHANGED found

Stop(r, how) ==
    /\ pc' = [pc EXCEPT ![r] = "idle"]
    /\ exit' = [exit EXCEPT ![r] = how]
    /\ found' = found \ {r}

\* The workflow's checkout step: a fresh clone with the ref checked out.
Checkout(r, b) ==
    /\ Go(r, "idle", "cloned")
    /\ ref' = [ref EXCEPT ![r] = b]
    /\ forked' = [forked EXCEPT ![r] = content[b]]
    /\ tree' = [tree EXCEPT ![r] = content[b]]
    /\ local' = [local EXCEPT ![r] = "none"]
    /\ lease' = [lease EXCEPT ![r] =
                   IF FullClone /\ branch # None THEN "current" ELSE "absent"]
    /\ exit' = [exit EXCEPT ![r] = "none"]
    /\ UNCHANGED <<remote, wanted, found, edits, faults>>

\* The action is run once more in the workspace its last run left.
RunAgain(r) ==
    /\ Reruns
    /\ exit[r] \in {"failed", "published"}
    /\ Go(r, "idle", "cloned")
    /\ exit' = [exit EXCEPT ![r] = "none"]
    /\ UNCHANGED <<remote, clone, wanted, found, edits, faults>>

\* Mutant: the snapshot may come from an earlier release.
ResolveAnyRelease(r) ==
    /\ Go(r, "cloned", "resolved")
    /\ \E v \in 0 .. store : wanted' = [wanted EXCEPT ![r] = v]
    /\ UNCHANGED <<remote, clone, found, exit, edits, faults>>

\* getStore: ResolveRef pins the snapshot to a commit.
ResolveRef(r) ==
    /\ Go(r, "cloned", "resolved")
    /\ wanted' = [wanted EXCEPT ![r] = store]
    /\ UNCHANGED <<remote, clone, found, exit, edits, faults>>

\* BuildPlan compares the snapshot with the workspace; finishSync returns
\* unless the plan has changes.
BuildPlan(r) ==
    /\ pc[r] = "resolved"
    /\ IF tree[r] = wanted[r] THEN Stop(r, "unchanged")
       ELSE Go(r, "resolved", "planned") /\ UNCHANGED <<exit, found>>
    /\ UNCHANGED <<remote, clone, wanted, edits, faults>>

\* EnsureBranchOwned looks at local refs only: without a local sync branch it
\* passes, and the tip of a local one must carry the sync commit message.
EnsureBranchOwned(r) ==
    /\ pc[r] = "planned"
    /\ IF local[r] = "base" THEN Stop(r, "failed")
       ELSE Go(r, "planned", "owned") /\ UNCHANGED <<exit, found>>
    /\ UNCHANGED <<remote, clone, wanted, edits, faults>>

ApplyPlan(r) ==
    /\ Go(r, "owned", "applied")
    /\ tree' = [tree EXCEPT ![r] = wanted[r]]
    /\ UNCHANGED <<remote, ref, forked, local, lease, wanted, found, exit, edits, faults>>

\* Mutant: a fetch brings the tracking ref up to date first.
FetchAndResetBranch(r) ==
    /\ Go(r, "applied", "branched")
    /\ local' = [local EXCEPT ![r] = IF @ = "sync" THEN "sync" ELSE "base"]
    /\ lease' = [lease EXCEPT ![r] = IF branch = None THEN "absent" ELSE "current"]
    /\ UNCHANGED <<remote, ref, forked, tree, wanted, found, exit, edits, faults>>

\* git checkout -B <branch>: from HEAD, which is the ref checked out or, when
\* the action runs again, already the sync branch.
CreateOrResetBranch(r) ==
    /\ Go(r, "applied", "branched")
    /\ local' = [local EXCEPT ![r] = IF @ = "sync" THEN "sync" ELSE "base"]
    /\ UNCHANGED <<remote, ref, forked, tree, lease, wanted, found, exit, edits, faults>>

\* git add -f and git commit with the sync commit message.
StageAndCommit(r) ==
    /\ Go(r, "branched", "committed")
    /\ local' = [local EXCEPT ![r] = "sync"]
    /\ UNCHANGED <<remote, ref, forked, tree, lease, wanted, found, exit, edits, faults>>

\* Mutant: git push --force.
ForceHolds(r) == TRUE

\* Mutant: git push without force.
PushHolds(r) == branch = None

\* git push --force-with-lease: origin's branch must be what the tracking ref
\* says, and must not exist if there is no tracking ref.
LeaseHolds(r) ==
    \/ lease[r] = "current"
    \/ lease[r] = "absent" /\ branch = None

SyncCommit(r) ==
    [version |-> tree[r], parent |-> forked[r], foreign |-> FALSE]

PushForceWithLease(r) ==
    /\ pc[r] = "committed"
    /\ IF LeaseHolds(r)
       THEN /\ Go(r, "committed", "pushed")
            /\ branch' = SyncCommit(r)
            /\ lease' = LeasesAfter({r})
            /\ UNCHANGED <<exit, found>>
       ELSE Stop(r, "failed") /\ UNCHANGED <<branch, lease>>
    /\ UNCHANGED <<store, content, prs, ref, forked, tree, local, wanted, edits, faults>>

FindOpenPR(r) ==
    /\ pc[r] = "pushed"
    /\ IF prs[base(r)] # None
       THEN Go(r, "pushed", "found") /\ found' = found \cup {r}
       ELSE Go(r, "pushed", "missing") /\ UNCHANGED found
    /\ UNCHANGED <<remote, clone, wanted, exit, edits, faults>>

\* GitHub refuses a second open pull request of a head into a base, and one
\* whose head does not exist.
CreatePR(r) ==
    /\ pc[r] = "missing"
    /\ IF prs[base(r)] = None /\ branch # None
       THEN prs' = [prs EXCEPT ![base(r)] = wanted[r]] /\ Stop(r, "published")
       ELSE Stop(r, "failed") /\ UNCHANGED prs
    /\ UNCHANGED <<store, content, branch, clone, wanted, edits, faults>>

\* The body of a pull request that was closed meanwhile can still be edited.
UpdatePRBody(r) ==
    /\ pc[r] = "found"
    /\ prs' = IF r \in found THEN [prs EXCEPT ![base(r)] = wanted[r]] ELSE prs
    /\ Stop(r, "published")
    /\ UNCHANGED <<store, content, branch, clone, wanted, edits, faults>>

\* An API error, the run timeout or a killed runner ends a run anywhere.
Fail(r) ==
    /\ pc[r] # "idle"
    /\ faults < MaxFaults
    /\ faults' = faults + 1
    /\ Stop(r, "failed")
    /\ UNCHANGED <<remote, clone, wanted, edits>>

-----------------------------------------------------------------------------
(* The store and the maintainers. *)

Release ==
    /\ store < MaxVersion
    /\ store' = store + 1
    /\ UNCHANGED <<content, branch, prs, pc, clone, wanted, found, exit, edits, faults>>

Maintainer ==
    /\ edits < MaxEdits
    /\ edits' = edits + 1
    /\ UNCHANGED <<store, pc, ref, forked, tree, local, wanted, exit, faults>>

\* GitHub closes a pull request into b, or every one when its head is deleted.
ClosePRs(b, deleted) ==
    LET closed == IF deleted THEN Refs ELSE {b} IN
    /\ prs' = [c \in Refs |-> IF c \in closed THEN None ELSE prs[c]]
    /\ found' = {r \in found : base(r) \notin closed}
    /\ branch' = IF deleted THEN None ELSE branch
    /\ lease' = IF deleted THEN LeasesAfter({}) ELSE lease

\* A three-way merge that does not conflict.
Merge(b, deleted) ==
    /\ Maintainer
    /\ prs[b] # None /\ branch # None
    /\ content[b] \in {branch.parent, branch.version}
    /\ content' = [content EXCEPT ![b] = branch.version]
    /\ ClosePRs(b, deleted)

Close(b, deleted) ==
    /\ Maintainer
    /\ prs[b] # None
    /\ ClosePRs(b, deleted)
    /\ UNCHANGED content

\* A maintainer pushes a commit of their own to the sync branch.
CommitOnTop ==
    /\ Maintainer
    /\ branch # None /\ ~branch.foreign
    /\ branch' = [branch EXCEPT !.foreign = TRUE]
    /\ lease' = LeasesAfter({})
    /\ UNCHANGED <<content, prs, found>>

-----------------------------------------------------------------------------
Pipeline(r) ==
    \/ ResolveRef(r)
    \/ BuildPlan(r)
    \/ EnsureBranchOwned(r)
    \/ ApplyPlan(r)
    \/ CreateOrResetBranch(r)
    \/ StageAndCommit(r)
    \/ PushForceWithLease(r)
    \/ FindOpenPR(r)
    \/ CreatePR(r)
    \/ UpdatePRBody(r)

Invoked(r) == (\E b \in Refs : Checkout(r, b)) \/ RunAgain(r)

Others ==
    \/ Release
    \/ \E b \in Refs, deleted \in BOOLEAN : Merge(b, deleted) \/ Close(b, deleted)
    \/ CommitOnTop

Next == (\E r \in Runs : Invoked(r) \/ Pipeline(r) \/ Fail(r)) \/ Others

Spec == Init /\ [][Next]_vars

\* A started run goes on to its end and the workflow is scheduled again and
\* again on every ref; maintainers, releases and faults need not happen.
FairSpec ==
    /\ Spec
    /\ \A r \in Runs : WF_vars(Pipeline(r))
    /\ \A r \in Runs, b \in Refs : SF_vars(Checkout(r, b))

-----------------------------------------------------------------------------
PCs == {"idle", "cloned", "resolved", "planned", "owned", "applied", "branched",
        "committed", "pushed", "found", "missing"}

\* Every variable has its type, and only a run between FindOpenPR and
\* UpdatePRBody remembers a pull request.
PublishTypeOK ==
    /\ store \in Versions
    /\ content \in [Refs -> Versions]
    /\ branch \in Commit \cup {None}
    /\ prs \in [Refs -> Versions \cup {None}]
    /\ pc \in [Runs -> PCs]
    /\ ref \in [Runs -> Refs]
    /\ forked \in [Runs -> Versions]
    /\ tree \in [Runs -> Versions]
    /\ local \in [Runs -> {"none", "base", "sync"}]
    /\ lease \in [Runs -> {"absent", "current", "stale"}]
    /\ wanted \in [Runs -> Versions]
    /\ found \subseteq {r \in Runs : pc[r] = "found"}
    /\ exit \in [Runs -> {"none", "unchanged", "published", "failed"}]
    /\ edits \in 0 .. MaxEdits
    /\ faults \in 0 .. MaxFaults

\* A push never replaces what the sync branch holds by an older version of the
\* store, however runs overlap: the lease is taken before the version is resolved.
NoDowngrade ==
    [][\A r \in Runs : PushForceWithLease(r) /\ branch # None /\ branch' # branch
          => branch.version <= branch'.version]_vars

\* A merge never takes a ref back to an older version, even of a sync branch
\* that was deleted and pushed again by a run that has been under way since.
MergesMoveForward ==
    [][\A b \in Refs : content[b] <= content'[b]]_vars

\* What NoDowngrade and MergesMoveForward rest on.  Nothing is newer than the
\* store.  A run that has resolved its version wants none older than its clone
\* holds, and, while its lease is good, none older than the sync branch holds.
Resolved == PCs \ {"idle", "cloned"}
VersionsOrdered ==
    /\ branch # None => branch.parent <= branch.version /\ branch.version <= store
    /\ \A b \in Refs : content[b] <= store
    /\ \A r \in Runs : forked[r] <= store /\ wanted[r] <= store
    /\ \A r \in Runs : pc[r] \in Resolved => forked[r] <= wanted[r]
    /\ \A r \in Runs : pc[r] \in {"applied", "branched", "committed"} =>
          tree[r] = wanted[r]
    /\ \A r \in Runs : lease[r] = "current" =>
          branch # None /\ (pc[r] \in Resolved => branch.version <= wanted[r])

\* "an open PR for that branch is updated rather than duplicated" (ADR 0009).
OneOpenPR ==
    \A b, c \in Refs : prs[b] # None /\ prs[c] # None => b = c

\* "rejects foreign branch reuse" (EnsureBranchOwned): a push does not discard a
\* commit of somebody else.
ForeignCommitsKept ==
    [][\A r \in Runs : PushForceWithLease(r) /\ branch # None /\ branch' # branch
          => ~branch.foreign]_vars

\* "scheduled syncs converge on one PR per configuration" (ADR 0009): every ref
\* ends up holding the store's latest version or with an open pull request that
\* offers it and says so.
Offered(b) == prs[b] = store /\ branch # None /\ branch.version = store
Converges == <>[](\A b \in Refs : BaseOf[b] = b => content[b] = store \/ Offered(b))
=============================================================================
