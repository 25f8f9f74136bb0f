----------------------------- MODULE StoreFetch -----------------------------
(***************************************************************************)
(* getStore of the orchestrator with the GitHub adapter of the store:      *)
(* ResolveRef turns the requested version into a commit, the tags are      *)
(* listed page by page to warn about an outdated pin, and the archive of   *)
(* the commit is extracted into a temporary directory that is there until  *)
(* the pipeline ends.  Every request is a step of its own: maintainers of  *)
(* the store publish, move and delete tags in between.                     *)
(*                                                                         *)
(* What is loaded is the subject of ResolveModules.                        *)
(***************************************************************************)
EXTENDS Integers, FiniteSets

CONSTANTS
    Tags,           \* tags of the store, numbered in the order of their names
    Version,        \* rank of a tag's semantic version, 0 if it is none
    Stable,         \* tags whose version is not a prerelease
    PerPage,        \* tagsPerPage
    Commits,        \* commits of the store
    TagObjects,     \* annotated tags
    Peeled,         \* what an annotated tag is of: a commit, or another tag
    CommitOf,       \* the commit an object is or is of in the end
    Entries,        \* entries an archive may have
    EntriesOf,      \* the archive of a commit
    Size,           \* size of an entry
    Unsupported,    \* links, devices and unsafe paths
    Loadable,       \* commits with a valid catalog and .deps.yml
    MaxFileBytes,
    MaxTotalExtracted,
    None,           \* no tag, no commit
    MaxEdits,       \* bound on what maintainers do during a run
    MaxFaults       \* bound on failing requests, disks and killed runners

Objects == Commits \cup TagObjects

ASSUME StoreAssumption ==
    /\ Tags \subseteq Nat /\ IsFiniteSet(Tags)
    /\ Version \in [Tags -> Nat]
    /\ Stable \subseteq {t \in Tags : Version[t] > 0}
    /\ PerPage \in Nat \ {0}
    /\ Commits \cap TagObjects = {}
    /\ EntriesOf \in [Commits -> SUBSET Entries]
    /\ Size \in [Entries -> Nat]
    /\ Loadable \subseteq Commits
    /\ MaxFileBytes \in Nat
    /\ MaxTotalExtracted \in Nat
    /\ None \notin Tags \cup Objects
    /\ MaxEdits \in Nat
    /\ MaxFaults \in Nat

\* A tag may be of a tag; in the end each is of a commit.
ASSUME TagObjectsAssumption ==
    /\ Peeled \in [TagObjects -> Objects]
    /\ CommitOf \in [Objects -> Commits]
    /\ \A c \in Commits : CommitOf[c] = c
    /\ \A o \in TagObjects : CommitOf[o] = CommitOf[Peeled[o]]

VARIABLES
    pos,        \* place of a tag in GitHub's list, 0 if there is no such tag
    target,     \* what the requested tag or the default branch points to
    pc,         \* where the run is in getStore
    requested,  \* cfg.StoreVersion, None for the default branch
    object,     \* the annotated tag to peel
    commit,     \* RefInfo.ResolvedCommit, a tag if that was of a tag
    listed,     \* tags on the pages before the next one
    latest,     \* highest stable tag so far
    warned,     \* the run has warned about an outdated pin
    checked,    \* ... having seen all pages
    todo,       \* entries still to extract
    written,    \* entries extracted
    total,      \* extractor.total
    tmp,        \* the run's temporary directory is there
    pointed,    \* what the request has pointed to since the run began
    steady,     \* stable tags there when the listing began
    withdrawn,  \* a tag was deleted since then
    lost,       \* its removal failed, or the runner was killed
    edits,      \* changes of the store so far
    faults      \* faults so far

store == <<pos, target>>
ref == <<requested, object, commit>>
listing == <<listed, latest, warned, checked>>
extractor == <<todo, written, total, tmp>>
history == <<pointed, steady, withdrawn, lost>>
vars == <<store, pc, ref, listing, extractor, history, edits, faults>>

-----------------------------------------------------------------------------
(* The order of tags. *)

VersionOf(t) == IF t = None THEN 0 ELSE Version[t]

\* newerTag: the higher version, or the name that comes first.
Newer(t, u) ==
    \/ VersionOf(t) > VersionOf(u)
    \/ t # None /\ u # None /\ VersionOf(t) = VersionOf(u) /\ t < u

\* Mutant: prereleases are not sorted out.
Versioned(ts) == {t \in ts : Version[t] > 0}

\* latestStableTag leaves prereleases and names that are no version aside.
StableAmong(ts) == ts \cap Stable

\* latestStablePage.
IsLatest(t, ts) == t \in ts /\ \A u \in ts : ~Newer(u, t)

Published == {t \in Tags : pos[t] > 0}
Page == {t \in Published : listed < pos[t] /\ pos[t] <= listed + PerPage}

\* Mutant: a full page ends the listing, too.
OnePageOnly == TRUE

\* A page with less than tagsPerPage tags: its last place is empty.
LastPage == \A t \in Tags : pos[t] # listed + PerPage

-----------------------------------------------------------------------------
\* The list of tags has one tag in each place, and no place is empty before the
\* last one.
Distinct == \A t, u \in Published : pos[t] = pos[u] => t = u
Contiguous == \A t \in Tags : \A k \in 1 .. pos[t] : \E u \in Tags : pos[u] = k

Init ==
    /\ pos \in [Tags -> 0 .. Cardinality(Tags)]
    /\ Distinct /\ Contiguous
    /\ target = None
    /\ pc = "idle"
    /\ requested = None /\ object = None /\ commit = None
    /\ listed = 0 /\ latest = None /\ warned = FALSE /\ checked = FALSE
    /\ todo = {} /\ written = {} /\ total = 0 /\ tmp = FALSE
    /\ pointed = {} /\ steady = {} /\ withdrawn = FALSE /\ lost = FALSE
    /\ edits = 0 /\ faults = 0

Go(from, to) == pc = from /\ pc' = to

\* A run with a version of the user's choice, of a store as it is.
Start(t, o) ==
    /\ Go("idle", "branch")
    /\ requested' = t
    /\ target' = o /\ (t = None => o \in Commits)
    /\ pointed' = {CommitOf[o]}
    /\ object' = None /\ commit' = None
    /\ listed' = 0 /\ latest' = None /\ warned' = FALSE /\ checked' = FALSE
    /\ steady' = {} /\ withdrawn' = FALSE
    /\ todo' = {} /\ written' = {} /\ total' = 0 /\ tmp' = FALSE
    /\ lost' = FALSE
    /\ UNCHANGED <<pos, edits, faults>>

(* ResolveRef. *)

GetDefaultBranch ==
    /\ Go("branch", "ref")
    /\ UNCHANGED <<store, ref, listing, extractor, history, edits, faults>>

\* Once the commit is known: a pin that is a semantic version is compared with
\* the tags of the store.
Resolved(c) ==
    /\ commit' = c
    /\ IF requested # None /\ Version[requested] > 0
       THEN /\ pc' = "list"
            /\ steady' = StableAmong(Published)
            /\ withdrawn' = FALSE
       ELSE pc' = "archive" /\ UNCHANGED <<steady, withdrawn>>
    /\ UNCHANGED <<pointed, lost>>

ResolveBranchHead ==
    /\ pc = "ref" /\ requested = None
    /\ Resolved(target)
    /\ UNCHANGED <<store, requested, object, listing, extractor, edits, faults>>

ResolveTag ==
    /\ pc = "ref" /\ requested \in Published
    /\ IF target \in Commits THEN Resolved(target) /\ UNCHANGED object
       ELSE object' = target /\ pc' = "peel" /\ UNCHANGED <<commit, history>>
    /\ UNCHANGED <<store, requested, listing, extractor, edits, faults>>

\* One level only.
PeelAnnotatedTag ==
    /\ pc = "peel"
    /\ Resolved(Peeled[object])
    /\ UNCHANGED <<store, requested, object, listing, extractor, edits, faults>>

\* The run ends with an error.
Fail ==
    /\ pc' = "idle"
    /\ UNCHANGED <<store, ref, listing, edits>>

ResolveTagNotFound ==
    /\ pc = "ref" /\ requested # None /\ requested \notin Published
    /\ Fail
    /\ UNCHANGED <<extractor, history, faults>>

(* warnOutdatedStoreVersion. *)

\* Mutant: the same page is asked for again.
ListSamePage ==
    /\ Go("list", IF LastPage THEN "compare" ELSE "list")
    /\ \E t \in StableAmong(Page) \cup {latest} :
          IsLatest(t, StableAmong(Page) \cup {latest}) /\ latest' = t
    /\ UNCHANGED <<store, ref, listed, warned, checked, extractor, history,
                   edits, faults>>

ListTags ==
    /\ Go("list", IF LastPage THEN "compare" ELSE "list")
    /\ \E t \in StableAmong(Page) \cup {latest} :
          IsLatest(t, StableAmong(Page) \cup {latest}) /\ latest' = t
    /\ listed' = listed + PerPage
    /\ UNCHANGED <<store, ref, warned, checked, extractor, history, edits, faults>>

WarnNewer ==
    /\ Go("compare", "archive")
    /\ warned' = (VersionOf(requested) < VersionOf(latest))
    /\ checked' = TRUE
    /\ UNCHANGED <<store, ref, listed, latest, extractor, history, edits, faults>>

\* "If GitHub cannot complete the version check, TaskOtter warns and continues."
ListTagsFails ==
    /\ Go("list", "archive")
    /\ faults < MaxFaults
    /\ faults' = faults + 1
    /\ UNCHANGED <<store, ref, listing, extractor, history, edits>>

(* DownloadSnapshot. *)

\* Mutant: the archive of the tag is downloaded.
FetchArchiveOfTag ==
    /\ Go("archive", "extract")
    /\ todo' = EntriesOf[CommitOf[target]]
    /\ written' = {} /\ total' = 0 /\ tmp' = TRUE
    /\ UNCHANGED <<store, ref, listing, history, edits, faults>>

\* GitHub serves the archive of the commit that an object is of.
FetchArchive ==
    /\ Go("archive", "extract")
    /\ todo' = EntriesOf[CommitOf[commit]]
    /\ written' = {} /\ total' = 0 /\ tmp' = TRUE
    /\ UNCHANGED <<store, ref, listing, history, edits, faults>>

\* Mutant: the size is added when the entry was written.
AcceptableUntilFull(e) ==
    e \notin Unsupported /\ Size[e] <= MaxFileBytes /\ total <= MaxTotalExtracted

\* ensureValidTarPath, dispatchWriteEntry and validateSize.
Acceptable(e) ==
    /\ e \notin Unsupported
    /\ Size[e] <= MaxFileBytes
    /\ total + Size[e] <= MaxTotalExtracted

ExtractEntry(e) ==
    /\ Go("extract", "extract")
    /\ e \in todo /\ Acceptable(e)
    /\ todo' = todo \ {e}
    /\ written' = written \cup {e}
    /\ total' = total + Size[e]
    /\ UNCHANGED <<store, ref, listing, tmp, history, edits, faults>>

\* Mutant: the directory is kept after an error.
KeepTempDir == UNCHANGED <<tmp, lost, faults>>

\* os.RemoveAll, which may fail and leave the directory behind.
RemoveTempDir ==
    \/ tmp' = FALSE /\ UNCHANGED <<lost, faults>>
    \/ faults < MaxFaults /\ faults' = faults + 1 /\ lost' = TRUE /\ UNCHANGED tmp

\* cleanupTempDirAfterError.
FailAndCleanUp ==
    /\ Fail
    /\ RemoveTempDir
    /\ UNCHANGED <<todo, written, total, pointed, steady, withdrawn>>

RejectEntry ==
    /\ pc = "extract"
    /\ \E e \in todo : ~Acceptable(e)
    /\ FailAndCleanUp

LoadCatalogAndDeps ==
    /\ Go("extract", "use")
    /\ todo = {}
    /\ CommitOf[commit] \in Loadable
    /\ UNCHANGED <<store, ref, listing, extractor, history, edits, faults>>

RejectCatalog ==
    /\ pc = "extract"
    /\ todo = {}
    /\ CommitOf[commit] \notin Loadable
    /\ FailAndCleanUp

\* The archive breaks off, is longer than MaxArchiveBytes, or the disk is full.
ExtractFails ==
    /\ pc = "extract"
    /\ faults < MaxFaults
    /\ Fail
    /\ faults' = faults + 1
    /\ \/ tmp' = FALSE /\ UNCHANGED lost
       \/ lost' = TRUE /\ UNCHANGED tmp
    /\ UNCHANGED <<todo, written, total, pointed, steady, withdrawn>>

\* closeSnapshotQuietly, deferred to the end of the pipeline.
Close ==
    /\ Go("use", "idle")
    /\ RemoveTempDir
    /\ UNCHANGED <<store, ref, listing, todo, written, total,
                   pointed, steady, withdrawn, edits>>

(* Faults. *)

\* A request fails before there is a directory.
RequestFails ==
    /\ pc \in {"branch", "ref", "peel", "archive"}
    /\ faults < MaxFaults
    /\ faults' = faults + 1
    /\ Fail
    /\ UNCHANGED <<extractor, history>>

Crash ==
    /\ pc # "idle"
    /\ faults < MaxFaults
    /\ faults' = faults + 1
    /\ Fail
    /\ lost' = TRUE
    /\ UNCHANGED <<extractor, pointed, steady, withdrawn>>

-----------------------------------------------------------------------------
(* The store, between any two requests. *)

Maintainer ==
    /\ pc \notin {"idle", "use"}
    /\ edits < MaxEdits
    /\ edits' = edits + 1
    /\ UNCHANGED <<pc, ref, listing, extractor, steady, lost, faults>>

\* A new tag takes a place anywhere in the list.
PublishTag(t, k) ==
    /\ Maintainer
    /\ pos[t] = 0
    /\ k = 1 \/ \E u \in Tags : pos[u] = k - 1
    /\ pos' = [u \in Tags |-> IF u = t THEN k
                              ELSE IF pos[u] >= k THEN pos[u] + 1 ELSE pos[u]]
    /\ UNCHANGED <<target, pointed, withdrawn>>

\* The tags behind a deleted one move up.
DeleteTag(t) ==
    /\ Maintainer
    /\ pos[t] > 0
    /\ pos' = [u \in Tags |-> IF u = t THEN 0
                              ELSE IF pos[u] > pos[t] THEN pos[u] - 1 ELSE pos[u]]
    /\ withdrawn' = TRUE
    /\ UNCHANGED <<target, pointed>>

\* The requested tag is moved, or the default branch gets another commit.
Move(o) ==
    /\ Maintainer
    /\ o # target /\ (requested = None => o \in Commits)
    /\ target' = o
    /\ pointed' = pointed \cup {CommitOf[o]}
    /\ UNCHANGED <<pos, withdrawn>>

-----------------------------------------------------------------------------
ClientStep ==
    \/ GetDefaultBranch
    \/ ResolveBranchHead \/ ResolveTag \/ ResolveTagNotFound \/ PeelAnnotatedTag
    \/ ListTags \/ WarnNewer
    \/ FetchArchive
    \/ \E e \in todo : ExtractEntry(e)
    \/ RejectEntry \/ LoadCatalogAndDeps \/ RejectCatalog
    \/ Close

Next ==
    \/ \E t \in Tags \cup {None}, o \in Objects : Start(t, o)
    \/ ClientStep
    \/ ListTagsFails \/ RequestFails \/ ExtractFails \/ Crash
    \/ \E t \in Tags, k \in 1 .. Cardinality(Tags) : PublishTag(t, k)
    \/ \E t \in Tags : DeleteTag(t)
    \/ \E o \in Objects : Move(o)

Spec == Init /\ [][Next]_vars

\* A run goes on; faults and changes of the store need not happen.
FairSpec == Spec /\ WF_vars(ClientStep)

-----------------------------------------------------------------------------
(* Properties. *)

Phases == {"idle", "branch", "ref", "peel", "list", "compare", "archive",
           "extract", "use"}

\* Every variable has its type; in particular no more is extracted than the
\* extractor's limit.
FetchTypeOK ==
    /\ pos \in [Tags -> Nat] /\ target \in Objects \cup {None}
    /\ pc \in Phases
    /\ requested \in Tags \cup {None}
    /\ object \in TagObjects \cup {None} /\ commit \in Objects \cup {None}
    /\ listed \in Nat /\ latest \in Stable \cup {None}
    /\ warned \in BOOLEAN /\ checked \in BOOLEAN
    /\ todo \subseteq Entries /\ written \subseteq Entries \ Unsupported
    /\ total \in 0 .. MaxTotalExtracted /\ tmp \in BOOLEAN
    /\ pointed \subseteq Commits /\ steady \subseteq Stable
    /\ withdrawn \in BOOLEAN /\ lost \in BOOLEAN
    /\ edits \in 0 .. MaxEdits /\ faults \in 0 .. MaxFaults

\* Unless a tag is deleted, which moves others to pages already seen, a stable
\* tag is on a later page or has been compared.
NoneSkipped ==
    /\ pc \in {"branch", "ref", "peel"} => listed = 0
    /\ pc \in {"list", "compare"} /\ ~withdrawn =>
          \A t \in steady :
              Version[t] <= VersionOf(latest) \/ (pc = "list" /\ pos[t] > listed)

\* The comparison comes after that.
NotYetChecked == pc \in {"branch", "ref", "peel", "list", "compare"} => ~checked

\* What has been looked up is something the request pointed to during the run.
Pinned ==
    /\ pc # "idle" => /\ target \in Objects /\ CommitOf[target] \in pointed
                      /\ requested = None => target \in Commits
    /\ pc = "peel" => object \in TagObjects /\ CommitOf[object] \in pointed
    /\ pc \in {"list", "compare", "archive", "extract", "use"} =>
          commit \in Objects /\ CommitOf[commit] \in pointed
    /\ pc \in {"list", "compare"} => requested # None

\* The temporary directory holds a part of that commit's archive.
PartlyExtracted ==
    /\ pc \in {"extract", "use"} => tmp /\ todo \cup written = EntriesOf[CommitOf[commit]]
    /\ pc = "use" => todo = {}
    /\ tmp => pc \in {"extract", "use"} \/ lost

\* When all pages of tags could be read and none was deleted meanwhile, the run
\* warns exactly if there is a newer stable version: of the tags that were there
\* when it began, none is missed, however many are published while it reads the
\* pages, and what it recommends is stable and newer than the pin.
WarnsAboutNewer ==
    checked /\ requested # None =>
        /\ ~withdrawn =>
              \A t \in steady : Version[t] > Version[requested] => warned
        /\ warned => latest \in Stable /\ Version[latest] > Version[requested]

\* The snapshot a plan is made from is the whole archive of one commit the
\* request pointed to while it was looked up, although tags and branches move
\* between the requests.
SnapshotIsPinned ==
    pc = "use" => /\ CommitOf[commit] \in pointed \cap Loadable
                  /\ written = EntriesOf[CommitOf[commit]]

\* A run that ends, with success or any error, has removed its temporary
\* directory, unless the removal fails or the runner is killed.
NothingLeftBehind == pc = "idle" /\ tmp => lost

\* What the proofs are made by.
FetchInv ==
    /\ Distinct /\ Contiguous
    /\ NoneSkipped /\ NotYetChecked /\ Pinned /\ PartlyExtracted
    /\ WarnsAboutNewer /\ SnapshotIsPinned

\* Every run ends, however long the list of tags is.
FetchEnds == pc # "idle" ~> pc = "idle"
=============================================================================
