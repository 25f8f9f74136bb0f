-------------------------- MODULE StoreFetchProofs --------------------------
(***************************************************************************)
(* Proofs about StoreFetch: no newer stable tag is missed whatever is      *)
(* published while the pages are read, and a snapshot is one commit the    *)
(* request pointed to.                                                     *)
(***************************************************************************)
EXTENDS StoreFetch, FiniteSetTheorems, TLAPS

USE StoreAssumption

LEMMA PlacesAreNumbers == Cardinality(Tags) \in Nat
  BY FS_CardinalityType

LEMMA VersionOfTyped ==
    /\ \A t \in Tags : t # None /\ VersionOf(t) = Version[t] /\ Version[t] \in Nat
    /\ VersionOf(None) = 0
  BY DEF VersionOf

LEMMA CommitOfTyped ==
    /\ \A o \in Objects : CommitOf[o] \in Commits
    /\ \A o \in TagObjects : Peeled[o] \in Objects /\ CommitOf[Peeled[o]] = CommitOf[o]
    /\ \A c \in Commits : CommitOf[c] = c
  BY TagObjectsAssumption DEF Objects

-----------------------------------------------------------------------------
(* Types. *)

LEMMA FetchInitTyped == Init => FetchTypeOK
  <1> SUFFICES ASSUME Init PROVE FetchTypeOK
    OBVIOUS
  <1>1. pos \in [Tags -> Nat]
    BY PlacesAreNumbers DEF Init
  <1>2. total \in 0 .. MaxTotalExtracted /\ edits \in 0 .. MaxEdits
        /\ faults \in 0 .. MaxFaults
    BY DEF Init
  <1>. QED
    BY <1>1, <1>2 DEF Init, FetchTypeOK, Phases

\* A request of the run, or its failure.
LEMMA ResolvingTyped ==
    ASSUME FetchTypeOK,
           GetDefaultBranch \/ ResolveBranchHead \/ ResolveTag
             \/ ResolveTagNotFound \/ PeelAnnotatedTag
             \/ ListTagsFails \/ RequestFails \/ Crash,
           pc = "ref" /\ requested = None => target \in Commits,
           pc = "ref" => target \in Objects,
           pc = "peel" => object \in TagObjects
    PROVE  FetchTypeOK'
  <1> USE DEF FetchTypeOK, Phases, Go, store, ref, listing, extractor, history,
              StableAmong, Published, Objects
  <1>1. CASE GetDefaultBranch
    BY <1>1 DEF GetDefaultBranch
  <1>2. CASE ResolveBranchHead
    BY <1>2 DEF ResolveBranchHead, Resolved
  <1>3. CASE ResolveTag
    <2>1. CASE target \in Commits
      BY <1>3, <2>1 DEF ResolveTag, Resolved
    <2>2. CASE target \notin Commits
      BY <1>3, <2>2 DEF ResolveTag
    <2>. QED
      BY <2>1, <2>2
  <1>4. CASE ResolveTagNotFound
    BY <1>4 DEF ResolveTagNotFound, Fail
  <1>5. CASE PeelAnnotatedTag
    <2>1. Peeled[object] \in Objects
      BY <1>5, CommitOfTyped DEF PeelAnnotatedTag
    <2>. QED
      BY <1>5, <2>1 DEF PeelAnnotatedTag, Resolved
  <1>6. CASE ListTagsFails
    BY <1>6 DEF ListTagsFails
  <1>7. CASE RequestFails
    BY <1>7 DEF RequestFails, Fail
  <1>8. CASE Crash
    BY <1>8 DEF Crash, Fail
  <1>. QED
    BY <1>1, <1>2, <1>3, <1>4, <1>5, <1>6, <1>7, <1>8

\* Reading pages, extracting, cleaning up.
LEMMA LoadingTyped ==
    ASSUME FetchTypeOK,
           ListTags \/ WarnNewer \/ FetchArchive \/ (\E e \in todo : ExtractEntry(e))
             \/ RejectEntry \/ LoadCatalogAndDeps \/ RejectCatalog \/ ExtractFails
             \/ Close,
           pc = "archive" => commit \in Objects
    PROVE  FetchTypeOK'
  <1> USE DEF FetchTypeOK, Phases, Go, store, ref, listing, extractor, history
  <1>1. CASE ListTags
    <2>1. latest' \in Stable \cup {None}
      BY <1>1 DEF ListTags, StableAmong
    <2>. QED
      BY <1>1, <2>1 DEF ListTags
  <1>2. CASE WarnNewer
    BY <1>2 DEF WarnNewer
  <1>3. CASE FetchArchive
    <2>1. EntriesOf[CommitOf[commit]] \in SUBSET Entries
      BY <1>3, CommitOfTyped DEF FetchArchive
    <2>. QED
      BY <1>3, <2>1 DEF FetchArchive
  <1>4. ASSUME NEW e \in todo, ExtractEntry(e)
        PROVE  FetchTypeOK'
    <2>1. /\ e \in Entries \ Unsupported /\ Size[e] \in Nat
          /\ total + Size[e] <= MaxTotalExtracted
      BY <1>4 DEF ExtractEntry, Acceptable
    <2>2. total' \in 0 .. MaxTotalExtracted
      BY <1>4, <2>1 DEF ExtractEntry
    <2>3. todo' \subseteq Entries /\ written' \subseteq Entries \ Unsupported
      BY <1>4, <2>1 DEF ExtractEntry
    <2>. QED
      BY <1>4, <2>2, <2>3 DEF ExtractEntry
  <1>5. CASE RejectEntry \/ RejectCatalog \/ Close
    <2>1. RemoveTempDir
      BY <1>5 DEF RejectEntry, RejectCatalog, FailAndCleanUp, Close
    <2>2. faults' \in 0 .. MaxFaults
      BY <2>1 DEF RemoveTempDir
    <2>3. tmp' \in BOOLEAN /\ lost' \in BOOLEAN
      BY <2>1 DEF RemoveTempDir
    <2>. QED
      BY <1>5, <2>2, <2>3
      DEF RejectEntry, RejectCatalog, FailAndCleanUp, Close, Fail
  <1>6. CASE LoadCatalogAndDeps
    BY <1>6 DEF LoadCatalogAndDeps
  <1>7. CASE ExtractFails
    <2>1. faults' \in 0 .. MaxFaults
      BY <1>7 DEF ExtractFails
    <2>2. tmp' \in BOOLEAN /\ lost' \in BOOLEAN
      BY <1>7, Zenon DEF ExtractFails
    <2>. QED
      BY <1>7, <2>1, <2>2 DEF ExtractFails, Fail
  <1>. QED
    BY <1>1, <1>2, <1>3, <1>4, <1>5, <1>6, <1>7

\* A new run, and maintainers.
LEMMA StoreTyped ==
    ASSUME FetchTypeOK,
           \/ \E t \in Tags \cup {None}, o \in Objects : Start(t, o)
           \/ \E t \in Tags, k \in 1 .. Cardinality(Tags) : PublishTag(t, k)
           \/ \E t \in Tags : DeleteTag(t)
           \/ \E o \in Objects : Move(o)
    PROVE  FetchTypeOK'
  <1> USE PlacesAreNumbers, CommitOfTyped
      DEF FetchTypeOK, Phases, Go, store, ref, listing, extractor, history, Maintainer
  <1>1. ASSUME NEW t \in Tags \cup {None}, NEW o \in Objects, Start(t, o)
        PROVE  FetchTypeOK'
    <2>1. 0 \in 0 .. MaxTotalExtracted /\ CommitOf[o] \in Commits
      OBVIOUS
    <2>2. /\ todo' \subseteq Entries /\ written' \subseteq Entries \ Unsupported
          /\ pointed' \subseteq Commits /\ steady' \subseteq Stable
      BY <1>1, <2>1 DEF Start
    <2>. QED
      BY <1>1, <2>1, <2>2 DEF Start
  <1>2. ASSUME NEW t \in Tags, NEW k \in 1 .. Cardinality(Tags), PublishTag(t, k)
        PROVE  FetchTypeOK'
    <2>1. pos' \in [Tags -> Nat]
      BY <1>2 DEF PublishTag
    <2>. QED
      BY <1>2, <2>1 DEF PublishTag
  <1>3. ASSUME NEW t \in Tags, DeleteTag(t)
        PROVE  FetchTypeOK'
    <2>1. pos' \in [Tags -> Nat]
      BY <1>3 DEF DeleteTag
    <2>. QED
      BY <1>3, <2>1 DEF DeleteTag
  <1>4. ASSUME NEW o \in Objects, Move(o)
        PROVE  FetchTypeOK'
    BY <1>4 DEF Move
  <1>. QED
    BY <1>1, <1>2, <1>3, <1>4
-----------------------------------------------------------------------------
(* The invariant, one lemma for each part of it. *)

Inv == FetchTypeOK /\ FetchInv

LEMMA InitInv == Init => Inv
  BY FetchInitTyped
  DEF Init, Inv, FetchInv, NoneSkipped, NotYetChecked, Pinned, PartlyExtracted,
      WarnsAboutNewer, SnapshotIsPinned

LEMMA NextTyped == Inv /\ [Next]_vars => FetchTypeOK'
  <1> SUFFICES ASSUME Inv, [Next]_vars PROVE FetchTypeOK'
    OBVIOUS
  <1>1. /\ FetchTypeOK
        /\ pc = "ref" /\ requested = None => target \in Commits
        /\ pc = "ref" => target \in Objects
        /\ pc = "peel" => object \in TagObjects
        /\ pc = "archive" => commit \in Objects
    BY DEF Inv, FetchInv, Pinned, FetchTypeOK
  <1>2. CASE UNCHANGED vars
    BY <1>1, <1>2 DEF FetchTypeOK, vars, store, ref, listing, extractor, history
  <1>3. CASE Next
    BY <1>1, <1>3, ResolvingTyped, LoadingTyped, StoreTyped DEF Next, ClientStep
  <1>. QED
    BY <1>2, <1>3

\* A tag published anywhere leaves no hole, and the tags behind a deleted one
\* close the one it leaves.
LEMMA NextContiguous ==
    ASSUME FetchTypeOK, Distinct, Contiguous, [Next]_vars
    PROVE  Distinct' /\ Contiguous'
  <1>1. ASSUME NEW t \in Tags, NEW k \in Nat \ {0}, PublishTag(t, k)
        PROVE  Distinct' /\ Contiguous'
    <2>0. Distinct'
      BY <1>1 DEF PublishTag, FetchTypeOK, Distinct, Published
    <2> SUFFICES ASSUME NEW u \in Tags, NEW j \in 1 .. pos'[u]
                 PROVE  \E w \in Tags : pos'[w] = j
      BY <2>0 DEF Contiguous
    <2>1. /\ pos \in [Tags -> Nat] /\ pos[t] = 0 /\ j \in Nat \ {0}
          /\ \A w \in Tags : pos'[w] = IF w = t THEN k
                                       ELSE IF pos[w] >= k THEN pos[w] + 1 ELSE pos[w]
          /\ k = 1 \/ \E w \in Tags : pos[w] = k - 1
      BY <1>1 DEF PublishTag, FetchTypeOK
    <2>2. CASE j < k
      <3>1. PICK w \in Tags : pos[w] = k - 1
        BY <2>1, <2>2
      <3>2. j \in 1 .. pos[w]
        BY <2>1, <2>2, <3>1
      <3>3. PICK x \in Tags : pos[x] = j
        BY <3>2 DEF Contiguous
      <3>. QED
        BY <2>1, <2>2, <3>3
    <2>3. CASE j = k
      BY <2>1, <2>3
    <2>4. CASE j > k
      <3>1. j - 1 \in 1 .. pos[u]
        BY <2>1, <2>4
      <3>2. PICK x \in Tags : pos[x] = j - 1
        BY <3>1 DEF Contiguous
      <3>. QED
        BY <2>1, <2>4, <3>2
    <2>. QED
      BY <2>1, <2>2, <2>3, <2>4
  <1>2. ASSUME NEW t \in Tags, DeleteTag(t)
        PROVE  Distinct' /\ Contiguous'
    <2>0. Distinct'
      BY <1>2 DEF DeleteTag, FetchTypeOK, Distinct, Published
    <2> SUFFICES ASSUME NEW u \in Tags, NEW j \in 1 .. pos'[u]
                 PROVE  \E w \in Tags : pos'[w] = j
      BY <2>0 DEF Contiguous
    <2>1. /\ pos \in [Tags -> Nat] /\ pos[t] > 0 /\ j \in Nat \ {0}
          /\ \A w \in Tags : pos'[w] = IF w = t THEN 0
                                       ELSE IF pos[w] > pos[t] THEN pos[w] - 1 ELSE pos[w]
      BY <1>2 DEF DeleteTag, FetchTypeOK
    <2>2. CASE j < pos[t]
      <3>1. PICK x \in Tags : pos[x] = j
        BY <2>1, <2>2 DEF Contiguous
      <3>. QED
        BY <2>1, <2>2, <3>1
    <2>3. CASE j >= pos[t]
      <3>1. pos[u] = pos[t] => u = t
        BY <2>1 DEF Distinct, Published
      <3>2. j + 1 \in 1 .. pos[u]
        BY <2>1, <2>3, <3>1
      <3>3. PICK x \in Tags : pos[x] = j + 1
        BY <3>2 DEF Contiguous
      <3>. QED
        BY <2>1, <2>3, <3>3
    <2>. QED
      BY <2>1, <2>2, <2>3
  <1>3. CASE UNCHANGED pos
    BY <1>3 DEF Distinct, Contiguous, Published
  <1>4. UNCHANGED pos \/ (\E t \in Tags, k \in 1 .. Cardinality(Tags) : PublishTag(t, k))
          \/ (\E t \in Tags : DeleteTag(t))
    BY DEF Next, ClientStep, vars, store, Start, Move, Fail, FailAndCleanUp,
           GetDefaultBranch, ResolveBranchHead, ResolveTag, ResolveTagNotFound,
           PeelAnnotatedTag, ListTags, WarnNewer, FetchArchive, ExtractEntry,
           RejectEntry, LoadCatalogAndDeps, RejectCatalog, Close,
           ListTagsFails, RequestFails, ExtractFails, Crash
  <1>. QED
    BY <1>1, <1>2, <1>3, <1>4, PlacesAreNumbers

\* Tags move to later places when one is published; a page is the last one only
\* when no tag is behind it.
LEMMA NextNoneSkipped ==
    ASSUME Inv, [Next]_vars
    PROVE  NoneSkipped'
  <1>1. /\ FetchTypeOK /\ Contiguous /\ NoneSkipped
    BY DEF Inv, FetchInv
  <1>2. /\ \A t \in Tags : pos[t] \in Nat
        /\ steady \subseteq Stable /\ listed \in Nat /\ VersionOf(latest) \in Nat
    BY <1>1, VersionOfTyped DEF FetchTypeOK
  <1>3. CASE ListTags
    <2> SUFFICES ASSUME ~withdrawn, NEW t \in steady,
                        ~(Version[t] <= VersionOf(latest'))
                 PROVE  pc' = "list" /\ pos[t] > listed + PerPage
      <3>1. /\ pc' \in {"list", "compare"} /\ listed' = listed + PerPage
            /\ steady' = steady /\ withdrawn' = withdrawn /\ pos' = pos
        BY <1>3 DEF ListTags, Go, store, history
      <3>2. VersionOf(latest)' = VersionOf(latest')
        BY DEF VersionOf
      <3>. QED
        BY <3>1, <3>2 DEF NoneSkipped
    <2>1. /\ latest' \in StableAmong(Page) \cup {latest}
          /\ \A u \in StableAmong(Page) \cup {latest} : ~Newer(u, latest')
      BY <1>3 DEF ListTags, IsLatest
    <2>2. latest' \in Tags \cup {None} /\ VersionOf(latest') \in Nat
      <3>1. latest' \in Tags \cup {None}
        BY <1>1, <2>1 DEF FetchTypeOK, StableAmong
      <3>2. \A u \in Tags \cup {None} : VersionOf(u) \in Nat
        BY VersionOfTyped
      <3>. QED
        BY <3>1, <3>2
    <2>3. t \in Stable /\ t \in Tags /\ VersionOf(t) > VersionOf(latest')
      BY <1>2, <2>2, VersionOfTyped
    <2>4. t \notin Page
      BY <2>1, <2>3 DEF Newer, StableAmong
    <2>5. VersionOf(latest) <= VersionOf(latest')
      <3>1. ~Newer(latest, latest')
        BY <2>1
      <3>2. ~(VersionOf(latest) > VersionOf(latest'))
        BY <3>1 DEF Newer
      <3>. QED
        BY <1>2, <2>2, <3>2
    <2>6. pos[t] > listed
      <3>1. ~(Version[t] <= VersionOf(latest))
        BY <1>2, <2>2, <2>3, <2>5, VersionOfTyped
      <3>. QED
        BY <1>1, <1>3, <3>1 DEF NoneSkipped, ListTags, Go
    <2>7. pos[t] > listed + PerPage
      BY <1>2, <2>3, <2>4, <2>6 DEF Page, Published
    <2>8. ~LastPage
      <3>1. listed + PerPage \in 1 .. pos[t]
        BY <1>2, <2>3, <2>7
      <3>. QED
        BY <1>1, <2>3, <3>1 DEF Contiguous, LastPage
    <2>. QED
      BY <1>3, <2>7, <2>8 DEF ListTags, Go
  <1>4. CASE ResolveBranchHead \/ ResolveTag \/ PeelAnnotatedTag
    <2>1. listed' = listed /\ pos' = pos /\ listed = 0
      BY <1>1, <1>4
      DEF NoneSkipped, ResolveBranchHead, ResolveTag, PeelAnnotatedTag, listing, store
    <2>2. pc' \in {"list", "archive", "peel"} /\ (pc' = "list" => steady' \subseteq Published)
      BY <1>4
      DEF ResolveBranchHead, ResolveTag, PeelAnnotatedTag, Resolved, StableAmong
    <2>. QED
      BY <2>1, <2>2 DEF NoneSkipped, Published
  <1>5. CASE \E t \in Tags \cup {None}, o \in Objects : Start(t, o)
    BY <1>5 DEF Start, Go, NoneSkipped
  <1>6. ASSUME NEW t \in Tags, NEW k \in 1 .. Cardinality(Tags), PublishTag(t, k)
        PROVE  NoneSkipped'
    <2>1. \A u \in steady : pos[u] > listed => pos'[u] > listed
      BY <1>1, <1>2, <1>6, PlacesAreNumbers DEF PublishTag, FetchTypeOK
    <2>. QED
      BY <1>1, <1>6, <2>1
      DEF NoneSkipped, PublishTag, Maintainer, VersionOf, listing
  <1>7. CASE \E t \in Tags : DeleteTag(t)
    BY <1>1, <1>7 DEF NoneSkipped, DeleteTag, Maintainer, listing
  <1>8. CASE \E o \in Objects : Move(o)
    BY <1>1, <1>8 DEF NoneSkipped, Move, Maintainer, VersionOf, listing
  <1>9. CASE UNCHANGED vars
    BY <1>1, <1>9 DEF NoneSkipped, VersionOf, vars, store, listing, history
  <1>10. CASE GetDefaultBranch
    BY <1>1, <1>10 DEF NoneSkipped, GetDefaultBranch, Go, listing
  <1>11. CASE pc' \in {"idle", "archive", "extract", "use"}
    BY <1>11 DEF NoneSkipped
  <1>12. WarnNewer \/ FetchArchive \/ (\E e \in todo : ExtractEntry(e))
           \/ RejectEntry \/ LoadCatalogAndDeps \/ RejectCatalog \/ Close
           \/ ResolveTagNotFound
           \/ ListTagsFails \/ RequestFails \/ ExtractFails \/ Crash
         => pc' \in {"idle", "archive", "extract", "use"}
    BY DEF WarnNewer, FetchArchive, ExtractEntry, RejectEntry, LoadCatalogAndDeps,
           RejectCatalog, Close, ResolveTagNotFound, ListTagsFails, RequestFails,
           ExtractFails, Crash, Fail, FailAndCleanUp, Go
  <1>. QED
    BY <1>3, <1>4, <1>5, <1>6, <1>7, <1>8, <1>9, <1>10, <1>11, <1>12
    DEF Next, ClientStep

\* The commit is fixed once it is looked up, and what the request pointed to
\* during the run is never forgotten.
LEMMA NextPinned ==
    ASSUME Inv, [Next]_vars
    PROVE  Pinned'
  <1>1. FetchTypeOK /\ Pinned
    BY DEF Inv, FetchInv
  <1> USE DEF Pinned
  <1>2. ASSUME NEW t \in Tags \cup {None}, NEW o \in Objects, Start(t, o)
        PROVE  Pinned'
    BY <1>2 DEF Start, Go
  <1>3. CASE \/ \E t \in Tags, k \in 1 .. Cardinality(Tags) : PublishTag(t, k)
             \/ \E t \in Tags : DeleteTag(t)
    BY <1>1, <1>3 DEF PublishTag, DeleteTag, Maintainer, ref
  <1>4. ASSUME NEW o \in Objects, Move(o)
        PROVE  Pinned'
    BY <1>1, <1>4 DEF Move, Maintainer, ref
  <1>5. CASE UNCHANGED vars
    BY <1>1, <1>5 DEF vars, store, ref, history
  <1>6. CASE GetDefaultBranch
    BY <1>1, <1>6 DEF GetDefaultBranch, Go, store, ref, history
  <1>7. CASE ResolveBranchHead
    BY <1>1, <1>7 DEF ResolveBranchHead, Resolved, store
  <1>8. CASE ResolveTag
    <2>1. CASE target \in Commits
      BY <1>1, <1>8, <2>1, CommitOfTyped DEF ResolveTag, Resolved, store
    <2>2. CASE target \notin Commits
      BY <1>1, <1>8, <2>2 DEF ResolveTag, store, history, Objects
    <2>. QED
      BY <2>1, <2>2
  <1>9. CASE PeelAnnotatedTag
    BY <1>1, <1>9, CommitOfTyped DEF PeelAnnotatedTag, Resolved, store
  <1>10. CASE ListTags \/ WarnNewer \/ FetchArchive \/ (\E e \in todo : ExtractEntry(e))
              \/ LoadCatalogAndDeps \/ ListTagsFails
    BY <1>1, <1>10
    DEF ListTags, WarnNewer, FetchArchive, ExtractEntry, LoadCatalogAndDeps,
        ListTagsFails, Go, store, ref, history
  <1>11. RejectEntry \/ RejectCatalog \/ Close \/ ResolveTagNotFound
           \/ RequestFails \/ ExtractFails \/ Crash => pc' = "idle"
    BY DEF RejectEntry, RejectCatalog, Close, ResolveTagNotFound, RequestFails,
           ExtractFails, Crash, Fail, FailAndCleanUp, Go
  <1>. QED
    BY <1>2, <1>3, <1>4, <1>5, <1>6, <1>7, <1>8, <1>9, <1>10, <1>11
    DEF Next, ClientStep

\* What is extracted and what is still to come are the archive together, and the
\* directory is there as long as it is used.
LEMMA NextExtracted ==
    ASSUME Inv, [Next]_vars
    PROVE  PartlyExtracted'
  <1>1. FetchTypeOK /\ PartlyExtracted
    BY DEF Inv, FetchInv
  <1> USE DEF PartlyExtracted, Go, store, ref, listing, extractor, history
  <1>2. CASE \E t \in Tags \cup {None}, o \in Objects : Start(t, o)
    BY <1>2 DEF Start
  <1>3. CASE \/ \E t \in Tags, k \in 1 .. Cardinality(Tags) : PublishTag(t, k)
             \/ \E t \in Tags : DeleteTag(t)
             \/ \E o \in Objects : Move(o)
    BY <1>1, <1>3 DEF PublishTag, DeleteTag, Move, Maintainer
  <1>4. CASE UNCHANGED vars
    BY <1>1, <1>4 DEF vars
  <1>5. CASE GetDefaultBranch \/ ListTags \/ WarnNewer \/ ListTagsFails
    BY <1>1, <1>5 DEF GetDefaultBranch, ListTags, WarnNewer, ListTagsFails
  <1>6. CASE ResolveBranchHead \/ ResolveTag \/ PeelAnnotatedTag
    BY <1>1, <1>6 DEF ResolveBranchHead, ResolveTag, PeelAnnotatedTag, Resolved
  <1>7. CASE FetchArchive
    BY <1>1, <1>7 DEF FetchArchive
  <1>8. ASSUME NEW e \in todo, ExtractEntry(e)
        PROVE  PartlyExtracted'
    BY <1>1, <1>8 DEF ExtractEntry
  <1>9. CASE LoadCatalogAndDeps
    BY <1>1, <1>9 DEF LoadCatalogAndDeps
  <1>10. CASE RejectEntry \/ RejectCatalog \/ Close
    <2>1. pc' = "idle" /\ RemoveTempDir
      BY <1>10 DEF RejectEntry, RejectCatalog, Close, Fail, FailAndCleanUp
    <2>2. tmp' => lost'
      BY <2>1, Zenon DEF RemoveTempDir
    <2>. QED
      BY <2>1, <2>2
  <1>11. CASE ExtractFails
    <2>1. pc' = "idle"
      BY <1>11 DEF ExtractFails, Fail
    <2>2. tmp' => lost'
      BY <1>11, Zenon DEF ExtractFails
    <2>. QED
      BY <2>1, <2>2
  <1>12. CASE RequestFails \/ ResolveTagNotFound \/ Crash
    BY <1>1, <1>12 DEF RequestFails, ResolveTagNotFound, Crash, Fail
  <1>. QED
    BY <1>2, <1>3, <1>4, <1>5, <1>6, <1>7, <1>8, <1>9, <1>10, <1>11, <1>12
    DEF Next, ClientStep

\* The comparison is made with the latest of all pages.
LEMMA NextWarns ==
    ASSUME Inv, [Next]_vars
    PROVE  WarnsAboutNewer'
  <1>1. FetchTypeOK /\ NoneSkipped /\ Pinned /\ WarnsAboutNewer
    BY DEF Inv, FetchInv
  <1>2. CASE \E t \in Tags \cup {None}, o \in Objects : Start(t, o)
    BY <1>2 DEF Start, WarnsAboutNewer
  <1>3. CASE WarnNewer
    <2>1. /\ requested \in Tags /\ requested' = requested /\ steady' = steady
          /\ withdrawn' = withdrawn /\ latest' = latest
          /\ warned' = (VersionOf(requested) < VersionOf(latest))
      BY <1>1, <1>3 DEF WarnNewer, Go, Pinned, FetchTypeOK, ref, history
    <2>2. VersionOf(requested) = Version[requested] /\ Version[requested] \in Nat
      BY <2>1, VersionOfTyped
    <2>3. ASSUME ~withdrawn, NEW t \in steady, Version[t] > Version[requested]
          PROVE  warned'
      <3>1. Version[t] <= VersionOf(latest) /\ t \in Tags
        BY <1>1, <1>3, <2>3 DEF NoneSkipped, WarnNewer, Go, FetchTypeOK
      <3>2. VersionOf(latest) \in Nat /\ Version[t] \in Nat
        BY <1>1, <3>1, VersionOfTyped DEF FetchTypeOK
      <3>3. VersionOf(requested) < VersionOf(latest)
        BY <2>2, <2>3, <3>1, <3>2
      <3>. QED
        BY <2>1, <3>3, Zenon
    <2>4. ASSUME warned'
          PROVE  latest \in Stable /\ Version[latest] > Version[requested]
      <3>1. VersionOf(requested) < VersionOf(latest)
        BY <2>1, <2>4
      <3>2. latest # None
        BY <2>2, <3>1, VersionOfTyped
      <3>3. latest \in Stable /\ VersionOf(latest) = Version[latest]
              /\ Version[latest] \in Nat
        BY <1>1, <3>2, VersionOfTyped DEF FetchTypeOK
      <3>. QED
        BY <2>2, <3>1, <3>3
    <2>. QED
      BY <2>1, <2>3, <2>4 DEF WarnsAboutNewer
  <1>4. CASE checked' = FALSE
    BY <1>4 DEF WarnsAboutNewer
  <1>5. CASE /\ UNCHANGED <<requested, latest, warned, checked, steady>>
             /\ withdrawn' = withdrawn \/ withdrawn' = TRUE
    BY <1>1, <1>5 DEF WarnsAboutNewer
  <1>6. CASE GetDefaultBranch \/ ResolveBranchHead \/ ResolveTag
             \/ PeelAnnotatedTag \/ ListTags
    <2>1. pc \in {"branch", "ref", "peel", "list"} /\ checked' = checked
      BY <1>6
      DEF GetDefaultBranch, ResolveBranchHead, ResolveTag, PeelAnnotatedTag,
          ListTags, Go, listing
    <2>2. ~checked'
      BY <2>1, Zenon DEF Inv, FetchInv, NotYetChecked
    <2>. QED
      BY <2>2 DEF WarnsAboutNewer
  <1>7. CASE \/ FetchArchive \/ (\E e \in todo : ExtractEntry(e)) \/ RejectEntry
             \/ LoadCatalogAndDeps \/ RejectCatalog \/ Close \/ ResolveTagNotFound
             \/ ListTagsFails \/ RequestFails \/ ExtractFails \/ Crash
             \/ UNCHANGED vars
    BY <1>5, <1>7
    DEF FetchArchive, ExtractEntry, RejectEntry, LoadCatalogAndDeps, RejectCatalog,
        Close, ResolveTagNotFound, ListTagsFails, RequestFails, ExtractFails, Crash,
        Fail, FailAndCleanUp, vars, ref, listing, history
  <1>8. CASE \/ \E t \in Tags, k \in 1 .. Cardinality(Tags) : PublishTag(t, k)
             \/ \E t \in Tags : DeleteTag(t)
             \/ \E o \in Objects : Move(o)
    BY <1>5, <1>8 DEF PublishTag, DeleteTag, Move, Maintainer, ref, listing
  <1>. QED
    BY <1>2, <1>3, <1>6, <1>7, <1>8 DEF Next, ClientStep

LEMMA NextNotYetChecked ==
    ASSUME Inv, [Next]_vars
    PROVE  NotYetChecked'
  <1>1. NotYetChecked
    BY DEF Inv, FetchInv
  <1>2. CASE pc' \notin {"branch", "ref", "peel", "list", "compare"}
    BY <1>2 DEF NotYetChecked
  <1>3. CASE pc' \in {"branch", "ref", "peel", "list", "compare"}
    <2>1. CASE \E t \in Tags \cup {None}, o \in Objects : Start(t, o)
      BY <2>1 DEF Start, NotYetChecked
    <2>2. CASE ClientStep
      BY <1>1, <1>3, <2>2
      DEF NotYetChecked, ClientStep, GetDefaultBranch, ResolveBranchHead, ResolveTag,
          ResolveTagNotFound, PeelAnnotatedTag, ListTags, WarnNewer, FetchArchive,
          ExtractEntry, RejectEntry, LoadCatalogAndDeps, RejectCatalog, Close,
          Fail, FailAndCleanUp, Go, listing
    <2>3. CASE \/ ListTagsFails \/ RequestFails \/ ExtractFails \/ Crash
      BY <1>3, <2>3 DEF ListTagsFails, RequestFails, ExtractFails, Crash, Fail, Go
    <2>4. CASE \/ \E t \in Tags, k \in 1 .. Cardinality(Tags) : PublishTag(t, k)
               \/ \E t \in Tags : DeleteTag(t)
               \/ \E o \in Objects : Move(o)
               \/ UNCHANGED vars
      BY <1>1, <2>4
      DEF NotYetChecked, PublishTag, DeleteTag, Move, Maintainer, listing, vars
    <2>. QED
      BY <2>1, <2>2, <2>3, <2>4 DEF Next
  <1>. QED
    BY <1>2, <1>3

LEMMA NextSnapshotPinned ==
    ASSUME Inv, [Next]_vars
    PROVE  SnapshotIsPinned'
  <1>1. Pinned /\ PartlyExtracted /\ SnapshotIsPinned
    BY DEF Inv, FetchInv
  <1>2. CASE pc' # "use"
    BY <1>2 DEF SnapshotIsPinned
  <1>3. CASE LoadCatalogAndDeps
    BY <1>1, <1>3
    DEF SnapshotIsPinned, Pinned, PartlyExtracted, LoadCatalogAndDeps, Go,
        ref, extractor, history
  <1>4. CASE UNCHANGED vars
    BY <1>1, <1>4 DEF SnapshotIsPinned, vars, ref, extractor, history
  <1>5. Next /\ pc' = "use" => LoadCatalogAndDeps
    BY DEF Next, ClientStep, Start, GetDefaultBranch, ResolveBranchHead, ResolveTag,
           ResolveTagNotFound, PeelAnnotatedTag, Resolved, ListTags, WarnNewer,
           FetchArchive, ExtractEntry, RejectEntry, RejectCatalog, Close, Fail,
           FailAndCleanUp, ListTagsFails, RequestFails, ExtractFails, Crash,
           PublishTag, DeleteTag, Move, Maintainer, Go
  <1>. QED
    BY <1>2, <1>3, <1>4, <1>5

-----------------------------------------------------------------------------
(* The theorems. *)

LEMMA InvInvariant == Spec => []Inv
  <1>1. Inv /\ [Next]_vars => Inv'
    <2> SUFFICES ASSUME Inv, [Next]_vars PROVE Inv'
      OBVIOUS
    <2>1. FetchTypeOK /\ Distinct /\ Contiguous
      BY DEF Inv, FetchInv
    <2>. QED
      BY <2>1, NextTyped, NextContiguous, NextNoneSkipped, NextNotYetChecked,
         NextPinned, NextExtracted, NextWarns, NextSnapshotPinned
      DEF Inv, FetchInv
  <1>. QED
    BY InitInv, <1>1, PTL DEF Spec

\* Every variable of a fetch keeps its type; no archive is extracted beyond the
\* limit, whatever its entries.
THEOREM FetchTypeCorrect == Spec => []FetchTypeOK
  <1>1. Inv => FetchTypeOK
    BY DEF Inv
  <1>. QED
    BY InvInvariant, <1>1, PTL

\* The invariant that relates the pages read, the commit and the directory, for
\* any store and any number of changes and faults.
THEOREM FetchInvariant == Spec => []FetchInv
  <1>1. Inv => FetchInv
    BY DEF Inv
  <1>. QED
    BY InvInvariant, <1>1, PTL

\* No newer stable tag is missed, for any number of tags and any size of a page.
THEOREM AlwaysWarnsAboutNewer == Spec => []WarnsAboutNewer
  <1>1. FetchInv => WarnsAboutNewer
    BY DEF FetchInv
  <1>. QED
    BY FetchInvariant, <1>1, PTL

\* Every snapshot that is used is one commit the request pointed to, whole.
THEOREM SnapshotAlwaysPinned == Spec => []SnapshotIsPinned
  <1>1. FetchInv => SnapshotIsPinned
    BY DEF FetchInv
  <1>. QED
    BY FetchInvariant, <1>1, PTL

\* No run that ends leaves its directory behind, except after a failed removal
\* or a kill.
THEOREM NothingEverLeftBehind == Spec => []NothingLeftBehind
  <1>1. FetchInv => NothingLeftBehind
    BY DEF FetchInv, PartlyExtracted, NothingLeftBehind
  <1>. QED
    BY FetchInvariant, <1>1, PTL
=============================================================================
