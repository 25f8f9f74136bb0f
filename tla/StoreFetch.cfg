CONSTANTS
    c1 = c1
    c2 = c2
    c3 = c3
    annotated = annotated
    nested = nested
    file = file
    big = big
    link = link
    Tags = {1, 2, 3}
    Version <- MCVersion
    Stable = {1, 3}
    PerPage = 2
    Commits = {c1, c2, c3}
    TagObjects = {annotated, nested}
    Peeled <- MCPeeled
    CommitOf <- MCCommitOf
    Entries = {file, big, link}
    EntriesOf <- MCEntriesOf
    Size <- MCSize
    Unsupported = {link}
    Loadable = {c1, c2}
    MaxFileBytes = 2
    MaxTotalExtracted = 2
    None = None
    MaxEdits = 2
    MaxFaults = 1
SPECIFICATION FairSpec
INVARIANTS
    FetchTypeOK
    FetchInv
    WarnsAboutNewer
    SnapshotIsPinned
    NothingLeftBehind
PROPERTIES
    FetchEnds
