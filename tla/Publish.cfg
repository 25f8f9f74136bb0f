CONSTANTS
    r1 = r1
    r2 = r2
    main = main
    dev = dev
    None = None
    Runs = {r1, r2}
    Refs = {main}
    BaseOf <- OnMain
    FullClone = TRUE
    Reruns = TRUE
    MaxVersion = 2
    MaxEdits = 2
    MaxFaults = 1
SPECIFICATION FairSpec
INVARIANTS PublishTypeOK VersionsOrdered
PROPERTIES NoDowngrade MergesMoveForward Converges
