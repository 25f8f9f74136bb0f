CONSTANTS
    r1 = r1
    r2 = r2
    main = main
    dev = dev
    None = None
    Runs = {r1, r2}
    Refs = {main, dev}
    BaseOf <- OnTwo
    FullClone = TRUE
    Reruns = FALSE
    MaxVersion = 1
    MaxEdits = 0
    MaxFaults = 0
SPECIFICATION FairSpec
INVARIANT OneOpenPR
