CONSTANTS
    r1 = r1
    r2 = r2
    main = main
    dev = dev
    None = None
    Runs = {r1}
    Refs = {main}
    BaseOf <- OnMain
    FullClone = TRUE
    Reruns = FALSE
    MaxVersion = 1
    MaxEdits = 1
    MaxFaults = 0
SPECIFICATION FairSpec
PROPERTY ForeignCommitsKept
