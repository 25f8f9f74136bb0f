CONSTANTS
    bun = bun
    lint = lint
    lintBun = lintBun
    useNpm = useNpm
    useBun = useBun
    None = None
    Modules <- MCModules
    Parent <- MCParent
    Managers = {useNpm, useBun}
    Variant <- MCVariant
    Names = {"bun", "lint"}
    Directory <- MCDirectory
    Tasks = {bun, lint}
    MaxDeps = 3
SPECIFICATION FairSpec
CHECK_DEADLOCK FALSE
INVARIANTS
    ResolveTypeOK
    ResolveInv
    CopiesWhatIsNeeded
    NeverCopiesACycle
    FailsForAReason
    ReportsTheCycle
    IncludesLeadToTheCopies
    AsksForItsVariant
PROPERTY ResolutionEnds
