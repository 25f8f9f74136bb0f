CONSTANTS
    a = a
    b = b
    a1 = a1
    a2 = a2
    b1 = b1
    v1 = v1
    v2 = v2
    Targets = {1, 2}
    Modules = {a, b}
    Files = {a1, a2, b1}
    ModuleOf <- MCModuleOf
    Contents = {v1, v2}
    Configs <- AllConfigs
    LegacyConfigs <- OneConfig
    Absent = Absent
    Hand = Hand
    None = None
    FreshCheckout = FALSE
    MaxEdits = 3
    MaxFaults = 0
SPECIFICATION FaultlessSpec
SYMMETRY ContentSymmetry
INVARIANT EngineInv
PROPERTIES
    SecondRunIsUnchanged
    HandWrittenModulesKept
