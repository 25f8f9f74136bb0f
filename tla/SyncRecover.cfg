CONSTANTS
    a = a
    a1 = a1
    a2 = a2
    v1 = v1
    v2 = v2
    Targets = {1, 2}
    Modules = {a}
    Files = {a1, a2}
    ModuleOf <- MCModuleOf
    Contents = {v1, v2}
    Configs <- BothTargets
    LegacyConfigs <- SecondTarget
    Absent = Absent
    Hand = Hand
    None = None
    FreshCheckout = FALSE
    MaxEdits = 2
    MaxFaults = 2
SPECIFICATION UpgradeSpec
INVARIANT OnlyInterruptedRunsForget
PROPERTY UpgradesRecover
