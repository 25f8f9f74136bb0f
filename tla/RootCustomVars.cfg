CONSTANTS
    go = go
    eslint = eslint
    x = x
    y = y
    z = z
    lint = lint
    Tasks = {go, eslint}
    Vars = {x, y, z}
    Names = {lint}
    Targets = {"taskfiles", "tools"}
    Metadata = {go, eslint}
    MetadataOf <- MCMetadataOf
    Releases = {1, 2}
    ModuleVars <- MCModuleVars
    BlockVars <- MCBlockVars
    Exports <- MCExports
    Configs <- MCConfigs
    Foreign = Foreign
    NoPath = NoPath
    NoEntry = NoEntry
    NoTask = NoTask
    ByUser = ByUser
    None = None
    MaxEdits = 3
    MaxFaults = 0
SPECIFICATION Spec
PROPERTY CustomValuesKept
