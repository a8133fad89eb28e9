\* Two servers and an importer on a database that any release may have left.
SPECIFICATION DeploySpec
CONSTANTS
    Servers = {s1, s2}
    Importers = {i1}
    Script <- Migrations
    MaxStarts = 3
    NoKey = NoKey
    Files <- Datasets
    CellBatches = 1
SYMMETRY Symmetric
INVARIANTS
    RegisteredInOrder
    ServesCompleteSchema
    SeededTwiceOnlyIfInterrupted
    KeysStable
    OneLoad
    ReportTrue
    MetaIsComplete
PROPERTIES
    ReportsSurvive
CHECK_DEADLOCK FALSE
