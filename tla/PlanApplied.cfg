SPECIFICATION FairSpec
CONSTANTS
    Originals <- MCOriginals
    Layout <- MCLayout
    Paths <- MCPaths
    Root <- MCRoot
    NoName = NoName
    MaxOperations = 3
    MaxDisturbances = 2
INVARIANTS
    NothingLost
    StagingReported
    RollbackRestores
    ReportIsTrue
PROPERTY
    Finishes
