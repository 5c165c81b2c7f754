SPECIFICATION Spec
CONSTANTS
    Files <- Shelf
    Portfolio = "P"
    Quantities = {0}
    NoJob = NoJob
    NoPosition = NoPosition
    NoPreview = NoPreview
    Gone = Gone
    MaxOps = 2
    MaxPreviews = 2
    MaxFaults = 1
INVARIANTS
    TypeOK
    OneImportPerAccount
    CommitsSkipDuplicates
    PreviewUsedOnce
    SuccessMeansRecorded
    LastSnapshotIsWhole
    OrphansNeedOverlap
CHECK_DEADLOCK FALSE
