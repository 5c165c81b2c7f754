SPECIFICATION Spec
CONSTANTS
    Files <- Single
    Portfolio = "P"
    Quantities = {}
    NoJob = NoJob
    NoPosition = NoPosition
    NoPreview = NoPreview
    Gone = Gone
    MaxOps = 2
    MaxPreviews = 1
    MaxFaults = 0
INVARIANTS
    UploadsSkipDuplicates
CHECK_DEADLOCK FALSE
