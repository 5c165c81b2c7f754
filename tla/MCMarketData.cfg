SPECIFICATION FairSpec
CONSTANTS
    Threads = {"t", "u"}
    Symbols = {"a", "b"}
    Lists <- MCLists
    Bundles <- MCBundles
    Requests <- MCRequests
    NoQuote = NoQuote
    NoBars = NoBars
    MaxEvents = 1
INVARIANTS
    TypeOK
    MissingForCause
    EmptyForCause
PROPERTIES
    EmptyReplacesOnlyNewer
    HistoryRecovers
