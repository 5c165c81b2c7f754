SPECIFICATION FairSpec
CONSTANTS
    Workers = {w}
    Keeper = k
    Delay = 1
    Retries = 1
    Polls = 2
    MaxEvents = 2
INVARIANTS
    TypeOK
    OneRoundHeals
    EmptyForCause
PROPERTIES
    SpacedUnlessOverlapping
    LiveSessionIsKept
    SessionHeals
    EveryCallReturns
