SPECIFICATION Spec
CONSTANTS
    Callers = {a, b, c}
    Cron = a
    Fills <- EqualFills
    NoCaller = NoCaller
    NoResult = NoResult
    MaxFaults = 1
INVARIANTS
    TypeOK
    SingleFlight
    UniqueOrderId
    Accounted
PROPERTIES
    FetchesAreSpaced
    ImplementsLedger
