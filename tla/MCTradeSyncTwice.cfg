SPECIFICATION Spec
CONSTANTS
    Callers = {a}
    Cron = a
    Fills <- EqualFills
    NoCaller = NoCaller
    NoResult = NoResult
    MaxFaults = 0
INVARIANTS
    OneRowPerFill
