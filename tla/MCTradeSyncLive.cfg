SPECIFICATION FairSpec
CONSTANTS
    Callers = {a, b}
    Cron = a
    Fills <- ClosedFills
    NoCaller = NoCaller
    NoResult = NoResult
    MaxFaults = 1
PROPERTIES
    CallersAreAnswered
    ReportsAreRecorded
