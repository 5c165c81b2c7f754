SPECIFICATION FairSpec
CONSTANTS
    Accounts = {P, I}
    Ibkr = I
    All = All
    Symbols = {s}
    Price <- MCPrice
    Held <- MCHeld
    Quantities = {1, 2}
    Loop = loop
    Requests = {request}
    Null = Null
    NoRow = NoRow
    NoSnap = NoSnap
    MaxEvents = 1
INVARIANTS
    TypeOK
PROPERTIES
    PricingKeepsHoldings
    ValuesSettle
    TodayIsRecorded
CHECK_DEADLOCK FALSE
