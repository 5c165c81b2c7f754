SPECIFICATION Spec
CONSTANTS
    Accounts = {P, I}
    Ibkr = I
    All = All
    Symbols = {s}
    Price <- MCPrice
    Held <- MCHeld
    Quantities = {1, 2}
    Loop = loop
    Requests = {request}
    Null = Null
    NoRow = NoRow
    NoSnap = NoSnap
    MaxEvents = 0
PROPERTIES
    LiveNavIsKept
CHECK_DEADLOCK FALSE
