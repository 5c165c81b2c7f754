SPECIFICATION FairSpec
CONSTANTS
    Events <- MCEvents
    Orders = {"o1"}
    Books = {"b1"}
    Messages <- MCMessages
    Garbage = Garbage
    NoOrder = NoOrder
    NoStatus = NoStatus
    MaxSent = 3
    MaxFaults = 2
INVARIANTS
    TypeOK
    HistoryInOrder
    PositionsMatchExecutions
    OrdersShowLastEvent
PROPERTIES
    MessagesAreReceived
CHECK_DEADLOCK FALSE
