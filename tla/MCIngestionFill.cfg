SPECIFICATION Spec
CONSTANTS
    Events <- MCEvents
    Orders = {"o1"}
    Books = {"b1"}
    Messages <- TestMessages
    Garbage = Garbage
    NoOrder = NoOrder
    NoStatus = NoStatus
    MaxSent = 1
    MaxFaults = 0
INVARIANTS
    FilledOrdersShowTheFill
CHECK_DEADLOCK FALSE
