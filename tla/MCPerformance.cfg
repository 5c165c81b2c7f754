SPECIFICATION Spec
CONSTANTS
    Symbols = {"x", "y"}
    Orders <- MCOrders
    Flows <- MCFlows
    Quotes <- MCQuotes
    NoBar = NoBar
    NoReturn = NoReturn
    MaxDays = 3
    MaxTrades = 3
    MaxFlows = 1
CHECK_DEADLOCK FALSE
INVARIANTS
    FirstInFirstOut
    ReturnsAreGains
    WindowsAgree
    DrawdownIsDeepest
