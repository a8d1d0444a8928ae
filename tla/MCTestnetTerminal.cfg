SPECIFICATION Spec
CONSTANTS
    o1 = o1
    o2 = o2
    Orders = {o1}
    Submitters = {p1}
    Reconcilers = {r1}
    Streams = {}
    LimitsPass <- AllPass
    MaxMessages = 1
    MaxReconnects = 0
    Endings = {"FILLED", "CANCELED", "REJECTED", "EXPIRED"}
    StopUsed = TRUE
    Modes = {"SIMULATION", "TESTNET"}
    ReplayUsed = TRUE
    NoOrder = NoOrder
    CrashAllowed = FALSE
PROPERTY TerminalIsFinal
