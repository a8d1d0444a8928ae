SPECIFICATION Spec
CONSTANTS
    o1 = o1
    o2 = o2
    Orders = {o1}
    Submitters = {p1}
    Reconcilers = {r1}
    Streams = {c1}
    LimitsPass <- AllPass
    MaxMessages = 2
    MaxReconnects = 1
    Endings = {"FILLED", "CANCELED"}
    StopUsed = FALSE
    Modes = {"TESTNET"}
    ReplayUsed = FALSE
    NoOrder = NoOrder
    CrashAllowed = FALSE
INVARIANTS
    TypeOK
    NeverAheadOfExchange
    TrailMatchesStatus
PROPERTY ImplementsOrderOnce
