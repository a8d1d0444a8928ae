SPECIFICATION Spec
CONSTANTS
    o1 = o1
    o2 = o2
    Orders = {o1, o2}
    Submitters = {p1, p2}
    Reconcilers = {}
    Streams = {}
    LimitsPass <- OnlyFirstPasses
    MaxMessages = 2
    MaxReconnects = 1
    Endings = {"FILLED"}
    StopUsed = TRUE
    Modes = {"SIMULATION", "TESTNET"}
    ReplayUsed = TRUE
    NoOrder = NoOrder
    CrashAllowed = TRUE
INVARIANTS
    AtMostOnePost
    PostIsRecorded
    StopCutsOff
PROPERTY ImplementsOrderOnce
