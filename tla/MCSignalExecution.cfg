SPECIFICATION FairSpec
CONSTANTS
    u1 = u1
    s1 = s1
    btc = btc
    Workers = {w1, w2}
    Users = {u1}
    Signals = {s1, s2}
    Accounts = {a1}
    Symbols = {btc}
    SignalOwner <- MCOwner
    AccountOwner <- MCAccountOwner
    SignalSpec <- MCSignalSpec
    ClientOrderId <- DistinctIds
    RiskPatches <- JustLimited
    NoRow = NoRow
    CrashAllowed = TRUE
INVARIANTS
    TypeOK
    AtMostOnePlacement
    PlacementIsRecorded
    TrailSound
    StopCutsOff
    PositionExplained
PROPERTIES OrphansStayPut SettlesOrOrphaned ImplementsOrderOnce
