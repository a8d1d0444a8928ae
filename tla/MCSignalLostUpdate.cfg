SPECIFICATION Spec
CONSTANTS
    u1 = u1
    s1 = s1
    btc = btc
    Workers = {w1, w2}
    Users = {u1}
    Signals = {s1, s2}
    Accounts = {a1}
    Symbols = {btc}
    SignalOwner <- MCOwner
    AccountOwner <- MCAccountOwner
    SignalSpec <- MCBuys
    ClientOrderId <- DistinctIds
    RiskPatches <- JustEnabled
    NoRow = NoRow
    CrashAllowed = FALSE
INVARIANT PositionMatchesFills
