SPECIFICATION FairSpec
CONSTANTS
    Workers = {w1, w2}
    Accounts = {a1}
    Rules = 2
    IpScoped = {2}
    Limit <- MCLimit
    Interval <- MCInterval
    Global = Global
    FailuresAllowed = TRUE
INVARIANT TypeOK
PROPERTIES WindowSpacing WindowCloses
