SPECIFICATION FairSpec
CONSTANTS
    Threads = {t1, t2}
    Monitor = m
    Channels = {"telegram", "email"}
    Throttle = 3
    Interval = 2
    Configs <- MCConfigs
INVARIANT TypeOK
PROPERTIES AlertsAreSpaced DownIsReported
CHECK_DEADLOCK FALSE
