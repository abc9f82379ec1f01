SPECIFICATION FairSpec
CONSTANTS
    s1 = s1
    s2 = s2
    m1 = m1
    m2 = m2
    NoScheduler = NoScheduler
    N = 2
    Scheduler <- OneScheduler
    Owned <- OneScheduler
    Maintainer <- OneMaintainer
    Shared = TRUE
    RequireRecord = FALSE
    Timeout = 1
    KeepAge = 1
    KeepCount = 1
    MainKeepAge = 1
    MainKeepCount = 1
    MaxClock = 1
    MaxFaults = 0
PROPERTIES
    CountLimitKeepsNewest
