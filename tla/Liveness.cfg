SPECIFICATION FairSpec
CONSTANTS
    s1 = s1
    s2 = s2
    m1 = m1
    m2 = m2
    NoScheduler = NoScheduler
    N = 1
    Scheduler <- TwoSchedulers
    Owned <- OneScheduler
    Maintainer <- TwoMaintainers
    Shared = TRUE
    RequireRecord = FALSE
    Timeout = 0
    KeepAge = 0
    KeepCount = 1
    MainKeepAge = 0
    MainKeepCount = 1
    MaxClock = 1
    MaxFaults = 1
INVARIANTS
    PublishOnce
    NothingLost
PROPERTIES
    Implements
    FirstOutcomeStands
    EventuallyClosed
    EventuallyDelivered
