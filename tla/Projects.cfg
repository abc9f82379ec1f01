SPECIFICATION FairSpec
CONSTANTS
    None = None
    Unreadable = Unreadable
    p1 = p1
    p2 = p2
    p3 = p3
    A = A
    B = B
    C = C
    D = D
    E = E
    s1 = s1
    s2 = s2
    s3 = s3
    Project <- Projects
    SourceOf <- Sources
    QueueOf <- Queues
    BeatSchedule <- Static
    Declared <- Explicit
    Model <- Models
    AppOf <- Apps
    TaskName <- Names
    Rank <- Ranks
    Scheduler <- Schedulers
    ModelOf <- Rows
    Pk <- Keys
    Authored <- Schedulers
    Order <- Orders
    Disabled <- OnlyS3
    Deletable <- OnlyS1
    Switchable <- Sharing
    Option <- Options
    KeepCount = 0
    N = 1
    MaxTriggers = 1
    MaxSwitches = 2
INVARIANTS
    TypeOK
    Isolation
    PublishedOnce
    ListTellsTheRun
PROPERTIES
    RunsIntended
    OwnEventuallyClosed
    EventuallyPublished
    AskedDeletionSucceeds
CHECK_DEADLOCK FALSE
