CONSTANTS
    NumTasks = 4
    QueueCapacity = 3
SPECIFICATION FairSpec
INVARIANTS TypeOK NoSleepWithWork NoOrphanTask PolledTaskIsLive
PROPERTY WokenTaskIsPolled
