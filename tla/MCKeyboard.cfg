CONSTANTS
    NumTasks = 1
    QueueCapacity = 3
    ScancodeCapacity = 2
    MaxPresses = 6
SPECIFICATION KFairSpec
INVARIANTS KTypeOK NoLostWakeup WakeNeverFrees
PROPERTIES ImplementsChannel DeliversAll
