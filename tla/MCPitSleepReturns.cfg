CONSTANTS
    NumSleeps = 2
    MaxMs = 3
    AwakeTicks = 2
SPECIFICATION FairSleepSpec
PROPERTY SleepReturns
