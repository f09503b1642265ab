CONSTANTS
    NumSleeps = 2
    MaxMs = 3
    AwakeTicks = 2
    WordMax = 15
    SlpEn = 8
    Values = {5, 9, 20}
    Addresses = {4, 16}
SPECIFICATION KernelSpec
INVARIANTS SleepTypeOK FailureRunsWake SleepOnlyPrepared
PROPERTIES SleepIsExact SleepReturnsUndisturbed
