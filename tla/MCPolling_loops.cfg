SPECIFICATION Spec
CONSTANTS
    Second = 2
    InitialDelay = 1
    MaxDelay = 4
    MaxWait = 8
    RequestTime = 2
    MaxNeeded = 16
INVARIANTS TypeOK OneBudget HonestTimeout
PROPERTIES LocationKept
