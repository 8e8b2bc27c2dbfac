SPECIFICATION Spec
CONSTANTS
    Second = 5
    MaxDuration = 255
    Base = 2
    Cap = 6
    RetryAfterCeiling = 60
    Multiplier = 2
    MaxAttempts = 4
    Headers <- AllHeaders
INVARIANTS TooLongFails
