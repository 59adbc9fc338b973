CONSTANTS
    Emails = {e1}
    Workers = {w1, w2}
    MaxRetries = 1
    SweepMaxAttempts = 2
    MaxQueue = 1
    MaxFaults = 2
    MaxResends = 1
SPECIFICATION QueueFairSpec
INVARIANTS
    LogIsTrue
PROPERTIES
    QueuedIsTried
    SecretIsWiped
CHECK_DEADLOCK FALSE
