SPECIFICATION Spec
CONSTANTS
    a = a
    b = b
    c = c
    c1 = c1
    c2 = c2
    Calls = {c1, c2}
    Targets <- MCTargets
    MaxAttempts = 2
    MaxRetries = 1
    FailureThreshold = 2
INVARIANT TargetsAreBooked
INVARIANT BenchedHasFailed
PROPERTY OutputIsNeverRepeated
PROPERTY CancelledIsReleased
CHECK_DEADLOCK FALSE
