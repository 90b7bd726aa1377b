SPECIFICATION Spec
CONSTANTS
    MaxSteps = 0
    MaxParallel = 2
    MaxRetries = 0
    MaxExtensions = 0
    MaxTurns = 2
    MaxAttempts = 2
    MaxCalls = 3
    MaxSteers = 0
    MaxCrashes = 0
CHECK_DEADLOCK FALSE
INVARIANT RequestValid
PROPERTY ImplementsProtocol
