SPECIFICATION LoopSpec
CONSTANTS
    MaxSteps = 2
    MaxParallel = 1
    MaxRetries = 1
    MaxExtensions = 1
    MaxTurns = 1
    MaxAttempts = 5
    MaxCalls = 1
    MaxSteers = 2
    MaxCrashes = 1
CHECK_DEADLOCK FALSE
INVARIANT CompletedIsAnswered
INVARIANT BudgetCountsSteps
INVARIANT CallsAreBounded
PROPERTY CancelEnds
