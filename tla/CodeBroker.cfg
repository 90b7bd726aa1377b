SPECIFICATION BrokerSpec
CONSTANTS
    MaxSubCalls = 2
    MaxLines = 4
CHECK_DEADLOCK FALSE
INVARIANT VerdictIsTrue
INVARIANT EffectsEnd
PROPERTY CallReturns
