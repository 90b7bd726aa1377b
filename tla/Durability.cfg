SPECIFICATION Spec
CONSTANTS
    Msg = {m1, m2}
    m1 = m1
    m2 = m2
    MaxTurns = 3
    MaxSwaps = 1
    MaxCrashes = 2
INVARIANT TurnLogWellFormed
INVARIANT DanglingExplained
INVARIANT OpenTurnOnDisk
INVARIANT LaneFIFO
PROPERTY ImplementsDelivery
