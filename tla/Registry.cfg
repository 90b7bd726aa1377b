SPECIFICATION CooperativeSpec
CONSTANTS
    s1 = s1
    s2 = s2
    d = d
    Default = d
    Session = {s1, s2}
    Removable = {s1, s2}
    MaxLive = 1
    MaxTurns = 1
INVARIANT SlotMatchesTurn
INVARIANT TurnCap
INVARIANT WorkersHaveHost
PROPERTY WorkSurvives
PROPERTY LiveCap
PROPERTY ChangeArrives
PROPERTY RemovalReturns
