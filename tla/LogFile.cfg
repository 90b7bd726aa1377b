SPECIFICATION Spec
CONSTANTS
    c1 = c1
    Compactors = {c1}
    Threshold = 2
    Keep = 1
    SegmentRows = 7
    MaxTurns = 7
    MaxFaults = 1
    MaxCrashes = 1
INVARIANT RestartShowsMirror
INVARIANT WrittenSurvivesApart
INVARIANT TurnIdsIncreaseApart
