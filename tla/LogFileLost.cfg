SPECIFICATION Spec
CONSTANTS
    c1 = c1
    Compactors = {c1}
    Threshold = 2
    Keep = 1
    SegmentRows = 6
    MaxTurns = 4
    MaxFaults = 0
    MaxCrashes = 0
INVARIANT WrittenSurvives
