SPECIFICATION Spec
CONSTANTS
    s1 = s1
    s2 = s2
    Sessions = {s1, s2}
    MaxTurns = 1
    MaxItems = 2
    MaxInputs = 1
    MaxRebuilds = 1
    MaxCrashes = 1
INVARIANT NothingElseIsLost
INVARIANT InOrderOnce
PROPERTY HostIsWoken
CHECK_DEADLOCK FALSE
