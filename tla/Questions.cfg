SPECIFICATION Spec
CONSTANTS
    s1 = s1
    s2 = s2
    Sessions = {s1, s2}
    BusCapacity = 1
    MinBucket = 1
    Shown = s1
    MaxAsks = 2
    MaxLists = 1
    MaxTroubles = 1
INVARIANT TypeOK
INVARIANT AnswerStaysInSession
INVARIANT PendingHasCard
INVARIANT CardTellsTruth
PROPERTY IsolatedOverflow
CHECK_DEADLOCK FALSE
