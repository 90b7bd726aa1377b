SPECIFICATION FairSpec
CONSTANTS
    h1 = h1
    h2 = h2
    w1 = w1
    w2 = w2
    Host = {h1, h2}
    Wid = {w1, w2}
    SharedNames = FALSE
    Recover = TRUE
    MaxCrashes = 1
    MaxFailures = 1
INVARIANT WorkerKeepsRow
INVARIANT ReceiptIsBacked
PROPERTY VerdictStands
PROPERTY UnattendedSettles
