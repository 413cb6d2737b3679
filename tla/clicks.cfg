SPECIFICATION FairClicksSpec
CONSTANTS
    c1 = c1
    c2 = c2
    w1 = w1
    w2 = w2
    op = op
    Clicks = {c1, c2}
    Oversized = {c2}
    Linked = {c1}
    Workers = {w1, w2}
    Operator = op
    MaxCopies = 1
    MaxRetries = 1
    MaxRows = 1
    MaxFaults = 1
    Threshold = 2
INVARIANTS ClicksTypeOK ClickIsKept NeighbourIsSpared
PROPERTIES ReplayDeletesStored ImplementsClickLedger ClickIsSettled
CHECK_DEADLOCK FALSE
