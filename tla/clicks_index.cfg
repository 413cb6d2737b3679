SPECIFICATION ClicksSpec
CONSTANTS
    c1 = c1
    c2 = c2
    w1 = w1
    w2 = w2
    op = op
    Clicks = {c1}
    Oversized = {}
    Linked = {}
    Workers = {w1}
    Operator = op
    MaxCopies = 1
    MaxRetries = 1
    MaxRows = 1
    MaxFaults = 0
    Threshold = 2
INVARIANT HealthyClickIsStored
CHECK_DEADLOCK FALSE
