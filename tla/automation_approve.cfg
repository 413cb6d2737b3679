SPECIFICATION AutomationSpec
CONSTANTS
    k1 = k1
    k2 = k2
    k3 = k3
    r1 = r1
    r2 = r2
    a1 = a1
    a2 = a2
    Values = {"active", "archived"}
    Targets = {"archived"}
    Keys = {k1}
    Requests = {r1}
    Admins = {a1}
    MaxPerDay = 2
    MaxEdits = 0
    MaxFaults = 0
INVARIANT ApprovalGoesOn
CHECK_DEADLOCK FALSE
