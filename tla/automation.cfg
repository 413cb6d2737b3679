SPECIFICATION AutomationSpec
CONSTANTS
    k1 = k1
    k2 = k2
    k3 = k3
    r1 = r1
    r2 = r2
    a1 = a1
    a2 = a2
    Values = {"active", "archived"}
    Targets = {"archived"}
    Keys = {k1, k2, k3}
    Requests = {r1, r2}
    Admins = {a1, a2}
    MaxPerDay = 1
    MaxEdits = 1
    MaxFaults = 1
SYMMETRY MCSymmetry
INVARIANTS AutomationTypeOK KeyExecutesOnce GateHolds SnapshotsAdjacent BudgetOvershoot
INVARIANTS FailedChangedNothing RunningIsOwned
PROPERTIES HistoryIsLegal RollbackRestores ImplementsActionLedger
CHECK_DEADLOCK FALSE
