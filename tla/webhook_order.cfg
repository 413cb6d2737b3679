SPECIFICATION Spec
CONSTANTS
    s1 = s1
    s2 = s2
    h1 = h1
    h2 = h2
    ann = ann
    Subs = {s1, s2}
    Owners = {ann}
    OwnerOf <- MCOwnerOf
    Procs = {h1, h2}
    Handlers = {h1, h2}
    EmittedTypes <- MCLifeTypes
    MaxEvents = 4
    MaxFaults = 0
SYMMETRY MCSymmetry
INVARIANTS OrphanHasNoRow OrphanIsCancelled OneActiveMembership
PROPERTY ImplementsLedger
CHECK_DEADLOCK FALSE
