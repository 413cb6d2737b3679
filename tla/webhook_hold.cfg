SPECIFICATION Spec
CONSTANTS
    s1 = s1
    s2 = s2
    h1 = h1
    h2 = h2
    ann = ann
    Subs = {s1, s2}
    Owners = {ann}
    OwnerOf <- MCOwnerOf
    Procs = {h1, h2}
    Handlers = {h1, h2}
    EmittedTypes <- MCLifeTypes
    MaxEvents = 3
    MaxFaults = 0
PROPERTY HoldIsSticky
CHECK_DEADLOCK FALSE
