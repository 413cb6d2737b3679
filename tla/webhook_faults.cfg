SPECIFICATION FairSpec
CONSTANTS
    s1 = s1
    s2 = s2
    h1 = h1
    h2 = h2
    ann = ann
    Subs = {s1}
    Owners = {ann}
    OwnerOf <- MCOwnerOf
    Procs = {h1, h2}
    Handlers = {h1, h2}
    EmittedTypes <- MCAllTypes
    MaxEvents = 2
    MaxFaults = 2
INVARIANTS TypeOK AckedIsDurable
PROPERTIES EffectIsRecorded EventuallySettled
CHECK_DEADLOCK FALSE
