SPECIFICATION SyncSpec
CONSTANTS
    s1 = s1
    s2 = s2
    h1 = h1
    sync = sync
    ann = ann
    Subs = {s1}
    Owners = {ann}
    OwnerOf <- MCOwnerOf
    Procs = {h1, sync}
    Handlers = {h1}
    Cron = sync
    Reverse = TRUE
    EmittedTypes <- MCSyncTypes
    MaxEvents = 3
    MaxFaults = 0
PROPERTY SyncKeepsHold
CHECK_DEADLOCK FALSE
