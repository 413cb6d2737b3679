SPECIFICATION FairSyncSpec
CONSTANTS
    s1 = s1
    s2 = s2
    h1 = h1
    sync = sync
    ann = ann
    Subs = {s1}
    Owners = {ann}
    OwnerOf <- MCOwnerOf
    Procs = {h1, sync}
    Handlers = {h1}
    Cron = sync
    Reverse = TRUE
    EmittedTypes <- MCCronTypes
    MaxEvents = 2
    MaxFaults = 1
INVARIANTS SyncTypeOK OrphanRowIsRemade
PROPERTIES ReverseOnlyWhenEnded EveryWriteAccounted ImplementsReconciled LeakIsHealed MemberIsServed
CHECK_DEADLOCK FALSE
