SPECIFICATION FairPublishingSpec
CONSTANTS
    d1 = d1
    d2 = d2
    p1 = p1
    p2 = p2
    r1 = r1
    c1 = c1
    human = human
    Drafts = {d1, d2}
    Human = human
    Publishers = {p1}
    Reviewers = {r1}
    Runs = {c1}
    MaxPages = 3
    SlugSuffixMax = 3
    MaxTime = 1
    MaxEdits = 1
    MaxFaults = 1
INVARIANTS PublishingTypeOK MarkedWasWritten OldPagesStand
PROPERTIES ApprovedTextOnly CronWaits ImplementsPageLedger DueIsPublished
CHECK_DEADLOCK FALSE
