CONSTANTS
    w1 = w1  w2 = w2
    Workers = {w1, w2}
    Reminders = {"reminder"}
    Receipts = {}
    Batch = 2
    MaxPauses = 1
    MaxRequeues = 1
    MaxFaults = 1
SPECIFICATION FairSpec
CHECK_DEADLOCK FALSE
INVARIANTS
    NeverAgainByItself
PROPERTIES
    NobodyRemindedAfterPaying
    PaidIsResumed
    ResumedIsTold
