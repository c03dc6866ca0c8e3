\* Violation: the draft of the hand-off line of a late message fails.
CONSTANTS
    m1 = m1
    m2 = m2
    Jobs = {m1}
    CatchUps = {}
    MaxDeliveries = 3
    Faults = {"write"}
    NoText = NoText
SPECIFICATION FairSpec
CHECK_DEADLOCK FALSE
PROPERTY LineIsTriedAgain
