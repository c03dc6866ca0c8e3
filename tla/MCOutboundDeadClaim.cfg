\* Violation: a delivery dies between the claim and the send.
CONSTANTS
    m1 = m1
    m2 = m2
    Jobs = {m1}
    CatchUps = {}
    MaxDeliveries = 3
    Faults = {"crash"}
    NoText = NoText
SPECIFICATION Spec
CHECK_DEADLOCK FALSE
PROPERTY StopsOnlyWhenSettled
