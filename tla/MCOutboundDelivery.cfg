\* A message of the queue and the catch-up of a recovered channel, overlapping, every failure.
CONSTANTS
    m1 = m1
    m2 = m2
    Jobs = {m1, m2}
    CatchUps = {m2}
    MaxDeliveries = 3
    Faults = {"read", "write", "lost", "meta", "model", "crash"}
    NoText = NoText
SPECIFICATION Spec
CHECK_DEADLOCK FALSE
PROPERTIES
    PromiseKept
