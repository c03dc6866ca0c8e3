\* Violation: a staff echo meets the flip.
CONSTANTS
    w1 = w1  w2 = w2
    s1 = s1  s2 = s2
    o1 = o1
    N = 1
    Staff = {s1, s2}
    First = s1
    Handovers = {}
    Workers = {w1, w2}
    MaxJobs = 1
    MaxMoves = 1
    Stamped = FALSE
    Cooldown = 1
    Wait = 1
    MaxAge = 2
    OwnWindow = 1
    MaxTime = 2
    MaxFaults = 1
    NoWork = NoWork
SPECIFICATION Spec
CHECK_DEADLOCK FALSE
PROPERTY StaffEchoWins
