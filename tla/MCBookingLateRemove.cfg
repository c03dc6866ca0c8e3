CONSTANTS
    h1 = h1  r1 = r1  s1 = s1  s2 = s2  a1 = a1  b1 = b1  A = A  B = B
    w1 = w1
    w2 = w2
    p1 = p1
    p2 = p2
    Holds = {h1}  Chat = h1
    Sessions = {a1}  OwnSession = a1
    CustomerOf <- MCCustomerOf
    Slots = {s1}
    Overlap <- MCOverlap  CalendarOf <- MCCalendarOf
    Payments = {p1}  Short = {}
    Workers = {w1, w2}  Callers = {w1, w2}  Sweeper = w1
    MaxRounds = 0  MaxForeign = 0  MaxFaults = 0
    NoSlot = NoSlot  NoSession = NoSession  NoHold = NoHold
SPECIFICATION Spec
INVARIANT BookedHasItsEvent
CHECK_DEADLOCK FALSE
