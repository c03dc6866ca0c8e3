CONSTANTS
    h1 = h1  h2 = h2
    s1 = s1  s2 = s2
    a1 = a1  a2 = a2  b1 = b1
    A = A  B = B
    p1 = p1  p2 = p2
    Holds = {h1, h2}
    Slots = {s1, s2}
    Overlap <- MCOverlap
    Sessions = {a1, a2, b1}
    CustomerOf <- MCCustomerOf
    Payments = {p1, p2}
    NoSlot = NoSlot  NoSession = NoSession  NoHold = NoHold
SYMMETRY MCSymmetry
SPECIFICATION StoreSpec
INVARIANTS
    OneHoldPerTime
    OnePaymentPays
    MoneyDecides
