CONSTANTS
    w1 = w1  w2 = w2  p1 = p1  p2 = p2  typo = typo
    Workers = {w1}
    MaxCodes = 2
    Payments = {p1, p2}
    Mistyped = {typo}
    Lifetime = 1
    Settle = 1
    Hour = 2
    PerHour = 2
    MaxTime = 2
    MaxFaults = 1
SPECIFICATION FairSpec

CHECK_DEADLOCK FALSE
INVARIANTS
    CountedOnce
    MoneyIsWatched
PROPERTIES
    SettledIsRecorded
