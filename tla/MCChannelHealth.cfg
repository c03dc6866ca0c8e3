CONSTANTS
    c1 = c1  c2 = c2
    Channels = {c1, c2}
    N = 2
    Strikes = 1
    Interval = 1
    Window = 2
    MaxMessages = 2
    MaxRunning = 2
    MaxTime = 2
    MaxBreaks = 1
    MaxPauses = 1
    MaxFaults = 1
SPECIFICATION Spec
SYMMETRY Alike
CHECK_DEADLOCK FALSE
INVARIANTS
    HaltIsEarned
    EarnedIsTold
    LiveHasToken
