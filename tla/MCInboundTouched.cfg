\* No failure of any kind.
CONSTANTS
    r1 = r1
    r2 = r2
    s1 = s1
    s2 = s2
    Events = {1}
    Routes = {r1}
    Slots = {s1}
    Unrouted = {}
    Owed = {}
    SweepLimit = 1
    MaxPosts = 1
    Deliveries = 1
    MaxDeliveries = 2
    Faults = {}
    MaxFaults = 0
SPECIFICATION Spec
SYMMETRY Alike
CHECK_DEADLOCK FALSE
PROPERTY TouchedDropsOut
