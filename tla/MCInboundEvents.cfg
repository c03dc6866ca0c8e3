\* Two events, the older one of a Page nobody has; two handlers, two jobs, one failure of any kind.
CONSTANTS
    r1 = r1
    r2 = r2
    s1 = s1
    s2 = s2
    Events = {1, 2}
    Routes = {r1, r2}
    Slots = {s1, s2}
    Unrouted = {1}
    Owed = {2}
    SweepLimit = 1
    MaxPosts = 2
    Deliveries = 1
    MaxDeliveries = 2
    Faults = {"db", "alert", "queue", "worker", "crash", "channel"}
    MaxFaults = 1
SPECIFICATION FairSpec
CHECK_DEADLOCK FALSE
INVARIANTS
    AckedReachedQueue
    SomebodyOwnsIt
PROPERTY Settles
