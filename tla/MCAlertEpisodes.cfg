CONSTANTS
    c1 = c1  k1 = k1  m1 = m1  t1 = t1
    Channels = {c1}  Secrets = {k1}  Outages = {m1}  Clients = {t1}
    Worlds <- MCWorlds
    Streams <- MCStreams
    Stages = {"contacts", "prices"}
    Health = {h1}  Reports = {d1}  Replies = {p1}  Operators = {o1}
    h1 = h1  d1 = d1  p1 = p1  p2 = p2  o1 = o1
    Merged = TRUE
    RowIds = {1, 2}
    MaxFaults = 1
SPECIFICATION AlertFairSpec
CHECK_DEADLOCK FALSE
INVARIANTS
    StampedWasTold
PROPERTIES
    NeverInvisible
    StandingIsTold
    EndedIsClosed
