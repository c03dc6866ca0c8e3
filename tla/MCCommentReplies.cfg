CONSTANTS
    c1 = c1  c2 = c2  c3 = c3
    x = x  y = y
    Nobody = Nobody
    Comments = {c1, c2}
    Thread <- OneThread
    Author <- OnePerson
    Own = {c1, c2}
    Cap = 1
    GeneralReviewed = TRUE
    MaxRuns = 2
    MaxStaff = 1
    MaxFaults = 1
SPECIFICATION CommentFairSpec
CHECK_DEADLOCK FALSE
INVARIANTS
    OneReplyPerThread
    ClaimIsTrue
PROPERTIES
    StartedIsFinished
