\* Two sessions compete for one slot: no slot is leaked, every request answered.
SPECIFICATION FairSpec
CONSTANTS
    r1 = r1
    r2 = r2
    c1 = c1
    c2 = c2
    s1 = s1
    s2 = s2
    Requests = {r1, r2}
    Commands = {c1, c2}
    Sessions = {s1, s2}
    CommandOf <- Different
    SessionOf <- TwoSessions
    LaneLimit = 1
    MaxExits = 1
    MaxDisconnects = 1
    MaxRestarts = 0
    MaxStops = 0
INVARIANTS SlotsAccounted LaneWorkConserving
PROPERTY EventuallyAnswered
\* The bounds on requests and failures end every behaviour.
CHECK_DEADLOCK FALSE
