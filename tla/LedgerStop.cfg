\* stop() while a provider never settles.
SPECIFICATION CodeFairSpec
CONSTANTS
    r1 = r1
    r2 = r2
    c1 = c1
    c2 = c2
    s1 = s1
    s2 = s2
    Requests = {r1}
    Commands = {c1}
    Sessions = {s1}
    CommandOf <- OneRequest
    SessionOf <- OneSession
    LaneLimit = 1
    MaxExits = 1
    MaxDisconnects = 0
    MaxRestarts = 0
    MaxStops = 0
PROPERTY StopEnds
\* The bounds on requests and failures end every behaviour.
CHECK_DEADLOCK FALSE
