\* One command, replayed after its session was deleted.
SPECIFICATION Spec
CONSTANTS
    r1 = r1
    r2 = r2
    c1 = c1
    c2 = c2
    s1 = s1
    s2 = s2
    Requests = {r1}
    Commands = {c1}
    Sessions = {s1}
    CommandOf <- OneRequest
    SessionOf <- OneSession
    LaneLimit = 1
    MaxExits = 0
    MaxDisconnects = 1
    MaxRestarts = 0
    MaxStops = 1
INVARIANT ExecutedOnce
\* The bounds on requests and failures end every behaviour.
CHECK_DEADLOCK FALSE
