\* One command requested twice, with crashes, stops, lost connections, server
\* restarts and the deletion of its session.
SPECIFICATION Spec
CONSTANTS
    r1 = r1
    r2 = r2
    c1 = c1
    c2 = c2
    s1 = s1
    s2 = s2
    Requests = {r1, r2}
    Commands = {c1}
    Sessions = {s1}
    CommandOf <- Retried
    SessionOf <- OneSession
    LaneLimit = 2
    MaxExits = 1
    MaxDisconnects = 1
    MaxRestarts = 1
    MaxStops = 1
INVARIANTS TypeOK AttemptedOnce HonestVerdicts ReceiptBeforeAnswer
PROPERTY PurgedWhenQuiet
\* The bounds on requests and failures end every behaviour.
CHECK_DEADLOCK FALSE
