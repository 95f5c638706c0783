\* A history replaced under a runtime that goes on publishing.
SPECIFICATION Spec
CONSTANTS
    Followers = {}
    Kinds = {"delta"}
    TailLimit = 1
    MaxEvents = 4
    MaxAttaches = 1
    MaxRewinds = 1
    MaxDeletes = 0
    MaxSubscribes = 0
    MaxCrashes = 0
INVARIANT Complete
\* The bounds on events and failures end every behaviour.
CHECK_DEADLOCK FALSE
