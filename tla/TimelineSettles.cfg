\* Attachments, rewinds and retirements that wait for commits.
SPECIFICATION FairSpec
CONSTANTS
    Followers = {}
    Kinds = {"delta", "turn"}
    TailLimit = 1
    MaxEvents = 5
    MaxAttaches = 2
    MaxRewinds = 1
    MaxDeletes = 0
    MaxSubscribes = 0
    MaxCrashes = 0
INVARIANT CompleteUnlessReplaced
PROPERTY EventuallySettled
\* The bounds on events and failures end every behaviour.
CHECK_DEADLOCK FALSE
