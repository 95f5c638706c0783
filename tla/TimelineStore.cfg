\* The file, its readers and their cursors: crashes, torn ends, failed writes,
\* replaced histories, deletion, and a browser that comes back.
SPECIFICATION Spec
CONSTANTS
    Followers = {f1}
    Kinds = {"delta", "snapshot"}
    TailLimit = 2
    MaxEvents = 3
    MaxAttaches = 2
    MaxRewinds = 1
    MaxDeletes = 1
    MaxSubscribes = 2
    MaxCrashes = 1
INVARIANTS TypeOK Reloadable NeverTakenBack SubscribersCurrent
PROPERTY ImplementsTranscript
\* The bounds on events and failures end every behaviour.
CHECK_DEADLOCK FALSE
