\* The durable lane: exits and restarts of both processes, late requests, and
\* a server of the releases that forget their cursor.
SPECIFICATION FairSpec
CONSTANTS
    BatchLimit = 2
    CursorLimit = 2
    LiveLimit = 1
    Sessions = {s1}
    Watches = {}
    LegacyServer = TRUE
    LargeDurable = {3}
    LargeLive = {1}
    Fragments = 3
    MaxDurable = 3
    MaxLive = 1
    MaxExits = 1
    MaxRestarts = 1
    MaxLate = 1
    MaxEpochs = 4
INVARIANTS TypeOK JournalOpens NoEventLost PendingInOrder AcceptedInOrder
PROPERTIES FirstAcceptanceNotifies EventuallyAccepted
\* The bounds on emission end every behaviour.
CHECK_DEADLOCK FALSE
