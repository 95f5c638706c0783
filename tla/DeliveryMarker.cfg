\* The newest envelope of a quiet session, when a failed batch is restored.
SPECIFICATION Spec
CONSTANTS
    BatchLimit = 2
    CursorLimit = 2
    LiveLimit = 1
    Sessions = {s1, s2}
    Watches = {}
    LegacyServer = FALSE
    LargeDurable = {}
    LargeLive = {}
    Fragments = 2
    MaxDurable = 0
    MaxLive = 4
    MaxExits = 0
    MaxRestarts = 0
    MaxLate = 0
    MaxEpochs = 0
INVARIANT NewestEnvelopeHeld
CHECK_DEADLOCK FALSE
