\* Both lanes, over more connector processes than cursors are kept.
SPECIFICATION Spec
CONSTANTS
    BatchLimit = 2
    CursorLimit = 3
    LiveLimit = 1
    Sessions = {s1}
    Watches = {w}
    LegacyServer = FALSE
    LargeDurable = {2}
    LargeLive = {3}
    Fragments = 2
    MaxDurable = 2
    MaxLive = 4
    MaxExits = 2
    MaxRestarts = 0
    MaxLate = 0
    MaxEpochs = 0
INVARIANTS NotifiedOnce LanesAlternate NewestGitStatusHeld LiveBufferBounded
CHECK_DEADLOCK FALSE
