\* Two messages typed in one tab, against other tabs, voice, faults and users.
SPECIFICATION FairSpec
CONSTANTS
    m1 = m1
    m2 = m2
    other = other
    Texts = {m1, m2, other}
    Speech = {v1}
    Rivals = {other}
    Typed <- TwoMessages
    Budgets <- Hazards
    MaxPosts = 4
    None = None
INVARIANTS TypeOK SoleGeneration OncePerRequest
PROPERTIES VoiceSparesOthers ImplementsTurnTaking SentAsShown Drains 
\* The bounds on requests and events end every behaviour.
CHECK_DEADLOCK FALSE
