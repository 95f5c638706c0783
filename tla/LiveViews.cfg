\* A session and a Git status shown while the connector comes and goes.
SPECIFICATION FairSpec
CONSTANTS
    Subs = {1, 2, 3}
    Watches = {1, 2}
    Budgets <- Hazards
INVARIANTS ReplicaExact
PROPERTIES CatchesUp SubscriptionsEnd WatchFresh StatusForward
\* The budgets end every behaviour.
CHECK_DEADLOCK FALSE
