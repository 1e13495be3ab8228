SPECIFICATION Spec
CONSTANTS
    e1 = e1
    e2 = e2
    Events = {e1, e2}
    Devices = {d1, d2}
    Backends = {b1, b2}
    Rank <- Ranks
    BatchSize = 2
    MaxAttempts = 3
    Budgets <- Two
INVARIANT TypeOK
INVARIANT OneDispatcher
PROPERTY SentIsFinal
PROPERTY SubscriberIsReached
CHECK_DEADLOCK FALSE
