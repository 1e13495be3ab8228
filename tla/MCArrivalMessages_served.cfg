SPECIFICATION Spec
CONSTANTS
    g1 = g1
    g2 = g2
    b1 = b1
    b2 = b2
    q1 = q1
    Reservations = {g1}
    Days = {1, 2}
    Backends = {b1, b2}
    Requests = {q1}
    MaxAttempts = 2
    FaultBudget = 1
    CrashBudget = 1
    RequestBudget = 1
    ChangeBudget = 1
INVARIANT TypeOK
INVARIANT OneTextPerStay
INVARIANT FailedWasNotSent
PROPERTY DueGuestIsServed
CHECK_DEADLOCK FALSE
