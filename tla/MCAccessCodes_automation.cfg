SPECIFICATION FairSpec

CONSTANTS
    Codes = {c1, c2}
    NoCode = NoCode
    Reservations = {r1}
    NoReservation = NoReservation
    Pins = {p1}
    NoPin = NoPin
    LastDay = 2
    Windows <- TwoLengths
    Stays <- TwoLengths
    NoWindow = NoWindow
    Admins = {a1}
    Cron = cron
    MaxFailures = 1
    MaxPasscodes = 3
    Budgets <- AloneOrAsked

PROPERTIES
    CancelledGuestLosesAccess
    DueGuestGetsCode
    CodeFollowsStay
    RecoveryFinishes
    KeepsPromise
