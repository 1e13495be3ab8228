SPECIFICATION Spec

CONSTANTS
    Codes = {c1, c2}
    NoCode = NoCode
    Reservations = {r1, r2}
    NoReservation = NoReservation
    Pins = {p1, p2}
    NoPin = NoPin
    LastDay = 2
    Windows <- OneStay
    Stays <- OneStay
    NoWindow = NoWindow
    Admins = {a1}
    Cron = cron
    MaxFailures = 1
    MaxPasscodes = 3
    Budgets <- Troubled

SYMMETRY Interchangeable

INVARIANTS
    TypeOK
    ActiveIsOnLock
    NoForgottenPasscode
    NoPinCollision
    OneWriterPerCode

PROPERTIES
    RevokedIsFinal
