SPECIFICATION Spec

CONSTANTS
    Codes = {c1}
    NoCode = NoCode
    Reservations = {r1}
    NoReservation = NoReservation
    Pins = {p1}
    NoPin = NoPin
    LastDay = 2
    Windows <- TomorrowsStay
    Stays <- TomorrowsStay
    NoWindow = NoWindow
    Admins = {a1}
    Cron = cron
    MaxFailures = 2
    MaxPasscodes = 1
    Budgets <- AskedThrice

PROPERTIES
    RecoveryKeepsIntent
