SPECIFICATION Spec
CONSTANTS
    s1 = s1
    s2 = s2
    r1 = r1
    r2 = r2
    Timer = Timer
    Inbox = Inbox
    NoRow = NoRow
    Unwritten = Unwritten
    HostexStays = {s1, s2}
    Rows = {r1, r2, r3, r4}
    Nights <- ThreeRanges
    HostexStatuses = {"accepted", "cancelled"}
    Directness = {FALSE}
    Beginnings <- ImportedOrUpdated
    Admins = {a1, a2}
    AdminRequests = {"update", "cancel"}
    Periods <- AllPeriods
INVARIANT OneRowPerStay
INVARIANT NoDoubleBooking
INVARIANT OnlyLongStaysAreMissed
CHECK_DEADLOCK FALSE
