SPECIFICATION Spec
CONSTANTS
    s1 = s1
    s2 = s2
    r1 = r1
    r2 = r2
    Timer = Timer
    Inbox = Inbox
    NoRow = NoRow
    Unwritten = Unwritten
    HostexStays = {s1, s2}
    Rows = {r1, r2, r3}
    Nights <- ThreeRanges
    HostexStatuses = {"accepted", "cancelled"}
    Directness = {TRUE, FALSE}
    Beginnings <- Crossing
    Admins = {a1}
    AdminRequests = {"update"}
    Periods <- AllPeriods
INVARIANT NoDoubleBooking
