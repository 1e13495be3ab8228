SPECIFICATION Spec
CONSTANTS
    s1 = s1
    s2 = s2
    r1 = r1
    r2 = r2
    Timer = Timer
    Inbox = Inbox
    NoRow = NoRow
    Unwritten = Unwritten
    HostexStays = {s1, s2}
    Rows = {r1, r2, r3}
    Nights <- TwoRanges
    HostexStatuses = {"accepted", "cancelled"}
    Directness = {TRUE, FALSE}
    Beginnings <- Together
    Admins = {a1}
    AdminRequests = {"create", "update", "cancel"}
    Periods <- AllPeriods
PROPERTY HostexReachesTable
