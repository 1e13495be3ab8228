SPECIFICATION InboxSpec
CONSTANTS
    e1 = e1
    e2 = e2
    e3 = e3
    Timer = Timer
    Inbox = Inbox
    NoRow = NoRow
    NoEvent = NoEvent
    Unwritten = Unwritten
    HostexStays = {s1, s2}
    Rows = {r1, r2}
    Nights <- OneRange
    HostexStatuses = {"accepted", "other"}
    Directness = {FALSE}
    Beginnings <- EmptyTable
    Admins = {}
    AdminRequests = {}
    Events = {e1, e2, e3}
    KindOf <- OneOfEach
    MaxAttempts = 2
    MaxMessages = 2
INVARIANT InboxTypeOK
INVARIANT LastWordIsAnnounced
PROPERTY ProcessedWasApplied
PROPERTY EventsSettle
CHECK_DEADLOCK FALSE
