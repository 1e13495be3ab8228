SPECIFICATION Spec
CONSTANTS
    NoDetails = NoDetails
    Details = {d1, d2}
    Backends = {b1, b2}
    MaxMails = 4
    MaxAttempts = 3
    Pauses = {11, 12}
    Budgets <- Mixed
INVARIANT TypeOK
INVARIANT NoMailTwice
INVARIANT NewestMailAgrees
PROPERTY MailsSettle
CHECK_DEADLOCK FALSE
