SPECIFICATION Spec
CONSTANTS
    Writers = {w1, w2}
    Apartment <- OneApartment
    LockUsers = {u1, u2}
    PoolSize = 2
    Accounts = {TRUE, FALSE}
    MaxTrouble = 1
INVARIANT TypeOK
INVARIANT RefreshTokenIsUsedOnce
INVARIANT RetryUsesAnotherToken
PROPERTY RequestsEnd
CHECK_DEADLOCK FALSE
