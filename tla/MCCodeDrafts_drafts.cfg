SPECIFICATION Spec
CONSTANTS
    Reservations = {r1, r2}
    Apartments = {flat, other}
    Home <- OneHome
    Locks = {l1, l2}
    Nowhere = Nowhere
    Drafts = {d1, d2}
    Codes = {c1, c2}
    Pins = {p1, p2}
    Windows = {w1, w2}
    None = None
    Admins = {a1, a2}
    Budgets <- Mixed
SYMMETRY Interchangeable
INVARIANT TypeOK
INVARIANT DraftTakesEffectOnce
INVARIANT MoveSparesCodes
INVARIANT ApplyingHasOneWorker
PROPERTY ReplacesWhatWasShown
CHECK_DEADLOCK FALSE
