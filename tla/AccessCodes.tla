------------------------------ MODULE AccessCodes ------------------------------
(***************************************************************************)
(* The guest codes of one TTLock door lock: the rows of                    *)
(* reservation_access_codes, the passcodes the lock really holds, and the  *)
(* requests and the one-minute automation that keep the two in line        *)
(* (src/access-codes/access-codes.service.ts).  PostgreSQL and TTLock      *)
(* share no transaction, so one step of this specification is one          *)
(* statement sent to the database or one call sent to the lock, and any    *)
(* two operations interleave between their steps.                          *)
(*                                                                         *)
(* A row's version number is only ever compared for equality with a        *)
(* version read earlier.  The reader therefore carries a flag `fresh',     *)
(* TRUE when it reads the row and FALSE from the first later write that    *)
(* increments the version: "AND version = $2" succeeds exactly when the    *)
(* flag still stands, and no counter has to be bounded.                    *)
(***************************************************************************)
EXTENDS Naturals, FiniteSets

CONSTANTS
    Codes,          \* row ids of reservation_access_codes
    NoCode,
    Reservations,   \* reservations of the apartment behind this lock
    NoReservation,
    Pins,           \* four-digit codes the generator may draw
    NoPin,
    LastDay,        \* the clock stops at the end of this day (bound)
    Windows,        \* validity windows [first day, last day] in use
    Stays,          \* the windows that are stays, and default windows
    NoWindow,
    Admins,         \* concurrent administrator requests
    Cron,           \* the lifecycle cron; at most one run (busy flag)
    MaxFailures,    \* MAX_AUTOMATIC_RECOVERIES_PER_DAY
    MaxPasscodes,   \* passcodes ever created on the lock (bound)
    Budgets         \* disturbances of a behaviour, by kind (bound)

Intervals == {w \in (0 .. LastDay) \X (0 .. LastDay) : w[1] < w[2]}

Workers == Admins \cup {Cron}

ASSUME NullsAreOutside ==
    /\ NoCode \notin Codes
    /\ NoReservation \notin Reservations
    /\ NoPin \notin Pins
    /\ NoWindow \notin Windows
    /\ Cron \notin Admins

ASSUME WindowsAreIntervals ==
    /\ LastDay \in Nat
    /\ Windows \subseteq Intervals
    /\ Stays \subseteq Windows

(* fault: calls of the lock that fail or lose their answer; crash:         *)
(* restarts of the backend; request: requests of administrators; change:   *)
(* changes of a reservation's dates or status                              *)
Disturbances == {"fault", "crash", "request", "change"}

ASSUME BoundsAreNaturals ==
    /\ MaxFailures \in Nat
    /\ MaxPasscodes \in Nat
    /\ Budgets \subseteq [Disturbances -> Nat]

VARIABLES
    booking,  \* Reservations -> status and stay (table reservations)
    row,      \* Codes -> the row, its status "none" before the insert
    audit,    \* Codes -> the *_failed events: the newest, and today's count
    goal,     \* Codes -> what the last request asked for (history only)
    lock,     \* the passcodes on the lock: a set of [id, pin, win]
    made,     \* ids the lock has given out so far
    op,       \* Workers -> the operation in progress and its local data
    phase,    \* which sweep of the automation runs
    todo,     \* the rows its SELECT returned and it has not handled yet
    today,    \* the current day
    budget    \* what is left of the bounds

vars == <<booking, row, audit, goal, lock, made, op, phase, todo, today, budget>>

-----------------------------------------------------------------------------
(* Types *)

Pending == {"pending_create", "pending_update", "pending_delete"}
Statuses == {"none", "active", "revoked", "sync_error"} \cup Pending
FailureEvents == {"create_failed", "update_failed", "delete_failed"}

RowType ==
    [status   : Statuses,
     res      : Reservations \cup {NoReservation},
     pin      : Pins \cup {NoPin},
     win      : Windows \cup {NoWindow},
     pid      : 0 .. MaxPasscodes,           \* provider_passcode_id, 0 is NULL
     override : Stays \cup {NoWindow},       \* the stay a manual window was set for
     aged     : BOOLEAN]                     \* updated_at is older than the limit

NoRow == [status |-> "none", res |-> NoReservation, pin |-> NoPin,
          win |-> NoWindow, pid |-> 0, override |-> NoWindow, aged |-> FALSE]

(* Before its claim an operation has only read; from the claim on it owns  *)
(* the row until it writes active, revoked or sync_error.                  *)
ReadingSteps == {"pick", "reserve", "prepare", "claimDelete", "load", "claim"}
LockCalls == {"find", "exists", "available", "configured", "confirm",
              "create", "change", "delete"}
OwningSteps == LockCalls \cup {"store", "activate", "retire", "fail"}
Steps == {"idle", "record"} \cup ReadingSteps \cup OwningSteps

Kinds == {"none", "provision", "update", "replace", "revoke", "recover"}
Intents == {"none", "ensure", "delete"}

OpType ==
    [pc       : Steps,
     kind     : Kinds,
     intent   : Intents,                     \* reconcile's third argument
     deleting : BOOLEAN,                     \* reconcile's local of that name
     code     : Codes \cup {NoCode},
     fresh    : BOOLEAN,                     \* the version read is still current
     res      : Reservations \cup {NoReservation},
     pin      : Pins \cup {NoPin},
     win      : Windows \cup {NoWindow},
     override : Stays \cup {NoWindow},
     pid      : 0 .. MaxPasscodes,
     failure  : FailureEvents \cup {"none"}] \* event to record on failure

IdleOp == [pc |-> "idle", kind |-> "none", intent |-> "none", deleting |-> FALSE,
           code |-> NoCode, fresh |-> FALSE, res |-> NoReservation, pin |-> NoPin,
           win |-> NoWindow, override |-> NoWindow, pid |-> 0, failure |-> "none"]

Passcode == [id : 1 .. MaxPasscodes, pin : Pins, win : Windows]

Phases == {"idle", "recover", "cancelled", "dates", "due"}

TodoItem == [code  : Codes \cup {NoCode},
             res   : Reservations \cup {NoReservation},
             win   : Windows \cup {NoWindow},
             fresh : BOOLEAN]

TypeOK ==
    /\ booking \in [Reservations -> [status : {"confirmed", "cancelled"}, stay : Stays]]
    /\ row \in [Codes -> RowType]
    /\ audit \in [Codes -> [last : FailureEvents \cup {"none"}, today : 0 .. MaxFailures]]
    /\ goal \in [Codes -> {"keep", "drop"}]
    /\ lock \subseteq Passcode
    /\ made \in 0 .. MaxPasscodes
    /\ op \in [Workers -> OpType]
    /\ phase \in Phases
    /\ todo \subseteq TodoItem
    /\ today \in 0 .. LastDay
    /\ budget \in [Disturbances -> Nat]

-----------------------------------------------------------------------------
(* Conditions of the queries *)

Overlap(a, b) == a[1] < b[2] /\ a[2] > b[1]

Live(c) == row[c].status \notin {"none", "revoked"}

Current(r) == {c \in Codes : Live(c) /\ row[c].res = r}

(* Mutant of TakenInTable: only active codes count as taken. *)
TakenByActive(pin, win, except) ==
    \E c \in Codes \ {except} :
        row[c].status = "active" /\ row[c].pin = pin /\ Overlap(row[c].win, win)

(* The conflict query of reserveCandidate, prepareUpdate and the generator. *)
TakenInTable(pin, win, except) ==
    \E c \in Codes \ {except} :
        Live(c) /\ row[c].pin = pin /\ Overlap(row[c].win, win)

(* The negation of isPasscodeAvailable. *)
TakenOnLock(pin, win) == \E k \in lock : k.pin = pin /\ Overlap(k.win, win)

OnLock(id) == \E k \in lock : k.id = id

(* isPasscodeConfigured *)
Configured(id, pin, win) == [id |-> id, pin |-> pin, win |-> win] \in lock

Confirmed(r) == booking[r].status = "confirmed"

CancelledCode(c) == booking[row[c].res].status = "cancelled"

Expired(c) == row[c].win[2] <= today

Lapsed(c) == Live(c) /\ Expired(c)

(* Mutant of ManualWindowOk: the window must end before the stay does. *)
WindowInsideStay(win, stay) ==
    /\ win[1] + 1 >= stay[1]
    /\ win[2] < stay[2]

(* A manual window overlaps the stay and leaves it by a day at most. *)
ManualWindowOk(win, stay) ==
    /\ win[1] + 1 >= stay[1]
    /\ win[2] <= stay[2] + 1
    /\ win[1] <= stay[2]
    /\ win[2] >= stay[1]

(* shouldApplyDefaultValidity, and the comparison of the two windows *)
DefaultWindowDue(c) ==
    LET stay == booking[row[c].res].stay
    IN  row[c].override # stay /\ row[c].win # stay

Owns(w, c) == op[w].pc \in OwningSteps /\ op[w].code = c

-----------------------------------------------------------------------------
(* Bookkeeping shared by the actions *)

Spend(kind) ==
    /\ budget[kind] > 0
    /\ budget' = [budget EXCEPT ![kind] = @ - 1]

Continue(w, o) == op' = [op EXCEPT ![w] = o]

Goto(w, pc) == Continue(w, [op[w] EXCEPT !.pc = pc])

Finish(w) == Continue(w, IdleOp)

(* Mutant of ContinueBumping: the write leaves the version as it is. *)
ContinueQuietly(w, c, o) == Continue(w, o) /\ UNCHANGED todo

(* A write with version = version + 1: the writer goes on as o, and every  *)
(* version that anyone else has read of c is out of date.                  *)
ContinueBumping(w, c, o) ==
    /\ op' = [v \in Workers |->
                IF v = w THEN o
                ELSE IF op[v].code = c THEN [op[v] EXCEPT !.fresh = FALSE]
                ELSE op[v]]
    /\ todo' = {IF e.code = c THEN [e EXCEPT !.fresh = FALSE] ELSE e : e \in todo}

(* UPDATE ... SET status = s, updated_at = NOW() *)
SetStatus(c, s) == row' = [row EXCEPT ![c].status = s, ![c].aged = FALSE]

(* A lock call that was carried out: its answer arrives, or is lost. *)
Answered(w, o) ==
    \/ Continue(w, o) /\ UNCHANGED budget
    \/ Goto(w, "fail") /\ Spend("fault")

-----------------------------------------------------------------------------
(* ensureForReservation: reuse or repair the current code, or choose a PIN *)

EnsureApplies(r) ==
    \/ \E c \in Current(r) : row[c].status = "sync_error"
    \/ Current(r) = {} /\ Confirmed(r)

StartEnsure(w, r) ==
    /\ op[w].pc = "idle"
    /\ \/ \E c \in Current(r) :
             /\ row[c].status = "sync_error"
             /\ Continue(w, [IdleOp EXCEPT !.pc = "load", !.kind = "recover",
                                           !.code = c, !.intent = "ensure"])
       \/ /\ Current(r) = {}
          /\ Confirmed(r)
          /\ Continue(w, [IdleOp EXCEPT !.pc = "pick", !.kind = "provision",
                                        !.res = r, !.win = booking[r].stay])

(* generateAvailableCandidate, up to the answer of the lock's list *)
Pick(w) ==
    /\ op[w].pc = "pick"
    /\ LET free == {pin \in Pins : /\ ~TakenInTable(pin, op[w].win, NoCode)
                                   /\ ~TakenOnLock(pin, op[w].win)}
       IN  \/ \E pin \in free :
                 Continue(w, [op[w] EXCEPT !.pc = "reserve", !.pin = pin])
           \/ free = {} /\ Finish(w)
    /\ UNCHANGED <<booking, row, audit, goal, lock, made, phase, todo, today, budget>>

(* reserveCandidate: one transaction under the device row's lock.  A taken *)
(* PIN or a second current code of the reservation ends the request, and   *)
(* so does the bound: no row id left.                                      *)
Reserve(w) ==
    /\ op[w].pc = "reserve"
    /\ LET o == op[w]
           unused == {c \in Codes : row[c].status = "none"}
       IN  IF TakenInTable(o.pin, o.win, NoCode) \/ Current(o.res) # {} \/ unused = {}
           THEN Finish(w) /\ UNCHANGED <<row, goal>>
           ELSE \E c \in unused :
                  /\ row' = [row EXCEPT ![c] =
                        [NoRow EXCEPT !.status = "pending_create", !.res = o.res,
                                      !.pin = o.pin, !.win = o.win]]
                  /\ goal' = [goal EXCEPT ![c] = "keep"]
                  /\ Continue(w, [o EXCEPT !.pc = "create", !.code = c,
                                           !.failure = "create_failed"])
    /\ UNCHANGED <<booking, audit, lock, made, phase, todo, today, budget>>

(* applyCreateDraft: PIN and window were fixed with the draft, and neither *)
(* the reservation nor the lock is looked at again.                        *)
StartFromDraft(w, r, pin, win) ==
    /\ op[w].pc = "idle"
    /\ Continue(w, [IdleOp EXCEPT !.pc = "reserve", !.kind = "provision",
                                  !.res = r, !.pin = pin, !.win = win])

-----------------------------------------------------------------------------
(* updateWithValiditySource and applyReplacementDraft *)

UpdateApplies(c, win) ==
    /\ row[c].status = "active"
    /\ row[c].pid # 0
    /\ ManualWindowOk(win, booking[row[c].res].stay)

(* `stay' is the one recorded with a manual window, or NoWindow. *)
StartUpdate(w, c, win, stay) ==
    /\ op[w].pc = "idle"
    /\ UpdateApplies(c, win)
    /\ Continue(w, [IdleOp EXCEPT !.pc = "prepare", !.kind = "update", !.code = c,
                                  !.fresh = TRUE, !.pin = row[c].pin, !.win = win,
                                  !.pid = row[c].pid, !.override = stay])

StartReplace(w, c, pin, win) ==
    /\ op[w].pc = "idle"
    /\ row[c].status = "active"
    /\ row[c].pid # 0
    /\ Continue(w, [IdleOp EXCEPT !.pc = "prepare", !.kind = "replace", !.code = c,
                                  !.fresh = TRUE, !.pin = pin, !.win = win,
                                  !.pid = row[c].pid,
                                  !.override = booking[row[c].res].stay])

(* prepareUpdate: one transaction; a conflict or an old version ends it. *)
Prepare(w) ==
    /\ op[w].pc = "prepare"
    /\ LET o == op[w]
           c == o.code
       IN  IF ~o.fresh \/ TakenInTable(o.pin, o.win, c)
           THEN Finish(w) /\ UNCHANGED <<row, goal, todo>>
           ELSE /\ row' = [row EXCEPT ![c].status = "pending_update", ![c].pin = o.pin,
                                      ![c].win = o.win, ![c].override = o.override,
                                      ![c].aged = FALSE]
                /\ goal' = [goal EXCEPT ![c] = "keep"]
                /\ ContinueBumping(w, c, [o EXCEPT !.pc = "change", !.fresh = FALSE,
                                                   !.failure = "update_failed"])
    /\ UNCHANGED <<booking, audit, lock, made, phase, today, budget>>

-----------------------------------------------------------------------------
(* revoke *)

RevokeApplies(c) == row[c].status \in {"active", "sync_error"}

StartRevoke(w, c) ==
    /\ op[w].pc = "idle"
    /\ RevokeApplies(c)
    /\ IF row[c].pid = 0
       THEN Continue(w, [IdleOp EXCEPT !.pc = "load", !.kind = "recover",
                                       !.code = c, !.intent = "delete"])
       ELSE Continue(w, [IdleOp EXCEPT !.pc = "claimDelete", !.kind = "revoke",
                                       !.code = c, !.fresh = TRUE, !.pid = row[c].pid])

ClaimDelete(w) ==
    /\ op[w].pc = "claimDelete"
    /\ LET c == op[w].code
       IN  IF ~op[w].fresh
           THEN Finish(w) /\ UNCHANGED <<row, goal, todo>>
           ELSE /\ SetStatus(c, "pending_delete")
                /\ goal' = [goal EXCEPT ![c] = "drop"]
                /\ ContinueBumping(w, c, [op[w] EXCEPT !.pc = "delete", !.fresh = FALSE,
                                                       !.failure = "delete_failed"])
    /\ UNCHANGED <<booking, audit, lock, made, phase, today, budget>>

-----------------------------------------------------------------------------
(* reconcile *)

StartReconcile(w, c) ==
    /\ op[w].pc = "idle"
    /\ row[c].status # "none"
    /\ Continue(w, [IdleOp EXCEPT !.pc = "load", !.kind = "recover", !.code = c,
                                  !.intent = "none"])

(* Mutant of Reconcilable: a pending row is taken over at once. *)
ReconcilableAtOnce(c, intent) ==
    \/ row[c].status = "sync_error"
    \/ row[c].status = "active" /\ intent = "delete"
    \/ row[c].status \in Pending

Reconcilable(c, intent) ==
    \/ row[c].status = "sync_error"
    \/ row[c].status = "active" /\ intent = "delete"
    \/ row[c].status \in Pending /\ row[c].aged

MustDelete(c, intent) ==
    \/ intent = "delete"
    \/ row[c].status = "pending_delete"
    \/ CancelledCode(c)
    \/ Expired(c)
    \/ intent = "none" /\ audit[c].last = "delete_failed"

(* Mutant of Loaded: the PIN is not decrypted from the row. *)
LoadedBlind(o, x, deleting, failure) ==
    [o EXCEPT !.pc = "claim", !.fresh = TRUE, !.deleting = deleting,
              !.win = x.win, !.pid = x.pid, !.failure = failure]

(* The operation o once it has read the row x *)
Loaded(o, x, deleting, failure) ==
    [o EXCEPT !.pc = "claim", !.fresh = TRUE, !.deleting = deleting,
              !.pin = x.pin, !.win = x.win, !.pid = x.pid, !.failure = failure]

Load(w) ==
    /\ op[w].pc = "load"
    /\ LET c == op[w].code
           deleting == MustDelete(c, op[w].intent)
           failure == IF deleting THEN "delete_failed"
                      ELSE IF row[c].pid # 0 THEN "update_failed"
                      ELSE "create_failed"
       IN  IF Reconcilable(c, op[w].intent)
           THEN Continue(w, Loaded(op[w], row[c], deleting, failure))
           ELSE Finish(w)
    /\ UNCHANGED <<booking, row, audit, goal, lock, made, phase, todo, today, budget>>

ClaimedStatus(o) ==
    IF o.deleting THEN "pending_delete"
    ELSE IF o.pid # 0 THEN "pending_update" ELSE "pending_create"

Claim(w) ==
    /\ op[w].pc = "claim"
    /\ LET o == op[w]
           c == o.code
       IN  IF ~o.fresh
           THEN Finish(w) /\ UNCHANGED <<row, goal, todo>>
           ELSE /\ SetStatus(c, ClaimedStatus(o))
                /\ goal' = [goal EXCEPT ![c] = IF o.intent = "delete" THEN "drop"
                                               ELSE IF o.intent = "ensure" /\ ~o.deleting
                                                    THEN "keep" ELSE @]
                /\ ContinueBumping(w, c, [o EXCEPT
                       !.fresh = FALSE,
                       !.pc = IF o.pid = 0 THEN "find"
                              ELSE IF o.deleting THEN "exists" ELSE "configured"])
    /\ UNCHANGED <<booking, audit, lock, made, phase, today, budget>>

(* Mutants of Found: the window's end is compared a day off; nothing is    *)
(* looked for when the code is to be deleted.                              *)
FoundDayOff(o) ==
    {k \in lock : k.pin = o.pin /\ k.win[1] = o.win[1] /\ k.win[2] = o.win[2] + 1}

FoundUnlessDeleting(o) ==
    {k \in lock : k.pin = o.pin /\ k.win = o.win /\ ~o.deleting}

(* findPasscode: by value and window *)
Found(o) == {k \in lock : k.pin = o.pin /\ k.win = o.win}

Find(w) ==
    /\ op[w].pc = "find"
    /\ LET o == op[w]
       IN  \/ \E k \in Found(o) :
                 Continue(w, [o EXCEPT !.pid = k.id,
                                       !.pc = IF o.deleting THEN "exists" ELSE "configured"])
           \/ Found(o) = {} /\ Goto(w, IF o.deleting THEN "retire" ELSE "available")
    /\ UNCHANGED <<booking, row, audit, goal, lock, made, phase, todo, today, budget>>

Exists(w) ==
    /\ op[w].pc = "exists"
    /\ Goto(w, IF OnLock(op[w].pid) THEN "delete" ELSE "retire")
    /\ UNCHANGED <<booking, row, audit, goal, lock, made, phase, todo, today, budget>>

Available(w) ==
    /\ op[w].pc = "available"
    /\ Goto(w, IF TakenOnLock(op[w].pin, op[w].win) THEN "fail" ELSE "create")
    /\ UNCHANGED <<booking, row, audit, goal, lock, made, phase, todo, today, budget>>

CheckConfigured(w) ==
    /\ op[w].pc = "configured"
    /\ Goto(w, IF Configured(op[w].pid, op[w].pin, op[w].win) THEN "store" ELSE "change")
    /\ UNCHANGED <<booking, row, audit, goal, lock, made, phase, todo, today, budget>>

-----------------------------------------------------------------------------
(* Writes to the lock, shared by every operation *)

CreatePasscode(w) ==
    /\ op[w].pc = "create"
    /\ made < MaxPasscodes
    /\ made' = made + 1
    /\ lock' = lock \cup {[id |-> made + 1, pin |-> op[w].pin, win |-> op[w].win]}
    /\ Answered(w, [op[w] EXCEPT !.pc = "store", !.pid = made + 1])
    /\ UNCHANGED <<booking, row, audit, goal, phase, todo, today>>

(* changePasscode: only a replacement sends newPasscode; reconcile sends   *)
(* the window alone.  The lock refuses an id it does not hold.             *)
Changed(k, o) ==
    [id |-> k.id, pin |-> IF o.kind = "replace" THEN o.pin ELSE k.pin, win |-> o.win]

ChangePasscode(w) ==
    /\ op[w].pc = "change"
    /\ LET o == op[w]
       IN  IF OnLock(o.pid)
           THEN /\ lock' = {IF k.id = o.pid THEN Changed(k, o) ELSE k : k \in lock}
                /\ Answered(w, [o EXCEPT !.pc = IF o.kind = "recover" THEN "store"
                                                ELSE "confirm"])
           ELSE Goto(w, "fail") /\ UNCHANGED <<lock, budget>>
    /\ UNCHANGED <<booking, row, audit, goal, made, phase, todo, today>>

DeletePasscode(w) ==
    /\ op[w].pc = "delete"
    /\ IF OnLock(op[w].pid)
       THEN /\ lock' = {k \in lock : k.id # op[w].pid}
            /\ Answered(w, [op[w] EXCEPT !.pc = "retire"])
       ELSE Goto(w, "fail") /\ UNCHANGED <<lock, budget>>
    /\ UNCHANGED <<booking, row, audit, goal, made, phase, todo, today>>

(* A read that fails, or a write that never reaches the lock.  The cron's  *)
(* and the requests' reads before the claim end the operation with nothing *)
(* written; after it the row is marked.                                    *)
LockCallFails(w) ==
    /\ \/ op[w].pc \in LockCalls /\ Goto(w, "fail")
       \/ op[w].pc = "pick" /\ Finish(w)
    /\ Spend("fault")
    /\ UNCHANGED <<booking, row, audit, goal, lock, made, phase, todo, today>>

-----------------------------------------------------------------------------
(* Writes to the row after the claim: none of them looks at the version *)

(* The id is unique over all rows (reservation_access_codes_provider_id_unique). *)
StoreProviderId(w) ==
    /\ op[w].pc = "store"
    /\ LET o == op[w]
       IN  IF \E c \in Codes \ {o.code} : row[c].pid = o.pid
           THEN Goto(w, "fail") /\ UNCHANGED row
           ELSE /\ row' = [row EXCEPT ![o.code].pid = o.pid, ![o.code].aged = FALSE]
                /\ Goto(w, "confirm")
    /\ UNCHANGED <<booking, audit, goal, lock, made, phase, todo, today, budget>>

(* Mutant of Confirm: finding the id on the lock is confirmation enough. *)
ConfirmById(w) ==
    /\ op[w].pc = "confirm"
    /\ Goto(w, IF OnLock(op[w].pid) THEN "activate" ELSE "fail")
    /\ UNCHANGED <<booking, row, audit, goal, lock, made, phase, todo, today, budget>>

(* confirmProviderPasscode, its three readings taken as one *)
Confirm(w) ==
    /\ op[w].pc = "confirm"
    /\ Goto(w, IF Configured(op[w].pid, op[w].pin, op[w].win) THEN "activate" ELSE "fail")
    /\ UNCHANGED <<booking, row, audit, goal, lock, made, phase, todo, today, budget>>

Activate(w) ==
    /\ op[w].pc = "activate"
    /\ SetStatus(op[w].code, "active")
    /\ Finish(w)
    /\ UNCHANGED <<booking, audit, goal, lock, made, phase, todo, today, budget>>

Retire(w) ==
    /\ op[w].pc = "retire"
    /\ SetStatus(op[w].code, "revoked")
    /\ Finish(w)
    /\ UNCHANGED <<booking, audit, goal, lock, made, phase, todo, today, budget>>

(* markSyncError is two statements: the row, then the audit event. *)
MarkSyncError(w) ==
    /\ op[w].pc = "fail"
    /\ SetStatus(op[w].code, "sync_error")
    /\ Goto(w, "record")
    /\ UNCHANGED <<booking, audit, goal, lock, made, phase, todo, today, budget>>

RecordFailure(w) ==
    /\ op[w].pc = "record"
    /\ LET c == op[w].code
           n == audit[c].today
       IN  audit' = [audit EXCEPT ![c] =
              [last |-> op[w].failure, today |-> IF n < MaxFailures THEN n + 1 ELSE n]]
    /\ Finish(w)
    /\ UNCHANGED <<booking, row, goal, lock, made, phase, todo, today, budget>>

-----------------------------------------------------------------------------
(* Administrator requests *)

Request(w) ==
    /\ w \in Admins
    /\ Spend("request")
    /\ \/ \E r \in Reservations : StartEnsure(w, r)
       \/ \E r \in Reservations, pin \in Pins, win \in Windows : StartFromDraft(w, r, pin, win)
       \/ \E c \in {d \in Codes : row[d].status = "active"}, win \in Windows :
             \/ StartUpdate(w, c, win, booking[row[c].res].stay)
             \/ \E pin \in Pins : StartReplace(w, c, pin, win)
       \/ \E c \in Codes : StartRevoke(w, c)
       \/ \E c \in Codes : StartReconcile(w, c)
    /\ UNCHANGED <<booking, row, audit, goal, lock, made, phase, todo, today>>

(* refreshUsage sets updated_at, so the row counts as recently written. *)
RefreshUsage(c) ==
    /\ row[c].aged
    /\ Spend("request")
    /\ row' = [row EXCEPT ![c].aged = FALSE]
    /\ UNCHANGED <<booking, audit, goal, lock, made, op, phase, todo, today>>

-----------------------------------------------------------------------------
(* handleScheduledLifecycle: four sweeps, each a SELECT followed by its    *)
(* rows one after the other.                                               *)

CodeItem(c, win) == [code |-> c, res |-> NoReservation, win |-> win, fresh |-> TRUE]

(* Mutant of RecoverDue: rows of cancelled bookings are left out once      *)
(* their window is over.                                                   *)
RecoverDueRunning(c) ==
    /\ row[c].status \in {"sync_error"} \cup Pending
    /\ row[c].aged
    /\ ~Expired(c)
    /\ audit[c].today < MaxFailures

RecoverDue(c) ==
    /\ row[c].status \in {"sync_error"} \cup Pending
    /\ row[c].aged
    /\ ~Expired(c) \/ CancelledCode(c)
    /\ audit[c].today < MaxFailures

ToRecover == {CodeItem(c, NoWindow) : c \in {d \in Codes : RecoverDue(d)}}

ToRevoke ==
    {CodeItem(c, NoWindow) :
        c \in {d \in Codes : row[d].status = "active" /\ CancelledCode(d)}}

ToMove ==
    {CodeItem(c, booking[row[c].res].stay) :
        c \in {d \in Codes : /\ row[d].status = "active"
                             /\ Confirmed(row[d].res)
                             /\ ~Expired(d)
                             /\ DefaultWindowDue(d)}}

(* Mutant of ToCreate: the day after the arrival day. *)
ToCreateLate ==
    {[code |-> NoCode, res |-> r, win |-> NoWindow, fresh |-> TRUE] :
        r \in {s \in Reservations : /\ Confirmed(s)
                                    /\ booking[s].stay[1] + 1 = today
                                    /\ Current(s) = {}}}

ToCreate ==
    {[code |-> NoCode, res |-> r, win |-> NoWindow, fresh |-> TRUE] :
        r \in {s \in Reservations : /\ Confirmed(s)
                                    /\ booking[s].stay[1] = today
                                    /\ Current(s) = {}}}

(* The cron fires, or a sweep is done: the next SELECT runs. *)
NextSweep ==
    /\ op[Cron].pc = "idle"
    /\ todo = {}
    /\ \/ phase = "idle" /\ phase' = "recover" /\ todo' = ToRecover
       \/ phase = "recover" /\ phase' = "cancelled" /\ todo' = ToRevoke
       \/ phase = "cancelled" /\ phase' = "dates" /\ todo' = ToMove
       \/ phase = "dates" /\ phase' = "due" /\ todo' = ToCreate
       \/ phase = "due" /\ phase' = "idle" /\ todo' = {}
    /\ UNCHANGED <<booking, row, audit, goal, lock, made, op, today, budget>>

(* One row of the sweep: the call is made, or ends at once on its first    *)
(* read (the row changed since the SELECT).                                *)
SweepItem(e) ==
    /\ op[Cron].pc = "idle"
    /\ todo' = todo \ {e}
    /\ \/ phase = "recover" /\ StartReconcile(Cron, e.code)
       \/ /\ phase = "cancelled"
          /\ IF e.fresh /\ RevokeApplies(e.code)
             THEN StartRevoke(Cron, e.code) ELSE UNCHANGED op
       \/ /\ phase = "dates"
          /\ IF e.fresh /\ UpdateApplies(e.code, e.win)
             THEN StartUpdate(Cron, e.code, e.win, NoWindow) ELSE UNCHANGED op
       \/ /\ phase = "due"
          /\ IF EnsureApplies(e.res) THEN StartEnsure(Cron, e.res) ELSE UNCHANGED op
    /\ UNCHANGED <<booking, row, audit, goal, lock, made, phase, today, budget>>

-----------------------------------------------------------------------------
(* The reservation, the clock and the process around the codes *)

CancelReservation(r) ==
    /\ Confirmed(r)
    /\ Spend("change")
    /\ booking' = [booking EXCEPT ![r].status = "cancelled"]
    /\ UNCHANGED <<row, audit, goal, lock, made, op, phase, todo, today>>

(* update with status confirmed, or a Hostex reading that says so *)
Reinstate(r) ==
    /\ ~Confirmed(r)
    /\ Spend("change")
    /\ booking' = [booking EXCEPT ![r].status = "confirmed"]
    /\ UNCHANGED <<row, audit, goal, lock, made, op, phase, todo, today>>

MoveStay(r, s) ==
    /\ s # booking[r].stay
    /\ Spend("change")
    /\ booking' = [booking EXCEPT ![r].stay = s]
    /\ UNCHANGED <<row, audit, goal, lock, made, op, phase, todo, today>>

NewDay ==
    /\ today < LastDay
    /\ today' = today + 1
    /\ UNCHANGED <<booking, row, audit, goal, lock, made, op, phase, todo, budget>>

(* updated_at passes the limit: five minutes for sync_error, ten for a     *)
(* pending row.  A running operation ends within the ten (its lock calls   *)
(* time out after ten seconds each), so only a row that nobody owns ages,  *)
(* and nobody is about to record a failure of.                             *)
Age(c) ==
    /\ ~row[c].aged
    /\ row[c].status \in {"sync_error"} \cup Pending
    /\ \A w \in Workers : ~Owns(w, c) /\ ~(op[w].pc = "record" /\ op[w].code = c)
    /\ row' = [row EXCEPT ![c].aged = TRUE]
    /\ UNCHANGED <<booking, audit, goal, lock, made, op, phase, todo, today, budget>>

(* A failure recorded more than a day ago leaves the count. *)
FailureExpires(c) ==
    /\ audit[c].today > 0
    /\ audit' = [audit EXCEPT ![c].today = @ - 1]
    /\ UNCHANGED <<booking, row, goal, lock, made, op, phase, todo, today, budget>>

(* The backend restarts: every request and the running sweep are gone. *)
Crash ==
    /\ Spend("crash")
    /\ op' = [w \in Workers |-> IdleOp]
    /\ phase' = "idle"
    /\ todo' = {}
    /\ UNCHANGED <<booking, row, audit, goal, lock, made, today>>

-----------------------------------------------------------------------------
Init ==
    /\ booking \in [Reservations -> [status : {"confirmed"}, stay : Stays]]
    /\ row = [c \in Codes |-> NoRow]
    /\ audit = [c \in Codes |-> [last |-> "none", today |-> 0]]
    /\ goal = [c \in Codes |-> "keep"]
    /\ lock = {}
    /\ made = 0
    /\ op = [w \in Workers |-> IdleOp]
    /\ phase = "idle"
    /\ todo = {}
    /\ today = 0
    /\ budget \in Budgets

(* What a request does once it has started *)
Proceed(w) ==
    \/ Pick(w) \/ Reserve(w) \/ Prepare(w) \/ ClaimDelete(w)
    \/ Load(w) \/ Claim(w) \/ Find(w) \/ Exists(w) \/ Available(w) \/ CheckConfigured(w)
    \/ CreatePasscode(w) \/ ChangePasscode(w) \/ DeletePasscode(w)
    \/ StoreProviderId(w) \/ Confirm(w) \/ Activate(w) \/ Retire(w)
    \/ MarkSyncError(w) \/ RecordFailure(w)

Automation == NextSweep \/ \E e \in todo : SweepItem(e)

Next ==
    \/ \E w \in Workers : Proceed(w) \/ LockCallFails(w) \/ Request(w)
    \/ Automation
    \/ \E c \in Codes : RefreshUsage(c) \/ Age(c) \/ FailureExpires(c)
    \/ \E r \in Reservations :
          CancelReservation(r) \/ Reinstate(r) \/ \E s \in Stays : MoveStay(r, s)
    \/ NewDay
    \/ Crash

Spec == Init /\ [][Next]_vars

(* The event loop keeps a started request going, the cron fires every      *)
(* minute while the automation is enabled, and time passes.  Nothing is    *)
(* assumed about administrators, guests, the lock or restarts.             *)
Fairness ==
    /\ \A w \in Workers : WF_vars(Proceed(w))
    /\ WF_vars(Automation)
    /\ \A c \in Codes : WF_vars(Age(c)) /\ WF_vars(FailureExpires(c))

FairSpec == Spec /\ Fairness

-----------------------------------------------------------------------------
(* Properties *)

(* At most one operation writes a given row between its claim and its last *)
(* write, and the row says so: the statements after the claim have no      *)
(* version check and are right only because of this.                       *)
OneWriterPerCode ==
    /\ \A w \in Workers :
          op[w].pc \in OwningSteps =>
              /\ op[w].code \in Codes
              /\ row[op[w].code].status \in Pending
    /\ \A v, w \in Workers :
          (v # w /\ op[v].pc \in OwningSteps /\ op[w].pc \in OwningSteps)
              => op[v].code # op[w].code

(* Two current codes of the lock never share a PIN in overlapping windows, *)
(* although PINs are drawn outside the transaction that stores them and    *)
(* windows move later.                                                     *)
NoPinCollision ==
    \A c, d \in Codes :
        (c # d /\ Live(c) /\ Live(d) /\ row[c].pin = row[d].pin)
            => ~Overlap(row[c].win, row[d].win)

(* What the panel shows as active is on the lock with this PIN and window. *)
ActiveIsOnLock ==
    \A c \in Codes :
        row[c].status = "active" => Configured(row[c].pid, row[c].pin, row[c].win)

(* The row c answers for the passcode k, by its id or, while the id is     *)
(* unknown, by what findPasscode will match.                               *)
AnswersFor(c, k) ==
    /\ Live(c)
    /\ \/ row[c].pid = k.id
       \/ /\ row[c].pid = 0 /\ row[c].pin = k.pin /\ row[c].win = k.win
          /\ \A d \in Codes : row[d].pid # k.id

(* Whatever answers are lost and whenever the backend restarts, every      *)
(* passcode on the lock has exactly one current row that recovery can find *)
(* it from, and no row has two: none is forgotten behind a revoked row and *)
(* none is created twice.                                                  *)
NoForgottenPasscode ==
    /\ \A k \in lock : \E c \in Codes : AnswersFor(c, k)
    /\ \A j, k \in lock, c \in Codes : AnswersFor(c, j) /\ AnswersFor(c, k) => j = k

(* What the guest's access promises (GuestAccess), seen through the rows   *)
(* and the lock: pending, failed and being-changed rows are work in        *)
(* progress, and a passcode belongs to the row that answers for it.        *)
Promise == INSTANCE GuestAccess WITH
    Passcodes <- Passcode,
    shown <- [c \in Codes |->
                 IF row[c].status \in {"none", "active", "revoked"} THEN row[c].status
                 ELSE "pending"],
    onLock <- [c \in Codes |-> {k \in lock : AnswersFor(c, k)}]

(* The table, the lock and the requests between them implement that        *)
(* promise step by step (reserveCandidate, provision, reconcile).          *)
KeepsPromise == Promise!Spec

(* Revoked rows are history: no late answer brings one back. *)
RevokedIsFinal ==
    [][\A c \in Codes : row[c].status = "revoked" => row'[c] = row[c]]_vars

(* The guest of a reservation that stays cancelled ends with no code, for  *)
(* good.  The automation alone brings it about, after any lost answers,    *)
(* restarts and an earlier change of mind.                                 *)
CancelledGuestLosesAccess ==
    \A r \in Reservations :
        (<>[]~Confirmed(r)) => <>[](Current(r) = {})

(* The row can be repaired by what reconcile sends: the passcode is to be  *)
(* created or deleted, or is on the lock with this PIN.                    *)
Repairable(c) ==
    \/ row[c].pid = 0
    \/ CancelledCode(c)
    \/ \E k \in lock : k.id = row[c].pid /\ k.pin = row[c].pin

(* A confirmed guest arriving today gets a working code, unless the        *)
(* booking changes or the day ends first, or the row of an earlier code    *)
(* that recovery cannot repair stands in the way.                          *)
DueGuestGetsCode ==
    \A r \in Reservations :
        (Confirmed(r) /\ booking[r].stay[1] = today)
            ~> \/ ~Confirmed(r)
               \/ booking[r].stay[1] # today
               \/ \E c \in Current(r) : row[c].status = "active" \/ ~Repairable(c)

(* When a stay moves, the guest's automatic code follows it, unless the    *)
(* administrator set a window by hand for the new stay or asked for the    *)
(* code to be removed.                                                     *)
CodeFollowsStay ==
    \A c \in Codes :
        (row[c].status = "active" /\ Confirmed(row[c].res) /\ DefaultWindowDue(c))
            ~> \/ Lapsed(c)
               \/ goal[c] = "drop"
               \/ Live(c) /\ ~Confirmed(row[c].res)
               \/ row[c].status = "active" /\ ~DefaultWindowDue(c)

(* "The database row already holds the intended code and window, so we     *)
(* look at what the lock really has and then finish the create/update, or  *)
(* the delete" (access-codes.service.ts:988-992): recovery deletes a code  *)
(* only if it was asked to, or the stay is cancelled or over.              *)
RecoveryKeepsIntent ==
    [][\A w \in Workers :
          (op[w].pc = "claim" /\ op'[w].pc \in {"find", "exists"} /\ op[w].deleting
              /\ op[w].intent = "none")
          => LET c == op[w].code
             IN goal[c] = "drop" \/ CancelledCode(c) \/ Expired(c)]_vars

(* No write is left half done: with a lock that answers, recovery picks up *)
(* every interrupted row and finishes every failed write that it can       *)
(* repair, whatever failures and restarts came before, unless the window   *)
(* runs out first (recoverStuckCodes, reconcile).                          *)
RecoveryFinishes ==
    \A c \in Codes :
        row[c].status \in Pending \cup {"sync_error"}
            ~> \/ row[c].status \in {"active", "revoked"}
               \/ Lapsed(c)
               \/ row[c].status = "sync_error" /\ ~Repairable(c)
=============================================================================
