---------------------------- MODULE ReservationSync ----------------------------
(***************************************************************************)
(* The bookings of one apartment in three places: Hostex (the channel      *)
(* manager that owns them), the table reservations with its source         *)
(* references, and the queue of review items.  Hostex is read before the   *)
(* transaction that applies the reading; imports serialise on one advisory *)
(* lock, administrators' changes on another, and both also take row locks  *)
(* (src/hostex/hostex-sync.service.ts, hostex-reservation-writes.service   *)
(* and src/reservations/reservations.service.ts).                          *)
(*                                                                         *)
(* One step is one statement, or one call to Hostex.  A transaction keeps  *)
(* its writes to itself until Commit; other transactions see committed     *)
(* rows only (READ COMMITTED) and wait for a row it has written.           *)
(***************************************************************************)
EXTENDS Naturals, FiniteSets

CONSTANTS
    HostexStays,    \* stay codes in Hostex
    Rows,           \* ids of reservations
    NoRow,
    Nights,         \* date ranges [check-in, check-out] in use
    HostexStatuses, \* statuses Hostex gives a stay
    Directness,     \* whether stays booked in Hostex are direct: TRUE, FALSE, both
    Beginnings,     \* stays, rows, references, settings and bounds of the run
    Timer,          \* the five-minute synchronisation; at most one run
    Inbox,          \* the webhook queue's synchronisation; at most one run
    Admins,         \* concurrent administrator requests
    AdminRequests,  \* which of create, update and cancel they make
    Unwritten

Workers == Admins \cup {Timer, Inbox}

AllHostexStatuses == {"accepted", "wait_accept", "cancelled", "other"}

RowStatuses == {"confirmed", "tentative", "blocked", "cancelled", "needs_review"}

(* `ver' counts the changes of a stay in Hostex; the code never sees it.   *)
(* In a row it says which of them the row shows (history).                 *)
RowType == [origin : {"none", "manual", "hostex", "booking_ical"},
            status : RowStatuses, nights : Nights, ver : Nat]

ASSUME NullsAreOutside ==
    /\ NoRow \notin Rows
    /\ Unwritten \notin RowType
    /\ Timer # Inbox
    /\ Timer \notin Admins /\ Inbox \notin Admins

ASSUME NightsAreRanges ==
    /\ Nights # {}
    /\ \A n \in Nights : n \in Nat \X Nat /\ n[1] < n[2]

ASSUME StatusesAreKnown == HostexStatuses \subseteq AllHostexStatuses

ASSUME RequestsAreRequests ==
    /\ AdminRequests \subseteq {"create", "update", "cancel"}
    /\ Admins # {} => {"accepted", "cancelled"} \subseteq HostexStatuses
    /\ Directness \subseteq BOOLEAN

(* What is bounded: calls and transactions that fail, restarts of the      *)
(* backend, administrators' requests, notifications from Hostex (none      *)
(* unless HOSTEX_WEBHOOK_SECRET is set), changes made by guests            *)
Disturbances == {"fault", "crash", "request", "webhook", "change"}

VARIABLES
    hostex,   \* HostexStays -> the stay in Hostex, status "absent" before it
    rows,     \* Rows -> the row of reservations, origin "none" before it
    ref,      \* HostexStays -> its row (reservation_source_refs)
    review,   \* open items of reservation_review_items
    op,       \* Workers -> the operation in progress and its local data
    budget,   \* what is left of the bounds
    syncEnabled  \* HOSTEX_SYNC_ENABLED: the timer runs

vars == <<hostex, rows, ref, review, op, budget, syncEnabled>>

-----------------------------------------------------------------------------
(* Types *)

HostexStay == [status : HostexStatuses \cup {"absent"}, nights : Nights,
               direct : BOOLEAN, ver : Nat]

Reading == [stay : HostexStays, status : HostexStatuses, nights : Nights,
            ver : Nat]

ReviewItem == {"conflict", "unknown"} \X HostexStays

OpType ==
    [pc      : {"idle", "read", "begin", "plan", "upsert", "check", "call", "save", "book"},
     kind    : {"none", "sync", "create", "update", "cancel"},
     todo    : SUBSET HostexStays,     \* stays still to read
     seen    : SUBSET Reading,         \* the reading, not yet applied
     whole   : BOOLEAN,                \* all stays were asked for
     item    : SUBSET Reading,         \* the planned item, in a set of one
     target  : Rows \cup {NoRow},      \* the row it goes to, NoRow for a new one
     change  : RowType,                \* what an administrator wants the row to be
     written : [Rows -> RowType \cup {Unwritten}],   \* uncommitted writes
     links   : [HostexStays -> Rows \cup {NoRow}],   \* uncommitted references
     notes   : SUBSET ReviewItem,      \* uncommitted review items
     handled : SUBSET Reading,         \* readings applied or reported (history)
     result  : {"none", "done", "failed"}]

ASSUME BeginningsAreTyped ==
    Beginnings \subseteq
        [hostex : [HostexStays -> HostexStay], rows : [Rows -> RowType],
         ref : [HostexStays -> Rows \cup {NoRow}],
         sync : BOOLEAN, budget : [Disturbances -> Nat]]

(* An imported row has one stay, and an imported stay one row.             *)
ASSUME BeginningsAreLinked ==
    \A b \in Beginnings :
        /\ \A s \in HostexStays : b.ref[s] # NoRow => b.rows[b.ref[s]].origin = "hostex"
        /\ \A s, t \in HostexStays : b.ref[s] = b.ref[t] /\ b.ref[s] # NoRow => s = t
        /\ \A r \in Rows : b.rows[r].origin = "hostex" => \E s \in HostexStays : b.ref[s] = r

AnyNights == CHOOSE n \in Nights : TRUE

NoBooking == [origin |-> "none", status |-> "cancelled", nights |-> AnyNights, ver |-> 0]

IdleOp == [pc |-> "idle", kind |-> "none", todo |-> {}, seen |-> {}, whole |-> FALSE,
           item |-> {}, target |-> NoRow, change |-> NoBooking,
           written |-> [r \in Rows |-> Unwritten], links |-> [s \in HostexStays |-> NoRow],
           notes |-> {}, handled |-> {}, result |-> "none"]

TypeOK ==
    /\ hostex \in [HostexStays -> HostexStay]
    /\ rows \in [Rows -> RowType]
    /\ ref \in [HostexStays -> Rows \cup {NoRow}]
    /\ review \subseteq ReviewItem
    /\ op \in [Workers -> OpType]
    /\ budget \in [Disturbances -> Nat]
    /\ syncEnabled \in BOOLEAN

-----------------------------------------------------------------------------
(* Conditions of the queries *)

Overlap(a, b) == a[1] < b[2] /\ a[2] > b[1]

ToReservationStatus(status) ==
    CASE status = "accepted" -> "confirmed"
      [] status = "wait_accept" -> "tentative"
      [] status = "cancelled" -> "cancelled"
      [] OTHER -> "needs_review"

(* What a transaction of w sees: committed rows and its own writes *)
View(w) == [r \in Rows |-> IF op[w].written[r] = Unwritten THEN rows[r] ELSE op[w].written[r]]

ViewedRef(w, s) == IF op[w].links[s] = NoRow THEN ref[s] ELSE op[w].links[s]

(* Rows of the table t that take a night of the range, iCal blocks apart *)
TakenBy(t, nights, except) ==
    {r \in Rows \ {except} : /\ t[r].origin \in {"manual", "hostex"}
                             /\ t[r].status # "cancelled"
                             /\ Overlap(t[r].nights, nights)}

(* Old iCal blocks with exactly these dates *)
LegacyMatches(t, nights) ==
    {r \in Rows : /\ t[r].origin = "booking_ical"
                  /\ t[r].status # "cancelled"
                  /\ t[r].nights = nights}

InTransaction(w) == op[w].pc \in {"plan", "upsert"}

(* Mutant: imports run side by side. *)
SyncLockSkipped == TRUE

(* pg_advisory_xact_lock('hostex-reservation-sync') *)
SyncLockFree == \A w \in Workers : ~InTransaction(w)

(* Mutant: updates of two rows run side by side. *)
ApartmentLockSkipped == TRUE

(* pg_advisory_xact_lock of the apartment; a cancellation does not take it *)
ApartmentLockFree ==
    \A w \in Workers : ~(op[w].kind = "update" /\ op[w].pc \in {"call", "save"})

(* The row lock, of FOR UPDATE or of an uncommitted UPDATE *)
RowLockFree(r, w) ==
    \A v \in Workers \ {w} :
        /\ op[v].written[r] = Unwritten
        /\ ~(op[v].kind \in {"update", "cancel"} /\ op[v].pc # "idle" /\ op[v].target = r)

Unused(r) ==
    /\ rows[r].origin = "none"
    /\ \A w \in Workers : op[w].written[r] = Unwritten

-----------------------------------------------------------------------------
(* Bookkeeping shared by the actions *)

Spend(kind) ==
    /\ budget[kind] > 0
    /\ budget' = [budget EXCEPT ![kind] = @ - 1]

Continue(w, o) == op' = [op EXCEPT ![w] = o]

End(w, result) == Continue(w, [IdleOp EXCEPT !.result = result])

-----------------------------------------------------------------------------
(* syncReservations: read Hostex, then apply the reading in a transaction *)

BeginSync(w, stays) ==
    Continue(w, [IdleOp EXCEPT !.pc = "read", !.kind = "sync", !.todo = stays,
                               !.whole = (stays = HostexStays)])

(* runAutomaticSync; automaticSyncInProgress is the worker being busy. *)
StartTimer ==
    /\ syncEnabled
    /\ op[Timer].pc = "idle"
    /\ BeginSync(Timer, HostexStays)
    /\ UNCHANGED <<hostex, rows, ref, review, budget, syncEnabled>>

(* HostexWebhookService.syncReservation: the stay of one code, or all *)
StartInbox(stays) ==
    /\ op[Inbox].pc = "idle"
    /\ Spend("webhook")
    /\ BeginSync(Inbox, stays)
    /\ UNCHANGED <<hostex, rows, ref, review, syncEnabled>>

(* listAllReservations: pages are read one after the other. *)
ReadStay(w, s) ==
    /\ op[w].pc = "read"
    /\ s \in op[w].todo
    /\ LET h == hostex[s]
           o == [op[w] EXCEPT !.todo = @ \ {s}]
       IN  IF h.status = "absent"
           THEN Continue(w, o)
           ELSE Continue(w, [o EXCEPT !.seen = @ \cup
                    {[stay |-> s, status |-> h.status, nights |-> h.nights, ver |-> h.ver]}])
    /\ UNCHANGED <<hostex, rows, ref, review, budget, syncEnabled>>

(* A filter that found nothing is followed by a full reading; a booking    *)
(* made from the app must be there and not cancelled.                      *)
ReadingEnds(w) ==
    /\ op[w].pc = "read"
    /\ op[w].todo = {}
    /\ \/ op[w].seen = {} /\ op[w].kind = "sync" /\ ~op[w].whole /\ BeginSync(w, HostexStays)
       \/ /\ op[w].kind = "create"
          /\ \A i \in op[w].seen : ToReservationStatus(i.status) = "cancelled"
          /\ End(w, "failed")
       \/ /\ \/ op[w].kind = "sync" /\ (op[w].seen # {} \/ op[w].whole)
             \/ \E i \in op[w].seen : ToReservationStatus(i.status) # "cancelled"
          /\ Continue(w, [op[w] EXCEPT !.pc = "begin"])
    /\ UNCHANGED <<hostex, rows, ref, review, budget, syncEnabled>>

(* What was planned from the pool before the transaction is planned again  *)
(* inside it.                                                              *)
BeginTransaction(w) ==
    /\ op[w].pc = "begin"
    /\ SyncLockFree
    /\ Continue(w, [op[w] EXCEPT !.pc = "plan"])
    /\ UNCHANGED <<hostex, rows, ref, review, budget, syncEnabled>>

(* Mutant: a known stay may move onto any nights. *)
ConflictsOnlyNew(w, i) ==
    /\ ViewedRef(w, i.stay) = NoRow
    /\ \/ TakenBy(View(w), i.nights, NoRow) # {}
       \/ Cardinality(LegacyMatches(View(w), i.nights)) > 1

(* Mutant: a cancelled stay, too, must fit beside the others. *)
ConflictsCancelled(w, i) ==
    \/ TakenBy(View(w), i.nights, ViewedRef(w, i.stay)) # {}
    \/ ViewedRef(w, i.stay) = NoRow /\ Cardinality(LegacyMatches(View(w), i.nights)) > 1

(* planReservation and the overlap check of upsertReservation: a stay with *)
(* no row yet must fit among the active bookings and match one iCal block  *)
(* at most; a known stay must fit beside its own row unless cancelled.     *)
Conflicts(w, i) ==
    LET own == ViewedRef(w, i.stay)
        taken == TakenBy(View(w), i.nights, own) # {}
    IN  IF own = NoRow
        THEN taken \/ Cardinality(LegacyMatches(View(w), i.nights)) > 1
        ELSE taken /\ ToReservationStatus(i.status) # "cancelled"

(* The row the reading goes to; NoRow for a new one                        *)
Target(w, i) ==
    IF ViewedRef(w, i.stay) # NoRow
    THEN ViewedRef(w, i.stay)
    ELSE CHOOSE r \in LegacyMatches(View(w), i.nights) \cup {NoRow} :
             LegacyMatches(View(w), i.nights) # {} => r # NoRow

(* A row that keeps its old dates after a conflict still gets the note on  *)
(* an unknown status.                                                      *)
UnknownNote(i) ==
    IF ToReservationStatus(i.status) = "needs_review" THEN {<<"unknown", i.stay>>} ELSE {}

ConflictNote(i) == {<<"conflict", i.stay>>}

Plan(w, i) ==
    /\ op[w].pc = "plan"
    /\ i \in op[w].seen
    /\ LET o == [op[w] EXCEPT !.seen = @ \ {i}]
           known == ViewedRef(w, i.stay) # NoRow
       IN  IF Conflicts(w, i)
           THEN Continue(w, [o EXCEPT
                    !.notes = @ \cup ConflictNote(i) \cup (IF known THEN UnknownNote(i) ELSE {}),
                    !.handled = @ \cup {i}])
           ELSE Continue(w, [o EXCEPT !.pc = "upsert", !.item = {i}, !.target = Target(w, i)])
    /\ UNCHANGED <<hostex, rows, ref, review, budget, syncEnabled>>

(* UPDATE waits for the row's lock; INSERT takes a fresh id, any.          *)
Upsert(w) ==
    /\ op[w].pc = "upsert"
    /\ \E i \in op[w].item, r \in Rows :
        /\ IF op[w].target = NoRow
           THEN Unused(r) /\ r = (CHOOSE u \in Rows : Unused(u))
           ELSE r = op[w].target /\ RowLockFree(r, w)
        /\ Continue(w, [op[w] EXCEPT
               !.pc = "plan", !.item = {}, !.target = NoRow,
               !.written[r] = [origin |-> "hostex", status |-> ToReservationStatus(i.status),
                               nights |-> i.nights, ver |-> i.ver],
               !.links[i.stay] = r,
               !.notes = @ \cup UnknownNote(i),
               !.handled = @ \cup {i}])
    /\ UNCHANGED <<hostex, rows, ref, review, budget, syncEnabled>>

(* A booking made from the app that meets others: the conflict is noted    *)
(* and committed, and the administrator gets an error.                     *)
Outcome(w) ==
    IF op[w].kind = "create" /\ \E n \in op[w].notes : n[1] = "conflict" THEN "failed" ELSE "done"

(* The queue's operation remembers what it applied (history).              *)
Commit(w) ==
    /\ op[w].pc = "plan"
    /\ op[w].seen = {}
    /\ rows' = View(w)
    /\ ref' = [s \in HostexStays |-> ViewedRef(w, s)]
    /\ review' = review \cup op[w].notes
    /\ Continue(w, [IdleOp EXCEPT !.result = Outcome(w),
                                  !.handled = IF w = Inbox THEN op[w].handled ELSE {}])
    /\ UNCHANGED <<hostex, budget, syncEnabled>>

(* A page that cannot be read, a statement that fails: ROLLBACK and throw. *)
SyncFails(w) ==
    /\ op[w].pc \in {"read", "begin", "plan", "upsert"}
    /\ Spend("fault")
    /\ End(w, "failed")
    /\ UNCHANGED <<hostex, rows, ref, review, syncEnabled>>

-----------------------------------------------------------------------------
(* Administrators *)

(* HostexReservationWritesService.create: the dates are looked up without  *)
(* a lock.                                                                 *)
Create(w, nights) ==
    /\ "create" \in AdminRequests
    /\ op[w].pc = "idle"
    /\ TakenBy(rows, nights, NoRow) = {}
    /\ Spend("request")
    /\ Continue(w, [IdleOp EXCEPT !.pc = "book", !.kind = "create", !.change.nights = nights])
    /\ UNCHANGED <<hostex, rows, ref, review, syncEnabled>>

(* createDirectReservation: Hostex refuses, or books and the booking is    *)
(* read back by its channel id.  When the answer is lost the booking is    *)
(* there all the same.                                                     *)
BookDirect(w, s) ==
    /\ op[w].pc = "book"
    /\ hostex[s].status = "absent"
    /\ \/ End(w, "failed") /\ UNCHANGED hostex
       \/ /\ hostex' = [hostex EXCEPT ![s] = [status |-> "accepted",
                                              nights |-> op[w].change.nights,
                                              direct |-> TRUE, ver |-> 1]]
          /\ \/ Continue(w, [IdleOp EXCEPT !.pc = "read", !.kind = "create", !.todo = {s}])
             \/ End(w, "failed")
    /\ UNCHANGED <<rows, ref, review, budget, syncEnabled>>

(* What PATCH may ask of a row: an imported one changes its dates or is    *)
(* cancelled, an iCal block nothing.                                       *)
Requested(r) ==
    {[rows[r] EXCEPT !.status = wish[1], !.nights = wish[2]] :
        wish \in {"confirmed", "cancelled", rows[r].status} \X Nights}

Allowed(r, change) ==
    /\ change # rows[r]
    /\ \/ rows[r].origin = "manual"
       \/ /\ rows[r].origin = "hostex"
          /\ \/ change.status = rows[r].status
             \/ change.status = "cancelled" /\ change.nights = rows[r].nights

(* update: SELECT ... FOR UPDATE, and the row stays locked *)
StartUpdate(w, r, change) ==
    /\ "update" \in AdminRequests
    /\ op[w].pc = "idle"
    /\ RowLockFree(r, w)
    /\ Allowed(r, change)
    /\ Spend("request")
    /\ Continue(w, [IdleOp EXCEPT !.pc = "check", !.kind = "update", !.target = r,
                                  !.change = change])
    /\ UNCHANGED <<hostex, rows, ref, review, syncEnabled>>

(* lockApartment, then assertNoOverlap on what is committed by then *)
Check(w) ==
    /\ op[w].pc = "check"
    /\ ApartmentLockFree
    /\ IF op[w].change.status # "cancelled" /\ TakenBy(rows, op[w].change.nights, op[w].target) # {}
       THEN End(w, "failed")
       ELSE Continue(w, [op[w] EXCEPT
                !.pc = IF op[w].change.origin = "hostex" THEN "call" ELSE "save"])
    /\ UNCHANGED <<hostex, rows, ref, review, budget, syncEnabled>>

(* cancelManual: the row's lock only.  A cancelled row is left alone.      *)
StartCancel(w, r) ==
    /\ "cancel" \in AdminRequests
    /\ op[w].pc = "idle"
    /\ rows[r].origin \in {"manual", "hostex"}
    /\ rows[r].status # "cancelled"
    /\ RowLockFree(r, w)
    /\ Spend("request")
    /\ Continue(w, [IdleOp EXCEPT !.pc = IF rows[r].origin = "hostex" THEN "call" ELSE "save",
                                  !.kind = "cancel", !.target = r,
                                  !.change = [rows[r] EXCEPT !.status = "cancelled"]])
    /\ UNCHANGED <<hostex, rows, ref, review, syncEnabled>>

(* HostexReservationWritesService.update and cancel: Hostex makes the      *)
(* change and answers, refuses it, or makes it and the answer is lost.     *)
(* Only a direct booking can be cancelled.                                 *)
CallHostex(w, s) ==
    /\ op[w].pc = "call"
    /\ ref[s] = op[w].target
    /\ LET cancels == op[w].change.status = "cancelled" /\ rows[ref[s]].status # "cancelled"
           changed == IF cancels
                      THEN [hostex[s] EXCEPT !.status = "cancelled", !.ver = @ + 1]
                      ELSE [hostex[s] EXCEPT !.nights = op[w].change.nights, !.ver = @ + 1]
       IN  \/ /\ End(w, "failed")
              /\ UNCHANGED <<hostex, budget>>
           \/ /\ cancels => hostex[s].direct
              /\ hostex' = [hostex EXCEPT ![s] = changed]
              /\ \/ /\ Continue(w, [op[w] EXCEPT !.pc = "save", !.change.ver = changed.ver])
                    /\ UNCHANGED budget
                 \/ Spend("fault") /\ End(w, "failed")
    /\ UNCHANGED <<rows, ref, review, syncEnabled>>

(* The UPDATE of the row and COMMIT *)
Save(w) ==
    /\ op[w].pc = "save"
    /\ rows' = [rows EXCEPT ![op[w].target] = op[w].change]
    /\ End(w, "done")
    /\ UNCHANGED <<hostex, ref, review, budget, syncEnabled>>

-----------------------------------------------------------------------------
(* Hostex's side, and restarts *)

Book(s, status, nights, direct) ==
    /\ hostex[s].status = "absent"
    /\ Spend("change")
    /\ hostex' = [hostex EXCEPT ![s] = [status |-> status, nights |-> nights,
                                        direct |-> direct, ver |-> 1]]
    /\ UNCHANGED <<rows, ref, review, op, syncEnabled>>

Change(s, status, nights) ==
    /\ hostex[s].status # "absent"
    /\ <<status, nights>> # <<hostex[s].status, hostex[s].nights>>
    /\ Spend("change")
    /\ hostex' = [hostex EXCEPT ![s].status = status, ![s].nights = nights, ![s].ver = @ + 1]
    /\ UNCHANGED <<rows, ref, review, op, syncEnabled>>

(* PostgreSQL rolls back what was not committed. *)
Crash ==
    /\ \E w \in Workers : op[w].pc # "idle"
    /\ Spend("crash")
    /\ op' = [w \in Workers |-> IdleOp]
    /\ UNCHANGED <<hostex, rows, ref, review, syncEnabled>>

-----------------------------------------------------------------------------
(* Specification *)

NoStay == [status |-> "absent", nights |-> AnyNights, direct |-> FALSE, ver |-> 0]

Init ==
    /\ \E b \in Beginnings :
          /\ hostex = b.hostex /\ rows = b.rows /\ ref = b.ref
          /\ budget = b.budget /\ syncEnabled = b.sync
    /\ review = {}
    /\ op = [w \in Workers |-> IdleOp]

SyncStep(w) ==
    \/ \E s \in HostexStays : ReadStay(w, s)
    \/ ReadingEnds(w)
    \/ BeginTransaction(w)
    \/ \E i \in op[w].seen : Plan(w, i)
    \/ Upsert(w)
    \/ Commit(w)

AdminStep(w) ==
    \/ Check(w)
    \/ \E s \in HostexStays : BookDirect(w, s) \/ CallHostex(w, s)
    \/ Save(w)

Requests(w) ==
    \/ \E nights \in Nights : Create(w, nights)
    \/ \E r \in Rows : \E change \in Requested(r) : StartUpdate(w, r, change)
    \/ \E r \in Rows : StartCancel(w, r)

HostexChanges ==
    \E s \in HostexStays, status \in HostexStatuses, nights \in Nights :
        \/ \E direct \in Directness : Book(s, status, nights, direct)
        \/ Change(s, status, nights)

Next ==
    \/ StartTimer
    \/ \E stays \in SUBSET HostexStays : StartInbox(stays)
    \/ \E w \in Workers : SyncStep(w) \/ SyncFails(w)
    \/ \E w \in Admins : AdminStep(w) \/ Requests(w)
    \/ HostexChanges
    \/ Crash

(* A statement or a call that began ends, and the timer fires every five   *)
(* minutes.  Nothing is assumed of requests, of Hostex or of failures.     *)
Fairness ==
    /\ WF_vars(StartTimer)
    /\ \A w \in Workers : WF_vars(SyncStep(w))
    /\ \A w \in Admins : WF_vars(AdminStep(w))

Spec == Init /\ [][Next]_vars /\ Fairness

-----------------------------------------------------------------------------
(* Properties *)

(* An imported stay has one row and an imported row one stay: no import    *)
(* inserts a stay twice or lays two stays on one row, whatever imports and *)
(* requests run beside it (planReservation, upsertReservation).            *)
OneRowPerStay ==
    /\ \A s \in HostexStays : ref[s] # NoRow => rows[ref[s]].origin = "hostex"
    /\ \A s, t \in HostexStays : ref[s] = ref[t] /\ ref[s] # NoRow => s = t
    /\ \A r \in Rows : rows[r].origin = "hostex" => \E s \in HostexStays : ref[s] = r

(* Two active bookings of the apartment never share a night                *)
(* (assertNoOverlap, planReservation, upsertReservation).                  *)
NoDoubleBooking ==
    \A r \in Rows : rows[r].origin \in {"manual", "hostex"} /\ rows[r].status # "cancelled"
                        => TakenBy(rows, rows[r].nights, r) = {}

Agrees(s) ==
    /\ ref[s] # NoRow
    /\ rows[ref[s]].status = ToReservationStatus(hostex[s].status)
    /\ rows[ref[s]].nights = hostex[s].nights

(* Nights a stay wants and cannot have are on the list of problems.        *)
BlockedAndReported(s) ==
    /\ <<"conflict", s>> \in review
    /\ ToReservationStatus(hostex[s].status) # "cancelled" \/ ref[s] = NoRow
    /\ \/ TakenBy(rows, hostex[s].nights, ref[s]) # {}
       \/ Cardinality(LegacyMatches(rows, hostex[s].nights)) > 1

(* What Hostex says of a stay is in the table in the end, or the stay is   *)
(* reported and its nights are really taken: no change, lost answer,       *)
(* failed transaction, restart or stale reading is lost for good           *)
(* (runAutomaticSync).                                                     *)
HostexReachesTable ==
    \A s \in HostexStays :
        <>[](hostex[s].status = "absent" \/ Agrees(s) \/ BlockedAndReported(s))

=============================================================================
