------------------------------ MODULE EmailOutbox ------------------------------
(***************************************************************************)
(* Mails to the owner about bookings: the trigger on `reservations' that   *)
(* puts them into reservation_email_outbox and folds quick changes into    *)
(* the mail still waiting (migrations/20261022090000_reservation_email_    *)
(* coalesce.sql), and the timer of each backend that sends one every       *)
(* thirty seconds (src/notifications/reservation-email.service.ts).        *)
(* One step is one transaction or one call to the mail provider.           *)
(*                                                                         *)
(* One guest stay of the future is modelled; owner's blocks and iCal       *)
(* observations, which the trigger passes over, templates, recipients and  *)
(* RESERVATION_EMAIL_START_AT are left out.                                *)
(***************************************************************************)
EXTENDS Naturals, FiniteSets

CONSTANTS
    Details,         \* what a mail shows of a stay besides its status
    Backends,        \* the processes that dispatch
    MaxMails,        \* rows of the outbox (bound)
    MaxAttempts,     \* attempts after which a mail is given up
    Pauses,          \* hours a mail that was tried may rest (bound)
    Budgets,         \* changes and disturbances of a behaviour, by kind (bound)
    NoDetails

ASSUME NoDetailsIsOutside == NoDetails \notin Details

ASSUME LimitsAreNaturals ==
    /\ MaxMails \in Nat
    /\ MaxAttempts \in Nat \ {0}

ASSUME PausesAreNaturals == Pauses \subseteq Nat

(* change: a write of the stay, which inserts at most one mail; provider:  *)
(* a refused or unanswered request; crash: a restart or a statement that   *)
(* fails; time: hours that pass for a mail that was tried                  *)
ASSUME BudgetsAreNaturals ==
    \A b \in Budgets : b \in [{"change", "provider", "crash", "time"} -> Nat]
                       /\ b["change"] <= MaxMails

VARIABLES
    stay,      \* the row of `reservations'
    outbox,    \* the rows of reservation_email_outbox, in the order of created_at
    op,        \* Backends -> the run of dispatch
    arrived,   \* Mails -> copies the provider delivered (history)
    keyAge,    \* Mails -> hours the provider has known its idempotency key
    budget

vars == <<stay, outbox, op, arrived, keyAge, budget>>

-----------------------------------------------------------------------------
(* Types *)

Mails == 1 .. MaxMails

(* What a mail shows (reservation_email_snapshot)                          *)
Snapshot == [status : {"confirmed", "cancelled"}, details : Details]

NoSnapshot == [status |-> "none", details |-> NoDetails]

(* The provider remembers a key for a day, the backend repeats a request   *)
(* for 23 hours.  A key of a day's age is forgotten, or was never known.   *)
Day == 24
Window == 23

(* age: hours since first_attempt_at, which is set together with request;  *)
(* waiting: next_attempt_at lies ahead                                     *)
Row ==
    [kind     : {"new_reservation", "reservation_modified", "reservation_cancelled"},
     snapshot : Snapshot,
     previous : Snapshot \cup {NoSnapshot},
     status   : {"pending", "sent", "failed"},
     attempts : Nat,
     request  : Snapshot \cup {NoSnapshot},
     age      : 0 .. Day,
     waiting  : BOOLEAN]

NoRow == [status |-> "none"]

OpType ==
    [pc      : {"idle", "lock", "send", "record"},
     mail    : 0 .. MaxMails,
     tries   : Nat,                   \* attempts of the row as it was selected
     outcome : {"none", "sent", "retry", "terminal"}]

IdleOp == [pc |-> "idle", mail |-> 0, tries |-> 0, outcome |-> "none"]

TypeOK ==
    /\ stay \in Snapshot \cup {NoSnapshot}
    /\ outbox \in [Mails -> Row \cup {NoRow}]
    /\ op \in [Backends -> OpType]
    /\ arrived \in [Mails -> Nat]
    /\ keyAge \in [Mails -> 0 .. Day]
    /\ budget \in [{"change", "provider", "crash", "time"} -> Nat]

-----------------------------------------------------------------------------
(* Bookkeeping *)

Spend(kind) ==
    /\ budget[kind] > 0
    /\ budget' = [budget EXCEPT ![kind] = @ - 1]

Continue(b, o) == op' = [op EXCEPT ![b] = o]

Exists(m) == outbox[m].status # "none"

Newest(S) == CHOOSE m \in S : \A n \in S : n <= m

Existing(table) == {m \in Mails : table[m].status # "none"}

-----------------------------------------------------------------------------
(* The trigger enqueue_reservation_email *)

(* INSERT of a mail; its place is after all others.                        *)
Inserted(table, kind, new, old) ==
    [table EXCEPT ![IF Existing(table) = {} THEN 1 ELSE Newest(Existing(table)) + 1] =
        [kind |-> kind, snapshot |-> new, previous |-> old, status |-> "pending",
         attempts |-> 0, request |-> NoSnapshot, age |-> 0, waiting |-> TRUE]]

Deleted(m) == [outbox EXCEPT ![m] = NoRow]

(* Mutant of Open: a mail whose sending was tried can still change. *)
OpenWhilePending ==
    {m \in Mails : /\ outbox[m].status = "pending"
                   /\ outbox[m].kind # "reservation_cancelled"}

(* Mails that were not tried yet and can still change                      *)
Open == {m \in Mails : /\ outbox[m].status = "pending" /\ outbox[m].request = NoSnapshot
                       /\ outbox[m].kind # "reservation_cancelled"}

(* A modification is folded into the mail that waits, which it prolongs,   *)
(* or takes it back when it undoes all of it.                              *)
Modified(new) ==
    IF Open = {} THEN Inserted(outbox, "reservation_modified", new, stay)
    ELSE LET m == Newest(Open)
         IN  IF outbox[m].kind = "reservation_modified" /\ new = outbox[m].previous
             THEN Deleted(m)
             ELSE [outbox EXCEPT ![m].snapshot = new, ![m].waiting = TRUE]

(* A cancellation replaces the mail that waits; if that one was to tell of *)
(* the stay, nothing is told at all.                                       *)
Cancelled(new) ==
    IF Open = {} THEN Inserted(outbox, "reservation_cancelled", new, stay)
    ELSE LET m == Newest(Open)
         IN  IF outbox[m].kind = "new_reservation" THEN Deleted(m)
             ELSE Inserted(Deleted(m), "reservation_cancelled", new, outbox[m].previous)

-----------------------------------------------------------------------------
(* Writes of the stay by whoever; the trigger is part of the statement     *)

CreateStay(new) ==
    /\ stay = NoSnapshot
    /\ Spend("change")
    /\ stay' = new
    /\ outbox' = IF new.status = "cancelled" THEN outbox
                 ELSE Inserted(outbox, "new_reservation", new, NoSnapshot)
    /\ UNCHANGED <<op, arrived, keyAge>>

UpdateStay(new) ==
    /\ stay \notin {NoSnapshot, new}
    /\ Spend("change")
    /\ stay' = new
    /\ outbox' = CASE new.status = "confirmed" -> Modified(new)
                   [] new.status = "cancelled" /\ stay.status = "confirmed" -> Cancelled(new)
                   [] OTHER -> outbox
    /\ UNCHANGED <<op, arrived, keyAge>>

-----------------------------------------------------------------------------
(* dispatch *)

(* A row is locked from the moment it is locked again to the COMMIT.       *)
Locked(m) == \E b \in Backends : op[b].mail = m /\ op[b].pc \in {"send", "record"}

(* Mutant of Due: a mail that was tried is left to its run. *)
DueUntried ==
    {m \in Mails : outbox[m].status = "pending" /\ ~outbox[m].waiting /\ ~Locked(m)
                   /\ outbox[m].request = NoSnapshot}

Due == {m \in Mails : outbox[m].status = "pending" /\ ~outbox[m].waiting /\ ~Locked(m)}

Oldest(S) == CHOOSE m \in S : \A n \in S : m <= n

(* Mutant of Leased: each attempt sets first_attempt_at. *)
LeasedAfresh(row) ==
    [row EXCEPT !.attempts = @ + 1, !.waiting = TRUE, !.age = 0,
                !.request = IF @ = NoSnapshot THEN row.snapshot ELSE @]

(* The request and the lease of two minutes, stored before the mail goes   *)
Leased(row) ==
    [row EXCEPT !.attempts = @ + 1, !.waiting = TRUE,
                !.request = IF @ = NoSnapshot THEN row.snapshot ELSE @]

(* The first transaction: select with SKIP LOCKED, then either give the    *)
(* mail up, 23 hours after its first attempt, or lease it.  `busy' is the  *)
(* run being under way.                                                    *)
Lease(b) ==
    /\ op[b].pc = "idle"
    /\ Due # {}
    /\ LET m == Oldest(Due)
       IN  IF outbox[m].request # NoSnapshot /\ outbox[m].age >= Window
           THEN /\ outbox' = [outbox EXCEPT ![m].status = "failed"]
                /\ UNCHANGED op
           ELSE /\ outbox' = [outbox EXCEPT ![m] = Leased(@)]
                /\ Continue(b, [IdleOp EXCEPT !.pc = "lock", !.mail = m,
                                              !.tries = outbox[m].attempts])
    /\ UNCHANGED <<stay, arrived, keyAge, budget>>

(* SELECT ... FOR UPDATE waits for whoever holds the row.                  *)
LockAgain(b) ==
    /\ op[b].pc = "lock"
    /\ ~Locked(op[b].mail)
    /\ Continue(b, [op[b] EXCEPT !.pc = "send"])
    /\ UNCHANGED <<stay, outbox, arrived, keyAge, budget>>

Answer(b, outcome) == Continue(b, [op[b] EXCEPT !.pc = "record", !.outcome = outcome])

(* The provider delivers the mail, unless it remembers its key, and        *)
(* answers or does not; or it refuses, for now or for good.                *)
Send(b) ==
    /\ op[b].pc = "send"
    /\ \/ /\ arrived' = [arrived EXCEPT ![op[b].mail] =
                            IF keyAge[op[b].mail] < Day THEN @ ELSE @ + 1]
          /\ keyAge' = [keyAge EXCEPT ![op[b].mail] = IF @ < Day THEN @ ELSE 0]
          /\ \/ Answer(b, "sent") /\ UNCHANGED budget
             \/ Answer(b, "retry") /\ Spend("provider")
       \/ /\ Spend("provider")
          /\ Answer(b, "retry") \/ Answer(b, "terminal")
          /\ UNCHANGED <<arrived, keyAge>>
    /\ UNCHANGED <<stay, outbox>>

(* Mutant of Settled: the statuses of the provider are stored. *)
SettledRaw(b) == op[b].outcome

Settled(b) ==
    CASE op[b].outcome = "sent" -> "sent"
      [] op[b].outcome = "terminal" \/ op[b].tries + 1 >= MaxAttempts -> "failed"
      [] OTHER -> "pending"

(* The UPDATE after the answer; it does not look at the row's status.      *)
Record(b) ==
    /\ op[b].pc = "record"
    /\ outbox' = [outbox EXCEPT ![op[b].mail].status = Settled(b),
                                ![op[b].mail].waiting = (Settled(b) = "pending")]
    /\ Continue(b, IdleOp)
    /\ UNCHANGED <<stay, arrived, keyAge, budget>>

(* A restart, or a statement that fails: the second transaction is rolled  *)
(* back and the lease stays.                                               *)
Crash(b) ==
    /\ op[b].pc # "idle"
    /\ Spend("crash")
    /\ Continue(b, IdleOp)
    /\ UNCHANGED <<stay, outbox, arrived, keyAge>>

-----------------------------------------------------------------------------
(* Time *)

Held(m) == \E b \in Backends : op[b].mail = m

(* A run is assumed to end within its lease of two minutes.                *)
Rests(m) == outbox[m].status = "pending" /\ ~Held(m)

(* The quiet period, the lease or the retry delay runs out.                *)
ComesDue(m) ==
    /\ Rests(m) /\ outbox[m].waiting
    /\ outbox' = [outbox EXCEPT ![m].waiting = FALSE]
    /\ UNCHANGED <<stay, op, arrived, keyAge, budget>>

Later(age, hours) == IF age + hours < Day THEN age + hours ELSE Day

TimePasses(m, hours) ==
    /\ Rests(m) /\ outbox[m].request # NoSnapshot
    /\ Spend("time")
    /\ outbox' = [outbox EXCEPT ![m].age = Later(@, hours)]
    /\ keyAge' = [keyAge EXCEPT ![m] = Later(@, hours)]
    /\ UNCHANGED <<stay, op, arrived>>

-----------------------------------------------------------------------------
(* Specification *)

Init ==
    /\ stay = NoSnapshot
    /\ outbox = [m \in Mails |-> NoRow]
    /\ op = [b \in Backends |-> IdleOp]
    /\ arrived = [m \in Mails |-> 0]
    /\ keyAge = [m \in Mails |-> Day]
    /\ budget \in Budgets

RunStep(b) == Lease(b) \/ LockAgain(b) \/ Send(b) \/ Record(b)

Next ==
    \/ \E new \in Snapshot : CreateStay(new) \/ UpdateStay(new)
    \/ \E b \in Backends : RunStep(b) \/ Crash(b)
    \/ \E m \in Mails : ComesDue(m) \/ \E hours \in Pauses : TimePasses(m, hours)

(* Statements and requests end; the timers of the backends and the quiet   *)
(* period run.                                                             *)
Fairness ==
    /\ \A b \in Backends : WF_vars(RunStep(b))
    /\ \A m \in Mails : WF_vars(ComesDue(m))

Spec == Init /\ [][Next]_vars /\ Fairness

-----------------------------------------------------------------------------
(* Properties *)

(* No mail is delivered twice, whatever answers are lost, whoever repeats  *)
(* it and however long a backend was down: the key is stable and no        *)
(* attempt is made once the provider may have forgotten it (dispatch).     *)
NoMailTwice == \A m \in Mails : arrived[m] <= 1

(* What the mail says or will say                                          *)
Says(m) == IF outbox[m].request # NoSnapshot THEN outbox[m].request ELSE outbox[m].snapshot

(* The newest mail says what the booking is, through all the folding,      *)
(* taking back and replacing of the trigger and while older mails are      *)
(* being sent; without a mail there is no booking to tell of               *)
(* (enqueue_reservation_email).                                            *)
NewestMailAgrees ==
    LET told == IF Existing(outbox) = {} THEN NoSnapshot ELSE Says(Newest(Existing(outbox)))
    IN  IF stay.status = "confirmed" THEN told = stay ELSE told.status # "confirmed"

(* Every mail reaches the owner or is taken back or reported as failed; a  *)
(* restart, a lost answer or a lease leaves none behind (dispatch).        *)
MailsSettle ==
    \A m \in Mails :
        outbox[m].status = "pending"
            ~> \/ outbox[m].status = "sent" /\ arrived[m] > 0
               \/ outbox[m].status \in {"failed", "none"}
=============================================================================
