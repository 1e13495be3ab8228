---------------------------- MODULE ArrivalMessages ----------------------------
(***************************************************************************)
(* The arrival message with the door code, sent to a guest's Hostex chat   *)
(* (src/arrival-messages/arrival-messages.service.ts).  Each stay date of  *)
(* a reservation has one row of arrival_message_deliveries, claimed before *)
(* anything is sent.  A worker is a backend's half-hourly run or one "send *)
(* now" request; one step is one statement or one call to Hostex.          *)
(*                                                                         *)
(* The reservations modelled have a channel chat (arrivalDeliveryChannel); *)
(* the map sent after the text, the wording and the templates are left     *)
(* out.  A worker finishes a stay within STALE_SENDING_MINUTES.            *)
(***************************************************************************)
EXTENDS Naturals, FiniteSets

CONSTANTS
    Reservations,
    Days,            \* arrival dates in use, also the days that pass
    Backends,        \* the scheduled runs, one per backend process
    Requests,        \* concurrent "send now" requests
    MaxAttempts,     \* MAX_ATTEMPTS
    FaultBudget,     \* refused or unanswered calls, failed statements (bound)
    CrashBudget,     \* restarts of one worker's process (bound)
    RequestBudget,   \* "send now" requests (bound)
    ChangeBudget     \* changes of reservations and codes (bound)

Workers == Backends \cup Requests

ASSUME DaysAreNumbers == Days \subseteq Nat

ASSUME WorkersAreApart == Backends \cap Requests = {}

ASSUME BoundsAreNaturals ==
    /\ MaxAttempts \in Nat \ {0}
    /\ FaultBudget \in Nat
    /\ CrashBudget \in Nat
    /\ RequestBudget \in Nat
    /\ ChangeBudget \in Nat

VARIABLES
    stay,      \* Reservations -> confirmed, arrival date, marked as sent
    hasCode,   \* Reservations -> an access code is active
    delivery,  \* Stays -> the row of arrival_message_deliveries
    told,      \* notifications for the owner: <<stay, outcome>>
    texts,     \* Stays -> texts in the guest's chat (history)
    op,        \* Workers -> what the worker is doing
    today,
    budget

vars == <<stay, hasCode, delivery, told, texts, op, today, budget>>

-----------------------------------------------------------------------------
(* Types *)

(* A stay is a reservation with one of its arrival dates.                  *)
Stays == Reservations \X Days

Outcomes == {"sent", "failed", "uncertain"}

OpType ==
    [pc      : {"idle", "release", "sweep", "load", "claim", "render", "send", "mark",
                "finish", "notify"},
     queue   : SUBSET Reservations,   \* due reservations still to handle
     freed   : SUBSET Stays,          \* released stays the owner has to hear of
     current : SUBSET Stays,          \* the stay in hand, in a set of one
     chosen  : SUBSET Reservations,   \* the reservation to load, in a set of one
     outcome : Outcomes \cup {"none"}]

IdleOp == [pc |-> "idle", queue |-> {}, freed |-> {}, current |-> {}, chosen |-> {},
           outcome |-> "none"]

TypeOK ==
    /\ stay \in [Reservations -> [confirmed : BOOLEAN, date : Days, marked : BOOLEAN]]
    /\ hasCode \in [Reservations -> BOOLEAN]
    /\ delivery \in [Stays -> [status : {"none", "sending"} \cup Outcomes,
                               attempts : 0 .. MaxAttempts, stale : BOOLEAN]]
    /\ told \subseteq Stays \X Outcomes
    /\ texts \in [Stays -> Nat]
    /\ op \in [Workers -> OpType]
    /\ today \in Days
    /\ budget \in [{"fault", "crash", "request", "change"} -> Nat]

-----------------------------------------------------------------------------
(* Bookkeeping *)

Spend(kind) ==
    /\ budget[kind] > 0
    /\ budget' = [budget EXCEPT ![kind] = @ - 1]

Continue(w, o) == op' = [op EXCEPT ![w] = o]

(* The rest of the run, or the end of a request                            *)
NextStay(w) ==
    Continue(w, [IdleOp EXCEPT !.pc = IF w \in Backends THEN "sweep" ELSE "idle",
                               !.queue = op[w].queue])

(* sendViaHostex turns an outcome into finish and then notify.             *)
Conclude(w, outcome) == Continue(w, [op[w] EXCEPT !.pc = "finish", !.outcome = outcome])

-----------------------------------------------------------------------------
(* handleScheduledSend *)

(* Mutant of Handled: a failed row is not picked up again. *)
HandledOnce(s) == delivery[s].status # "none"

(* The NOT EXISTS of the query for due stays                               *)
Handled(s) ==
    \/ delivery[s].status \in {"sending", "sent", "uncertain"}
    \/ delivery[s].attempts >= MaxAttempts

Due(r) ==
    /\ stay[r].confirmed
    /\ ~stay[r].marked
    /\ stay[r].date = today
    /\ ~Handled(<<r, today>>)

Stale == {s \in Stays : delivery[s].status = "sending" /\ delivery[s].stale}

(* A run begins with releaseStaleSending's UPDATE; `busy' is the worker    *)
(* being busy.  Runs that would find nothing are left out.                 *)
StartRun(w) ==
    /\ w \in Backends
    /\ op[w].pc = "idle"
    /\ Stale # {} \/ \E r \in Reservations : Due(r)
    /\ delivery' = [s \in Stays |->
           IF s \in Stale THEN [delivery[s] EXCEPT !.status = "uncertain"] ELSE delivery[s]]
    /\ Continue(w, [IdleOp EXCEPT !.pc = "release", !.freed = Stale])
    /\ UNCHANGED <<stay, hasCode, told, texts, today, budget>>

(* The owner hears of each released stay; a notification that fails is     *)
(* only logged.                                                            *)
TellReleased(w, s) ==
    /\ op[w].pc = "release"
    /\ s \in op[w].freed
    /\ \/ told' = told \cup {<<s, "uncertain">>} /\ UNCHANGED budget
       \/ Spend("fault") /\ UNCHANGED told
    /\ Continue(w, [op[w] EXCEPT !.freed = @ \ {s}])
    /\ UNCHANGED <<stay, hasCode, delivery, texts, today>>

SelectDue(w) ==
    /\ op[w].pc = "release"
    /\ op[w].freed = {}
    /\ Continue(w, [op[w] EXCEPT !.pc = "sweep", !.queue = {r \in Reservations : Due(r)}])
    /\ UNCHANGED <<stay, hasCode, delivery, told, texts, today, budget>>

Take(w, r) ==
    /\ op[w].pc = "sweep"
    /\ r \in op[w].queue
    /\ Continue(w, [op[w] EXCEPT !.pc = "load", !.queue = @ \ {r}, !.chosen = {r}])
    /\ UNCHANGED <<stay, hasCode, delivery, told, texts, today, budget>>

EndRun(w) ==
    /\ op[w].pc = "sweep"
    /\ op[w].queue = {}
    /\ Continue(w, IdleOp)
    /\ UNCHANGED <<stay, hasCode, delivery, told, texts, today, budget>>

(* POST .../arrival-message/send                                           *)
SendNow(w, r) ==
    /\ w \in Requests
    /\ op[w].pc = "idle"
    /\ Spend("request")
    /\ Continue(w, [IdleOp EXCEPT !.pc = "load", !.chosen = {r}])
    /\ UNCHANGED <<stay, hasCode, delivery, told, texts, today>>

-----------------------------------------------------------------------------
(* sendViaHostex *)

(* loadStay and the checks: confirmed and not marked as sent.  The date it *)
(* read stays with the worker.                                             *)
Load(w) ==
    /\ op[w].pc = "load"
    /\ \E r \in op[w].chosen :
        IF stay[r].confirmed /\ ~stay[r].marked
        THEN Continue(w, [op[w] EXCEPT !.pc = "claim", !.current = {<<r, stay[r].date>>},
                                       !.chosen = {}])
        ELSE NextStay(w)
    /\ UNCHANGED <<stay, hasCode, delivery, told, texts, today, budget>>

(* Mutants of Claimable: a released row may be claimed again, and the      *)
(* attempts are not looked at.                                             *)
ClaimableUnlessSent(s) ==
    delivery[s].status \in {"none", "failed", "uncertain"} /\ delivery[s].attempts < MaxAttempts
ClaimableAlways(s) == delivery[s].status \in {"none", "failed"}

Claimable(s) ==
    \/ delivery[s].status = "none"
    \/ delivery[s].status = "failed" /\ delivery[s].attempts < MaxAttempts

(* INSERT ... ON CONFLICT DO UPDATE: the row belongs to one worker.        *)
Claim(w) ==
    /\ op[w].pc = "claim"
    /\ \E s \in op[w].current :
        IF Claimable(s)
        THEN /\ delivery' = [delivery EXCEPT
                    ![s] = [status |-> "sending", attempts |-> @.attempts + 1, stale |-> FALSE]]
             /\ Continue(w, [op[w] EXCEPT !.pc = "render"])
        ELSE NextStay(w) /\ UNCHANGED delivery
    /\ UNCHANGED <<stay, hasCode, told, texts, today, budget>>

(* No active code, no text; any error while rendering is the same.         *)
Render(w) ==
    /\ op[w].pc = "render"
    /\ \E s \in op[w].current :
        \/ hasCode[s[1]] /\ Continue(w, [op[w] EXCEPT !.pc = "send"]) /\ UNCHANGED budget
        \/ ~hasCode[s[1]] /\ Conclude(w, "failed") /\ UNCHANGED budget
        \/ hasCode[s[1]] /\ Spend("fault") /\ Conclude(w, "failed")
    /\ UNCHANGED <<stay, hasCode, delivery, told, texts, today>>

(* Mutant of OutcomeOf: no answer is taken for a rejection. *)
OutcomeAlwaysFailed(error) == "failed"

(* classifyHostexSendError: a rejection means that nothing was sent, no    *)
(* answer means that nobody knows.                                         *)
OutcomeOf(error) == IF error = "no answer" THEN "uncertain" ELSE "failed"

Send(w) ==
    /\ op[w].pc = "send"
    /\ \E s \in op[w].current :
        \/ /\ texts' = [texts EXCEPT ![s] = @ + 1]
           /\ Continue(w, [op[w] EXCEPT !.pc = "mark"])
           /\ UNCHANGED budget
        \/ /\ Spend("fault")
           /\ Conclude(w, OutcomeOf("rejected"))
           /\ UNCHANGED texts
        \/ /\ Spend("fault")
           /\ Conclude(w, OutcomeOf("no answer"))
           /\ \E reached \in {0, 1} : texts' = [texts EXCEPT ![s] = @ + reached]
    /\ UNCHANGED <<stay, hasCode, delivery, told, today>>

(* arrival_message_sent_at, of whatever dates the reservation has by now   *)
Mark(w) ==
    /\ op[w].pc = "mark"
    /\ stay' = [r \in Reservations |->
           IF \E s \in op[w].current : s[1] = r THEN [stay[r] EXCEPT !.marked = TRUE] ELSE stay[r]]
    /\ Conclude(w, "sent")
    /\ UNCHANGED <<hasCode, delivery, told, texts, today, budget>>

Finish(w) ==
    /\ op[w].pc = "finish"
    /\ \E s \in op[w].current : delivery' = [delivery EXCEPT ![s].status = op[w].outcome]
    /\ Continue(w, [op[w] EXCEPT !.pc = "notify"])
    /\ UNCHANGED <<stay, hasCode, told, texts, today, budget>>

Notify(w) ==
    /\ op[w].pc = "notify"
    /\ told' = told \cup (op[w].current \X {op[w].outcome})
    /\ NextStay(w)
    /\ UNCHANGED <<stay, hasCode, delivery, texts, today, budget>>

(* A statement that fails ends the work on this stay, not the run.         *)
StatementFails(w) ==
    /\ op[w].pc \in {"load", "claim", "mark", "finish", "notify"}
    /\ Spend("fault")
    /\ NextStay(w)
    /\ UNCHANGED <<stay, hasCode, delivery, told, texts, today>>

Restart(w) ==
    /\ op[w].pc # "idle"
    /\ Spend("crash")
    /\ Continue(w, IdleOp)
    /\ UNCHANGED <<stay, hasCode, delivery, told, texts, today>>

-----------------------------------------------------------------------------
(* Time and the rest of the backend *)

(* STALE_SENDING_MINUTES pass for a row nobody works on.                   *)
GoesStale(s) ==
    /\ delivery[s].status = "sending" /\ ~delivery[s].stale
    /\ \A w \in Workers : s \notin op[w].current
    /\ delivery' = [delivery EXCEPT ![s].stale = TRUE]
    /\ UNCHANGED <<stay, hasCode, told, texts, op, today, budget>>

NextDay ==
    /\ today + 1 \in Days
    /\ today' = today + 1
    /\ UNCHANGED <<stay, hasCode, delivery, told, texts, op, budget>>

(* Imports and administrators move, cancel or restore a booking; the owner *)
(* marks the message as sent, or takes the mark away.                      *)
ChangeStay(r) ==
    /\ Spend("change")
    /\ \/ \E d \in Days \ {stay[r].date} : stay' = [stay EXCEPT ![r].date = d]
       \/ stay' = [stay EXCEPT ![r].confirmed = ~@]
       \/ stay' = [stay EXCEPT ![r].marked = ~@]
    /\ UNCHANGED <<hasCode, delivery, told, texts, op, today>>

ChangeCode(r) ==
    /\ Spend("change")
    /\ hasCode' = [hasCode EXCEPT ![r] = ~@]
    /\ UNCHANGED <<stay, delivery, told, texts, op, today>>

-----------------------------------------------------------------------------
(* Specification *)

Init ==
    /\ \E d \in Days :
        /\ \A e \in Days : d <= e
        /\ today = d
        /\ stay \in [Reservations -> [confirmed : {TRUE}, date : {d}, marked : {FALSE}]]
    /\ hasCode \in [Reservations -> BOOLEAN]
    /\ delivery = [s \in Stays |-> [status |-> "none", attempts |-> 0, stale |-> FALSE]]
    /\ told = {}
    /\ texts = [s \in Stays |-> 0]
    /\ op = [w \in Workers |-> IdleOp]
    /\ budget = [fault |-> FaultBudget, crash |-> CrashBudget,
                 request |-> RequestBudget, change |-> ChangeBudget]

Step(w) ==
    \/ StartRun(w)
    \/ \E s \in Stays : TellReleased(w, s)
    \/ SelectDue(w)
    \/ \E r \in Reservations : Take(w, r)
    \/ EndRun(w)
    \/ Load(w)
    \/ Claim(w)
    \/ Render(w)
    \/ Send(w)
    \/ Mark(w)
    \/ Finish(w)
    \/ Notify(w)

Next ==
    \/ \E w \in Workers : Step(w) \/ StatementFails(w) \/ Restart(w)
    \/ \E w \in Requests, r \in Reservations : SendNow(w, r)
    \/ \E s \in Stays : GoesStale(s)
    \/ \E r \in Reservations : ChangeStay(r) \/ ChangeCode(r)
    \/ NextDay

(* Runs are scheduled every half hour and what began goes on; minutes      *)
(* pass.  Days need not end: `for ever' stands for the eight runs of one.  *)
Fairness ==
    /\ \A w \in Workers : WF_vars(Step(w))
    /\ \A s \in Stays : WF_vars(GoesStale(s))

Spec == Init /\ [][Next]_vars /\ Fairness

-----------------------------------------------------------------------------
(* Properties *)

(* For one arrival date a guest gets the text once at most, whatever       *)
(* backends, requests, lost answers and restarts (claim).                  *)
OneTextPerStay == \A s \in Stays : texts[s] <= 1

(* A delivery called `failed' did not reach the guest, so that it may be   *)
(* tried again (classifyHostexSendError, finish).                          *)
FailedWasNotSent == \A s \in Stays : delivery[s].status = "failed" => texts[s] = 0

(* A guest with a code who is due and stays due is served: the text is     *)
(* sent, or nobody can tell, or the attempts are used up                   *)
(* (handleScheduledSend).                                                  *)
DueGuestIsServed ==
    \A r \in Reservations :
        ~ <>[](/\ stay[r].confirmed /\ ~stay[r].marked /\ stay[r].date = today
               /\ hasCode[r]
               /\ delivery[<<r, today>>].status \in {"none", "sending", "failed"}
               /\ delivery[<<r, today>>].attempts < MaxAttempts)

=============================================================================
