----------------------------- MODULE Notifications -----------------------------
(***************************************************************************)
(* Push notifications (src/notifications/notification-dispatch.service.ts, *)
(* notifications.service.ts): producers insert events, every backend       *)
(* process claims due ones each fifteen seconds and sends each to the      *)
(* devices that want it.  One step is one statement or one call to Apple's *)
(* push service (apns.client.ts).                                          *)
(*                                                                         *)
(* One kind of event is modelled, so a device has one preference; badges,  *)
(* payloads, failure counts and the cached provider token are left out.    *)
(***************************************************************************)
EXTENDS Naturals, FiniteSets

CONSTANTS
    Events,
    Devices,
    Backends,          \* the processes that dispatch
    Rank,              \* Events -> rank of the event's priority, 0 is critical
    BatchSize,         \* EVENTS_PER_RUN
    MaxAttempts,       \* NOTIFICATION_MAX_ATTEMPTS
    Budgets            \* the disturbances of a behaviour, by kind (bound)

ASSUME RanksAreNumbers == Rank \in [Events -> Nat]

ASSUME LimitsAreNaturals ==
    /\ BatchSize \in Nat \ {0}
    /\ MaxAttempts \in Nat \ {0}

(* fault: a push refused for now, or not answered; statement: a statement  *)
(* that fails; crash: a restart of one process; change: of a device, a     *)
(* preference, or an event that grows too old; slow: a run that holds an   *)
(* event for more than ten minutes                                         *)
Disturbances == {"fault", "statement", "crash", "change", "slow"}

ASSUME BudgetsAreNaturals == Budgets \subseteq [Disturbances -> Nat]

VARIABLES
    event,      \* the rows of notification_events
    device,     \* notification_devices, the owner's preference and the phone
    delivery,   \* Events -> Devices -> status in notification_deliveries
    reached,    \* <<event, device>>: shown on the phone (history)
    refused,    \* <<event, device>>: refused for good (history)
    op,         \* Backends -> the run of dispatch
    budget

vars == <<event, device, delivery, reached, refused, op, budget>>

-----------------------------------------------------------------------------
(* Types *)

(* A claimed event with the attempt_count its claim returned               *)
Claims == Events \X Nat

OpType ==
    [pc        : {"idle", "claim", "next", "deliver", "skip", "send", "record", "device"},
     batch     : SUBSET Claims,     \* claimed events still to dispatch
     current   : SUBSET Claims,     \* the one in hand, in a set of one
     todo      : SUBSET Devices,    \* recipients still to handle
     allowed   : SUBSET Devices,    \* recipients whose preference allowed the event
     target    : SUBSET Devices,    \* the recipient in hand, in a set of one
     outcome   : {"none", "sent", "invalid_token", "retry", "rejected"},
     retryable : BOOLEAN]

IdleOp == [pc |-> "idle", batch |-> {}, current |-> {}, todo |-> {}, allowed |-> {},
           target |-> {}, outcome |-> "none", retryable |-> FALSE]

(* waiting: scheduled_for lies ahead; stuck: updated_at is older than ten  *)
(* minutes; expired: older than NOTIFICATION_PUSH_MAX_AGE_MS; outlived: it *)
(* was taken back while a run still held it (history)                      *)
EventType ==
    [status : {"none", "pending", "processing", "sent", "failed"}, attempts : Nat,
     waiting : BOOLEAN, stuck : BOOLEAN, expired : BOOLEAN, outlived : BOOLEAN]

TypeOK ==
    /\ event \in [Events -> EventType]
    /\ device \in [Devices -> [enabled : BOOLEAN, allowed : BOOLEAN, installed : BOOLEAN]]
    /\ delivery \in [Events -> [Devices -> {"none", "processing", "sent", "failed", "skipped"}]]
    /\ reached \subseteq Events \X Devices
    /\ refused \subseteq Events \X Devices
    /\ op \in [Backends -> OpType]
    /\ budget \in [Disturbances -> Nat]

-----------------------------------------------------------------------------
(* Bookkeeping *)

Spend(kind) ==
    /\ budget[kind] > 0
    /\ budget' = [budget EXCEPT ![kind] = @ - 1]

Continue(b, o) == op' = [op EXCEPT ![b] = o]

(* After a recipient: the next one                                         *)
NextRecipient(b, retry) ==
    Continue(b, [op[b] EXCEPT !.pc = "deliver", !.target = {}, !.outcome = "none",
                              !.retryable = @ \/ retry])

(* An UPDATE of an event sets updated_at.                                  *)
Touch(e, status) == [event[e] EXCEPT !.status = status, !.stuck = FALSE]

-----------------------------------------------------------------------------
(* Producers and administrators *)

(* A trigger or a timer inserts an event.  One whose dedupe_key is taken   *)
(* is ignored (ON CONFLICT DO NOTHING).                                    *)
Enqueue(e) ==
    /\ event[e].status = "none"
    /\ event' = [event EXCEPT ![e] = Touch(e, "pending")]
    /\ UNCHANGED <<device, delivery, reached, refused, op, budget>>

RegisterDevice(d) ==
    /\ ~device[d].enabled \/ ~device[d].installed
    /\ Spend("change")
    /\ device' = [device EXCEPT ![d].enabled = TRUE, ![d].installed = TRUE]
    /\ UNCHANGED <<event, delivery, reached, refused, op>>

UnregisterDevice(d) ==
    /\ device[d].enabled
    /\ Spend("change")
    /\ device' = [device EXCEPT ![d].enabled = FALSE]
    /\ UNCHANGED <<event, delivery, reached, refused, op>>

UpdatePreferences(d) ==
    /\ Spend("change")
    /\ device' = [device EXCEPT ![d].allowed = ~@]
    /\ UNCHANGED <<event, delivery, reached, refused, op>>

(* The app is removed from a phone; nobody tells the backend.              *)
Uninstall(d) ==
    /\ device[d].installed
    /\ Spend("change")
    /\ device' = [device EXCEPT ![d].installed = FALSE]
    /\ UNCHANGED <<event, delivery, reached, refused, op>>

-----------------------------------------------------------------------------
(* dispatch: release, claim *)

Stuck == {e \in Events : event[e].status = "processing" /\ event[e].stuck}

Due == {e \in Events : event[e].status = "pending" /\ ~event[e].waiting}

HeldBy(e, b) == \E c \in op[b].batch \cup op[b].current : c[1] = e

Held(e) == \E b \in Backends : HeldBy(e, b)

(* A run begins with releaseStuckEvents, which goes by updated_at and does *)
(* not know whether a run still holds the event; `busy' is the run being   *)
(* under way.  Runs that would find nothing are left out.                  *)
StartRun(b) ==
    /\ op[b].pc = "idle"
    /\ Stuck \cup Due # {}
    /\ event' = [e \in Events |->
           IF e \in Stuck THEN [Touch(e, "pending") EXCEPT !.outlived = @ \/ Held(e)]
           ELSE event[e]]
    /\ Continue(b, [IdleOp EXCEPT !.pc = "claim"])
    /\ UNCHANGED <<device, delivery, reached, refused, budget>>

(* Mutant of Claimable: the claim reads events before it locks them and    *)
(* does not look at their status again.                                    *)
ClaimableWithoutLock == Due \cup {e \in Events : event[e].status = "processing"}

(* Rows that FOR UPDATE SKIP LOCKED finds                                  *)
Claimable == Due

(* The claim takes the most urgent events; those of equal priority in any  *)
(* order.                                                                  *)
ClaimEvents(b) ==
    /\ op[b].pc = "claim"
    /\ \E S \in SUBSET Claimable :
        /\ Cardinality(S) = BatchSize \/ (S = Claimable /\ Cardinality(S) < BatchSize)
        /\ \A e \in S, f \in Claimable \ S : Rank[e] <= Rank[f]
        /\ event' = [e \in Events |->
               IF e \in S THEN [Touch(e, "processing") EXCEPT !.attempts = @ + 1] ELSE event[e]]
        /\ Continue(b, IF S = {} THEN IdleOp
                       ELSE [IdleOp EXCEPT
                               !.pc = "next",
                               !.batch = {<<e, event[e].attempts + 1>> : e \in S}])
    /\ UNCHANGED <<device, delivery, reached, refused, budget>>

-----------------------------------------------------------------------------
(* dispatchEvent *)

(* The end of an event, by finishEvent or by the retry's UPDATE            *)
NextEvent(b) ==
    Continue(b, IF op[b].batch \subseteq op[b].current THEN IdleOp
                ELSE [IdleOp EXCEPT !.pc = "next", !.batch = op[b].batch \ op[b].current])

DropExpired(b, c) ==
    /\ op[b].pc = "next"
    /\ c \in op[b].batch
    /\ event[c[1]].expired
    /\ event' = [event EXCEPT ![c[1]] = Touch(c[1], "failed")]
    /\ Continue(b, IF op[b].batch = {c} THEN IdleOp ELSE [op[b] EXCEPT !.batch = @ \ {c}])
    /\ UNCHANGED <<device, delivery, reached, refused, budget>>

(* Mutant of Unserved: a failed delivery counts as served. *)
UnservedOnce(e) == {d \in Devices : device[d].enabled /\ delivery[e][d] \in {"none", "processing"}}

(* Mutant of Unserved: deliveries are not looked at. *)
UnservedAll(e) == {d \in Devices : device[d].enabled}

(* Enabled devices without a final delivery                                *)
Unserved(e) == {d \in Devices : device[d].enabled /\ delivery[e][d] \notin {"sent", "skipped"}}

ReadRecipients(b, c) ==
    /\ op[b].pc = "next"
    /\ c \in op[b].batch
    /\ ~event[c[1]].expired
    /\ Continue(b, [op[b] EXCEPT !.pc = "deliver", !.current = {c}, !.todo = Unserved(c[1]),
                                 !.allowed = {d \in Unserved(c[1]) : device[d].allowed}])
    /\ UNCHANGED <<event, device, delivery, reached, refused, budget>>

UpsertDelivery(b, c, d) ==
    /\ op[b].pc = "deliver"
    /\ c \in op[b].current
    /\ d \in op[b].todo
    /\ delivery' = [delivery EXCEPT ![c[1]][d] = "processing"]
    /\ Continue(b, [op[b] EXCEPT !.pc = IF d \in op[b].allowed THEN "send" ELSE "skip",
                                 !.todo = @ \ {d}, !.target = {d}])
    /\ UNCHANGED <<event, device, reached, refused, budget>>

SkipDelivery(b, c, d) ==
    /\ op[b].pc = "skip"
    /\ c \in op[b].current
    /\ d \in op[b].target
    /\ delivery' = [delivery EXCEPT ![c[1]][d] = "skipped"]
    /\ NextRecipient(b, FALSE)
    /\ UNCHANGED <<event, device, reached, refused, budget>>

Answer(b, outcome) == Continue(b, [op[b] EXCEPT !.pc = "record", !.outcome = outcome])

(* Apple's service: accepts, accepts without an answer in time, refuses    *)
(* for now or does not hear of it, or refuses for good.                    *)
Send(b, c, d) ==
    /\ op[b].pc = "send"
    /\ c \in op[b].current
    /\ d \in op[b].target
    /\ \/ /\ device[d].installed
          /\ reached' = reached \cup {<<c[1], d>>}
          /\ \/ Answer(b, "sent") /\ UNCHANGED budget
             \/ Answer(b, "retry") /\ Spend("fault")
          /\ UNCHANGED refused
       \/ /\ ~device[d].installed
          /\ Answer(b, "invalid_token")
          /\ refused' = refused \cup {<<c[1], d>>}
          /\ UNCHANGED <<reached, budget>>
       \/ /\ Spend("fault")
          /\ \/ Answer(b, "retry") /\ UNCHANGED refused
             \/ Answer(b, "rejected") /\ refused' = refused \cup {<<c[1], d>>}
          /\ UNCHANGED reached
    /\ UNCHANGED <<event, device, delivery>>

(* Mutant of StatusFor: an answer is stored as it is. *)
StatusForRaw(outcome) == IF outcome = "retry" THEN "failed" ELSE outcome

StatusFor(outcome) ==
    CASE outcome = "sent" -> "sent" [] outcome = "invalid_token" -> "skipped" [] OTHER -> "failed"

(* updateDelivery and, after a push Apple's service accepted or refused,   *)
(* the statement about the device: disableDevice is a step of its own,     *)
(* markDeviceHealthy and recordDeviceFailure change nothing that is        *)
(* modelled.  When one of them fails, the catch clause makes the delivery  *)
(* a failed one.                                                           *)
Record(b, c, d) ==
    /\ op[b].pc = "record"
    /\ c \in op[b].current
    /\ d \in op[b].target
    /\ delivery' = [delivery EXCEPT ![c[1]][d] = StatusFor(op[b].outcome)]
    /\ \/ /\ op[b].outcome = "invalid_token"
          /\ Continue(b, [op[b] EXCEPT !.pc = "device"])
          /\ UNCHANGED budget
       \/ /\ op[b].outcome # "invalid_token"
          /\ NextRecipient(b, op[b].outcome = "retry")
          /\ UNCHANGED budget
       \/ /\ op[b].outcome \in {"sent", "rejected"}
          /\ Spend("statement")
          /\ Answer(b, "retry")
    /\ UNCHANGED <<event, device, reached, refused>>

DisableDevice(b, d) ==
    /\ op[b].pc = "device"
    /\ d \in op[b].target
    /\ device' = [device EXCEPT ![d].enabled = FALSE]
    /\ NextRecipient(b, FALSE)
    /\ UNCHANGED <<event, delivery, reached, refused, budget>>

Conclude(b, c) ==
    /\ op[b].pc = "deliver"
    /\ op[b].todo = {}
    /\ c \in op[b].current
    /\ event' = [event EXCEPT ![c[1]] =
           IF op[b].retryable /\ c[2] < MaxAttempts
           THEN [Touch(c[1], "pending") EXCEPT !.waiting = TRUE]
           ELSE Touch(c[1], IF op[b].retryable THEN "failed" ELSE "sent")]
    /\ NextEvent(b)
    /\ UNCHANGED <<device, delivery, reached, refused, budget>>

(* A statement fails.  Inside the try block around a push the catch clause *)
(* records a failed delivery; everywhere else (before a push this is the   *)
(* count for its badge) the run ends and leaves its events in processing.  *)
StatementFails(b) ==
    /\ op[b].pc # "idle"
    /\ Spend("statement")
    /\ IF op[b].pc = "device" \/ (op[b].pc = "record" /\ op[b].outcome # "retry")
       THEN Answer(b, "retry")
       ELSE Continue(b, IdleOp)
    /\ UNCHANGED <<event, device, delivery, reached, refused>>

(* A restart forgets the run.                                              *)
Crash(b) ==
    /\ op[b].pc # "idle"
    /\ Spend("crash")
    /\ Continue(b, IdleOp)
    /\ UNCHANGED <<event, device, delivery, reached, refused>>

-----------------------------------------------------------------------------
(* Time *)

RetryTimeComes(e) ==
    /\ event[e].status = "pending" /\ event[e].waiting
    /\ event' = [event EXCEPT ![e].waiting = FALSE]
    /\ UNCHANGED <<device, delivery, reached, refused, op, budget>>

(* Ten minutes without an UPDATE of an event no run holds                  *)
GetsStuck(e) ==
    /\ event[e].status = "processing" /\ ~event[e].stuck
    /\ ~Held(e)
    /\ event' = [event EXCEPT ![e].stuck = TRUE]
    /\ UNCHANGED <<device, delivery, reached, refused, op, budget>>

(* Ten minutes since the claim of an event a run still holds: dispatchRun  *)
(* serves the batch one push after another, each of which may take ten     *)
(* seconds, and updated_at is not set between the claim and finishEvent.   *)
HeldTooLong(e) ==
    /\ event[e].status = "processing" /\ ~event[e].stuck
    /\ Held(e)
    /\ Spend("slow")
    /\ event' = [event EXCEPT ![e].stuck = TRUE]
    /\ UNCHANGED <<device, delivery, reached, refused, op>>

Expires(e) ==
    /\ event[e].status \in {"pending", "processing"} /\ ~event[e].expired
    /\ Spend("change")
    /\ event' = [event EXCEPT ![e].expired = TRUE]
    /\ UNCHANGED <<device, delivery, reached, refused, op>>

-----------------------------------------------------------------------------
(* Specification *)

Init ==
    /\ event = [e \in Events |-> [status |-> "none", attempts |-> 0, waiting |-> FALSE,
                                  stuck |-> FALSE, expired |-> FALSE, outlived |-> FALSE]]
    /\ device = [d \in Devices |-> [enabled |-> TRUE, allowed |-> TRUE, installed |-> TRUE]]
    /\ delivery = [e \in Events |-> [d \in Devices |-> "none"]]
    /\ reached = {}
    /\ refused = {}
    /\ op = [b \in Backends |-> IdleOp]
    /\ budget \in Budgets

(* The steps of a run, each of which ends: a statement returns and a push  *)
(* has a timeout of ten seconds.                                           *)
RunStep(b) ==
    \/ StartRun(b)
    \/ ClaimEvents(b)
    \/ \E c \in op[b].batch : DropExpired(b, c) \/ ReadRecipients(b, c)
    \/ \E c \in op[b].current : Conclude(b, c)
    \/ \E c \in op[b].current, d \in Devices :
          \/ UpsertDelivery(b, c, d)
          \/ SkipDelivery(b, c, d)
          \/ Send(b, c, d)
          \/ Record(b, c, d)
    \/ \E d \in Devices : DisableDevice(b, d)

Changes ==
    \/ \E e \in Events : Enqueue(e) \/ Expires(e)
    \/ \E d \in Devices :
          RegisterDevice(d) \/ UnregisterDevice(d) \/ UpdatePreferences(d) \/ Uninstall(d)

Next ==
    \/ Changes
    \/ \E b \in Backends : RunStep(b) \/ StatementFails(b) \/ Crash(b)
    \/ \E e \in Events : RetryTimeComes(e) \/ GetsStuck(e) \/ HeldTooLong(e)

Fairness ==
    /\ \A b \in Backends : WF_vars(RunStep(b))
    /\ \A e \in Events : WF_vars(RetryTimeComes(e)) /\ WF_vars(GetsStuck(e))

Spec == Init /\ [][Next]_vars /\ Fairness

-----------------------------------------------------------------------------
(* Properties *)

(* Two backends dispatch one event at the same time only after a release   *)
(* took it from a run that still held it, ten minutes after the claim.     *)
(* Nothing else gives an event to a second run: the claim skips what       *)
(* another claim took, and neither a retry, a failed statement nor a       *)
(* restart returns an event that is still in hand (claimEvents,            *)
(* releaseStuckEvents, finishEvent).                                       *)
OneDispatcher ==
    \A b, c \in Backends, e \in Events :
        b # c /\ HeldBy(e, b) /\ HeldBy(e, c) => event[e].outlived

Recording(b, e, d) ==
    op[b].pc = "record" /\ d \in op[b].target /\ \E c \in op[b].current : c[1] = e

(* A device whose push was recorded as sent is not served again, whatever  *)
(* retries of its event, restarts or second backends come later            *)
(* (dispatchEvent, recipients, upsertDelivery).  Only the run that sent it *)
(* may take the record back, when the statement about the device that      *)
(* follows in the same try block fails, or a run that went on with an      *)
(* event that was released from under it, with the recipients it had read. *)
SentIsFinal ==
    [][\A e \in Events, d \in Devices :
          delivery[e][d] = "sent" =>
              \/ delivery'[e][d] = "sent"
              \/ event[e].outlived
              \/ delivery'[e][d] = "failed" /\ \E b \in Backends : Recording(b, e, d)]_vars

Subscribed(d) == device[d].enabled /\ device[d].allowed /\ device[d].installed

(* A phone that wants an event and stays subscribed gets it, unless it was *)
(* refused for good or the event grew too old: interruptions and failed    *)
(* pushes fewer than the attempts do not lose a notification               *)
(* (dispatchEvent, claimEvents).                                           *)
SubscriberIsReached ==
    \A e \in Events, d \in Devices :
        (/\ event[e].status = "pending"
         /\ delivery[e][d] # "skipped"
         /\ Subscribed(d))
        ~> (<<e, d>> \in reached \cup refused \/ event[e].expired \/ ~Subscribed(d))
=============================================================================
