------------------------------ MODULE HostexInbox ------------------------------
(***************************************************************************)
(* The queue of Hostex notifications (src/hostex/hostex-webhook.service    *)
(* and hostex-webhook.domain).  A notification is stored before it is      *)
(* answered, claimed by one run at a time with a lease of ten minutes, and *)
(* then triggers a synchronisation (ReservationSync, worker Inbox), or a   *)
(* notification about a guest's message, or nothing.                       *)
(*                                                                         *)
(* A second notification with a known key changes nothing and is left out. *)
(***************************************************************************)
EXTENDS ReservationSync, Sequences

CONSTANTS
    Events,       \* rows of hostex_webhook_events
    NoEvent,
    KindOf,       \* Events -> "reservation", "message" or "other"
    MaxAttempts,  \* MAX_ATTEMPTS
    MaxMessages   \* messages of the conversation (bound)

ASSUME EventsAreKnown ==
    /\ KindOf \in [Events -> {"reservation", "message", "other"}]
    /\ NoEvent \notin Events
    /\ HostexStays # {}
    /\ MaxAttempts \in Nat \ {0}
    /\ MaxMessages \in Nat

VARIABLES
    event,         \* Events -> the row
    running,       \* the event this process works on
    conversation,  \* who wrote each message of the conversation
    announced      \* messages with a notification (notification_events)

inboxVars == <<vars, event, running, conversation, announced>>

(* `stay' and `ver' say which change of which stay the notification is     *)
(* about (history), `asked' which stays its code selects; `message' is the *)
(* guest's message (history), `named' whether its conversation_id is       *)
(* usable.                                                                 *)
EventType ==
    [status   : {"absent", "pending", "processed", "ignored", "failed"},
     attempts : Nat,
     due      : BOOLEAN,   \* next_attempt_at <= NOW()
     stay     : HostexStays,
     ver      : Nat,
     asked    : SUBSET HostexStays,
     message  : 0 .. MaxMessages,
     named    : BOOLEAN]

InboxTypeOK ==
    /\ TypeOK
    /\ event \in [Events -> EventType]
    /\ running \in Events \cup {NoEvent}
    /\ conversation \in Seq({"guest", "host"}) /\ Len(conversation) <= MaxMessages
    /\ announced \subseteq 1 .. Len(conversation)

-----------------------------------------------------------------------------
(* Hostex's side *)

Store(e, row) ==
    /\ event[e].status = "absent"
    /\ Spend("webhook")
    /\ event' = [event EXCEPT ![e] = row]

(* receive: the notification of a stay's last change.  Its code may be     *)
(* missing, or select other stays of the same reservation as well.         *)
ReceiveReservation(e, s, asked) ==
    /\ KindOf[e] = "reservation"
    /\ hostex[s].status # "absent"
    /\ asked = {} \/ s \in asked
    /\ Store(e, [event[e] EXCEPT !.status = "pending", !.due = TRUE, !.stay = s,
                                 !.ver = hostex[s].ver, !.asked = asked])
    /\ UNCHANGED <<hostex, rows, ref, review, op, running, conversation, announced, syncEnabled>>

(* receive: a guest's message.  The body may lack a conversation_id.       *)
ReceiveMessage(e, n, named) ==
    /\ KindOf[e] = "message"
    /\ n \in DOMAIN conversation /\ conversation[n] = "guest"
    /\ \A f \in Events : event[f].message # n
    /\ Store(e, [event[e] EXCEPT !.status = "pending", !.due = TRUE, !.message = n,
                                 !.named = named])
    /\ UNCHANGED <<hostex, rows, ref, review, op, running, conversation, announced, syncEnabled>>

ReceiveOther(e) ==
    /\ KindOf[e] = "other"
    /\ Store(e, [event[e] EXCEPT !.status = "pending", !.due = TRUE])
    /\ UNCHANGED <<hostex, rows, ref, review, op, running, conversation, announced, syncEnabled>>

Write(who) ==
    /\ Len(conversation) < MaxMessages
    /\ conversation' = Append(conversation, who)
    /\ UNCHANGED <<vars, event, running, announced>>

-----------------------------------------------------------------------------
(* The queue *)

(* Mutant: an event that had its attempts is not claimed again. *)
ClaimWithinAttempts(e) ==
    /\ running = NoEvent
    /\ event[e].status = "pending"
    /\ event[e].due
    /\ event[e].attempts < MaxAttempts
    /\ event' = [event EXCEPT ![e].attempts = @ + 1, ![e].due = FALSE]
    /\ running' = e
    /\ IF KindOf[e] = "reservation"
       THEN BeginSync(Inbox, event[e].asked)
       ELSE Continue(Inbox, [IdleOp EXCEPT
                !.result = IF KindOf[e] = "other" THEN "done" ELSE "none"])
    /\ UNCHANGED <<hostex, rows, ref, review, budget, conversation, announced, syncEnabled>>

(* claimNext; `running' keeps a second drain of this process from          *)
(* starting, the lease a second process.                                   *)
Claim(e) ==
    /\ running = NoEvent
    /\ event[e].status = "pending"
    /\ event[e].due
    /\ event' = [event EXCEPT ![e].attempts = @ + 1, ![e].due = FALSE]
    /\ running' = e
    /\ IF KindOf[e] = "reservation"
       THEN BeginSync(Inbox, event[e].asked)
       ELSE Continue(Inbox, [IdleOp EXCEPT
                !.result = IF KindOf[e] = "other" THEN "done" ELSE "none"])
    /\ UNCHANGED <<hostex, rows, ref, review, budget, conversation, announced, syncEnabled>>

(* Mutant: the oldest message of the page. *)
NewestIsOldest == IF conversation[1] = "guest" THEN {1} ELSE {}

(* latestIncomingMessage of the conversation as it is now: nothing when    *)
(* the last word is ours                                                   *)
Newest == IF conversation[Len(conversation)] = "guest" THEN {Len(conversation)} ELSE {}

(* notifyNewMessage and enqueueHostexMessage.  An event that names no      *)
(* conversation ends without a word to anybody.                            *)
NotifyNewMessage(e) ==
    /\ running = e
    /\ KindOf[e] = "message"
    /\ op[Inbox].result = "none"
    /\ \/ /\ ~event[e].named
          /\ End(Inbox, "done")
          /\ UNCHANGED <<announced, budget>>
       \/ /\ event[e].named
          /\ announced' = announced \cup Newest
          /\ End(Inbox, "done")
          /\ UNCHANGED budget
       \/ /\ event[e].named
          /\ Spend("fault")
          /\ End(Inbox, "failed")
          /\ UNCHANGED announced
    /\ UNCHANGED <<hostex, rows, ref, review, event, running, conversation, syncEnabled>>

(* Mutant: the outcome is stored as it is. *)
SettledStatusRaw(e) == op[Inbox].result

(* Mutant: a failure inside the synchronisation is swallowed. *)
SettledStatusSwallowed(e) == IF KindOf[e] = "other" THEN "ignored" ELSE "processed"

(* The catch clause                                                        *)
StatusAfterError(e) == IF event[e].attempts >= MaxAttempts THEN "failed" ELSE "pending"

SettledStatus(e) ==
    IF op[Inbox].result = "done"
    THEN IF KindOf[e] = "other" THEN "ignored" ELSE "processed"
    ELSE StatusAfterError(e)

(* The UPDATE at the end of processEvent.  When the one after a success    *)
(* fails, the catch clause stores an error instead.  When the catch        *)
(* clause's own fails (a database that stays away is one fault), the drain *)
(* stops and the lease stays.                                              *)
Settle(e) ==
    /\ running = e
    /\ op[Inbox].pc = "idle"
    /\ op[Inbox].result # "none"
    /\ \/ /\ event' = [event EXCEPT ![e].status = SettledStatus(e)]
          /\ UNCHANGED budget
       \/ /\ Spend("fault")
          /\ \/ /\ op[Inbox].result = "done"
                /\ event' = [event EXCEPT ![e].status = StatusAfterError(e)]
             \/ UNCHANGED event
    /\ running' = NoEvent
    /\ Continue(Inbox, IdleOp)
    /\ UNCHANGED <<hostex, rows, ref, review, conversation, announced, syncEnabled>>

(* hostexWebhookRetryDelayMinutes, or the lease, is over.                  *)
BecomesDue(e) ==
    /\ event[e].status = "pending"
    /\ ~event[e].due
    /\ running # e
    /\ event' = [event EXCEPT ![e].due = TRUE]
    /\ UNCHANGED <<vars, running, conversation, announced>>

Restart ==
    /\ running # NoEvent \/ \E w \in Workers : op[w].pc # "idle"
    /\ Spend("crash")
    /\ op' = [w \in Workers |-> IdleOp]
    /\ running' = NoEvent
    /\ UNCHANGED <<hostex, rows, ref, review, event, conversation, announced, syncEnabled>>

-----------------------------------------------------------------------------
(* Specification *)

InboxInit ==
    /\ Init
    /\ event = [e \in Events |->
           [status |-> "absent", attempts |-> 0, due |-> FALSE,
            stay |-> CHOOSE s \in HostexStays : TRUE, ver |-> 0, asked |-> {}, message |-> 0,
            named |-> FALSE]]
    /\ running = NoEvent
    /\ conversation = <<>>
    /\ announced = {}

Queue(e) ==
    \/ Claim(e)
    \/ NotifyNewMessage(e)
    \/ Settle(e)

Receive(e) ==
    \/ \E s \in HostexStays, asked \in SUBSET HostexStays : ReceiveReservation(e, s, asked)
    \/ \E n \in 1 .. MaxMessages, named \in BOOLEAN : ReceiveMessage(e, n, named)
    \/ ReceiveOther(e)

Imports ==
    /\ \/ StartTimer
       \/ \E w \in {Timer, Inbox} : SyncStep(w) \/ SyncFails(w)
       \/ HostexChanges
    /\ UNCHANGED <<event, running, conversation, announced>>

InboxNext ==
    \/ Imports
    \/ \E e \in Events : Receive(e) \/ Queue(e) \/ BecomesDue(e)
    \/ \E who \in {"guest", "host"} : Write(who)
    \/ Restart

(* The queue is run after each notification and every minute; a lease and  *)
(* a delay end; a synchronisation that began goes on.                      *)
InboxFairness ==
    /\ WF_inboxVars(\E e \in Events : Queue(e))
    /\ \A e \in Events : WF_inboxVars(BecomesDue(e))
    /\ WF_inboxVars(StartTimer /\ UNCHANGED <<event, running, conversation, announced>>)
    /\ \A w \in {Timer, Inbox} :
           WF_inboxVars(SyncStep(w) /\ UNCHANGED <<event, running, conversation, announced>>)

InboxSpec == InboxInit /\ [][InboxNext]_inboxVars /\ InboxFairness

-----------------------------------------------------------------------------
(* Properties *)

(* A notification is marked processed only after an import that committed  *)
(* applied, or reported as a conflict, its stay in the state of the        *)
(* notified change or a later one, through every failed reading,           *)
(* rolled-back transaction, retry and restart (processEvent).              *)
ProcessedWasApplied ==
    [][\A e \in Events :
           (/\ KindOf[e] = "reservation"
            /\ event'[e].status = "processed" /\ event[e].status # "processed")
           => \E i \in op[Inbox].handled : i.stay = event[e].stay /\ i.ver >= event[e].ver
      ]_inboxVars

(* No notification stays in the queue: it is processed, ignored or, after  *)
(* MAX_ATTEMPTS, failed, also when a restart left it leased (claimNext).   *)
EventsSettle ==
    \A e \in Events : event[e].status = "pending" ~> event[e].status \notin {"absent", "pending"}

(* When a guest has the last word and its notification, which named the    *)
(* conversation, was processed, the administrators were told of that       *)
(* message (latestIncomingMessage).  Of a message whose notification names *)
(* no conversation nobody is told, although it is processed as well        *)
(* (notifyNewMessage).                                                     *)
LastWordIsAnnounced ==
    \A e \in Events :
        KindOf[e] = "message" /\ event[e].named /\ event[e].status = "processed"
            /\ event[e].message = Len(conversation) => event[e].message \in announced

=============================================================================
