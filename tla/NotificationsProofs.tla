-------------------------- MODULE NotificationsProofs --------------------------
(***************************************************************************)
(* For any number of backends, events and devices, whatever fails and      *)
(* restarts and however long a run takes: two backends dispatch the same   *)
(* event only after it was released from under a run that held it for ten  *)
(* minutes, and until that happens to an event, a push of it that is       *)
(* recorded as sent is not sent again.                                     *)
(***************************************************************************)
EXTENDS Notifications, TLAPS

-----------------------------------------------------------------------------
(* The inductive invariant *)

(* The steps at which a run has an event in hand, and a recipient          *)
Serving == {"deliver", "skip", "send", "record", "device"}

WithTarget == {"skip", "send", "record", "device"}

WellFormed(o) ==
    /\ o.pc \in {"idle", "claim"} => o.batch = {}
    /\ \A c, k \in o.batch : c[1] = k[1] => c = k
    /\ o.current \subseteq o.batch
    /\ o.pc \notin Serving => o.current = {}
    /\ o.pc \in Serving => \E c \in o.batch : o.current = {c}
    /\ o.pc \in WithTarget => \E d \in Devices : o.target = {d} /\ d \notin o.todo

(* What the run o relies on in the deliveries of its event: the recipients *)
(* it still has to serve are not served yet, unless the event was released *)
(* from under it.                                                          *)
Unsent(o, deliveries, rows) ==
    \A c \in o.current, d \in Devices : ~rows[c[1]].outlived =>
        /\ d \in o.todo => deliveries[c[1]][d] # "sent"
        /\ d \in o.target /\ o.pc \in {"skip", "send"} => deliveries[c[1]][d] = "processing"
        /\ d \in o.target /\ o.pc = "record" /\ o.outcome = "invalid_token" =>
               deliveries[c[1]][d] = "processing"

Shape == \A b \in Backends : WellFormed(op[b])

(* No claim finds an event in processing.                                  *)
Taken(e) == event[e].status = "processing"

Owners ==
    /\ \A b \in Backends, e \in Events : HeldBy(e, b) => Taken(e) \/ event[e].outlived
    /\ OneDispatcher

Trust == \A b \in Backends : Unsent(op[b], delivery, event)

Inductive == TypeOK /\ Shape /\ Owners /\ Trust

-----------------------------------------------------------------------------
(* What the actions share *)

LEMMA OpFields ==
    ASSUME Inductive, NEW b \in Backends
    PROVE  /\ op[b] \in OpType
           /\ WellFormed(op[b])
           /\ op[b].batch \subseteq Claims /\ op[b].current \subseteq op[b].batch
           /\ op[b].todo \subseteq Devices /\ op[b].target \subseteq Devices
BY DEF Inductive, TypeOK, Shape, WellFormed, OpType

LEMMA ClaimFields ==
    ASSUME NEW c \in Claims
    PROVE  c[1] \in Events /\ c[2] \in Nat
BY DEF Claims

LEMMA SpendTyped ==
    ASSUME TypeOK, NEW kind \in Disturbances, Spend(kind)
    PROVE  budget' \in [Disturbances -> Nat]
BY DEF TypeOK, Spend

LEMMA IdleWellFormed ==
    ASSUME NEW deliveries, NEW rows
    PROVE  IdleOp \in OpType /\ WellFormed(IdleOp) /\ Unsent(IdleOp, deliveries, rows)
BY DEF IdleOp, OpType, WellFormed, Unsent, Serving, WithTarget

(* A step of the run b: it changes the deliveries of the event in hand and *)
(* the rows of its own events, of events nobody has, or of events it       *)
(* releases, and the events it goes on with were its own or nobody's.      *)
LEMMA RunKeeps ==
    ASSUME Inductive, NEW b \in Backends, NEW o \in OpType, Continue(b, o),
           WellFormed(o),
           Unsent(o, delivery', event'),
           \A c \in o.batch : ~event'[c[1]].outlived =>
               Taken(c[1])' /\ (HeldBy(c[1], b) \/ ~Taken(c[1])),
           \A e \in Events : event[e].outlived => event'[e].outlived,
           \A e \in Events : ~event'[e].outlived =>
               event'[e] = event[e] \/ HeldBy(e, b) \/ ~Taken(e) \/ ~Held(e),
           \A e \in Events : delivery'[e] = delivery[e] \/ \E c \in op[b].current : c[1] = e
    PROVE  op' \in [Backends -> OpType] /\ Shape' /\ Owners' /\ Trust'
<1>1. op'[b] = o /\ \A a \in Backends : a # b => op'[a] = op[a]
  BY DEF Continue, Inductive, TypeOK
<1>2. op' \in [Backends -> OpType]
  BY DEF Continue, Inductive, TypeOK
<1>3. Shape'
  BY <1>1 DEF Shape, Inductive
<1>4. \A e \in Events : HeldBy(e, b)' /\ ~event'[e].outlived =>
          Taken(e)' /\ (HeldBy(e, b) \/ ~Taken(e))
  <2>1. o.current \subseteq o.batch
    BY DEF WellFormed
  <2>. QED
    BY <1>1, <2>1 DEF HeldBy
<1>5. \A a \in Backends, e \in Events : a # b => (HeldBy(e, a)' <=> HeldBy(e, a))
  BY <1>1 DEF HeldBy
<1>6. \A a \in Backends, e \in Events : a # b /\ HeldBy(e, a) /\ ~event'[e].outlived =>
          Taken(e) /\ ~HeldBy(e, b) /\ ~event[e].outlived
  BY DEF Inductive, Owners, OneDispatcher
<1>7. \A a \in Backends, e \in Events : a # b /\ HeldBy(e, a) /\ ~event'[e].outlived =>
          event'[e] = event[e]
  BY <1>6 DEF Held
<1>8. Owners'
  <2>1. \A a \in Backends, e \in Events : HeldBy(e, a)' => Taken(e)' \/ event'[e].outlived
    BY <1>4, <1>5, <1>6, <1>7 DEF Taken
  <2>2. \A e \in Events, a \in Backends :
            a # b /\ HeldBy(e, a)' /\ HeldBy(e, b)' => event'[e].outlived
    BY <1>4, <1>5, <1>6
  <2>3. \A e \in Events, a, k \in Backends :
            a # k /\ a # b /\ k # b /\ HeldBy(e, a)' /\ HeldBy(e, k)' => event'[e].outlived
    BY <1>5 DEF Inductive, Owners, OneDispatcher
  <2>. QED
    BY <2>1, <2>2, <2>3 DEF Owners, OneDispatcher
<1>9. Trust'
  <2>1. ASSUME NEW a \in Backends, a # b, NEW c \in op[a].current, ~event'[c[1]].outlived
        PROVE  delivery'[c[1]] = delivery[c[1]] /\ ~event[c[1]].outlived
    <3>1. c[1] \in Events /\ HeldBy(c[1], a)
      BY OpFields, ClaimFields DEF HeldBy
    <3>2. ~HeldBy(c[1], b) /\ ~event[c[1]].outlived
      BY <1>6, <2>1, <3>1
    <3>. QED
      BY <3>1, <3>2 DEF HeldBy
  <2>2. ASSUME NEW a \in Backends, a # b
        PROVE  Unsent(op[a], delivery', event')
    <3>1. Unsent(op[a], delivery, event)
      BY DEF Inductive, Trust
    <3>. QED
      BY <2>1, <2>2, <3>1 DEF Unsent
  <2>. QED
    BY <1>1, <2>2 DEF Trust
<1>. QED
  BY <1>2, <1>3, <1>8, <1>9

(* A step of the run b that keeps its events, or lets some of them go, and *)
(* changes no event                                                        *)
LEMMA RunGoesOn ==
    ASSUME Inductive, NEW b \in Backends, NEW o \in OpType, Continue(b, o),
           WellFormed(o), o.batch \subseteq op[b].batch,
           Unsent(o, delivery', event),
           UNCHANGED event,
           \A e \in Events : delivery'[e] = delivery[e] \/ \E c \in op[b].current : c[1] = e
    PROVE  op' \in [Backends -> OpType] /\ Shape' /\ Owners' /\ Trust'
<1>1. \A c \in o.batch : ~event'[c[1]].outlived => Taken(c[1])' /\ HeldBy(c[1], b)
  <2>1. \A c \in o.batch : c[1] \in Events /\ HeldBy(c[1], b)
    BY OpFields, ClaimFields DEF HeldBy
  <2>. QED
    BY <2>1 DEF Inductive, Owners, Taken
<1>. QED
  BY <1>1, RunKeeps

(* A step that touches neither runs nor deliveries, and takes no event     *)
(* out of processing                                                       *)
LEMMA RunsUntouched ==
    ASSUME Inductive, UNCHANGED <<op, delivery>>,
           \A e \in Events : event'[e].outlived <=> event[e].outlived,
           \A e \in Events : Taken(e)' \/ ~Taken(e)
    PROVE  op' \in [Backends -> OpType] /\ Shape' /\ Owners' /\ Trust'
<1>1. Shape' /\ op' \in [Backends -> OpType]
  BY DEF Inductive, TypeOK, Shape
<1>2. Owners'
  <2>1. \A b \in Backends, e \in Events : HeldBy(e, b)' <=> HeldBy(e, b)
    BY DEF HeldBy
  <2>. QED
    BY <2>1 DEF Inductive, Owners, OneDispatcher
<1>3. Trust'
  <2>1. \A b \in Backends : \A c \in op[b].current : c[1] \in Events
    BY OpFields, ClaimFields
  <2>. QED
    BY <2>1 DEF Inductive, Trust, Unsent
<1>. QED
  BY <1>1, <1>2, <1>3

LEMMA TouchTyped ==
    ASSUME TypeOK, NEW e \in Events, NEW status \in {"pending", "processing", "sent", "failed"}
    PROVE  /\ Touch(e, status) \in EventType
           /\ Touch(e, status).status = status
           /\ Touch(e, status).outlived = event[e].outlived
BY DEF TypeOK, Touch, EventType

LEMMA InitInductive == Init => Inductive
<1>. SUFFICES ASSUME Init PROVE Inductive
  OBVIOUS
<1>1. TypeOK
  <2>1. event \in [Events -> EventType] /\ op \in [Backends -> OpType]
    BY IdleWellFormed DEF Init, EventType
  <2>2. delivery \in [Events -> [Devices -> {"none", "processing", "sent", "failed", "skipped"}]]
    BY DEF Init
  <2>3. device \in [Devices -> [enabled : BOOLEAN, allowed : BOOLEAN, installed : BOOLEAN]]
    BY DEF Init
  <2>4. reached \subseteq Events \X Devices /\ refused \subseteq Events \X Devices
    BY DEF Init
  <2>5. budget \in [Disturbances -> Nat]
    BY BudgetsAreNaturals DEF Init
  <2>. QED
    BY <2>1, <2>2, <2>3, <2>4, <2>5 DEF TypeOK
<1>2. Shape /\ Trust
  BY IdleWellFormed DEF Init, Shape, Trust
<1>3. Owners
  BY DEF Init, Owners, OneDispatcher, HeldBy, IdleOp
<1>. QED
  BY <1>1, <1>2, <1>3 DEF Inductive

-----------------------------------------------------------------------------
(* Producers, administrators, time *)

LEMMA ChangesStep ==
    ASSUME Inductive, Changes
    PROVE  Inductive'
<1>1. ASSUME NEW e \in Events, Enqueue(e) PROVE Inductive'
  <2>1. UNCHANGED <<device, delivery, reached, refused, op, budget>>
    BY <1>1 DEF Enqueue
  <2>2. event' = [event EXCEPT ![e] = Touch(e, "pending")] /\ ~Taken(e)
    BY <1>1 DEF Enqueue, Taken
  <2>3. event' \in [Events -> EventType] /\ \A f \in Events : f # e => event'[f] = event[f]
    BY <2>2, TouchTyped DEF Inductive, TypeOK
  <2>4. event'[e].outlived = event[e].outlived
    BY <2>2, TouchTyped DEF Inductive, TypeOK
  <2>5. op' \in [Backends -> OpType] /\ Shape' /\ Owners' /\ Trust'
    BY <2>1, <2>2, <2>3, <2>4, RunsUntouched DEF Taken
  <2>. QED
    BY <2>1, <2>3, <2>5 DEF Inductive, TypeOK
<1>2. ASSUME NEW e \in Events, Expires(e) PROVE Inductive'
  <2>1. UNCHANGED <<device, delivery, reached, refused, op>>
    BY <1>2 DEF Expires
  <2>2. /\ event' \in [Events -> EventType]
        /\ \A f \in Events : (Taken(f)' <=> Taken(f)) /\ event'[f].outlived = event[f].outlived
    BY <1>2 DEF Expires, Inductive, TypeOK, EventType, Taken
  <2>3. budget' \in [Disturbances -> Nat]
    BY <1>2, SpendTyped DEF Expires, Inductive, Disturbances
  <2>4. op' \in [Backends -> OpType] /\ Shape' /\ Owners' /\ Trust'
    BY <2>1, <2>2, RunsUntouched
  <2>. QED
    BY <2>1, <2>2, <2>3, <2>4 DEF Inductive, TypeOK
<1>3. ASSUME NEW d \in Devices,
             RegisterDevice(d) \/ UnregisterDevice(d) \/ UpdatePreferences(d) \/ Uninstall(d)
      PROVE  Inductive'
  <2>1. UNCHANGED <<event, delivery, reached, refused, op>>
    BY <1>3 DEF RegisterDevice, UnregisterDevice, UpdatePreferences, Uninstall
  <2>2. budget' \in [Disturbances -> Nat]
    BY <1>3, SpendTyped
       DEF RegisterDevice, UnregisterDevice, UpdatePreferences, Uninstall, Inductive, Disturbances
  <2>3. device' \in [Devices -> [enabled : BOOLEAN, allowed : BOOLEAN, installed : BOOLEAN]]
    BY <1>3
       DEF RegisterDevice, UnregisterDevice, UpdatePreferences, Uninstall, Inductive, TypeOK
  <2>4. op' \in [Backends -> OpType] /\ Shape' /\ Owners' /\ Trust'
    BY <2>1, RunsUntouched DEF Taken
  <2>. QED
    BY <2>1, <2>2, <2>3, <2>4 DEF Inductive, TypeOK
<1>. QED
  BY <1>1, <1>2, <1>3 DEF Changes

LEMMA TimeStep ==
    ASSUME Inductive, NEW e \in Events, RetryTimeComes(e) \/ GetsStuck(e) \/ HeldTooLong(e)
    PROVE  Inductive'
<1>1. UNCHANGED <<device, delivery, reached, refused, op>>
  BY DEF RetryTimeComes, GetsStuck, HeldTooLong
<1>2. budget' \in [Disturbances -> Nat]
  BY SpendTyped DEF RetryTimeComes, GetsStuck, HeldTooLong, Inductive, TypeOK, Disturbances
<1>3. /\ event' \in [Events -> EventType]
      /\ \A f \in Events : (Taken(f)' <=> Taken(f)) /\ event'[f].outlived = event[f].outlived
  <2>1. event[e] \in EventType
    BY DEF Inductive, TypeOK
  <2>2. /\ [event[e] EXCEPT !.waiting = FALSE] \in EventType
        /\ [event[e] EXCEPT !.stuck = TRUE] \in EventType
    BY <2>1 DEF EventType
  <2>3. \/ event' = [event EXCEPT ![e] = [event[e] EXCEPT !.waiting = FALSE]]
        \/ event' = [event EXCEPT ![e] = [event[e] EXCEPT !.stuck = TRUE]]
    BY DEF RetryTimeComes, GetsStuck, HeldTooLong
  <2>. QED
    BY <2>1, <2>2, <2>3 DEF Inductive, TypeOK, Taken, EventType
<1>4. op' \in [Backends -> OpType] /\ Shape' /\ Owners' /\ Trust'
  BY <1>1, <1>3, RunsUntouched
<1>. QED
  BY <1>1, <1>2, <1>3, <1>4 DEF Inductive, TypeOK

-----------------------------------------------------------------------------
(* A run *)

LEMMA StartRunStep ==
    ASSUME Inductive, NEW b \in Backends, StartRun(b)
    PROVE  Inductive'
<1>. DEFINE o == [IdleOp EXCEPT !.pc = "claim"]
<1>1. o \in OpType /\ WellFormed(o) /\ Unsent(o, delivery', event') /\ o.batch = {}
  BY DEF IdleOp, OpType, WellFormed, Unsent, Serving, WithTarget
<1>2. Continue(b, o) /\ UNCHANGED <<device, delivery, reached, refused, budget>>
  BY DEF StartRun
<1>. HIDE DEF o
<1>3. \A e \in Stuck :
          LET row == [Touch(e, "pending") EXCEPT !.outlived = @ \/ Held(e)]
          IN  row \in EventType /\ (row.outlived <=> event[e].outlived \/ Held(e))
  <2>1. \A row \in EventType, x \in BOOLEAN :
            LET n == [row EXCEPT !.outlived = @ \/ x]
            IN  n \in EventType /\ (n.outlived <=> row.outlived \/ x)
    BY DEF EventType
  <2>2. \A e \in Stuck : Touch(e, "pending") \in EventType
                         /\ Touch(e, "pending").outlived = event[e].outlived
    BY TouchTyped DEF Stuck, Inductive
  <2>3. \A e \in Events : Held(e) \in BOOLEAN
    BY DEF Held
  <2>. QED
    BY <2>1, <2>2, <2>3 DEF Stuck
<1>4. event' \in [Events -> EventType]
  BY <1>3 DEF StartRun, Inductive, TypeOK
<1>5. /\ \A e \in Events : event[e].outlived => event'[e].outlived
      /\ \A e \in Events : event'[e] = event[e] \/ ~Held(e) \/ event'[e].outlived
  BY <1>3 DEF StartRun
<1>6. op' \in [Backends -> OpType] /\ Shape' /\ Owners' /\ Trust'
  BY <1>1, <1>2, <1>5, RunKeeps
<1>. QED
  BY <1>2, <1>4, <1>6 DEF Inductive, TypeOK

LEMMA ClaimEventsStep ==
    ASSUME Inductive, NEW b \in Backends, ClaimEvents(b)
    PROVE  Inductive'
<1>1. PICK S \in SUBSET Claimable :
          /\ event' = [e \in Events |->
                 IF e \in S THEN [Touch(e, "processing") EXCEPT !.attempts = @ + 1] ELSE event[e]]
          /\ Continue(b, IF S = {} THEN IdleOp
                         ELSE [IdleOp EXCEPT
                                 !.pc = "next",
                                 !.batch = {<<e, event[e].attempts + 1>> : e \in S}])
  BY DEF ClaimEvents
<1>2. UNCHANGED <<device, delivery, reached, refused, budget>>
  BY DEF ClaimEvents
<1>3. S \subseteq Events /\ \A e \in S : event[e].status = "pending"
  BY DEF Claimable, Due
<1>4. \A e \in S : [Touch(e, "processing") EXCEPT !.attempts = @ + 1] \in EventType
  <2>1. \A row \in EventType : [row EXCEPT !.attempts = @ + 1] \in EventType
    BY DEF EventType
  <2>2. \A e \in S : Touch(e, "processing") \in EventType
    BY <1>3, TouchTyped DEF Inductive
  <2>. QED
    BY <2>1, <2>2
<1>5. event' \in [Events -> EventType]
  BY <1>1, <1>3, <1>4 DEF Inductive, TypeOK
<1>6. \A e \in Events : event'[e] = event[e] \/ (e \in S /\ ~Taken(e))
  BY <1>1, <1>3 DEF Taken
<1>7. \A e \in S : Taken(e)' /\ ~Taken(e) /\ event'[e].outlived = event[e].outlived
  <2>1. \A e \in S : /\ Touch(e, "processing").status = "processing"
                     /\ Touch(e, "processing").outlived = event[e].outlived
                     /\ Touch(e, "processing") \in EventType
    BY <1>3, TouchTyped DEF Inductive
  <2>. QED
    BY <1>1, <1>3, <2>1 DEF Taken, EventType
<1>8. op' \in [Backends -> OpType] /\ Shape' /\ Owners' /\ Trust'
  <2>1. CASE S = {}
    <3>1. Continue(b, IdleOp) /\ IdleOp.batch = {}
      BY <1>1, <2>1 DEF IdleOp
    <3>. QED
      BY <1>2, <1>6, <1>7, <3>1, IdleWellFormed, RunKeeps
  <2>2. CASE S # {}
    <3>. DEFINE taken == {<<e, event[e].attempts + 1>> : e \in S}
                o == [IdleOp EXCEPT !.pc = "next", !.batch = taken]
    <3>1. taken \subseteq Claims
      BY <1>3 DEF Claims, Inductive, TypeOK, EventType
    <3>2. \A c, k \in taken : c[1] = k[1] => c = k
      OBVIOUS
    <3>3. \A c \in taken : c[1] \in S
      OBVIOUS
    <3>. HIDE DEF taken
    <3>4. o \in OpType /\ WellFormed(o) /\ Unsent(o, delivery', event') /\ o.batch = taken
      BY <3>1, <3>2 DEF IdleOp, OpType, WellFormed, Unsent, Serving, WithTarget
    <3>5. Continue(b, o)
      BY <1>1, <2>2 DEF taken
    <3>. HIDE DEF o
    <3>. QED
      BY <1>2, <1>6, <1>7, <3>3, <3>4, <3>5, RunKeeps
  <2>. QED
    BY <2>1, <2>2
<1>. QED
  BY <1>2, <1>5, <1>8 DEF Inductive, TypeOK

(* The run lets c go and goes on with the other events of its batch.       *)
LEMMA RunDrops ==
    ASSUME Inductive, NEW b \in Backends, NEW c \in op[b].batch, NEW o \in OpType,
           Continue(b, o), WellFormed(o), o.batch \subseteq op[b].batch \ {c}, o.current = {},
           UNCHANGED delivery,
           NEW row \in EventType, event' = [event EXCEPT ![c[1]] = row],
           row.outlived = event[c[1]].outlived
    PROVE  /\ event' \in [Events -> EventType]
           /\ op' \in [Backends -> OpType] /\ Shape' /\ Owners' /\ Trust'
<1>1. c[1] \in Events /\ HeldBy(c[1], b)
  BY OpFields, ClaimFields DEF HeldBy
<1>2. event' \in [Events -> EventType]
  BY DEF Inductive, TypeOK
<1>3. \A e \in Events : /\ event'[e] = event[e] \/ HeldBy(e, b)
                        /\ event'[e].outlived = event[e].outlived
  BY <1>1 DEF Inductive, TypeOK
<1>4. Unsent(o, delivery', event')
  BY DEF Unsent
<1>5. ASSUME NEW k \in o.batch, ~event'[k[1]].outlived
      PROVE  Taken(k[1])' /\ HeldBy(k[1], b)
  <2>1. k \in op[b].batch /\ k # c /\ k[1] \in Events
    BY OpFields, ClaimFields
  <2>2. k[1] # c[1]
    BY <2>1, OpFields DEF WellFormed
  <2>3. HeldBy(k[1], b)
    BY <2>1 DEF HeldBy
  <2>4. event'[k[1]] = event[k[1]]
    BY <2>1, <2>2 DEF Inductive, TypeOK
  <2>. QED
    BY <1>5, <2>1, <2>3, <2>4 DEF Inductive, Owners, Taken
<1>. QED
  BY <1>2, <1>3, <1>4, <1>5, RunKeeps

LEMMA DropExpiredStep ==
    ASSUME Inductive, NEW b \in Backends, NEW c \in op[b].batch, DropExpired(b, c)
    PROVE  Inductive'
<1>. DEFINE o == IF op[b].batch = {c} THEN IdleOp ELSE [op[b] EXCEPT !.batch = @ \ {c}]
<1>1. Continue(b, o) /\ UNCHANGED <<device, delivery, reached, refused, budget>>
  BY DEF DropExpired
<1>2. o \in OpType /\ WellFormed(o) /\ o.batch \subseteq op[b].batch \ {c} /\ o.current = {}
  <2>1. CASE op[b].batch = {c}
    BY <2>1, IdleWellFormed DEF IdleOp
  <2>2. CASE op[b].batch # {c}
    <3>1. op[b] \in OpType /\ WellFormed(op[b]) /\ op[b].pc = "next"
      BY OpFields DEF DropExpired
    <3>. QED
      BY <2>2, <3>1 DEF OpType, WellFormed, Serving, WithTarget
  <2>. QED
    BY <2>1, <2>2
<1>. HIDE DEF o
<1>3. c[1] \in Events
  BY OpFields, ClaimFields
<1>4. Touch(c[1], "failed") \in EventType /\ Touch(c[1], "failed").outlived = event[c[1]].outlived
  BY <1>3, TouchTyped DEF Inductive
<1>5. event' = [event EXCEPT ![c[1]] = Touch(c[1], "failed")]
  BY DEF DropExpired
<1>6. /\ event' \in [Events -> EventType]
      /\ op' \in [Backends -> OpType] /\ Shape' /\ Owners' /\ Trust'
  BY <1>1, <1>2, <1>4, <1>5, RunDrops
<1>. QED
  BY <1>1, <1>6 DEF Inductive, TypeOK

LEMMA ReadRecipientsStep ==
    ASSUME Inductive, NEW b \in Backends, NEW c \in op[b].batch, ReadRecipients(b, c)
    PROVE  Inductive'
<1>. DEFINE o == [op[b] EXCEPT !.pc = "deliver", !.current = {c}, !.todo = Unserved(c[1]),
                               !.allowed = {d \in Unserved(c[1]) : device[d].allowed}]
<1>1. Continue(b, o) /\ UNCHANGED <<event, device, delivery, reached, refused, budget>>
  BY DEF ReadRecipients
<1>2. op[b] \in OpType /\ WellFormed(op[b]) /\ c \in Claims
  BY OpFields
<1>3. Unserved(c[1]) \subseteq Devices
  BY DEF Unserved
<1>4. o \in OpType
  BY <1>2, <1>3 DEF OpType
<1>5. o.pc = "deliver" /\ o.current = {c} /\ o.todo = Unserved(c[1]) /\ o.batch = op[b].batch
  BY <1>2 DEF OpType
<1>. HIDE DEF o
<1>6. WellFormed(o)
  BY <1>2, <1>5 DEF WellFormed, Serving, WithTarget
<1>7. Unsent(o, delivery', event)
  BY <1>1, <1>5 DEF Unsent, Unserved
<1>8. op' \in [Backends -> OpType] /\ Shape' /\ Owners' /\ Trust'
  BY <1>1, <1>4, <1>5, <1>6, <1>7, RunGoesOn
<1>. QED
  BY <1>1, <1>8 DEF Inductive, TypeOK

LEMMA ConcludeStep ==
    ASSUME Inductive, NEW b \in Backends, NEW c \in op[b].current, Conclude(b, c)
    PROVE  Inductive'
<1>. DEFINE o == IF op[b].batch \subseteq op[b].current THEN IdleOp
                 ELSE [IdleOp EXCEPT !.pc = "next", !.batch = op[b].batch \ op[b].current]
            row == IF op[b].retryable /\ c[2] < MaxAttempts
                   THEN [Touch(c[1], "pending") EXCEPT !.waiting = TRUE]
                   ELSE Touch(c[1], IF op[b].retryable THEN "failed" ELSE "sent")
<1>1. Continue(b, o) /\ UNCHANGED <<device, delivery, reached, refused, budget>>
  BY DEF Conclude, NextEvent
<1>2. event' = [event EXCEPT ![c[1]] = row]
  BY DEF Conclude
<1>3. c \in op[b].batch /\ c[1] \in Events /\ op[b].batch \subseteq Claims
  BY OpFields, ClaimFields
<1>4. row \in EventType /\ row.outlived = event[c[1]].outlived
  <2>1. \A status \in {"pending", "failed", "sent"} :
            /\ Touch(c[1], status) \in EventType
            /\ Touch(c[1], status).outlived = event[c[1]].outlived
    BY <1>3, TouchTyped DEF Inductive
  <2>2. /\ [Touch(c[1], "pending") EXCEPT !.waiting = TRUE] \in EventType
        /\ [Touch(c[1], "pending") EXCEPT !.waiting = TRUE].outlived = event[c[1]].outlived
    BY <2>1 DEF EventType
  <2>. QED
    BY <2>1, <2>2
<1>5. o \in OpType /\ WellFormed(o) /\ o.batch \subseteq op[b].batch \ {c} /\ o.current = {}
  <2>1. CASE op[b].batch \subseteq op[b].current
    BY <2>1, IdleWellFormed DEF IdleOp
  <2>2. CASE ~(op[b].batch \subseteq op[b].current)
    <3>1. \A k, l \in op[b].batch : k[1] = l[1] => k = l
      BY OpFields DEF WellFormed
    <3>. QED
      BY <1>3, <2>2, <3>1 DEF IdleOp, OpType, WellFormed, Serving, WithTarget
  <2>. QED
    BY <2>1, <2>2
<1>. HIDE DEF o, row
<1>6. /\ event' \in [Events -> EventType]
      /\ op' \in [Backends -> OpType] /\ Shape' /\ Owners' /\ Trust'
  BY <1>1, <1>2, <1>3, <1>4, <1>5, RunDrops
<1>. QED
  BY <1>1, <1>6 DEF Inductive, TypeOK

-----------------------------------------------------------------------------
(* One recipient *)

(* At most the delivery of c to d changes.                                 *)
Deliveries == [Events -> [Devices -> {"none", "processing", "sent", "failed", "skipped"}]]

OnlyDelivery(c, d) ==
    /\ delivery' \in Deliveries
    /\ \A e \in Events : e # c[1] => delivery'[e] = delivery[e]
    /\ \A k \in Devices : k # d => delivery'[c[1]][k] = delivery[c[1]][k]

LEMMA OneDeliveryChanges ==
    ASSUME Inductive, NEW b \in Backends, NEW c \in op[b].current, NEW d \in Devices,
           NEW status \in {"processing", "sent", "failed", "skipped"},
           delivery' = [delivery EXCEPT ![c[1]][d] = status]
    PROVE  OnlyDelivery(c, d) /\ delivery'[c[1]][d] = status
<1>1. c[1] \in Events /\ delivery \in Deliveries
  BY OpFields, ClaimFields DEF Inductive, TypeOK, Deliveries
<1>2. delivery[c[1]] \in [Devices -> {"none", "processing", "sent", "failed", "skipped"}]
  BY <1>1 DEF Deliveries
<1>3. delivery' = [delivery EXCEPT ![c[1]] = [delivery[c[1]] EXCEPT ![d] = status]]
  BY <1>1
<1>4. [delivery[c[1]] EXCEPT ![d] = status]
          \in [Devices -> {"none", "processing", "sent", "failed", "skipped"}]
  BY <1>2
<1>5. delivery' \in Deliveries
  BY <1>1, <1>3, <1>4 DEF Deliveries
<1>6. /\ \A e \in Events : e # c[1] => delivery'[e] = delivery[e]
      /\ delivery'[c[1]] = [delivery[c[1]] EXCEPT ![d] = status]
  BY <1>1, <1>3 DEF Deliveries
<1>7. /\ \A k \in Devices : k # d => delivery'[c[1]][k] = delivery[c[1]][k]
      /\ delivery'[c[1]][d] = status
  BY <1>2, <1>6
<1>. QED
  BY <1>5, <1>6, <1>7 DEF OnlyDelivery

LEMMA NoDeliveryChanges ==
    ASSUME Inductive, UNCHANGED delivery, NEW c, NEW d
    PROVE  OnlyDelivery(c, d)
BY DEF OnlyDelivery, Inductive, TypeOK, Deliveries

(* The run b keeps its event and changes at most the delivery of c to d.   *)
LEMMA ServingKeeps ==
    ASSUME Inductive, NEW b \in Backends, NEW c \in op[b].current, NEW d \in Devices,
           NEW o \in OpType, Continue(b, o),
           op[b].pc \in Serving, o.pc \in Serving,
           o.batch = op[b].batch, o.current = op[b].current,
           o.pc \in WithTarget => o.target = {d} /\ d \notin o.todo,
           o.todo \subseteq op[b].todo,
           d \in o.todo => delivery' = delivery,
           o.pc \in {"skip", "send"} \/ (o.pc = "record" /\ o.outcome = "invalid_token") =>
               (~event[c[1]].outlived => delivery'[c[1]][d] = "processing"),
           OnlyDelivery(c, d),
           UNCHANGED event
    PROVE  /\ op' \in [Backends -> OpType] /\ Shape' /\ Owners' /\ Trust'
           /\ delivery' \in Deliveries
<1>1. WellFormed(op[b]) /\ c \in Claims /\ c[1] \in Events /\ op[b].current = {c}
  BY OpFields, ClaimFields DEF WellFormed
<1>2. WellFormed(o)
  BY <1>1 DEF WellFormed, Serving
<1>3. /\ \A e \in Events : delivery'[e] = delivery[e] \/ e = c[1]
      /\ \A k \in Devices : k # d => delivery'[c[1]][k] = delivery[c[1]][k]
      /\ delivery' \in Deliveries
  BY DEF OnlyDelivery
<1>4. Unsent(o, delivery', event)
  <2>1. \A k \in op[b].todo : ~event[c[1]].outlived => delivery[c[1]][k] # "sent"
    BY <1>1, OpFields DEF Inductive, Trust, Unsent
  <2>2. \A k \in o.todo : ~event[c[1]].outlived => delivery'[c[1]][k] # "sent"
    BY <1>3, <2>1, OpFields
  <2>. QED
    BY <1>1, <2>2 DEF Unsent, WithTarget
<1>5. op' \in [Backends -> OpType] /\ Shape' /\ Owners' /\ Trust'
  BY <1>1, <1>2, <1>3, <1>4, RunGoesOn
<1>. QED
  BY <1>3, <1>5

LEMMA UpsertDeliveryStep ==
    ASSUME Inductive, NEW b \in Backends, NEW c \in op[b].current, NEW d \in Devices,
           UpsertDelivery(b, c, d)
    PROVE  Inductive'
<1>. DEFINE o == [op[b] EXCEPT !.pc = IF d \in op[b].allowed THEN "send" ELSE "skip",
                               !.todo = @ \ {d}, !.target = {d}]
<1>1. Continue(b, o) /\ UNCHANGED <<event, device, reached, refused, budget>>
  BY DEF UpsertDelivery
<1>2. op[b] \in OpType /\ op[b].pc = "deliver" /\ c[1] \in Events
  BY OpFields, ClaimFields DEF UpsertDelivery
<1>3. /\ o \in OpType /\ o.pc \in {"skip", "send"}
      /\ o.batch = op[b].batch /\ o.current = op[b].current
      /\ o.target = {d} /\ o.todo = op[b].todo \ {d}
  BY <1>2 DEF OpType
<1>4. OnlyDelivery(c, d) /\ delivery'[c[1]][d] = "processing"
  BY OneDeliveryChanges DEF UpsertDelivery
<1>. HIDE DEF o
<1>5. /\ op' \in [Backends -> OpType] /\ Shape' /\ Owners' /\ Trust'
      /\ delivery' \in Deliveries
  BY <1>1, <1>2, <1>3, <1>4, ServingKeeps DEF Serving, WithTarget
<1>. QED
  BY <1>1, <1>5 DEF Inductive, TypeOK, Deliveries

LEMMA NextRecipientTyped ==
    ASSUME NEW o \in OpType, NEW retry \in BOOLEAN
    PROVE  LET n == [o EXCEPT !.pc = "deliver", !.target = {}, !.outcome = "none",
                              !.retryable = @ \/ retry]
           IN  /\ n \in OpType /\ n.pc = "deliver"
               /\ n.batch = o.batch /\ n.current = o.current /\ n.todo = o.todo
BY DEF OpType

LEMMA AnswerTyped ==
    ASSUME NEW o \in OpType, NEW outcome \in {"sent", "invalid_token", "retry", "rejected"}
    PROVE  LET n == [o EXCEPT !.pc = "record", !.outcome = outcome]
           IN  /\ n \in OpType /\ n.pc = "record" /\ n.outcome = outcome
               /\ n.batch = o.batch /\ n.current = o.current
               /\ n.todo = o.todo /\ n.target = o.target
BY DEF OpType

(* The run is done with the recipient d.                                   *)
LEMMA NextRecipientKeeps ==
    ASSUME Inductive, NEW b \in Backends, NEW c \in op[b].current, NEW d \in op[b].target,
           op[b].pc \in WithTarget, NEW retry \in BOOLEAN, NextRecipient(b, retry),
           OnlyDelivery(c, d),
           UNCHANGED event
    PROVE  /\ op' \in [Backends -> OpType] /\ Shape' /\ Owners' /\ Trust'
           /\ delivery' \in Deliveries
<1>. DEFINE o == [op[b] EXCEPT !.pc = "deliver", !.target = {}, !.outcome = "none",
                               !.retryable = @ \/ retry]
<1>1. Continue(b, o)
  BY DEF NextRecipient
<1>2. op[b] \in OpType /\ WellFormed(op[b]) /\ d \in Devices /\ d \notin op[b].todo
  BY OpFields DEF WellFormed
<1>3. /\ o \in OpType /\ o.pc = "deliver"
      /\ o.batch = op[b].batch /\ o.current = op[b].current /\ o.todo = op[b].todo
  BY <1>2, NextRecipientTyped
<1>. HIDE DEF o
<1>. QED
  BY <1>1, <1>2, <1>3, ServingKeeps DEF Serving, WithTarget

(* The push is answered, or the catch clause takes over.                   *)
LEMMA AnswerKeeps ==
    ASSUME Inductive, NEW b \in Backends, NEW c \in op[b].current, NEW d \in op[b].target,
           op[b].pc \in WithTarget,
           NEW outcome \in {"sent", "invalid_token", "retry", "rejected"}, Answer(b, outcome),
           outcome = "invalid_token" => op[b].pc = "send" /\ delivery' = delivery,
           OnlyDelivery(c, d),
           UNCHANGED event
    PROVE  /\ op' \in [Backends -> OpType] /\ Shape' /\ Owners' /\ Trust'
           /\ delivery' \in Deliveries
<1>. DEFINE o == [op[b] EXCEPT !.pc = "record", !.outcome = outcome]
<1>1. Continue(b, o)
  BY DEF Answer
<1>2. /\ op[b] \in OpType /\ WellFormed(op[b]) /\ d \in Devices
      /\ op[b].target = {d} /\ d \notin op[b].todo
  BY OpFields DEF WellFormed
<1>3. /\ o \in OpType /\ o.pc = "record" /\ o.outcome = outcome
      /\ o.batch = op[b].batch /\ o.current = op[b].current
      /\ o.todo = op[b].todo /\ o.target = op[b].target
  BY <1>2, AnswerTyped
<1>4. outcome = "invalid_token" => (~event[c[1]].outlived => delivery'[c[1]][d] = "processing")
  BY <1>2 DEF Inductive, Trust, Unsent
<1>. HIDE DEF o
<1>. QED
  BY <1>1, <1>2, <1>3, <1>4, ServingKeeps DEF Serving, WithTarget

LEMMA SkipDeliveryStep ==
    ASSUME Inductive, NEW b \in Backends, NEW c \in op[b].current, NEW d \in Devices,
           SkipDelivery(b, c, d)
    PROVE  Inductive'
<1>1. /\ op' \in [Backends -> OpType] /\ Shape' /\ Owners' /\ Trust'
      /\ delivery' \in Deliveries
  BY OneDeliveryChanges, NextRecipientKeeps DEF SkipDelivery, WithTarget
<1>. QED
  BY <1>1 DEF SkipDelivery, Inductive, TypeOK, Deliveries

LEMMA SendStep ==
    ASSUME Inductive, NEW b \in Backends, NEW c \in op[b].current, NEW d \in Devices,
           Send(b, c, d)
    PROVE  Inductive'
<1>1. /\ op[b].pc = "send" /\ d \in op[b].target /\ c[1] \in Events
      /\ UNCHANGED <<event, device, delivery>>
  BY OpFields, ClaimFields DEF Send
<1>2. PICK outcome \in {"sent", "invalid_token", "retry", "rejected"} : Answer(b, outcome)
  BY DEF Send
<1>3. /\ op' \in [Backends -> OpType] /\ Shape' /\ Owners' /\ Trust'
      /\ delivery' \in Deliveries
  BY <1>1, <1>2, NoDeliveryChanges, AnswerKeeps DEF WithTarget
<1>4. reached' \subseteq Events \X Devices /\ refused' \subseteq Events \X Devices
  <2>1. /\ reached' \in {reached, reached \cup {<<c[1], d>>}}
        /\ refused' \in {refused, refused \cup {<<c[1], d>>}}
    BY DEF Send
  <2>. QED
    BY <1>1, <2>1 DEF Inductive, TypeOK
<1>5. budget' \in [Disturbances -> Nat]
  BY SpendTyped DEF Send, Inductive, TypeOK, Disturbances
<1>. QED
  BY <1>1, <1>3, <1>4, <1>5 DEF Inductive, TypeOK, Deliveries

LEMMA RecordStep ==
    ASSUME Inductive, NEW b \in Backends, NEW c \in op[b].current, NEW d \in Devices,
           Record(b, c, d)
    PROVE  Inductive'
<1>1. /\ op[b].pc = "record" /\ d \in op[b].target
      /\ UNCHANGED <<event, device, reached, refused>>
      /\ delivery' = [delivery EXCEPT ![c[1]][d] = StatusFor(op[b].outcome)]
  BY DEF Record
<1>2. OnlyDelivery(c, d)
  <2>1. StatusFor(op[b].outcome) \in {"processing", "sent", "failed", "skipped"}
    BY DEF StatusFor
  <2>. QED
    BY <1>1, <2>1, OneDeliveryChanges
<1>3. /\ op' \in [Backends -> OpType] /\ Shape' /\ Owners' /\ Trust'
      /\ delivery' \in Deliveries
  <2>1. CASE Continue(b, [op[b] EXCEPT !.pc = "device"])
    <3>. DEFINE o == [op[b] EXCEPT !.pc = "device"]
    <3>1. op[b] \in OpType /\ WellFormed(op[b]) /\ op[b].target = {d} /\ d \notin op[b].todo
      BY <1>1, OpFields DEF WellFormed, WithTarget
    <3>2. /\ o \in OpType /\ o.pc = "device"
          /\ o.batch = op[b].batch /\ o.current = op[b].current
          /\ o.todo = op[b].todo /\ o.target = op[b].target
      BY <3>1 DEF OpType
    <3>3. Continue(b, o)
      BY <2>1
    <3>. HIDE DEF o
    <3>. QED
      BY <1>1, <1>2, <3>1, <3>2, <3>3, ServingKeeps DEF Serving, WithTarget
  <2>2. CASE NextRecipient(b, op[b].outcome = "retry")
    BY <1>1, <1>2, <2>2, NextRecipientKeeps DEF WithTarget
  <2>3. CASE Answer(b, "retry")
    BY <1>1, <1>2, <2>3, AnswerKeeps DEF WithTarget
  <2>. QED
    BY <2>1, <2>2, <2>3 DEF Record
<1>4. budget' \in [Disturbances -> Nat]
  BY SpendTyped DEF Record, Inductive, TypeOK, Disturbances
<1>. QED
  BY <1>1, <1>3, <1>4 DEF Inductive, TypeOK, Deliveries

LEMMA DisableDeviceStep ==
    ASSUME Inductive, NEW b \in Backends, NEW d \in Devices, DisableDevice(b, d)
    PROVE  Inductive'
<1>1. /\ op[b].pc = "device" /\ d \in op[b].target /\ NextRecipient(b, FALSE)
      /\ UNCHANGED <<event, delivery, reached, refused, budget>>
  BY DEF DisableDevice
<1>2. PICK c \in op[b].current : TRUE
  BY <1>1, OpFields DEF WellFormed, Serving
<1>3. /\ op' \in [Backends -> OpType] /\ Shape' /\ Owners' /\ Trust'
      /\ delivery' \in Deliveries
  BY <1>1, <1>2, NoDeliveryChanges, NextRecipientKeeps DEF WithTarget
<1>4. device' \in [Devices -> [enabled : BOOLEAN, allowed : BOOLEAN, installed : BOOLEAN]]
  BY DEF DisableDevice, Inductive, TypeOK
<1>. QED
  BY <1>1, <1>3, <1>4 DEF Inductive, TypeOK, Deliveries

LEMMA InterruptionStep ==
    ASSUME Inductive, NEW b \in Backends, StatementFails(b) \/ Crash(b)
    PROVE  Inductive'
<1>1. UNCHANGED <<event, device, delivery, reached, refused>>
  BY DEF StatementFails, Crash
<1>2. budget' \in [Disturbances -> Nat]
  BY SpendTyped DEF StatementFails, Crash, Inductive, Disturbances
<1>3. op' \in [Backends -> OpType] /\ Shape' /\ Owners' /\ Trust'
  <2>1. CASE Continue(b, IdleOp)
    BY <1>1, <2>1, IdleWellFormed, RunGoesOn DEF IdleOp
  <2>2. CASE Answer(b, "retry") /\ op[b].pc \in {"device", "record"}
    <3>1. PICK c \in op[b].current, d \in op[b].target : TRUE
      BY <2>2, OpFields DEF WellFormed, Serving, WithTarget
    <3>. QED
      BY <1>1, <2>2, <3>1, NoDeliveryChanges, AnswerKeeps DEF WithTarget
  <2>. QED
    BY <2>1, <2>2 DEF StatementFails, Crash
<1>. QED
  BY <1>1, <1>2, <1>3 DEF Inductive, TypeOK

-----------------------------------------------------------------------------
(* The theorems *)

LEMMA RunStepKeeps ==
    ASSUME Inductive, NEW b \in Backends, RunStep(b)
    PROVE  Inductive'
<1>1. CASE StartRun(b)
  BY <1>1, StartRunStep
<1>2. CASE ClaimEvents(b)
  BY <1>2, ClaimEventsStep
<1>3. ASSUME NEW c \in op[b].batch, DropExpired(b, c) \/ ReadRecipients(b, c)
      PROVE  Inductive'
  BY <1>3, DropExpiredStep, ReadRecipientsStep
<1>4. ASSUME NEW c \in op[b].current, Conclude(b, c) PROVE Inductive'
  BY <1>4, ConcludeStep
<1>5. ASSUME NEW c \in op[b].current, NEW d \in Devices,
             UpsertDelivery(b, c, d) \/ SkipDelivery(b, c, d) \/ Send(b, c, d) \/ Record(b, c, d)
      PROVE  Inductive'
  BY <1>5, UpsertDeliveryStep, SkipDeliveryStep, SendStep, RecordStep
<1>6. ASSUME NEW d \in Devices, DisableDevice(b, d) PROVE Inductive'
  BY <1>6, DisableDeviceStep
<1>. QED
  BY <1>1, <1>2, <1>3, <1>4, <1>5, <1>6 DEF RunStep

LEMMA NextInductive == Inductive /\ [Next]_vars => Inductive'
<1>. SUFFICES ASSUME Inductive, [Next]_vars PROVE Inductive'
  OBVIOUS
<1>1. CASE Changes
  BY <1>1, ChangesStep
<1>2. ASSUME NEW b \in Backends, RunStep(b) \/ StatementFails(b) \/ Crash(b)
      PROVE  Inductive'
  BY <1>2, RunStepKeeps, InterruptionStep
<1>3. ASSUME NEW e \in Events, RetryTimeComes(e) \/ GetsStuck(e) \/ HeldTooLong(e)
      PROVE  Inductive'
  BY <1>3, TimeStep
<1>4. CASE UNCHANGED vars
  <2>1. op' \in [Backends -> OpType] /\ Shape' /\ Owners' /\ Trust'
    BY <1>4, RunsUntouched DEF vars, Taken
  <2>. QED
    BY <1>4, <2>1 DEF vars, Inductive, TypeOK
<1>. QED
  BY <1>1, <1>2, <1>3, <1>4 DEF Next

LEMMA AlwaysInductive == Spec => []Inductive
BY InitInductive, NextInductive, PTL DEF Spec

(* What the code writes into events, devices, deliveries and the state of  *)
(* a run has the form the tables and dispatchEvent expect, whoever fails   *)
(* or restarts.                                                            *)
THEOREM PushesTypeCorrect == Spec => []TypeOK
<1>1. Inductive => TypeOK
  BY DEF Inductive
<1>. QED
  BY <1>1, AlwaysInductive, PTL

(* claimEvents with FOR UPDATE SKIP LOCKED and releaseStuckEvents, of runs *)
(* of any length: an event is in the hands of two backends only if it was  *)
(* released while a run held it, ten minutes after the claim of that run.  *)
THEOREM EventHasOneDispatcher == Spec => []OneDispatcher
<1>1. Inductive => OneDispatcher
  BY DEF Inductive, Owners
<1>. QED
  BY <1>1, AlwaysInductive, PTL

(* Only the run that has an event in hand writes its deliveries, and it    *)
(* passes over the ones that are sent.                                     *)
LEMMA SentStays ==
    ASSUME Inductive, [Next]_vars,
           NEW e \in Events, NEW d \in Devices, delivery[e][d] = "sent", ~event[e].outlived
    PROVE  \/ delivery'[e][d] = "sent"
           \/ delivery'[e][d] = "failed" /\ \E b \in Backends : Recording(b, e, d)
<1>1. ASSUME NEW b \in Backends, NEW c \in op[b].current, NEW k \in Devices,
             UpsertDelivery(b, c, k)
      PROVE  delivery'[e][d] = "sent"
  <2>1. k \in op[b].todo /\ OnlyDelivery(c, k)
    BY <1>1, OneDeliveryChanges DEF UpsertDelivery
  <2>2. c[1] = e => delivery[c[1]][k] # "sent"
    BY <2>1 DEF Inductive, Trust, Unsent
  <2>. QED
    BY <2>1, <2>2 DEF OnlyDelivery
<1>2. ASSUME NEW b \in Backends, NEW c \in op[b].current, NEW k \in Devices,
             SkipDelivery(b, c, k)
      PROVE  delivery'[e][d] = "sent"
  <2>1. k \in op[b].target /\ op[b].pc = "skip" /\ OnlyDelivery(c, k)
    BY <1>2, OneDeliveryChanges DEF SkipDelivery
  <2>2. c[1] = e => delivery[c[1]][k] # "sent"
    BY <2>1 DEF Inductive, Trust, Unsent
  <2>. QED
    BY <2>1, <2>2 DEF OnlyDelivery
<1>3. ASSUME NEW b \in Backends, NEW c \in op[b].current, NEW k \in Devices,
             Record(b, c, k)
      PROVE  \/ delivery'[e][d] = "sent"
             \/ delivery'[e][d] = "failed" /\ Recording(b, e, d)
  <2>1. k \in op[b].target /\ op[b].pc = "record"
    BY <1>3 DEF Record
  <2>2. StatusFor(op[b].outcome) \in {"sent", "failed", "skipped"}
    BY DEF StatusFor
  <2>3. OnlyDelivery(c, k) /\ delivery'[c[1]][k] = StatusFor(op[b].outcome)
    BY <1>3, <2>2, OneDeliveryChanges DEF Record
  <2>4. CASE c[1] = e /\ k = d
    <3>1. op[b].outcome # "invalid_token"
      BY <2>1, <2>4 DEF Inductive, Trust, Unsent
    <3>2. StatusFor(op[b].outcome) \in {"sent", "failed"}
      BY <3>1 DEF StatusFor
    <3>3. Recording(b, e, d)
      BY <2>1, <2>4 DEF Recording
    <3>. QED
      BY <2>3, <2>4, <3>2, <3>3
  <2>5. CASE ~(c[1] = e /\ k = d)
    BY <2>3, <2>5 DEF OnlyDelivery
  <2>. QED
    BY <2>4, <2>5
<1>4. CASE UNCHANGED delivery
  BY <1>4
<1>5. CASE Changes
  BY <1>4, <1>5 DEF Changes, Enqueue, Expires, RegisterDevice, UnregisterDevice,
                    UpdatePreferences, Uninstall
<1>6. ASSUME NEW b \in Backends, RunStep(b)
      PROVE  \/ UNCHANGED delivery
             \/ \E c \in op[b].current, k \in Devices :
                    UpsertDelivery(b, c, k) \/ SkipDelivery(b, c, k) \/ Record(b, c, k)
  BY <1>6 DEF RunStep, StartRun, ClaimEvents, DropExpired, ReadRecipients, Conclude, Send,
              DisableDevice
<1>7. ASSUME NEW b \in Backends, StatementFails(b) \/ Crash(b) PROVE UNCHANGED delivery
  BY <1>7 DEF StatementFails, Crash
<1>8. ASSUME NEW f \in Events, RetryTimeComes(f) \/ GetsStuck(f) \/ HeldTooLong(f)
      PROVE  UNCHANGED delivery
  BY <1>8 DEF RetryTimeComes, GetsStuck, HeldTooLong
<1>9. CASE UNCHANGED vars
  BY <1>4, <1>9 DEF vars
<1>. QED
  BY <1>1, <1>2, <1>3, <1>4, <1>5, <1>6, <1>7, <1>8, <1>9 DEF Next

(* recipients, upsertDelivery, updateDelivery: a push recorded as sent     *)
(* stays recorded, through retries of the event, restarts and runs of      *)
(* other backends.  Only the run that has just sent it takes the record    *)
(* back, when its statement about the device fails, or a run from under    *)
(* which the event was released.                                           *)
THEOREM SentStaysSent == Spec => SentIsFinal
<1>1. Inductive /\ [Next]_vars =>
          [\A e \in Events, d \in Devices :
              delivery[e][d] = "sent" =>
                  \/ delivery'[e][d] = "sent"
                  \/ event[e].outlived
                  \/ delivery'[e][d] = "failed" /\ \E b \in Backends : Recording(b, e, d)]_vars
  BY SentStays
<1>. QED
  BY <1>1, AlwaysInductive, PTL DEF Spec, SentIsFinal

=============================================================================
