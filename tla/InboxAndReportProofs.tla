-------------------------- MODULE InboxAndReportProofs --------------------------
(***************************************************************************)
(* Theorems about the two modules that build on ReservationSync.  The      *)
(* queue of notifications (HostexInbox): types, what a processed event has *)
(* brought about, and that the guest's last word is announced.  The        *)
(* statistics page (StatisticsReport): what its counts are for every set   *)
(* of bookings and every period - exactly which bookings are read, that    *)
(* the several ways to count nights agree with each other, and what the    *)
(* page says of the bookings of ReservationSync.                           *)
(***************************************************************************)
EXTENDS HostexInbox, StatisticsReport, ReservationSyncProofs, FiniteSetTheorems

-----------------------------------------------------------------------------
(* The queue: the inductive invariant *)

(* A message event is about a message of the guest in the conversation; if *)
(* it named the conversation and the message is the last word, the         *)
(* administrators were told of it.                                         *)
Said(e) ==
    /\ event[e].message \in 1 .. Len(conversation)
    /\ conversation[event[e].message] = "guest"

Told(e) == event[e].message = Len(conversation) => event[e].message \in announced

Messages ==
    \A e \in Events : KindOf[e] = "message" =>
        /\ event[e].status # "absent" => Said(e)
        /\ event[e].named /\ event[e].status = "processed" => Told(e)

(* Hostex shows the notified change or a later one from then on.           *)
Notified ==
    \A e \in Events : KindOf[e] = "reservation" /\ event[e].status # "absent" =>
        /\ hostex[event[e].stay].status # "absent"
        /\ hostex[event[e].stay].ver >= event[e].ver
        /\ event[e].asked = {} \/ event[e].stay \in event[e].asked

(* The reading i shows the change that n is about, or a later one.         *)
Shows(i, n) == i.stay = n.stay /\ i.ver >= n.ver

(* How far the import o of the event n is: the stay is still to be read,   *)
(* or was read; or the code selected nothing, and all will be read.        *)
Covers(o, n) ==
    /\ o.pc \in {"idle", "read", "begin", "plan", "upsert"}
    /\ o.pc # "idle" => o.kind = "sync"
    /\ o.pc \in {"read", "begin", "plan"} => o.item = {}
    /\ \A i, j \in o.item : i = j
    /\ o.pc = "read" => \/ n.stay \in o.todo
                        \/ \E i \in o.seen : Shows(i, n)
                        \/ o.seen = {} /\ o.todo = {} /\ ~o.whole
    /\ o.pc = "begin" => \E i \in o.seen : Shows(i, n)
    /\ o.pc \in {"plan", "upsert"} => \E i \in o.seen \cup o.item \cup o.handled : Shows(i, n)
    /\ o.pc = "idle" /\ o.result = "done" => \E i \in o.handled : Shows(i, n)

Work ==
    \A e \in Events : running = e =>
        /\ event[e].status = "pending"
        /\ KindOf[e] # "reservation" => op[Inbox].pc = "idle"
        /\ KindOf[e] = "message" /\ event[e].named /\ op[Inbox].result = "done" => Told(e)
        /\ KindOf[e] = "reservation" => Covers(op[Inbox], event[e])

InboxInductive == InboxTypeOK /\ Messages /\ Notified /\ Work

-----------------------------------------------------------------------------
(* What the actions share *)

LEMMA InboxIsWorker == Inbox \in Workers /\ Timer \in Workers /\ Timer # Inbox
BY NullsAreOutside DEF Workers

LEMMA EventFields ==
    ASSUME InboxTypeOK, NEW e \in Events
    PROVE  /\ event[e] \in EventType
           /\ event[e].attempts \in Nat /\ event[e].ver \in Nat
           /\ event[e].stay \in HostexStays /\ event[e].asked \subseteq HostexStays
           /\ event[e].message \in 0 .. MaxMessages /\ event[e].named \in BOOLEAN
BY DEF InboxTypeOK, EventType

(* Only the worker Inbox is of interest to the queue.                      *)
LEMMA OpAfter ==
    ASSUME TypeOK, NEW w \in Workers, NEW o, Continue(w, o)
    PROVE  op'[w] = o /\ \A v \in Workers : v # w => op'[v] = op[v]
BY DEF TypeOK, Continue

(* A step that leaves events, conversation and the inbox's import alone    *)
LEMMA ElsewhereKeeps ==
    ASSUME InboxInductive, TypeOK', Notified', op'[Inbox] = op[Inbox],
           UNCHANGED <<event, running, conversation, announced>>
    PROVE  InboxInductive'
<1>1. InboxTypeOK'
  BY DEF InboxInductive, InboxTypeOK
<1>2. Messages'
  BY DEF InboxInductive, Messages, Said, Told
<1>3. Work'
  BY DEF InboxInductive, Work, Told, Covers, Shows
<1>. QED
  BY <1>1, <1>2, <1>3 DEF InboxInductive

-----------------------------------------------------------------------------
(* The import of an event *)

LEMMA ReadStayCovers ==
    ASSUME TypeOK, NEW n \in EventType, Covers(op[Inbox], n),
           hostex[n.stay].status # "absent", hostex[n.stay].ver >= n.ver,
           NEW s \in HostexStays, ReadStay(Inbox, s)
    PROVE  Covers(op'[Inbox], n)
<1>. DEFINE i == [stay |-> s, status |-> hostex[s].status, nights |-> hostex[s].nights,
                  ver |-> hostex[s].ver]
            unseen == [op[Inbox] EXCEPT !.todo = @ \ {s}]
            seen == [unseen EXCEPT !.seen = @ \cup {i}]
<1>1. op[Inbox] \in OpType /\ op[Inbox].pc = "read" /\ s \in op[Inbox].todo
  BY InboxIsWorker DEF TypeOK, ReadStay
<1>2. /\ unseen.pc = "read" /\ unseen.kind = op[Inbox].kind /\ unseen.item = op[Inbox].item
      /\ unseen.todo = op[Inbox].todo \ {s} /\ unseen.seen = op[Inbox].seen
      /\ unseen.whole = op[Inbox].whole
  BY <1>1 DEF OpType
<1>3. /\ seen.pc = "read" /\ seen.kind = op[Inbox].kind /\ seen.item = op[Inbox].item
      /\ seen.todo = op[Inbox].todo \ {s} /\ seen.seen = op[Inbox].seen \cup {i}
  BY <1>1 DEF OpType
<1>4. i.stay = s /\ i.ver = hostex[s].ver
  OBVIOUS
<1>5. IF hostex[s].status = "absent" THEN op'[Inbox] = unseen ELSE op'[Inbox] = seen
  BY InboxIsWorker, OpAfter DEF ReadStay
<1>. HIDE DEF i, unseen, seen
<1>6. CASE hostex[s].status = "absent"
  <2>1. n.stay # s
    BY <1>6
  <2>. QED
    BY <1>1, <1>2, <1>5, <1>6, <2>1 DEF Covers
<1>7. CASE hostex[s].status # "absent"
  <2>1. op'[Inbox] = seen
    BY <1>5, <1>7
  <2>2. n.stay \in seen.todo \/ \E j \in seen.seen : Shows(j, n)
    <3>1. CASE n.stay = s
      BY <1>3, <1>4, <3>1 DEF Shows
    <3>2. CASE n.stay # s
      BY <1>1, <1>3, <3>2 DEF Covers
    <3>. QED
      BY <3>1, <3>2
  <2>. QED
    BY <1>1, <1>3, <2>1, <2>2 DEF Covers
<1>. QED
  BY <1>6, <1>7

LEMMA EndCovers ==
    ASSUME TypeOK, NEW n, End(Inbox, "failed")
    PROVE  Covers(op'[Inbox], n)
<1>. DEFINE o == [IdleOp EXCEPT !.result = "failed"]
<1>1. o.pc = "idle" /\ o.result = "failed" /\ o.item = {}
  BY DEF IdleOp
<1>2. op'[Inbox] = o
  BY InboxIsWorker, OpAfter DEF End
<1>. HIDE DEF o
<1>. QED
  BY <1>1, <1>2 DEF Covers

(* The full reading, or one that selects the stay, or nothing              *)
LEMMA BeginSyncCovers ==
    ASSUME TypeOK, NEW n \in EventType, NEW stays \in SUBSET HostexStays,
           BeginSync(Inbox, stays), n.stay \in stays \/ stays = {}
    PROVE  Covers(op'[Inbox], n)
<1>. DEFINE o == [IdleOp EXCEPT !.pc = "read", !.kind = "sync", !.todo = stays,
                               !.whole = (stays = HostexStays)]
<1>1. /\ o.pc = "read" /\ o.kind = "sync" /\ o.item = {} /\ o.todo = stays /\ o.seen = {}
      /\ o.whole = (stays = HostexStays)
  BY DEF IdleOp
<1>2. op'[Inbox] = o
  BY InboxIsWorker, OpAfter DEF BeginSync
<1>. HIDE DEF o
<1>. QED
  BY <1>1, <1>2, EventsAreKnown DEF Covers

LEMMA ReadingEndsCovers ==
    ASSUME TypeOK, NEW n \in EventType, Covers(op[Inbox], n), ReadingEnds(Inbox)
    PROVE  Covers(op'[Inbox], n)
<1>. DEFINE o == [op[Inbox] EXCEPT !.pc = "begin"]
<1>1. op[Inbox] \in OpType /\ op[Inbox].pc = "read" /\ op[Inbox].todo = {}
  BY InboxIsWorker DEF TypeOK, ReadingEnds
<1>2. op[Inbox].kind = "sync"
  BY <1>1 DEF Covers
<1>3. \/ BeginSync(Inbox, HostexStays)
      \/ Continue(Inbox, o) /\ (op[Inbox].seen # {} \/ op[Inbox].whole)
  BY <1>2 DEF ReadingEnds
<1>4. o.pc = "begin" /\ o.kind = "sync" /\ o.item = op[Inbox].item /\ o.seen = op[Inbox].seen
  BY <1>1, <1>2 DEF OpType
<1>. HIDE DEF o
<1>5. CASE BeginSync(Inbox, HostexStays)
  <2>1. n.stay \in HostexStays
    BY DEF EventType
  <2>. QED
    BY <1>5, <2>1, BeginSyncCovers
<1>6. CASE Continue(Inbox, o) /\ (op[Inbox].seen # {} \/ op[Inbox].whole)
  <2>1. op'[Inbox] = o
    BY <1>6, InboxIsWorker, OpAfter
  <2>2. \E i \in op[Inbox].seen : Shows(i, n)
    BY <1>1, <1>6 DEF Covers
  <2>. QED
    BY <1>1, <1>4, <2>1, <2>2 DEF Covers
<1>. QED
  BY <1>3, <1>5, <1>6

LEMMA BeginTransactionCovers ==
    ASSUME TypeOK, NEW n, Covers(op[Inbox], n), BeginTransaction(Inbox)
    PROVE  Covers(op'[Inbox], n)
<1>. DEFINE o == [op[Inbox] EXCEPT !.pc = "plan"]
<1>1. op[Inbox] \in OpType /\ op[Inbox].pc = "begin" /\ Continue(Inbox, o)
  BY InboxIsWorker DEF TypeOK, BeginTransaction
<1>2. /\ o.pc = "plan" /\ o.kind = op[Inbox].kind /\ o.item = op[Inbox].item
      /\ o.seen = op[Inbox].seen
  BY <1>1 DEF OpType
<1>. HIDE DEF o
<1>3. op'[Inbox] = o
  BY <1>1, InboxIsWorker, OpAfter
<1>. QED
  BY <1>1, <1>2, <1>3 DEF Covers

LEMMA PlanCovers ==
    ASSUME TypeOK, NEW n, Covers(op[Inbox], n), NEW i \in op[Inbox].seen, Plan(Inbox, i)
    PROVE  Covers(op'[Inbox], n)
<1>. DEFINE reported == [[op[Inbox] EXCEPT !.seen = @ \ {i}] EXCEPT
                  !.notes = @ \cup ConflictNote(i)
                        \cup (IF ViewedRef(Inbox, i.stay) # NoRow THEN UnknownNote(i) ELSE {}),
                  !.handled = @ \cup {i}]
            planned == [[op[Inbox] EXCEPT !.seen = @ \ {i}] EXCEPT
                  !.pc = "upsert", !.item = {i}, !.target = Target(Inbox, i)]
<1>1. op[Inbox] \in OpType /\ op[Inbox].pc = "plan"
  BY InboxIsWorker DEF TypeOK, Plan
<1>2. /\ reported.pc = "plan" /\ reported.kind = op[Inbox].kind
      /\ reported.item = op[Inbox].item /\ reported.seen = op[Inbox].seen \ {i}
      /\ reported.handled = op[Inbox].handled \cup {i}
  BY <1>1 DEF OpType
<1>3. /\ planned.pc = "upsert" /\ planned.kind = op[Inbox].kind
      /\ planned.item = {i} /\ planned.seen = op[Inbox].seen \ {i}
      /\ planned.handled = op[Inbox].handled
  BY <1>1 DEF OpType
<1>4. Continue(Inbox, reported) \/ Continue(Inbox, planned)
  BY DEF Plan
<1>. HIDE DEF reported, planned
<1>5. op'[Inbox] = reported \/ op'[Inbox] = planned
  BY <1>4, InboxIsWorker, OpAfter
<1>6. PICK j \in op[Inbox].seen \cup op[Inbox].handled : Shows(j, n)
  BY <1>1 DEF Covers
<1>7. op[Inbox].kind = "sync" /\ op[Inbox].item = {}
  BY <1>1 DEF Covers
<1>. QED
  BY <1>2, <1>3, <1>5, <1>6, <1>7 DEF Covers

LEMMA UpsertCovers ==
    ASSUME TypeOK, NEW n, Covers(op[Inbox], n), Upsert(Inbox)
    PROVE  Covers(op'[Inbox], n)
<1>. DEFINE Applied(i, r) ==
              [op[Inbox] EXCEPT
                 !.pc = "plan", !.item = {}, !.target = NoRow,
                 !.written[r] = [origin |-> "hostex", status |-> ToReservationStatus(i.status),
                                 nights |-> i.nights, ver |-> i.ver],
                 !.links[i.stay] = r, !.notes = @ \cup UnknownNote(i),
                 !.handled = @ \cup {i}]
<1>1. op[Inbox] \in OpType /\ op[Inbox].pc = "upsert"
  BY InboxIsWorker DEF TypeOK, Upsert
<1>2. PICK i \in op[Inbox].item, r \in Rows : Continue(Inbox, Applied(i, r))
  BY DEF Upsert
<1>. DEFINE o == Applied(i, r)
<1>3. /\ o.pc = "plan" /\ o.kind = op[Inbox].kind /\ o.item = {} /\ o.seen = op[Inbox].seen
      /\ o.handled = op[Inbox].handled \cup {i}
  BY <1>1 DEF OpType
<1>4. Continue(Inbox, o)
  BY <1>2
<1>. HIDE DEF o
<1>5. op'[Inbox] = o
  BY <1>4, InboxIsWorker, OpAfter
<1>6. op[Inbox].item = {i}
  BY <1>2 DEF Covers
<1>7. PICK j \in op[Inbox].seen \cup {i} \cup op[Inbox].handled : Shows(j, n)
  BY <1>1, <1>6 DEF Covers
<1>. QED
  BY <1>1, <1>3, <1>5, <1>7 DEF Covers

LEMMA CommitCovers ==
    ASSUME TypeOK, NEW n, Covers(op[Inbox], n), Commit(Inbox)
    PROVE  Covers(op'[Inbox], n)
<1>. DEFINE o == [IdleOp EXCEPT !.result = Outcome(Inbox),
                                !.handled = IF Inbox = Inbox THEN op[Inbox].handled ELSE {}]
<1>1. op[Inbox].pc = "plan" /\ op[Inbox].seen = {} /\ Continue(Inbox, o)
  BY DEF Commit
<1>2. o.pc = "idle" /\ o.item = {} /\ o.handled = op[Inbox].handled
  BY DEF IdleOp
<1>. HIDE DEF o
<1>3. op'[Inbox] = o
  BY <1>1, InboxIsWorker, OpAfter
<1>. QED
  BY <1>1, <1>2, <1>3 DEF Covers

LEMMA SyncStepCovers ==
    ASSUME InboxInductive, NEW e \in Events, running = e, KindOf[e] = "reservation",
           SyncStep(Inbox) \/ SyncFails(Inbox)
    PROVE  Covers(op'[Inbox], event[e])
<1>1. /\ TypeOK /\ event[e] \in EventType /\ Covers(op[Inbox], event[e])
      /\ hostex[event[e].stay].status # "absent" /\ hostex[event[e].stay].ver >= event[e].ver
  BY EventFields DEF InboxInductive, InboxTypeOK, Work, Notified
<1>2. CASE SyncFails(Inbox)
  BY <1>1, <1>2, EndCovers DEF SyncFails
<1>3. ASSUME NEW s \in HostexStays, ReadStay(Inbox, s)
      PROVE  Covers(op'[Inbox], event[e])
  BY <1>1, <1>3, ReadStayCovers
<1>4. CASE ReadingEnds(Inbox)
  BY <1>1, <1>4, ReadingEndsCovers
<1>5. CASE BeginTransaction(Inbox)
  BY <1>1, <1>5, BeginTransactionCovers
<1>6. ASSUME NEW i \in op[Inbox].seen, Plan(Inbox, i)
      PROVE  Covers(op'[Inbox], event[e])
  BY <1>1, <1>6, PlanCovers
<1>7. CASE Upsert(Inbox)
  BY <1>1, <1>7, UpsertCovers
<1>8. CASE Commit(Inbox)
  BY <1>1, <1>8, CommitCovers
<1>. QED
  BY <1>2, <1>3, <1>4, <1>5, <1>6, <1>7, <1>8 DEF SyncStep

-----------------------------------------------------------------------------
(* Imports beside the queue *)

LEMMA InboxImports ==
    ASSUME InboxInductive, SyncStep(Inbox) \/ SyncFails(Inbox),
           UNCHANGED <<event, running, conversation, announced>>
    PROVE  InboxInductive'
<1>1. TypeOK /\ UNCHANGED hostex
  BY DEF InboxInductive, InboxTypeOK, SyncStep, SyncFails, ReadStay, ReadingEnds,
         BeginTransaction, Plan, Upsert, Commit
<1>2. TypeOK'
  BY <1>1, InboxIsWorker, SyncStepTyped, SyncFailsTyped
<1>3. op[Inbox].pc # "idle"
  BY DEF SyncStep, SyncFails, ReadStay, ReadingEnds, BeginTransaction, Plan, Upsert, Commit
<1>4. InboxTypeOK'
  BY <1>2 DEF InboxInductive, InboxTypeOK
<1>5. Messages' /\ Notified'
  BY <1>1 DEF InboxInductive, Messages, Said, Told, Notified
<1>6. Work'
  <2>. SUFFICES ASSUME NEW e \in Events, running = e
                PROVE  /\ event[e].status = "pending"
                       /\ KindOf[e] # "reservation" => op'[Inbox].pc = "idle"
                       /\ KindOf[e] = "message" /\ event[e].named
                              /\ op'[Inbox].result = "done" => Told(e)'
                       /\ KindOf[e] = "reservation" => Covers(op'[Inbox], event[e])
    BY DEF Work, Covers, Shows
  <2>1. event[e].status = "pending" /\ KindOf[e] = "reservation"
    BY <1>3 DEF InboxInductive, Work
  <2>2. Covers(op'[Inbox], event[e])
    BY <2>1, SyncStepCovers
  <2>. QED
    BY <2>1, <2>2
<1>. QED
  BY <1>4, <1>5, <1>6 DEF InboxInductive

LEMMA TimerImports ==
    ASSUME InboxInductive, StartTimer \/ SyncStep(Timer) \/ SyncFails(Timer),
           UNCHANGED <<event, running, conversation, announced>>
    PROVE  InboxInductive'
<1>1. TypeOK /\ UNCHANGED hostex
  BY DEF InboxInductive, InboxTypeOK, StartTimer, SyncStep, SyncFails, ReadStay, ReadingEnds,
         BeginTransaction, Plan, Upsert, Commit
<1>2. TypeOK'
  BY <1>1, InboxIsWorker, StartTimerTyped, SyncStepTyped, SyncFailsTyped
<1>3. \E o : Continue(Timer, o)
  BY DEF StartTimer, SyncStep, SyncFails, ReadStay, ReadingEnds, BeginTransaction, Plan, Upsert,
         Commit, BeginSync, End
<1>4. op'[Inbox] = op[Inbox]
  BY <1>1, <1>3, InboxIsWorker, OpAfter
<1>5. Notified'
  BY <1>1 DEF InboxInductive, Notified
<1>. QED
  BY <1>2, <1>4, <1>5, ElsewhereKeeps

(* A stay that is in Hostex stays there, and its changes are counted.      *)
LEMMA HostexImports ==
    ASSUME InboxInductive, HostexChanges,
           UNCHANGED <<event, running, conversation, announced>>
    PROVE  InboxInductive'
<1>1. TypeOK
  BY DEF InboxInductive, InboxTypeOK
<1>2. TypeOK'
  BY <1>1, HostexChangesTyped
<1>3. UNCHANGED op
  BY DEF HostexChanges, Book, Change
<1>4. \A s \in HostexStays : hostex[s].status # "absent" =>
          hostex'[s].status # "absent" /\ hostex'[s].ver >= hostex[s].ver
  <2>1. PICK s \in HostexStays, status \in HostexStatuses, nights \in Nights :
            \/ \E direct \in Directness : Book(s, status, nights, direct)
            \/ Change(s, status, nights)
    BY DEF HostexChanges
  <2>2. hostex \in [HostexStays -> HostexStay] /\ status # "absent"
    BY <1>1, StatusesAreKnown DEF TypeOK, AllHostexStatuses
  <2>3. \A t \in HostexStays : hostex[t].ver \in Nat /\ hostex[t] \in HostexStay
    BY <2>2 DEF HostexStay
  <2>4. CASE \E direct \in Directness : Book(s, status, nights, direct)
    BY <2>2, <2>3, <2>4 DEF Book
  <2>5. CASE Change(s, status, nights)
    <3>1. hostex' = [hostex EXCEPT ![s] = [hostex[s] EXCEPT !.status = status, !.nights = nights,
                                                            !.ver = @ + 1]]
      BY <2>2, <2>3, <2>5 DEF Change, HostexStay
    <3>2. /\ [hostex[s] EXCEPT !.status = status, !.nights = nights, !.ver = @ + 1].status = status
          /\ [hostex[s] EXCEPT !.status = status, !.nights = nights, !.ver = @ + 1].ver
                 = hostex[s].ver + 1
      BY <2>3 DEF HostexStay
    <3>. QED
      BY <2>2, <2>3, <3>1, <3>2
  <2>. QED
    BY <2>1, <2>4, <2>5
<1>5. Notified'
  <2>. SUFFICES ASSUME NEW e \in Events, KindOf[e] = "reservation", event[e].status # "absent"
                PROVE  /\ hostex'[event[e].stay].status # "absent"
                       /\ hostex'[event[e].stay].ver >= event[e].ver
                       /\ event[e].asked = {} \/ event[e].stay \in event[e].asked
    BY DEF Notified
  <2>1. /\ event[e].stay \in HostexStays /\ event[e].ver \in Nat
    BY EventFields DEF InboxInductive
  <2>2. /\ hostex[event[e].stay].status # "absent"
        /\ hostex[event[e].stay].ver >= event[e].ver
        /\ event[e].asked = {} \/ event[e].stay \in event[e].asked
    BY DEF InboxInductive, Notified
  <2>3. hostex[event[e].stay].ver \in Nat /\ hostex'[event[e].stay].ver \in Nat
    BY <1>1, <1>2, <2>1 DEF TypeOK, HostexStay
  <2>. QED
    BY <1>4, <2>1, <2>2, <2>3
<1>. QED
  BY <1>2, <1>3, <1>5, ElsewhereKeeps

LEMMA ImportsKeep ==
    ASSUME InboxInductive, Imports
    PROVE  InboxInductive'
BY InboxImports, TimerImports, HostexImports DEF Imports

-----------------------------------------------------------------------------
(* The queue itself *)

(* An event that was absent is stored as pending.                          *)
LEMMA StoreKeeps ==
    ASSUME InboxInductive, NEW e \in Events, NEW row \in EventType, Store(e, row),
           row.status = "pending",
           KindOf[e] = "message" => row.message \in 1 .. Len(conversation)
                                    /\ conversation[row.message] = "guest",
           KindOf[e] = "reservation" =>
               /\ hostex[row.stay].status # "absent"
               /\ hostex[row.stay].ver >= row.ver
               /\ row.asked = {} \/ row.stay \in row.asked,
           UNCHANGED <<hostex, rows, ref, review, op, running, conversation, announced,
                       syncEnabled>>
    PROVE  InboxInductive'
<1>1. /\ event[e].status = "absent" /\ event' \in [Events -> EventType]
      /\ event'[e] = row /\ \A f \in Events : f # e => event'[f] = event[f]
  BY DEF Store, InboxInductive, InboxTypeOK
<1>2. TypeOK'
  <2>1. budget' \in [Disturbances -> Nat]
    BY SpendTyped DEF Store, Disturbances, InboxInductive, InboxTypeOK
  <2>. QED
    BY <2>1 DEF InboxInductive, InboxTypeOK, TypeOK
<1>3. InboxTypeOK'
  BY <1>1, <1>2 DEF InboxInductive, InboxTypeOK
<1>4. Messages'
  BY <1>1 DEF InboxInductive, Messages, Said, Told
<1>5. Notified'
  BY <1>1 DEF InboxInductive, Notified
<1>6. running # e
  BY <1>1 DEF InboxInductive, Work
<1>7. Work'
  BY <1>1, <1>6 DEF InboxInductive, Work, Told, Covers, Shows
<1>. QED
  BY <1>3, <1>4, <1>5, <1>7 DEF InboxInductive

LEMMA ReceiveKeeps ==
    ASSUME InboxInductive, NEW e \in Events, Receive(e)
    PROVE  InboxInductive'
<1>1. event[e] \in EventType /\ TypeOK
  BY EventFields DEF InboxInductive, InboxTypeOK
<1>2. ASSUME NEW s \in HostexStays, NEW asked \in SUBSET HostexStays,
             ReceiveReservation(e, s, asked)
      PROVE  InboxInductive'
  <2>. DEFINE row == [event[e] EXCEPT !.status = "pending", !.due = TRUE, !.stay = s,
                                      !.ver = hostex[s].ver, !.asked = asked]
  <2>1. hostex[s].ver \in Nat
    BY <1>1 DEF TypeOK, HostexStay
  <2>2. /\ row \in EventType /\ row.status = "pending" /\ row.stay = s
        /\ row.ver = hostex[s].ver /\ row.asked = asked
    BY <1>1, <2>1 DEF EventType
  <2>3. /\ Store(e, row) /\ KindOf[e] = "reservation" /\ hostex[s].status # "absent"
        /\ asked = {} \/ s \in asked
        /\ UNCHANGED <<hostex, rows, ref, review, op, running, conversation, announced,
                       syncEnabled>>
    BY <1>2 DEF ReceiveReservation
  <2>. HIDE DEF row
  <2>. QED
    BY <2>1, <2>2, <2>3, StoreKeeps
<1>3. ASSUME NEW n \in 1 .. MaxMessages, NEW named \in BOOLEAN, ReceiveMessage(e, n, named)
      PROVE  InboxInductive'
  <2>. DEFINE row == [event[e] EXCEPT !.status = "pending", !.due = TRUE, !.message = n,
                                      !.named = named]
  <2>0. n \in 0 .. MaxMessages
    BY EventsAreKnown
  <2>1. row \in EventType /\ row.status = "pending" /\ row.message = n
    BY <1>1, <2>0 DEF EventType
  <2>2. /\ Store(e, row) /\ KindOf[e] = "message"
        /\ n \in DOMAIN conversation /\ conversation[n] = "guest"
        /\ UNCHANGED <<hostex, rows, ref, review, op, running, conversation, announced,
                       syncEnabled>>
    BY <1>3 DEF ReceiveMessage
  <2>3. DOMAIN conversation = 1 .. Len(conversation)
    BY DEF InboxInductive, InboxTypeOK
  <2>. HIDE DEF row
  <2>. QED
    BY <2>1, <2>2, <2>3, StoreKeeps
<1>4. CASE ReceiveOther(e)
  <2>. DEFINE row == [event[e] EXCEPT !.status = "pending", !.due = TRUE]
  <2>1. row \in EventType /\ row.status = "pending"
    BY <1>1 DEF EventType
  <2>2. /\ Store(e, row) /\ KindOf[e] = "other"
        /\ UNCHANGED <<hostex, rows, ref, review, op, running, conversation, announced,
                       syncEnabled>>
    BY <1>4 DEF ReceiveOther
  <2>. HIDE DEF row
  <2>. QED
    BY <2>1, <2>2, StoreKeeps
<1>. QED
  BY <1>2, <1>3, <1>4 DEF Receive

(* A new message is the last word, and no event is about it yet.           *)
LEMMA WriteKeeps ==
    ASSUME InboxInductive, NEW who \in {"guest", "host"}, Write(who)
    PROVE  InboxInductive'
<1>1. /\ conversation \in Seq({"guest", "host"}) /\ Len(conversation) < MaxMessages
      /\ conversation' = Append(conversation, who)
      /\ UNCHANGED <<hostex, rows, ref, review, op, budget, syncEnabled, event, running,
                     announced>>
  BY DEF InboxInductive, InboxTypeOK, Write, vars
<1>2. /\ conversation' \in Seq({"guest", "host"})
      /\ Len(conversation') = Len(conversation) + 1
      /\ \A n \in 1 .. Len(conversation) : conversation'[n] = conversation[n]
  BY <1>1
<1>3. Len(conversation) \in Nat
  BY <1>1
<1>4. TypeOK'
  BY <1>1 DEF InboxInductive, InboxTypeOK, TypeOK
<1>5. InboxTypeOK'
  BY <1>1, <1>2, <1>3, <1>4, EventsAreKnown DEF InboxInductive, InboxTypeOK
<1>6. ASSUME NEW e \in Events, KindOf[e] = "message", event[e].status # "absent"
      PROVE  Said(e)' /\ Told(e)'
  <2>1. event[e].message \in 1 .. Len(conversation)
    BY <1>6 DEF InboxInductive, Messages, Said
  <2>2. conversation[event[e].message] = "guest"
    BY <1>6 DEF InboxInductive, Messages, Said
  <2>. QED
    BY <1>1, <1>2, <1>3, <2>1, <2>2 DEF Said, Told
<1>7. Messages'
  BY <1>1, <1>6 DEF Messages
<1>8. Notified'
  BY <1>1 DEF InboxInductive, Notified
<1>9. Work'
  BY <1>1, <1>6 DEF InboxInductive, Work, Covers, Shows
<1>. QED
  BY <1>5, <1>7, <1>8, <1>9 DEF InboxInductive

(* Attempts and dates of events are not what the invariant is about.       *)
LEMMA ClaimKeeps ==
    ASSUME InboxInductive, NEW e \in Events, Claim(e)
    PROVE  InboxInductive'
<1>. DEFINE row == [event[e] EXCEPT !.attempts = @ + 1, !.due = FALSE]
            o == [IdleOp EXCEPT !.result = IF KindOf[e] = "other" THEN "done" ELSE "none"]
<1>1. /\ event[e].status = "pending" /\ running = NoEvent /\ running' = e
      /\ event[e] \in EventType /\ TypeOK
      /\ UNCHANGED <<hostex, rows, ref, review, budget, conversation, announced, syncEnabled>>
  BY EventFields DEF Claim, InboxInductive, InboxTypeOK
<1>2. /\ row \in EventType /\ row.status = "pending" /\ row.message = event[e].message
      /\ row.named = event[e].named /\ row.stay = event[e].stay /\ row.ver = event[e].ver /\ row.asked = event[e].asked
  <2>1. event[e].attempts + 1 \in Nat
    BY EventFields DEF InboxInductive
  <2>. QED
    BY <1>1, <2>1 DEF EventType
<1>3. event' = [event EXCEPT ![e] = row]
  BY <1>1 DEF Claim, EventType, InboxInductive, InboxTypeOK
<1>4. o.pc = "idle" /\ (KindOf[e] = "message" => o.result = "none")
  BY DEF IdleOp
<1>5. o \in OpType
  BY IdleOpTyped DEF OpType
<1>6. IF KindOf[e] = "reservation" THEN BeginSync(Inbox, event[e].asked) ELSE Continue(Inbox, o)
  BY DEF Claim
<1>. HIDE DEF row, o
<1>7. event' \in [Events -> EventType] /\ event'[e] = row
      /\ \A f \in Events : f # e => event'[f] = event[f]
  BY <1>2, <1>3 DEF InboxInductive, InboxTypeOK
<1>8. op' \in [Workers -> OpType]
  BY <1>1, <1>5, <1>6, InboxIsWorker, BeginSyncTyped, ContinueTyped, EventFields
     DEF InboxInductive
<1>9. InboxTypeOK'
  BY <1>1, <1>7, <1>8 DEF InboxInductive, InboxTypeOK, TypeOK
<1>10. Messages'
  BY <1>1, <1>2, <1>7 DEF InboxInductive, Messages, Said, Told
<1>11. Notified'
  BY <1>1, <1>2, <1>7 DEF InboxInductive, Notified
<1>12. Work'
  <2>1. CASE KindOf[e] = "reservation"
    <3>1. event[e].asked = {} \/ event[e].stay \in event[e].asked
      BY <1>1, <2>1 DEF InboxInductive, Notified
    <3>2. Covers(op'[Inbox], row)
      BY <1>1, <1>2, <1>6, <2>1, <3>1, BeginSyncCovers, EventFields DEF InboxInductive
    <3>3. Covers(op[Inbox], event[e])'
      BY <1>7, <3>2 DEF Covers, Shows
    <3>. QED
      BY <1>1, <1>2, <1>7, <2>1, <3>3 DEF Work
  <2>2. CASE KindOf[e] # "reservation"
    <3>1. op'[Inbox] = o
      BY <1>1, <1>6, <2>2, InboxIsWorker, OpAfter
    <3>. QED
      BY <1>1, <1>2, <1>4, <1>7, <2>2, <3>1 DEF Work
  <2>. QED
    BY <2>1, <2>2
<1>. QED
  BY <1>9, <1>10, <1>11, <1>12 DEF InboxInductive

LEMMA NotifyNewMessageKeeps ==
    ASSUME InboxInductive, NEW e \in Events, NotifyNewMessage(e)
    PROVE  InboxInductive'
<1>1. /\ running = e /\ KindOf[e] = "message" /\ TypeOK
      /\ UNCHANGED <<hostex, rows, ref, review, event, running, conversation, syncEnabled>>
  BY DEF NotifyNewMessage, InboxInductive, InboxTypeOK
<1>2. /\ event[e].status = "pending" /\ op[Inbox].pc = "idle"
      /\ event[e].message \in 1 .. Len(conversation)
      /\ conversation[event[e].message] = "guest"
  BY <1>1 DEF InboxInductive, Work, Messages, Said
<1>3. /\ budget' \in [Disturbances -> Nat]
      /\ \/ announced' = announced \cup Newest /\ End(Inbox, "done")
         \/ announced' = announced /\ End(Inbox, "failed")
         \/ announced' = announced /\ End(Inbox, "done") /\ ~event[e].named
  <2>1. budget \in [Disturbances -> Nat]
    BY <1>1 DEF TypeOK
  <2>. QED
    BY <1>1, <2>1, SpendTyped DEF NotifyNewMessage, Disturbances
<1>4. Len(conversation) \in Nat /\ Newest \subseteq 1 .. Len(conversation)
  BY <1>2 DEF Newest, InboxInductive, InboxTypeOK
<1>5. op' \in [Workers -> OpType]
  BY <1>1, <1>3, InboxIsWorker, EndTyped
<1>6. InboxTypeOK'
  BY <1>1, <1>3, <1>4, <1>5 DEF InboxInductive, InboxTypeOK, TypeOK
<1>7. announced \subseteq announced'
  BY <1>3
<1>8. Messages' /\ Notified'
  BY <1>1, <1>7 DEF InboxInductive, Messages, Said, Told, Notified
<1>9. /\ op'[Inbox].pc = "idle"
      /\ event[e].named /\ op'[Inbox].result = "done" => announced' = announced \cup Newest
  <2>. DEFINE o(result) == [IdleOp EXCEPT !.result = result]
  <2>1. \A result : o(result).pc = "idle" /\ o(result).result = result
    BY DEF IdleOp
  <2>2. \/ op'[Inbox] = o("done") /\ announced' = announced \cup Newest
        \/ op'[Inbox] = o("failed")
        \/ op'[Inbox] = o("done") /\ ~event[e].named
    BY <1>1, <1>3, InboxIsWorker, OpAfter DEF End
  <2>. HIDE DEF o
  <2>. QED
    BY <2>1, <2>2
<1>10. announced' = announced \cup Newest => Told(e)'
  BY <1>1, <1>2, <1>4 DEF Newest, Told
<1>11. Work'
  BY <1>1, <1>2, <1>9, <1>10 DEF Work
<1>. QED
  BY <1>6, <1>8, <1>11 DEF InboxInductive

(* How the UPDATE at the end changes the row                               *)
LEMMA SettleRow ==
    ASSUME InboxInductive, NEW e \in Events, Settle(e)
    PROVE  \/ event' = event
           \/ \E status \in {"pending", "processed", "ignored", "failed"} :
                 /\ event' = [event EXCEPT ![e] = [event[e] EXCEPT !.status = status]]
                 /\ status = "processed" => op[Inbox].result = "done"
<1>1. /\ SettledStatus(e) \in {"pending", "processed", "ignored", "failed"}
      /\ SettledStatus(e) = "processed" => op[Inbox].result = "done"
      /\ StatusAfterError(e) \in {"pending", "failed"}
  BY DEF SettledStatus, StatusAfterError
<1>2. \/ event' = event
      \/ event' = [event EXCEPT ![e].status = SettledStatus(e)]
      \/ event' = [event EXCEPT ![e].status = StatusAfterError(e)]
  BY DEF Settle
<1>. QED
  BY <1>1, <1>2 DEF InboxInductive, InboxTypeOK

LEMMA SettleKeeps ==
    ASSUME InboxInductive, NEW e \in Events, Settle(e)
    PROVE  InboxInductive'
<1>. DEFINE row(status) == [event[e] EXCEPT !.status = status]
<1>1. /\ running = e /\ running' = NoEvent /\ Continue(Inbox, IdleOp) /\ TypeOK
      /\ event[e] \in EventType /\ event[e].status = "pending"
      /\ UNCHANGED <<hostex, rows, ref, review, conversation, announced, syncEnabled>>
  BY EventFields DEF Settle, InboxInductive, InboxTypeOK, Work
<1>2. budget' \in [Disturbances -> Nat]
  <2>1. budget \in [Disturbances -> Nat]
    BY <1>1 DEF TypeOK
  <2>. QED
    BY <1>1, <2>1, SpendTyped DEF Settle, Disturbances
<1>3. op' \in [Workers -> OpType]
  BY <1>1, IdleOpTyped, InboxIsWorker, ContinueTyped
<1>4. \/ event' = event
      \/ \E status \in {"pending", "processed", "ignored", "failed"} :
            /\ event' = [event EXCEPT ![e] = row(status)]
            /\ status = "processed" => op[Inbox].result = "done"
  BY SettleRow
<1>5. \A status \in {"pending", "processed", "ignored", "failed"} :
          /\ row(status) \in EventType /\ row(status).status = status
          /\ row(status).message = event[e].message /\ row(status).named = event[e].named
          /\ row(status).stay = event[e].stay
          /\ row(status).ver = event[e].ver /\ row(status).asked = event[e].asked
  BY <1>1 DEF EventType
<1>. HIDE DEF row
<1>6. event' \in [Events -> EventType]
  BY <1>4, <1>5 DEF InboxInductive, InboxTypeOK
<1>7. InboxTypeOK'
  BY <1>1, <1>2, <1>3, <1>6 DEF InboxInductive, InboxTypeOK, TypeOK
<1>8. \A f \in Events :
          /\ event'[f].message = event[f].message /\ event'[f].named = event[f].named
          /\ event'[f].stay = event[f].stay
          /\ event'[f].ver = event[f].ver /\ event'[f].asked = event[f].asked
          /\ event[f].status = "absent" => event'[f].status = "absent"
          /\ event'[f].status = "processed" =>
                 event[f].status = "processed" \/ (f = e /\ op[Inbox].result = "done")
  BY <1>1, <1>4, <1>5 DEF InboxInductive, InboxTypeOK
<1>9. Messages'
  BY <1>1, <1>8 DEF InboxInductive, Messages, Said, Told, Work
<1>10. Notified'
  BY <1>1, <1>8 DEF InboxInductive, Notified
<1>11. Work'
  BY <1>1, EventsAreKnown DEF Work
<1>. QED
  BY <1>7, <1>9, <1>10, <1>11 DEF InboxInductive

LEMMA BecomesDueKeeps ==
    ASSUME InboxInductive, NEW e \in Events, BecomesDue(e)
    PROVE  InboxInductive'
<1>. DEFINE row == [event[e] EXCEPT !.due = TRUE]
<1>1. /\ event[e] \in EventType /\ running # e
      /\ UNCHANGED <<hostex, rows, ref, review, op, budget, syncEnabled, running, conversation,
                     announced>>
  BY EventFields DEF BecomesDue, InboxInductive, vars
<1>2. event' = [event EXCEPT ![e] = row]
  BY DEF BecomesDue, InboxInductive, InboxTypeOK
<1>3. /\ row \in EventType /\ row.message = event[e].message /\ row.stay = event[e].stay
      /\ row.named = event[e].named
      /\ row.ver = event[e].ver /\ row.asked = event[e].asked /\ row.status = event[e].status
  BY <1>1 DEF EventType
<1>. HIDE DEF row
<1>4. event' \in [Events -> EventType]
      /\ event'[e] = row /\ \A f \in Events : f # e => event'[f] = event[f]
  BY <1>2, <1>3 DEF InboxInductive, InboxTypeOK
<1>5. InboxTypeOK'
  BY <1>1, <1>4 DEF InboxInductive, InboxTypeOK, TypeOK
<1>6. Messages'
  BY <1>1, <1>3, <1>4 DEF InboxInductive, Messages, Said, Told
<1>7. Notified'
  BY <1>1, <1>3, <1>4 DEF InboxInductive, Notified
<1>8. Work'
  BY <1>1, <1>4 DEF InboxInductive, Work, Told, Covers, Shows
<1>. QED
  BY <1>5, <1>6, <1>7, <1>8 DEF InboxInductive

LEMMA RestartKeeps ==
    ASSUME InboxInductive, Restart
    PROVE  InboxInductive'
<1>1. /\ op' = [w \in Workers |-> IdleOp] /\ running' = NoEvent /\ TypeOK
      /\ UNCHANGED <<hostex, rows, ref, review, event, conversation, announced, syncEnabled>>
  BY DEF Restart, InboxInductive, InboxTypeOK
<1>2. budget' \in [Disturbances -> Nat]
  BY <1>1, SpendTyped DEF Restart, Disturbances
<1>3. InboxTypeOK'
  BY <1>1, <1>2, IdleOpTyped DEF InboxInductive, InboxTypeOK, TypeOK
<1>4. Messages' /\ Notified'
  BY <1>1 DEF InboxInductive, Messages, Said, Told, Notified
<1>5. Work'
  BY <1>1, EventsAreKnown DEF Work
<1>. QED
  BY <1>3, <1>4, <1>5 DEF InboxInductive

-----------------------------------------------------------------------------
(* The queue: the theorems *)

LEMMA InitKeeps == InboxInit => InboxInductive
<1>. SUFFICES ASSUME InboxInit
              PROVE  InboxInductive
  OBVIOUS
<1>1. (CHOOSE s \in HostexStays : TRUE) \in HostexStays
  BY EventsAreKnown
<1>2. TypeOK
  BY InitTyped DEF InboxInit
<1>3. event \in [Events -> EventType] /\ \A e \in Events : event[e].status = "absent"
  BY <1>1, EventsAreKnown DEF InboxInit, EventType
<1>4. InboxTypeOK
  BY <1>2, <1>3, EventsAreKnown DEF InboxInit, InboxTypeOK
<1>5. Messages /\ Notified
  BY <1>3 DEF Messages, Notified
<1>6. Work
  BY EventsAreKnown DEF InboxInit, Work
<1>. QED
  BY <1>4, <1>5, <1>6 DEF InboxInductive

LEMMA InboxNextKeeps ==
    ASSUME InboxInductive, [InboxNext]_inboxVars
    PROVE  InboxInductive'
<1>1. CASE UNCHANGED inboxVars
  <2>1. UNCHANGED <<hostex, rows, ref, review, op, budget, syncEnabled, event, running,
                    conversation, announced>>
    BY <1>1 DEF inboxVars, vars
  <2>2. TypeOK' /\ Notified'
    BY <2>1 DEF InboxInductive, InboxTypeOK, TypeOK, Notified
  <2>. QED
    BY <2>1, <2>2, ElsewhereKeeps
<1>. QED
  BY <1>1, ImportsKeep, ReceiveKeeps, ClaimKeeps, NotifyNewMessageKeeps, SettleKeeps,
     BecomesDueKeeps, WriteKeeps, RestartKeeps DEF InboxNext, Queue

LEMMA ReceiveStores ==
    ASSUME InboxInductive, NEW e \in Events, Receive(e), NEW f \in Events
    PROVE  event'[f].status \in {event[f].status, "pending"}
<1>1. event[e] \in EventType /\ event \in [Events -> EventType]
  BY DEF InboxInductive, InboxTypeOK
<1>2. PICK row : Store(e, row) /\ row.status = "pending"
  <2>1. ASSUME NEW s, NEW asked, ReceiveReservation(e, s, asked)
        PROVE  \E row : Store(e, row) /\ row.status = "pending"
    <3>. DEFINE row == [event[e] EXCEPT !.status = "pending", !.due = TRUE, !.stay = s,
                                        !.ver = hostex[s].ver, !.asked = asked]
    <3>1. row.status = "pending"
      BY <1>1 DEF EventType
    <3>. QED
      BY <2>1, <3>1 DEF ReceiveReservation
  <2>2. ASSUME NEW n, NEW named, ReceiveMessage(e, n, named)
        PROVE  \E row : Store(e, row) /\ row.status = "pending"
    <3>. DEFINE row == [event[e] EXCEPT !.status = "pending", !.due = TRUE, !.message = n,
                                        !.named = named]
    <3>1. row.status = "pending"
      BY <1>1 DEF EventType
    <3>. QED
      BY <2>2, <3>1 DEF ReceiveMessage
  <2>3. ASSUME ReceiveOther(e)
        PROVE  \E row : Store(e, row) /\ row.status = "pending"
    <3>. DEFINE row == [event[e] EXCEPT !.status = "pending", !.due = TRUE]
    <3>1. row.status = "pending"
      BY <1>1 DEF EventType
    <3>. QED
      BY <2>3, <3>1 DEF ReceiveOther
  <2>. QED
    BY <2>1, <2>2, <2>3 DEF Receive
<1>. QED
  BY <1>1, <1>2 DEF Store

LEMMA InboxAlwaysInductive == InboxSpec => []InboxInductive
BY InitKeeps, InboxNextKeeps, PTL DEF InboxSpec

(* The rows of the queue, the conversation and the imports keep their      *)
(* types, whatever arrives, fails or restarts.                             *)
THEOREM InboxTypeCorrect == InboxSpec => []InboxTypeOK
<1>1. InboxInductive => InboxTypeOK
  BY DEF InboxInductive
<1>. QED
  BY <1>1, InboxAlwaysInductive, PTL

(* However many messages are written while their events wait, an event     *)
(* that names the conversation and was processed while its message is the  *)
(* last word has made it known to the administrators (notifyNewMessage,    *)
(* latestIncomingMessage).                                                 *)
THEOREM LastWordIsKnown == InboxSpec => []LastWordIsAnnounced
<1>1. InboxInductive => LastWordIsAnnounced
  BY DEF InboxInductive, Messages, Told, LastWordIsAnnounced
<1>. QED
  BY <1>1, InboxAlwaysInductive, PTL

(* A notification is marked processed after a committed import that saw    *)
(* its change or a later one, through any number of attempts, failed       *)
(* transactions and restarts (processEvent).                               *)
THEOREM ProcessedMeansApplied == InboxSpec => ProcessedWasApplied
<1>1. ASSUME InboxInductive, InboxNext, NEW e \in Events, KindOf[e] = "reservation",
             event'[e].status = "processed", event[e].status # "processed"
      PROVE  \E i \in op[Inbox].handled : i.stay = event[e].stay /\ i.ver >= event[e].ver
  <2>1. event \in [Events -> EventType]
    BY <1>1 DEF InboxInductive, InboxTypeOK
  <2>2. event' # event
    BY <1>1
  <2>3. ASSUME NEW f \in Events, Receive(f)
        PROVE  FALSE
    BY <1>1, <2>3, ReceiveStores
  <2>4. ASSUME NEW f \in Events, Claim(f) \/ BecomesDue(f)
        PROVE  FALSE
    <3>1. event'[e].status = event[e].status
      BY <2>1, <2>4 DEF Claim, BecomesDue, EventType
    <3>. QED
      BY <1>1, <3>1
  <2>5. PICK f \in Events : Settle(f)
    BY <1>1, <2>2, <2>3, <2>4
       DEF InboxNext, Imports, Queue, NotifyNewMessage, Write, Restart
  <2>6. PICK status : /\ event' = [event EXCEPT ![f] = [event[f] EXCEPT !.status = status]]
                      /\ status = "processed" => op[Inbox].result = "done"
    BY <1>1, <2>2, <2>5, SettleRow
  <2>7. f = e /\ status = "processed"
    BY <1>1, <2>1, <2>6 DEF EventType
  <2>8. op[Inbox].result = "done" /\ op[Inbox].pc = "idle" /\ running = e
    BY <2>5, <2>6, <2>7 DEF Settle
  <2>9. Covers(op[Inbox], event[e])
    BY <1>1, <2>8 DEF InboxInductive, Work
  <2>. QED
    BY <2>8, <2>9 DEF Covers, Shows
<1>2. InboxInductive /\ [InboxNext]_inboxVars =>
          [\A e \in Events :
               (/\ KindOf[e] = "reservation"
                /\ event'[e].status = "processed" /\ event[e].status # "processed")
               => \E i \in op[Inbox].handled : i.stay = event[e].stay /\ i.ver >= event[e].ver
          ]_inboxVars
  BY <1>1
<1>. QED
  BY <1>2, InboxAlwaysInductive, PTL DEF InboxSpec, ProcessedWasApplied

-----------------------------------------------------------------------------
(* The statistics page *)

(* Bookings as Hostex has them: at least one night long                    *)
IsStay(s) == s.checkIn \in Int /\ s.checkOut \in Int /\ s.checkIn < s.checkOut

(* nightsInRange counts a night of the stay exactly if the period has it.  *)
LEMMA NightsInRangeMember ==
    ASSUME NEW s, IsStay(s), NEW from \in Int, NEW to \in Int
    PROVE  NightsInRange(s, from, to) =
               {d \in ListDays(from, to) : s.checkIn <= d /\ s.checkOut > d}
  BY DEF NightsInRange, ListDays, IsStay

(* The two date filters of loadStays find every stay of the period but     *)
(* those that begin before it and end on `to' or later: for these neither  *)
(* the check-in nor the check-out is a date of the period.                 *)
THEOREM ReadsAllButLongStays ==
    ASSUME NEW stays, \A s \in stays : IsStay(s),
           NEW from \in Int, NEW to \in Int, from < to
    PROVE  LoadStays(stays, from, to) =
               {s \in stays : Overlaps(s, from, to) /\ ~(s.checkIn < from /\ s.checkOut >= to)}
  BY DEF LoadStays, FilteredByCheckIn, FilteredByCheckOut, Overlaps, IsStay

(* A departure on the first day of a period is in no report: the stay has  *)
(* no night in the period, and in the period before it leaves on `to'.     *)
THEOREM FirstDayDeparturesAreMissed ==
    ASSUME NEW stays, \A s \in stays : IsStay(s),
           NEW from \in Int, NEW to \in Int, from < to
    PROVE  Departures(LoadStays(stays, from, to), from, to) =
               {s \in stays : s.status = "accepted" /\ from < s.checkOut /\ s.checkOut < to}
  BY DEF Departures, Confirmed, InRange, LoadStays, FilteredByCheckIn, FilteredByCheckOut,
         Overlaps, IsStay

(* The occupied and the sellable nights of the table of apartments are     *)
(* those of the table of days (byApartment and byDate): the two count with *)
(* different loops, and their sums must be equal.                          *)
THEOREM DaysAndApartmentsAgree ==
    ASSUME NEW stays, \A s \in stays : IsStay(s), NEW apartments, NEW closed,
           NEW a \in apartments, NEW from \in Int, NEW to \in Int,
           NEW d \in ListDays(from, to)
    PROVE  /\ d \in OccupiedDates(stays, a, from, to) <=> a \in OccupiedOn(stays, apartments, d)
           /\ d \in SellableNights(stays, closed, a, from, to)
                  <=> a \in SellableOn(stays, closed, apartments, d)
<1>1. d \in OccupiedDates(stays, a, from, to) <=> a \in OccupiedOn(stays, apartments, d)
  <2>1. \A s \in Confirmed(stays) :
            d \in NightsInRange(s, from, to) <=> s.checkIn <= d /\ s.checkOut > d
    BY NightsInRangeMember DEF Confirmed
  <2>. QED
    BY <2>1 DEF OccupiedDates, OccupiedOn, StayingOn
<1>2. d \in SellableNights(stays, closed, a, from, to)
          <=> a \in SellableOn(stays, closed, apartments, d)
  BY <1>1 DEF SellableNights, BlockedNights, SellableOn
<1>. QED
  BY <1>1, <1>2

(* Occupancy never exceeds one hundred per cent: an occupied night is      *)
(* sellable even where Hostex calls the day unavailable, and the period    *)
(* has finitely many.                                                      *)
THEOREM OccupancyIsAShare ==
    ASSUME NEW stays, \A s \in stays : IsStay(s), NEW closed, NEW a,
           NEW from \in Int, NEW to \in Int
    PROVE  /\ IsFiniteSet(SellableNights(stays, closed, a, from, to))
           /\ Cardinality(OccupiedDates(stays, a, from, to))
                  <= Cardinality(SellableNights(stays, closed, a, from, to))
<1>1. OccupiedDates(stays, a, from, to) \subseteq ListDays(from, to)
  BY NightsInRangeMember DEF OccupiedDates, Confirmed
<1>2. OccupiedDates(stays, a, from, to) \subseteq SellableNights(stays, closed, a, from, to)
  BY <1>1 DEF SellableNights, BlockedNights
<1>3. IsFiniteSet(ListDays(from, to))
  BY FS_Interval DEF ListDays
<1>4. IsFiniteSet(SellableNights(stays, closed, a, from, to))
  BY <1>3, FS_Subset DEF SellableNights
<1>. QED
  BY <1>2, <1>4, FS_Subset

(* Reports of consecutive periods share out the nights of a stay, and with *)
(* them its amount: no night is in both, none is in neither, and over      *)
(* periods that hold the whole stay they add up to RatedNights.            *)
THEOREM NightsAreSharedOut ==
    ASSUME NEW s, IsStay(s), NEW from \in Int, NEW mid \in Int, NEW to \in Int,
           from <= mid, mid <= to
    PROVE  /\ IncludedNights(s, from, mid) + IncludedNights(s, mid, to)
                  = IncludedNights(s, from, to)
           /\ from <= s.checkIn /\ s.checkOut <= to
                  => IncludedNights(s, from, to) = RatedNights(s)
<1>. DEFINE Left == NightsInRange(s, from, mid)
            Right == NightsInRange(s, mid, to)
            Both == NightsInRange(s, from, to)
<1>1. \A x, y \in Int : IsFiniteSet(NightsInRange(s, x, y))
  <2>. SUFFICES ASSUME NEW x \in Int, NEW y \in Int
                PROVE  IsFiniteSet(NightsInRange(s, x, y))
    OBVIOUS
  <2>1. NightsInRange(s, x, y) \subseteq ListDays(x, y)
    BY NightsInRangeMember
  <2>2. IsFiniteSet(ListDays(x, y))
    BY FS_Interval DEF ListDays
  <2>. QED
    BY <2>1, <2>2, FS_Subset
<1>2. Left \cup Right = Both /\ Left \cap Right = {}
  BY NightsInRangeMember DEF IsStay, ListDays
<1>3. Cardinality(Left) + Cardinality(Right) = Cardinality(Both)
  <2>1. Cardinality(Left \cup Right)
            = Cardinality(Left) + Cardinality(Right) - Cardinality(Left \cap Right)
    BY <1>1, FS_Union
  <2>2. Cardinality(Left \cap Right) = 0
    BY <1>2, FS_EmptySet
  <2>3. Cardinality(Left) \in Nat /\ Cardinality(Right) \in Nat
    BY <1>1, FS_CardinalityType
  <2>4. Cardinality(Left \cup Right) = Cardinality(Both)
    BY <1>2
  <2>. HIDE DEF Left, Right, Both
  <2>. QED
    BY <2>1, <2>2, <2>3, <2>4
<1>4. ASSUME from <= s.checkIn, s.checkOut <= to
      PROVE  Cardinality(Both) = s.checkOut - s.checkIn
  <2>1. Both = s.checkIn .. s.checkOut - 1
    <3>1. Both = {d \in ListDays(from, to) : s.checkIn <= d /\ s.checkOut > d}
      BY NightsInRangeMember
    <3>. QED
      BY <1>4, <3>1 DEF IsStay, ListDays
  <2>2. Cardinality(s.checkIn .. s.checkOut - 1) = (s.checkOut - 1) - s.checkIn + 1
    BY FS_Interval DEF IsStay
  <2>. QED
    BY <2>1, <2>2 DEF IsStay
<1>. QED
  BY <1>3, <1>4 DEF IncludedNights, RatedNights

LEMMA MissesLongStaysOnly ==
    ASSUME TypeOK
    PROVE  OnlyLongStaysAreMissed
<1>. SUFFICES ASSUME NEW p \in Periods
              PROVE  LET shown == OccupiedDates(LoadStays(Bookings, p[1], p[2]),
                                                "apartment", p[1], p[2])
                         real == OccupiedDates(Bookings, "apartment", p[1], p[2])
                     IN  /\ shown \subseteq real
                         /\ \A d \in real \ shown :
                                \E s \in Confirmed(Bookings) :
                                    s.checkIn < p[1] /\ s.checkOut >= p[2]
  BY DEF OnlyLongStaysAreMissed
<1>. DEFINE Read == LoadStays(Bookings, p[1], p[2])
            Shown == OccupiedDates(Read, "apartment", p[1], p[2])
            Real == OccupiedDates(Bookings, "apartment", p[1], p[2])
<1>1. p[1] \in Int /\ p[2] \in Int /\ p[1] < p[2]
  BY PeriodsAreRanges
<1>2. \A s \in Bookings : IsStay(s)
  <2>1. \A s \in HostexStays : hostex[s].nights \in Nights
    BY DEF TypeOK, HostexStay
  <2>. QED
    BY <2>1, NightsAreRanges DEF Bookings, IsStay
<1>3. Read = {s \in Bookings : Overlaps(s, p[1], p[2])
                               /\ ~(s.checkIn < p[1] /\ s.checkOut >= p[2])}
  BY <1>1, <1>2, ReadsAllButLongStays
<1>4. Shown \subseteq Real
  BY <1>3 DEF OccupiedDates, Confirmed
<1>5. ASSUME NEW d \in Real, d \notin Shown
      PROVE  \E s \in Confirmed(Bookings) : s.checkIn < p[1] /\ s.checkOut >= p[2]
  <2>1. PICK s \in Confirmed(Bookings) : s.apartment = "apartment"
                                          /\ d \in NightsInRange(s, p[1], p[2])
    BY DEF OccupiedDates
  <2>2. s \in Bookings /\ s.status = "accepted"
    BY DEF Confirmed
  <2>3. Overlaps(s, p[1], p[2])
    BY <1>1, <1>2, <2>1, <2>2, NightsInRangeMember DEF Overlaps, IsStay, ListDays
  <2>4. s \notin Read
    BY <1>5, <2>1, <2>2 DEF OccupiedDates, Confirmed
  <2>. QED
    BY <1>3, <2>2, <2>3, <2>4
<1>. QED
  BY <1>4, <1>5

(* The page opened at any moment of any interleaving of imports, requests  *)
(* and restarts is right up to the long stays, for any number of bookings  *)
(* and any periods (loadStays, byApartment).                               *)
THEOREM ReportMissesLongStaysOnly == Spec => []OnlyLongStaysAreMissed
BY SyncTypeCorrect, MissesLongStaysOnly, PTL
===============================================================================
