------------------------- MODULE ReservationSyncProofs -------------------------
(***************************************************************************)
(* Type correctness of ReservationSync, that a stay and a row belong to    *)
(* each other one to one, and that neither imports nor administrators      *)
(* alone book a night twice, for any number of stays, rows, administrators *)
(* and nights.  Each action has a lemma of its own in each part.           *)
(***************************************************************************)
EXTENDS ReservationSync, TLAPS

-----------------------------------------------------------------------------
(* What the actions share *)

LEMMA IdleOpTyped ==
    IdleOp \in OpType /\ NoBooking \in RowType
<1>1. AnyNights \in Nights
  BY NightsAreRanges DEF AnyNights
<1>2. NoBooking \in RowType
  BY <1>1 DEF NoBooking, RowType, RowStatuses
<1>. QED
  BY <1>2 DEF IdleOp, OpType

LEMMA ContinueTyped ==
    ASSUME TypeOK, NEW w \in Workers, NEW o \in OpType, Continue(w, o)
    PROVE  op' \in [Workers -> OpType]
BY DEF TypeOK, Continue

LEMMA EndTyped ==
    ASSUME TypeOK, NEW w \in Workers, NEW result \in {"none", "done", "failed"},
           End(w, result)
    PROVE  op' \in [Workers -> OpType]
<1>1. [IdleOp EXCEPT !.result = result] \in OpType
  BY IdleOpTyped DEF OpType
<1>. QED
  BY <1>1, ContinueTyped DEF End

LEMMA SpendTyped ==
    ASSUME TypeOK, NEW kind \in Disturbances, Spend(kind)
    PROVE  budget' \in [Disturbances -> Nat]
BY DEF TypeOK, Spend

LEMMA ViewTyped ==
    ASSUME TypeOK, NEW w \in Workers
    PROVE  /\ View(w) \in [Rows -> RowType]
           /\ \A s \in HostexStays : ViewedRef(w, s) \in Rows \cup {NoRow}
<1>1. op[w].written \in [Rows -> RowType \cup {Unwritten}]
  BY DEF TypeOK, OpType
<1>2. op[w].links \in [HostexStays -> Rows \cup {NoRow}]
  BY DEF TypeOK, OpType
<1>. QED
  BY <1>1, <1>2 DEF TypeOK, View, ViewedRef

LEMMA StatusTyped ==
    \A status : ToReservationStatus(status) \in RowStatuses
BY DEF ToReservationStatus, RowStatuses

-----------------------------------------------------------------------------
(* Synchronisation *)

LEMMA BeginSyncTyped ==
    ASSUME TypeOK, NEW w \in Workers, NEW stays \in SUBSET HostexStays, BeginSync(w, stays)
    PROVE  op' \in [Workers -> OpType]
<1>1. [IdleOp EXCEPT !.pc = "read", !.kind = "sync", !.todo = stays,
                     !.whole = (stays = HostexStays)] \in OpType
  BY IdleOpTyped DEF OpType
<1>. QED
  BY <1>1, ContinueTyped DEF BeginSync

LEMMA StartTimerTyped == TypeOK /\ StartTimer => TypeOK'
<1>. SUFFICES ASSUME TypeOK, StartTimer
              PROVE  TypeOK'
  OBVIOUS
<1>1. op' \in [Workers -> OpType]
  BY BeginSyncTyped DEF StartTimer, Workers
<1>. QED
  BY <1>1 DEF StartTimer, TypeOK

LEMMA StartInboxTyped ==
    ASSUME TypeOK, NEW stays \in SUBSET HostexStays, StartInbox(stays)
    PROVE  TypeOK'
<1>1. op' \in [Workers -> OpType]
  BY BeginSyncTyped DEF StartInbox, Workers
<1>2. budget' \in [Disturbances -> Nat]
  BY SpendTyped DEF StartInbox, Disturbances
<1>. QED
  BY <1>1, <1>2 DEF StartInbox, TypeOK

LEMMA ReadStayTyped ==
    ASSUME TypeOK, NEW w \in Workers, NEW s \in HostexStays, ReadStay(w, s)
    PROVE  TypeOK'
<1>. DEFINE h == hostex[s]
            o == [op[w] EXCEPT !.todo = @ \ {s}]
            i == [stay |-> s, status |-> h.status, nights |-> h.nights, ver |-> h.ver]
<1>1. op[w] \in OpType /\ h \in HostexStay
  BY DEF TypeOK
<1>2. o \in OpType
  BY <1>1 DEF OpType
<1>3. CASE h.status = "absent"
  <2>1. op' \in [Workers -> OpType]
    BY <1>2, <1>3, ContinueTyped DEF ReadStay
  <2>. QED
    BY <2>1 DEF ReadStay, TypeOK
<1>4. CASE h.status # "absent"
  <2>1. i \in Reading
    BY <1>1, <1>4 DEF HostexStay, Reading
  <2>2. [o EXCEPT !.seen = @ \cup {i}] \in OpType
    BY <1>2, <2>1 DEF OpType
  <2>3. op' \in [Workers -> OpType]
    BY <1>4, <2>2, ContinueTyped DEF ReadStay
  <2>. QED
    BY <2>3 DEF ReadStay, TypeOK
<1>. QED
  BY <1>3, <1>4

LEMMA ReadingEndsTyped ==
    ASSUME TypeOK, NEW w \in Workers, ReadingEnds(w)
    PROVE  TypeOK'
<1>0. op[w] \in OpType
  BY DEF TypeOK
<1>1. [op[w] EXCEPT !.pc = "begin"] \in OpType
  BY <1>0 DEF OpType
<1>2. op' \in [Workers -> OpType]
  <2>1. CASE BeginSync(w, HostexStays)
    BY <2>1, BeginSyncTyped
  <2>2. CASE End(w, "failed")
    BY <2>2, EndTyped
  <2>3. CASE Continue(w, [op[w] EXCEPT !.pc = "begin"])
    BY <1>1, <2>3, ContinueTyped
  <2>. QED
    BY <2>1, <2>2, <2>3 DEF ReadingEnds
<1>. QED
  BY <1>2 DEF ReadingEnds, TypeOK

LEMMA BeginTransactionTyped ==
    ASSUME TypeOK, NEW w \in Workers, BeginTransaction(w)
    PROVE  TypeOK'
<1>0. op[w] \in OpType
  BY DEF TypeOK
<1>1. [op[w] EXCEPT !.pc = "plan"] \in OpType
  BY <1>0 DEF OpType
<1>2. op' \in [Workers -> OpType]
  BY <1>1, ContinueTyped DEF BeginTransaction
<1>. QED
  BY <1>2 DEF BeginTransaction, TypeOK

LEMMA TargetTyped ==
    ASSUME TypeOK, NEW w \in Workers, NEW i \in Reading
    PROVE  Target(w, i) \in Rows \cup {NoRow}
<1>. DEFINE M == LegacyMatches(View(w), i.nights)
<1>1. i.stay \in HostexStays
  BY DEF Reading
<1>2. M \subseteq Rows
  BY DEF LegacyMatches
<1>3. \E r \in M \cup {NoRow} : M # {} => r # NoRow
  BY <1>2, NullsAreOutside
<1>4. (CHOOSE r \in M \cup {NoRow} : M # {} => r # NoRow) \in M \cup {NoRow}
  BY <1>3
<1>5. CASE ViewedRef(w, i.stay) # NoRow
  BY <1>1, <1>5, ViewTyped DEF Target
<1>6. CASE ViewedRef(w, i.stay) = NoRow
  BY <1>2, <1>4, <1>6 DEF Target
<1>. QED
  BY <1>5, <1>6

LEMMA NotesTyped ==
    ASSUME NEW i \in Reading
    PROVE  UnknownNote(i) \subseteq ReviewItem /\ ConflictNote(i) \subseteq ReviewItem
BY DEF Reading, UnknownNote, ConflictNote, ReviewItem

LEMMA PlanTyped ==
    ASSUME TypeOK, NEW w \in Workers, NEW i \in op[w].seen, Plan(w, i)
    PROVE  TypeOK'
<1>. DEFINE o == [op[w] EXCEPT !.seen = @ \ {i}]
            known == ViewedRef(w, i.stay) # NoRow
            added == ConflictNote(i) \cup (IF known THEN UnknownNote(i) ELSE {})
<1>1. op[w] \in OpType
  BY DEF TypeOK
<1>2. i \in Reading
  BY <1>1 DEF OpType
<1>3. o \in OpType
  BY <1>1 DEF OpType
<1>4. added \subseteq ReviewItem
  BY <1>2, NotesTyped
<1>5. [o EXCEPT !.notes = @ \cup added, !.handled = @ \cup {i}] \in OpType
  BY <1>2, <1>3, <1>4 DEF OpType
<1>6. [o EXCEPT !.pc = "upsert", !.item = {i}, !.target = Target(w, i)] \in OpType
  BY <1>2, <1>3, TargetTyped DEF OpType
<1>7. op' \in [Workers -> OpType]
  BY <1>5, <1>6, ContinueTyped DEF Plan
<1>. QED
  BY <1>7 DEF Plan, TypeOK

LEMMA UpsertTyped ==
    ASSUME TypeOK, NEW w \in Workers, Upsert(w)
    PROVE  TypeOK'
<1>. DEFINE Applied(i, r) ==
              [op[w] EXCEPT
                 !.pc = "plan", !.item = {}, !.target = NoRow,
                 !.written[r] = [origin |-> "hostex", status |-> ToReservationStatus(i.status),
                                 nights |-> i.nights, ver |-> i.ver],
                 !.links[i.stay] = r,
                 !.notes = @ \cup UnknownNote(i),
                 !.handled = @ \cup {i}]
<1>1. op[w] \in OpType
  BY DEF TypeOK
<1>2. PICK i \in op[w].item, r \in Rows : Continue(w, Applied(i, r))
  BY DEF Upsert
<1>3. i \in Reading
  BY <1>1 DEF OpType
<1>4. [origin |-> "hostex", status |-> ToReservationStatus(i.status),
       nights |-> i.nights, ver |-> i.ver] \in RowType
  BY <1>3, StatusTyped DEF Reading, RowType
<1>5. UnknownNote(i) \subseteq ReviewItem
  BY <1>3, NotesTyped
<1>6. i.stay \in HostexStays
  BY <1>3 DEF Reading
<1>. HIDE DEF RowType, Reading, ReviewItem
<1>7. Applied(i, r) \in OpType
  BY <1>1, <1>3, <1>4, <1>5, <1>6 DEF OpType
<1>8. op' \in [Workers -> OpType]
  BY <1>2, <1>7, ContinueTyped
<1>. QED
  BY <1>8 DEF Upsert, TypeOK

LEMMA CommitTyped ==
    ASSUME TypeOK, NEW w \in Workers, Commit(w)
    PROVE  TypeOK'
<1>1. op[w] \in OpType
  BY DEF TypeOK
<1>2. rows' \in [Rows -> RowType]
  BY ViewTyped DEF Commit
<1>3. ref' \in [HostexStays -> Rows \cup {NoRow}]
  BY ViewTyped DEF Commit
<1>4. review' \subseteq ReviewItem
  BY <1>1 DEF Commit, OpType, TypeOK
<1>5. (IF w = Inbox THEN op[w].handled ELSE {}) \in SUBSET Reading
  BY <1>1 DEF OpType
<1>6. Outcome(w) \in {"none", "done", "failed"}
  BY DEF Outcome
<1>7. [IdleOp EXCEPT !.result = Outcome(w),
                     !.handled = IF w = Inbox THEN op[w].handled ELSE {}] \in OpType
  BY <1>5, <1>6, IdleOpTyped DEF OpType
<1>8. op' \in [Workers -> OpType]
  BY <1>7, ContinueTyped DEF Commit
<1>. QED
  BY <1>2, <1>3, <1>4, <1>8 DEF Commit, TypeOK

LEMMA SyncFailsTyped ==
    ASSUME TypeOK, NEW w \in Workers, SyncFails(w)
    PROVE  TypeOK'
<1>1. op' \in [Workers -> OpType]
  BY EndTyped DEF SyncFails
<1>2. budget' \in [Disturbances -> Nat]
  BY SpendTyped DEF SyncFails, Disturbances
<1>. QED
  BY <1>1, <1>2 DEF SyncFails, TypeOK

-----------------------------------------------------------------------------
(* Administrators *)

LEMMA CreateTyped ==
    ASSUME TypeOK, NEW w \in Workers, NEW nights \in Nights, Create(w, nights)
    PROVE  TypeOK'
<1>. DEFINE change == [NoBooking EXCEPT !.nights = nights]
            o == [IdleOp EXCEPT !.pc = "book", !.kind = "create", !.change = change]
<1>1. change \in RowType
  BY IdleOpTyped DEF RowType
<1>2. Continue(w, o)
  BY DEF Create, IdleOp
<1>. HIDE DEF change
<1>3. o \in OpType
  BY <1>1, IdleOpTyped DEF OpType
<1>. HIDE DEF o
<1>4. op' \in [Workers -> OpType]
  BY <1>2, <1>3, ContinueTyped
<1>5. budget' \in [Disturbances -> Nat]
  BY SpendTyped DEF Create, Disturbances
<1>. QED
  BY <1>4, <1>5 DEF Create, TypeOK

LEMMA BookDirectTyped ==
    ASSUME TypeOK, NEW w \in Admins, NEW s \in HostexStays, BookDirect(w, s)
    PROVE  TypeOK'
<1>. DEFINE o == [IdleOp EXCEPT !.pc = "read", !.kind = "create", !.todo = {s}]
<1>1. w \in Workers /\ op[w].change.nights \in Nights
  BY DEF TypeOK, OpType, RowType, Workers
<1>2. [status |-> "accepted", nights |-> op[w].change.nights, direct |-> TRUE, ver |-> 1]
          \in HostexStay
  BY <1>1, RequestsAreRequests DEF HostexStay
<1>3. hostex' \in [HostexStays -> HostexStay]
  BY <1>2 DEF BookDirect, TypeOK
<1>4. o \in OpType
  BY IdleOpTyped DEF OpType
<1>5. Continue(w, o) \/ End(w, "failed")
  BY DEF BookDirect
<1>. HIDE DEF o
<1>6. op' \in [Workers -> OpType]
  BY <1>1, <1>4, <1>5, EndTyped, ContinueTyped
<1>. QED
  BY <1>3, <1>6 DEF BookDirect, TypeOK

LEMMA StartUpdateTyped ==
    ASSUME TypeOK, NEW w \in Workers, NEW r \in Rows, NEW change \in Requested(r),
           StartUpdate(w, r, change)
    PROVE  TypeOK'
<1>1. rows[r] \in RowType
  BY DEF TypeOK
<1>2. change \in RowType
  <2>1. \A wish \in {"confirmed", "cancelled", rows[r].status} \X Nights :
           [rows[r] EXCEPT !.status = wish[1], !.nights = wish[2]] \in RowType
    BY <1>1 DEF RowType, RowStatuses
  <2>. QED
    BY <2>1 DEF Requested
<1>. HIDE DEF RowType
<1>3. [IdleOp EXCEPT !.pc = "check", !.kind = "update", !.target = r,
                     !.change = change] \in OpType
  BY <1>2, IdleOpTyped DEF OpType
<1>4. op' \in [Workers -> OpType]
  BY <1>3, ContinueTyped DEF StartUpdate
<1>5. budget' \in [Disturbances -> Nat]
  BY SpendTyped DEF StartUpdate, Disturbances
<1>. QED
  BY <1>4, <1>5 DEF StartUpdate, TypeOK

LEMMA CheckTyped ==
    ASSUME TypeOK, NEW w \in Workers, Check(w)
    PROVE  TypeOK'
<1>. DEFINE next == IF op[w].change.origin = "hostex" THEN "call" ELSE "save"
<1>1. op[w] \in OpType
  BY DEF TypeOK
<1>2. [op[w] EXCEPT !.pc = next] \in OpType
  BY <1>1 DEF OpType
<1>3. op' \in [Workers -> OpType]
  BY <1>2, EndTyped, ContinueTyped DEF Check
<1>. QED
  BY <1>3 DEF Check, TypeOK

LEMMA StartCancelTyped ==
    ASSUME TypeOK, NEW w \in Workers, NEW r \in Rows, StartCancel(w, r)
    PROVE  TypeOK'
<1>. DEFINE next == IF rows[r].origin = "hostex" THEN "call" ELSE "save"
            change == [rows[r] EXCEPT !.status = "cancelled"]
<1>1. rows[r] \in RowType
  BY DEF TypeOK
<1>2. change \in RowType
  BY <1>1 DEF RowType, RowStatuses
<1>. HIDE DEF change
<1>3. [IdleOp EXCEPT !.pc = next, !.kind = "cancel", !.target = r, !.change = change] \in OpType
  BY <1>2, IdleOpTyped DEF OpType
<1>4. op' \in [Workers -> OpType]
  BY <1>3, ContinueTyped DEF StartCancel, change
<1>5. budget' \in [Disturbances -> Nat]
  BY SpendTyped DEF StartCancel, Disturbances
<1>. QED
  BY <1>4, <1>5 DEF StartCancel, TypeOK

LEMMA ReviseTyped ==
    ASSUME NEW h \in HostexStay
    PROVE  /\ \A status \in HostexStatuses :
                 [h EXCEPT !.status = status, !.ver = @ + 1] \in HostexStay
           /\ \A nights \in Nights :
                 [h EXCEPT !.nights = nights, !.ver = @ + 1] \in HostexStay
           /\ \A status \in HostexStatuses, nights \in Nights :
                 [h EXCEPT !.status = status, !.nights = nights, !.ver = @ + 1] \in HostexStay
<1>1. h.ver + 1 \in Nat
  BY DEF HostexStay
<1>. QED
  BY <1>1 DEF HostexStay

LEMMA CallHostexTyped ==
    ASSUME TypeOK, NEW w \in Admins, NEW s \in HostexStays, CallHostex(w, s)
    PROVE  TypeOK'
<1>. DEFINE cancels == op[w].change.status = "cancelled" /\ rows[ref[s]].status # "cancelled"
            changed == IF cancels
                       THEN [hostex[s] EXCEPT !.status = "cancelled", !.ver = @ + 1]
                       ELSE [hostex[s] EXCEPT !.nights = op[w].change.nights, !.ver = @ + 1]
<1>1. op[w] \in OpType /\ hostex[s] \in HostexStay /\ w \in Workers
  BY DEF TypeOK, Workers
<1>2. op[w].change \in RowType
  BY <1>1 DEF OpType
<1>3. changed \in HostexStay
  <2>1. "cancelled" \in HostexStatuses /\ op[w].change.nights \in Nights
    BY <1>2, RequestsAreRequests DEF RowType
  <2>. QED
    BY <1>1, <2>1, ReviseTyped
<1>4. changed.ver \in Nat
  BY <1>3 DEF HostexStay
<1>5. [op[w].change EXCEPT !.ver = changed.ver] \in RowType
  BY <1>2, <1>4 DEF RowType
<1>. HIDE DEF changed
<1>6. [op[w] EXCEPT !.pc = "save", !.change.ver = changed.ver] \in OpType
  BY <1>1, <1>5 DEF OpType
<1>7. hostex' \in [HostexStays -> HostexStay]
  BY <1>3 DEF CallHostex, TypeOK, changed
<1>8. op' \in [Workers -> OpType]
  BY <1>1, <1>6, EndTyped, ContinueTyped DEF CallHostex, changed
<1>9. budget' \in [Disturbances -> Nat]
  BY SpendTyped DEF CallHostex, Disturbances, TypeOK
<1>. QED
  BY <1>7, <1>8, <1>9 DEF CallHostex, TypeOK

LEMMA SaveTyped ==
    ASSUME TypeOK, NEW w \in Workers, Save(w)
    PROVE  TypeOK'
<1>1. op[w].change \in RowType
  BY DEF TypeOK, OpType
<1>2. rows' \in [Rows -> RowType]
  BY <1>1 DEF Save, TypeOK
<1>3. op' \in [Workers -> OpType]
  BY EndTyped DEF Save
<1>. QED
  BY <1>2, <1>3 DEF Save, TypeOK

-----------------------------------------------------------------------------
(* Hostex's side, and restarts *)

LEMMA HostexChangesTyped ==
    ASSUME TypeOK, HostexChanges
    PROVE  TypeOK'
<1>1. PICK s \in HostexStays, status \in HostexStatuses, nights \in Nights :
         \/ \E direct \in Directness : Book(s, status, nights, direct)
         \/ Change(s, status, nights)
  BY DEF HostexChanges
<1>2. ASSUME NEW direct \in Directness, Book(s, status, nights, direct)
      PROVE  TypeOK'
  <2>1. [status |-> status, nights |-> nights, direct |-> direct, ver |-> 1] \in HostexStay
    BY RequestsAreRequests DEF HostexStay
  <2>2. hostex' \in [HostexStays -> HostexStay]
    BY <1>2, <2>1 DEF Book, TypeOK
  <2>3. budget' \in [Disturbances -> Nat]
    BY <1>2, SpendTyped DEF Book, Disturbances
  <2>. QED
    BY <1>2, <2>2, <2>3 DEF Book, TypeOK
<1>3. CASE Change(s, status, nights)
  <2>1. hostex[s] \in HostexStay
    BY DEF TypeOK
  <2>2. [hostex[s] EXCEPT !.status = status, !.nights = nights, !.ver = @ + 1] \in HostexStay
    BY <2>1, ReviseTyped
  <2>3. hostex' \in [HostexStays -> HostexStay]
    BY <1>3, <2>2 DEF Change, TypeOK
  <2>4. budget' \in [Disturbances -> Nat]
    BY <1>3, SpendTyped DEF Change, Disturbances
  <2>. QED
    BY <1>3, <2>3, <2>4 DEF Change, TypeOK
<1>. QED
  BY <1>1, <1>2, <1>3

LEMMA CrashTyped ==
    ASSUME TypeOK, Crash
    PROVE  TypeOK'
<1>1. op' \in [Workers -> OpType]
  BY IdleOpTyped DEF Crash
<1>2. budget' \in [Disturbances -> Nat]
  BY SpendTyped DEF Crash, Disturbances
<1>. QED
  BY <1>1, <1>2 DEF Crash, TypeOK

-----------------------------------------------------------------------------
(* The theorem *)

LEMMA InitTyped == Init => TypeOK
<1>. SUFFICES ASSUME Init
              PROVE  TypeOK
  OBVIOUS
<1>1. PICK b \in Beginnings :
         /\ hostex = b.hostex /\ rows = b.rows /\ ref = b.ref
         /\ budget = b.budget /\ syncEnabled = b.sync
  BY DEF Init
<1>2. b \in [hostex : [HostexStays -> HostexStay], rows : [Rows -> RowType],
             ref : [HostexStays -> Rows \cup {NoRow}],
             sync : BOOLEAN, budget : [Disturbances -> Nat]]
  BY BeginningsAreTyped
<1>3. op \in [Workers -> OpType] /\ review = {}
  BY IdleOpTyped DEF Init
<1>. QED
  BY <1>1, <1>2, <1>3 DEF TypeOK

LEMMA SyncStepTyped ==
    ASSUME TypeOK, NEW w \in Workers, SyncStep(w)
    PROVE  TypeOK'
BY ReadStayTyped, ReadingEndsTyped, BeginTransactionTyped, PlanTyped, UpsertTyped,
   CommitTyped DEF SyncStep

LEMMA AdminStepTyped ==
    ASSUME TypeOK, NEW w \in Admins, AdminStep(w) \/ Requests(w)
    PROVE  TypeOK'
BY CheckTyped, CallHostexTyped, SaveTyped, CreateTyped, BookDirectTyped, StartUpdateTyped,
   StartCancelTyped DEF AdminStep, Requests, Workers

LEMMA NextTyped ==
    ASSUME TypeOK, [Next]_vars
    PROVE  TypeOK'
<1>1. CASE StartTimer
  BY <1>1, StartTimerTyped
<1>2. ASSUME NEW stays \in SUBSET HostexStays, StartInbox(stays)
      PROVE  TypeOK'
  BY <1>2, StartInboxTyped
<1>3. ASSUME NEW w \in Workers, SyncStep(w) \/ SyncFails(w)
      PROVE  TypeOK'
  BY <1>3, SyncStepTyped, SyncFailsTyped
<1>4. ASSUME NEW w \in Admins, AdminStep(w) \/ Requests(w)
      PROVE  TypeOK'
  BY <1>4, AdminStepTyped
<1>5. CASE HostexChanges
  BY <1>5, HostexChangesTyped
<1>6. CASE Crash
  BY <1>6, CrashTyped
<1>7. CASE UNCHANGED vars
  BY <1>7 DEF vars, TypeOK
<1>. QED
  BY <1>1, <1>2, <1>3, <1>4, <1>5, <1>6, <1>7 DEF Next

(* Every variable keeps its type: no interleaving of imports, requests,    *)
(* lost answers and restarts writes a booking whose nights are not a range *)
(* or a reference to a row that does not exist (upsertReservation, update).*)
THEOREM SyncTypeCorrect == Spec => []TypeOK
BY InitTyped, NextTyped, PTL DEF Spec

-----------------------------------------------------------------------------
(* One row for each stay: the invariant *)

(* The table t and the references l fit each other (OneRowPerStay).        *)
Linked(t, l) ==
    /\ \A s \in HostexStays : l[s] # NoRow => t[l[s]].origin = "hostex"
    /\ \A s, u \in HostexStays : l[s] = l[u] /\ l[s] # NoRow => s = u
    /\ \A r \in Rows : t[r].origin = "hostex" => \E s \in HostexStays : l[s] = r

Links(w) == [s \in HostexStays |-> ViewedRef(w, s)]

OneTransaction ==
    \A v, w \in Workers : InTransaction(v) /\ InTransaction(w) => v = w

NothingWritten(o) ==
    /\ o.written = [r \in Rows |-> Unwritten]
    /\ o.links = [s \in HostexStays |-> NoRow]

WritesAreTransactions ==
    \A w \in Workers : ~InTransaction(w) => NothingWritten(op[w])

(* A request that holds a row changes a booking and keeps its origin.      *)
Holds(o) == o.pc \in {"check", "call", "save"}

KeepsOrigin(o) ==
    /\ o.kind \in {"update", "cancel"}
    /\ o.target \in Rows
    /\ o.change.origin = rows[o.target].origin
    /\ o.change.origin \in {"manual", "hostex"}
    /\ \A v \in Workers : op[v].written[o.target] = Unwritten

HeldRowsKeepOrigin == \A w \in Workers : Holds(op[w]) => KeepsOrigin(op[w])

(* The planned row is the stay's own, an iCal block, or to be inserted.    *)
Fits(w, i) ==
    IF ViewedRef(w, i.stay) # NoRow
    THEN op[w].target = ViewedRef(w, i.stay)
    ELSE op[w].target # NoRow => View(w)[op[w].target].origin = "booking_ical"

TargetsFit ==
    \A w \in Workers : op[w].pc = "upsert" => \A i \in op[w].item : Fits(w, i)

ViewsAreLinked == \A w \in Workers : InTransaction(w) => Linked(View(w), Links(w))

Structure ==
    /\ OneTransaction
    /\ WritesAreTransactions
    /\ HeldRowsKeepOrigin
    /\ TargetsFit
    /\ Linked(rows, ref)
    /\ ViewsAreLinked

-----------------------------------------------------------------------------
(* Lemmas about tables and references *)

LEMMA LinkedByOrigin ==
    ASSUME NEW t, NEW u, NEW l \in [HostexStays -> Rows \cup {NoRow}], Linked(t, l),
           \A r \in Rows : t[r].origin = u[r].origin
    PROVE  Linked(u, l)
BY DEF Linked

LEMMA LinkedExtends ==
    ASSUME NEW t \in [Rows -> RowType], NEW l \in [HostexStays -> Rows \cup {NoRow}],
           Linked(t, l), NEW s \in HostexStays, NEW r \in Rows, NEW b \in RowType,
           b.origin = "hostex",
           l[s] = r \/ (l[s] = NoRow /\ t[r].origin # "hostex")
    PROVE  Linked([t EXCEPT ![r] = b], [l EXCEPT ![s] = r])
<1>. DEFINE t2 == [t EXCEPT ![r] = b]
            l2 == [l EXCEPT ![s] = r]
<1>1. r # NoRow
  BY NullsAreOutside
<1>2. \A u \in HostexStays : u # s => l[u] # r
  BY <1>1 DEF Linked
<1>3. \A u \in HostexStays : l2[u] # NoRow => t2[l2[u]].origin = "hostex"
  BY DEF Linked
<1>4. \A u, v \in HostexStays : l2[u] = l2[v] /\ l2[u] # NoRow => u = v
  BY <1>2 DEF Linked
<1>5. ASSUME NEW q \in Rows, t2[q].origin = "hostex"
      PROVE  \E u \in HostexStays : l2[u] = q
  <2>1. CASE q = r
    BY <2>1
  <2>2. CASE q # r
    <3>1. PICK u \in HostexStays : l[u] = q
      BY <1>5, <2>2 DEF Linked
    <3>2. u # s
      BY <1>1, <2>2, <3>1, NullsAreOutside
    <3>. QED
      BY <3>1, <3>2
  <2>. QED
    BY <2>1, <2>2
<1>. QED
  BY <1>3, <1>4, <1>5 DEF Linked

(* What the fields of an operation are *)
LEMMA OpFields ==
    ASSUME TypeOK, NEW w \in Workers
    PROVE  /\ op[w] \in OpType
           /\ op[w].written \in [Rows -> RowType \cup {Unwritten}]
           /\ op[w].links \in [HostexStays -> Rows \cup {NoRow}]
           /\ op[w].item \subseteq Reading
           /\ op[w].seen \subseteq Reading
           /\ op[w].change \in RowType
           /\ op[w].target \in Rows \cup {NoRow}
           /\ Links(w) \in [HostexStays -> Rows \cup {NoRow}]
           /\ View(w) \in [Rows -> RowType]
<1>1. op[w] \in OpType
  BY DEF TypeOK
<1>. QED
  BY <1>1, ViewTyped DEF OpType, Links

LEMMA IdleWritesNothing ==
    NothingWritten(IdleOp) /\ IdleOp.pc = "idle"
BY DEF NothingWritten, IdleOp

(* A step of w that ends outside a transaction and leaves the table alone  *)
LEMMA OwnStep ==
    ASSUME TypeOK, Structure, NEW w \in Workers, NEW o,
           Continue(w, o), UNCHANGED <<rows, ref>>,
           o.pc \notin {"plan", "upsert"}, NothingWritten(o),
           Holds(o) => KeepsOrigin(o)
    PROVE  Structure'
<1>1. /\ op'[w] = o
      /\ \A v \in Workers : v # w => op'[v] = op[v]
  BY DEF Continue, TypeOK
<1>2. /\ ~InTransaction(w)'
      /\ \A v \in Workers : InTransaction(v)' => v # w /\ InTransaction(v)
  BY <1>1 DEF InTransaction
<1>3. OneTransaction'
  BY <1>2 DEF OneTransaction, Structure
<1>4. WritesAreTransactions'
  BY <1>1, <1>2 DEF WritesAreTransactions, Structure, InTransaction, NothingWritten
<1>5. \A v \in Workers : v # w => View(v)' = View(v) /\ Links(v)' = Links(v)
  BY <1>1 DEF View, Links, ViewedRef
<1>6. HeldRowsKeepOrigin'
  <2>. SUFFICES ASSUME NEW v \in Workers, Holds(op'[v])
                PROVE  KeepsOrigin(op[v])'
    BY DEF HeldRowsKeepOrigin, Holds
  <2>1. KeepsOrigin(op'[v])
    BY <1>1 DEF Structure, HeldRowsKeepOrigin, Holds
  <2>2. \A u \in Workers : op'[u].written[op'[v].target] = Unwritten
    <3>1. \A u \in Workers : op[u].written[op'[v].target] = Unwritten
      BY <2>1 DEF KeepsOrigin
    <3>2. o.written[op'[v].target] = Unwritten
      BY <2>1 DEF KeepsOrigin, NothingWritten
    <3>. QED
      BY <1>1, <3>1, <3>2
  <2>. QED
    BY <2>1, <2>2 DEF KeepsOrigin
<1>7. TargetsFit'
  BY <1>1, <1>5 DEF TargetsFit, Fits, Structure, View, Links, ViewedRef
<1>8. ViewsAreLinked'
  BY <1>2, <1>5 DEF ViewsAreLinked, Structure, Linked
<1>9. Linked(rows, ref)'
  BY DEF Structure, Linked
<1>. QED
  BY <1>3, <1>4, <1>6, <1>7, <1>8, <1>9 DEF Structure

LEMMA OpUnchanged ==
    ASSUME Structure, UNCHANGED <<op, rows, ref>>
    PROVE  Structure'
<1>1. OneTransaction' /\ WritesAreTransactions'
  BY DEF Structure, OneTransaction, WritesAreTransactions, InTransaction, NothingWritten
<1>2. HeldRowsKeepOrigin'
  BY DEF Structure, HeldRowsKeepOrigin, Holds, KeepsOrigin
<1>3. TargetsFit'
  BY DEF Structure, TargetsFit, Fits, View, ViewedRef
<1>4. Linked(rows, ref)'
  BY DEF Structure, Linked
<1>5. ViewsAreLinked'
  <2>1. \A w \in Workers : View(w)' = View(w) /\ Links(w)' = Links(w)
    BY DEF View, Links, ViewedRef
  <2>. QED
    BY <2>1 DEF Structure, ViewsAreLinked, InTransaction, Linked
<1>. QED
  BY <1>1, <1>2, <1>3, <1>4, <1>5 DEF Structure

LEMMA EndStep ==
    ASSUME TypeOK, Structure, NEW w \in Workers, NEW result,
           End(w, result), UNCHANGED <<rows, ref>>
    PROVE  Structure'
<1>. DEFINE o == [IdleOp EXCEPT !.result = result]
<1>1. o.pc = "idle" /\ NothingWritten(o)
  BY DEF IdleOp, NothingWritten
<1>2. Continue(w, o)
  BY DEF End
<1>. HIDE DEF o
<1>. QED
  BY <1>1, <1>2, OwnStep DEF Holds

(* A worker that is in no transaction has written nothing.                 *)
LEMMA OutsideWritesNothing ==
    ASSUME TypeOK, Structure, NEW w \in Workers, op[w].pc \notin {"plan", "upsert"}
    PROVE  NothingWritten(op[w])
BY DEF Structure, WritesAreTransactions, InTransaction

-----------------------------------------------------------------------------
(* One row for each stay: synchronisation *)

LEMMA BeginSyncLinked ==
    ASSUME TypeOK, Structure, NEW w \in Workers, NEW stays, BeginSync(w, stays),
           UNCHANGED <<rows, ref>>
    PROVE  Structure'
<1>. DEFINE o == [IdleOp EXCEPT !.pc = "read", !.kind = "sync", !.todo = stays,
                               !.whole = (stays = HostexStays)]
<1>1. o.pc = "read" /\ NothingWritten(o)
  BY DEF IdleOp, NothingWritten
<1>2. Continue(w, o)
  BY DEF BeginSync
<1>. HIDE DEF o
<1>. QED
  BY <1>1, <1>2, OwnStep DEF Holds

LEMMA ReadStayLinked ==
    ASSUME TypeOK, Structure, NEW w \in Workers, NEW s \in HostexStays, ReadStay(w, s)
    PROVE  Structure'
<1>1. op[w] \in OpType /\ op[w].pc = "read" /\ UNCHANGED <<rows, ref>>
  BY OpFields DEF ReadStay
<1>2. PICK todo, seen : Continue(w, [op[w] EXCEPT !.todo = todo, !.seen = seen])
  <2>. DEFINE i == [stay |-> s, status |-> hostex[s].status, nights |-> hostex[s].nights,
                    ver |-> hostex[s].ver]
  <2>1. CASE hostex[s].status = "absent"
    <3>1. [op[w] EXCEPT !.todo = @ \ {s}]
             = [op[w] EXCEPT !.todo = op[w].todo \ {s}, !.seen = op[w].seen]
      BY <1>1 DEF OpType
    <3>. QED
      BY <2>1, <3>1 DEF ReadStay
  <2>2. CASE hostex[s].status # "absent"
    <3>1. [[op[w] EXCEPT !.todo = @ \ {s}] EXCEPT !.seen = @ \cup {i}]
             = [op[w] EXCEPT !.todo = op[w].todo \ {s}, !.seen = op[w].seen \cup {i}]
      BY <1>1 DEF OpType
    <3>. QED
      BY <2>2, <3>1 DEF ReadStay
  <2>. QED
    BY <2>1, <2>2
<1>. DEFINE o == [op[w] EXCEPT !.todo = todo, !.seen = seen]
<1>3. o.pc = "read" /\ o.written = op[w].written /\ o.links = op[w].links
  BY <1>1 DEF OpType
<1>4. NothingWritten(o)
  BY <1>1, <1>3, OutsideWritesNothing DEF NothingWritten
<1>. HIDE DEF o
<1>. QED
  BY <1>1, <1>2, <1>3, <1>4, OwnStep DEF Holds, o

LEMMA ReadingEndsLinked ==
    ASSUME TypeOK, Structure, NEW w \in Workers, ReadingEnds(w)
    PROVE  Structure'
<1>1. op[w] \in OpType /\ op[w].pc = "read" /\ UNCHANGED <<rows, ref>>
  BY OpFields DEF ReadingEnds
<1>2. CASE BeginSync(w, HostexStays)
  BY <1>1, <1>2, BeginSyncLinked
<1>3. CASE End(w, "failed")
  BY <1>1, <1>3, EndStep
<1>4. CASE Continue(w, [op[w] EXCEPT !.pc = "begin"])
  <2>. DEFINE o == [op[w] EXCEPT !.pc = "begin"]
  <2>1. o.pc = "begin" /\ o.written = op[w].written /\ o.links = op[w].links
    BY <1>1 DEF OpType
  <2>2. NothingWritten(o)
    BY <1>1, <2>1, OutsideWritesNothing DEF NothingWritten
  <2>. HIDE DEF o
  <2>. QED
    BY <1>1, <1>4, <2>1, <2>2, OwnStep DEF Holds, o
<1>. QED
  BY <1>2, <1>3, <1>4 DEF ReadingEnds

(* A step of the only transaction: what the others do and hold is as before. *)
LEMMA OthersStay ==
    ASSUME TypeOK, Structure, NEW w \in Workers, NEW o, Continue(w, o),
           UNCHANGED rows, o.pc \in {"plan", "upsert"},
           \A v \in Workers : InTransaction(v) => v = w,
           \A r \in Rows :
               o.written[r] # op[w].written[r]
                   => \A v \in Workers : Holds(op[v]) => op[v].target # r
    PROVE  OneTransaction' /\ WritesAreTransactions' /\ HeldRowsKeepOrigin'
<1>1. /\ op'[w] = o
      /\ \A v \in Workers : v # w => op'[v] = op[v]
  BY DEF Continue, TypeOK
<1>2. \A v \in Workers : InTransaction(v)' => v = w
  BY <1>1 DEF InTransaction
<1>3. OneTransaction'
  BY <1>2 DEF OneTransaction
<1>4. WritesAreTransactions'
  BY <1>1 DEF WritesAreTransactions, Structure, InTransaction, NothingWritten
<1>5. HeldRowsKeepOrigin'
  <2>. SUFFICES ASSUME NEW v \in Workers, Holds(op'[v])
                PROVE  KeepsOrigin(op[v])'
    BY DEF HeldRowsKeepOrigin, Holds
  <2>1. v # w /\ op'[v] = op[v]
    BY <1>1 DEF Holds
  <2>2. KeepsOrigin(op[v]) /\ Holds(op[v])
    BY <2>1 DEF Structure, HeldRowsKeepOrigin, Holds
  <2>3. op[v].target \in Rows /\ op[w].written[op[v].target] = Unwritten
    BY <2>2 DEF KeepsOrigin
  <2>4. o.written[op[v].target] = Unwritten
    BY <2>2, <2>3
  <2>5. \A u \in Workers : op'[u].written[op[v].target] = Unwritten
    BY <1>1, <2>2, <2>4 DEF KeepsOrigin
  <2>. QED
    BY <2>1, <2>2, <2>5 DEF KeepsOrigin
<1>. QED
  BY <1>3, <1>4, <1>5

LEMMA BeginTransactionLinked ==
    ASSUME TypeOK, Structure, NEW w \in Workers, BeginTransaction(w)
    PROVE  Structure'
<1>. DEFINE o == [op[w] EXCEPT !.pc = "plan"]
<1>1. op[w] \in OpType /\ op[w].pc = "begin" /\ Continue(w, o) /\ UNCHANGED <<rows, ref>>
  BY OpFields DEF BeginTransaction
<1>2. o.pc = "plan" /\ o.written = op[w].written /\ o.links = op[w].links
  BY <1>1 DEF OpType
<1>3. NothingWritten(op[w])
  BY <1>1, OutsideWritesNothing
<1>4. \A v \in Workers : ~InTransaction(v)
  BY DEF BeginTransaction, SyncLockFree
<1>. HIDE DEF o
<1>5. OneTransaction' /\ WritesAreTransactions' /\ HeldRowsKeepOrigin'
  BY <1>1, <1>2, <1>4, OthersStay
<1>6. /\ op'[w] = o
      /\ \A v \in Workers : v # w => op'[v] = op[v]
  BY <1>1 DEF Continue, TypeOK
<1>7. View(w)' = rows /\ Links(w)' = ref
  BY <1>1, <1>2, <1>3, <1>6 DEF NothingWritten, View, Links, ViewedRef, TypeOK
<1>8. ViewsAreLinked'
  BY <1>1, <1>4, <1>6, <1>7 DEF ViewsAreLinked, InTransaction, Structure, Linked
<1>9. TargetsFit'
  BY <1>2, <1>4, <1>6 DEF TargetsFit, InTransaction
<1>. QED
  BY <1>1, <1>5, <1>8, <1>9 DEF Structure, Linked

LEMMA PlanLinked ==
    ASSUME TypeOK, Structure, NEW w \in Workers, NEW i \in op[w].seen, Plan(w, i)
    PROVE  Structure'
<1>1. op[w] \in OpType /\ op[w].pc = "plan" /\ i \in Reading /\ UNCHANGED <<rows, ref>>
  BY OpFields DEF Plan
<1>2. \A v \in Workers : InTransaction(v) => v = w
  BY <1>1 DEF Structure, OneTransaction, InTransaction
<1>3. PICK o : /\ Continue(w, o) /\ o.pc \in {"plan", "upsert"}
               /\ o.written = op[w].written /\ o.links = op[w].links
               /\ o.pc = "upsert" => o.item = {i} /\ o.target = Target(w, i)
  <2>. DEFINE notes == op[w].notes \cup ConflictNote(i)
                       \cup (IF ViewedRef(w, i.stay) # NoRow THEN UnknownNote(i) ELSE {})
              reported == [[op[w] EXCEPT !.seen = @ \ {i}] EXCEPT
                    !.notes = @ \cup ConflictNote(i)
                              \cup (IF ViewedRef(w, i.stay) # NoRow THEN UnknownNote(i) ELSE {}),
                    !.handled = @ \cup {i}]
              planned == [[op[w] EXCEPT !.seen = @ \ {i}] EXCEPT
                    !.pc = "upsert", !.item = {i}, !.target = Target(w, i)]
  <2>1. /\ reported.pc = "plan" /\ reported.written = op[w].written
        /\ reported.links = op[w].links
    BY <1>1 DEF OpType
  <2>2. /\ planned.pc = "upsert" /\ planned.written = op[w].written
        /\ planned.links = op[w].links /\ planned.item = {i} /\ planned.target = Target(w, i)
    BY <1>1 DEF OpType
  <2>3. Continue(w, reported) \/ Continue(w, planned)
    BY DEF Plan
  <2>. HIDE DEF reported, planned
  <2>. QED
    BY <2>1, <2>2, <2>3
<1>4. OneTransaction' /\ WritesAreTransactions' /\ HeldRowsKeepOrigin'
  BY <1>1, <1>2, <1>3, OthersStay
<1>5. /\ op'[w] = o
      /\ \A v \in Workers : v # w => op'[v] = op[v]
  BY <1>3 DEF Continue, TypeOK
<1>6. View(w)' = View(w) /\ Links(w)' = Links(w)
  BY <1>1, <1>3, <1>5 DEF View, Links, ViewedRef
<1>7. ViewsAreLinked'
  BY <1>1, <1>2, <1>5, <1>6 DEF ViewsAreLinked, InTransaction, Structure, Linked
<1>8. TargetsFit'
  <2>1. CASE o.pc = "plan"
    BY <1>2, <1>5, <2>1 DEF TargetsFit, InTransaction
  <2>2. CASE o.pc = "upsert"
    <3>1. i.stay \in HostexStays
      BY <1>1 DEF Reading
    <3>2. ViewedRef(w, i.stay)' = ViewedRef(w, i.stay)
      BY <1>1, <1>3, <1>5 DEF ViewedRef
    <3>3. ASSUME ViewedRef(w, i.stay) = NoRow, o.target # NoRow
          PROVE  View(w)[o.target].origin = "booking_ical"
      <4>. DEFINE M == LegacyMatches(View(w), i.nights)
      <4>1. \E r \in M \cup {NoRow} : M # {} => r # NoRow
        BY NullsAreOutside DEF LegacyMatches
      <4>2. o.target = CHOOSE r \in M \cup {NoRow} : M # {} => r # NoRow
        BY <1>3, <2>2, <3>3 DEF Target
      <4>3. o.target \in M
        BY <3>3, <4>1, <4>2
      <4>. QED
        BY <4>3 DEF LegacyMatches
    <3>4. ViewedRef(w, i.stay) # NoRow => o.target = ViewedRef(w, i.stay)
      BY <1>3, <2>2 DEF Target
    <3>5. Fits(w, i)'
      BY <1>5, <1>6, <3>2, <3>3, <3>4 DEF Fits
    <3>. QED
      BY <1>2, <1>3, <1>5, <2>2, <3>5 DEF TargetsFit, InTransaction
  <2>. QED
    BY <1>3, <2>1, <2>2
<1>. QED
  BY <1>1, <1>4, <1>7, <1>8 DEF Structure, Linked

LEMMA UpsertLinked ==
    ASSUME TypeOK, Structure, NEW w \in Workers, Upsert(w)
    PROVE  Structure'
<1>. DEFINE b(i) == [origin |-> "hostex", status |-> ToReservationStatus(i.status),
                     nights |-> i.nights, ver |-> i.ver]
            Applied(i, r) ==
              [op[w] EXCEPT
                 !.pc = "plan", !.item = {}, !.target = NoRow, !.written[r] = b(i),
                 !.links[i.stay] = r, !.notes = @ \cup UnknownNote(i),
                 !.handled = @ \cup {i}]
<1>1. op[w] \in OpType /\ op[w].pc = "upsert" /\ UNCHANGED <<rows, ref>>
  BY OpFields DEF Upsert
<1>2. \A v \in Workers : InTransaction(v) => v = w
  BY <1>1 DEF Structure, OneTransaction, InTransaction
<1>3. PICK i \in op[w].item, r \in Rows :
         /\ Continue(w, Applied(i, r))
         /\ IF op[w].target = NoRow THEN Unused(r) ELSE r = op[w].target /\ RowLockFree(r, w)
  BY DEF Upsert
<1>4. i \in Reading /\ i.stay \in HostexStays
  BY <1>3, OpFields DEF Reading
<1>5. b(i) \in RowType /\ b(i).origin = "hostex" /\ b(i) # Unwritten
  BY <1>4, StatusTyped, NullsAreOutside DEF Reading, RowType
<1>. DEFINE o == Applied(i, r)
<1>6. /\ o.pc = "plan" /\ o.written = [op[w].written EXCEPT ![r] = b(i)]
      /\ o.links = [op[w].links EXCEPT ![i.stay] = r]
  BY <1>1, <1>4 DEF OpType
<1>7. Continue(w, o)
  BY <1>3
<1>. HIDE DEF o, b
<1>8. \A v \in Workers : Holds(op[v]) => op[v].target # r
  <2>. SUFFICES ASSUME NEW v \in Workers, Holds(op[v]), op[v].target = r
                PROVE  FALSE
    OBVIOUS
  <2>1. KeepsOrigin(op[v])
    BY DEF Structure, HeldRowsKeepOrigin
  <2>2. CASE op[w].target = NoRow
    <3>1. rows[r].origin = "none"
      BY <1>3, <2>2 DEF Unused
    <3>. QED
      BY <2>1, <3>1 DEF KeepsOrigin
  <2>3. CASE op[w].target # NoRow
    <3>1. v # w
      BY <1>1 DEF Holds
    <3>. QED
      BY <1>3, <2>1, <2>3, <3>1 DEF RowLockFree, KeepsOrigin, Holds
  <2>. QED
    BY <2>2, <2>3
<1>9. \A q \in Rows :
         o.written[q] # op[w].written[q]
             => \A v \in Workers : Holds(op[v]) => op[v].target # q
  <2>1. \A q \in Rows : o.written[q] # op[w].written[q] => q = r
    BY <1>6, OpFields
  <2>. QED
    BY <1>8, <2>1
<1>10. OneTransaction' /\ WritesAreTransactions' /\ HeldRowsKeepOrigin'
  <2>1. o.pc \in {"plan", "upsert"} /\ UNCHANGED rows
    BY <1>1, <1>6
  <2>. QED
    BY <1>2, <1>7, <1>9, <2>1, OthersStay
<1>11. /\ op'[w] = o
       /\ \A v \in Workers : v # w => op'[v] = op[v]
  BY <1>7 DEF Continue, TypeOK
<1>12. Linked(View(w), Links(w))
  BY <1>1 DEF Structure, ViewsAreLinked, InTransaction
<1>13. View(w)' = [View(w) EXCEPT ![r] = b(i)]
  BY <1>1, <1>5, <1>6, <1>11, OpFields DEF View
<1>14. Links(w)' = [Links(w) EXCEPT ![i.stay] = r]
  <2>1. r # NoRow
    BY NullsAreOutside
  <2>. QED
    BY <1>1, <1>4, <1>6, <1>11, <2>1, OpFields DEF Links, ViewedRef
<1>15. Links(w)[i.stay] = r \/ (Links(w)[i.stay] = NoRow /\ View(w)[r].origin # "hostex")
  <2>1. Links(w)[i.stay] = ViewedRef(w, i.stay)
    BY <1>4 DEF Links
  <2>2. Fits(w, i)
    BY <1>1, <1>3 DEF Structure, TargetsFit
  <2>3. CASE op[w].target = NoRow
    <3>1. View(w)[r].origin = "none"
      BY <1>3, <2>3 DEF Unused, View
    <3>2. ViewedRef(w, i.stay) = NoRow
      BY <2>2, <2>3 DEF Fits
    <3>. QED
      BY <2>1, <3>1, <3>2
  <2>4. CASE op[w].target # NoRow
    BY <1>3, <2>1, <2>2, <2>4 DEF Fits
  <2>. QED
    BY <2>3, <2>4
<1>16. Linked(View(w), Links(w))'
  <2>1. Linked([View(w) EXCEPT ![r] = b(i)], [Links(w) EXCEPT ![i.stay] = r])
    BY <1>4, <1>5, <1>12, <1>15, OpFields, LinkedExtends
  <2>. QED
    BY <1>13, <1>14, <2>1 DEF Linked
<1>17. ViewsAreLinked'
  BY <1>2, <1>11, <1>16 DEF ViewsAreLinked, InTransaction
<1>18. TargetsFit'
  BY <1>2, <1>6, <1>11 DEF TargetsFit, InTransaction
<1>. QED
  BY <1>1, <1>10, <1>17, <1>18 DEF Structure, Linked

LEMMA CommitLinked ==
    ASSUME TypeOK, Structure, NEW w \in Workers, Commit(w)
    PROVE  Structure'
<1>. DEFINE o == [IdleOp EXCEPT !.result = Outcome(w),
                                !.handled = IF w = Inbox THEN op[w].handled ELSE {}]
<1>1. op[w].pc = "plan" /\ Continue(w, o) /\ rows' = View(w) /\ ref' = Links(w)
  BY DEF Commit, Links
<1>2. o.pc = "idle" /\ NothingWritten(o)
  BY DEF IdleOp, NothingWritten
<1>. HIDE DEF o
<1>3. \A v \in Workers : InTransaction(v) => v = w
  BY <1>1 DEF Structure, OneTransaction, InTransaction
<1>4. /\ op'[w] = o
      /\ \A v \in Workers : v # w => op'[v] = op[v]
  BY <1>1 DEF Continue, TypeOK
<1>5. \A v \in Workers : ~InTransaction(v)'
  BY <1>2, <1>3, <1>4 DEF InTransaction
<1>6. OneTransaction' /\ ViewsAreLinked' /\ TargetsFit'
  BY <1>5 DEF OneTransaction, ViewsAreLinked, TargetsFit, InTransaction
<1>7. WritesAreTransactions'
  BY <1>2, <1>3, <1>4 DEF WritesAreTransactions, Structure, NothingWritten
<1>8. Linked(rows, ref)'
  <2>1. Linked(View(w), Links(w))
    BY <1>1 DEF Structure, ViewsAreLinked, InTransaction
  <2>. QED
    BY <1>1, <2>1 DEF Linked
<1>9. HeldRowsKeepOrigin'
  <2>. SUFFICES ASSUME NEW v \in Workers, Holds(op'[v])
                PROVE  KeepsOrigin(op[v])'
    BY DEF HeldRowsKeepOrigin, Holds
  <2>1. v # w /\ op'[v] = op[v]
    BY <1>2, <1>4 DEF Holds
  <2>2. KeepsOrigin(op[v])
    BY <2>1 DEF Structure, HeldRowsKeepOrigin
  <2>3. rows'[op[v].target] = rows[op[v].target]
    BY <1>1, <2>2 DEF KeepsOrigin, View
  <2>4. \A u \in Workers : op'[u].written[op[v].target] = Unwritten
    BY <1>2, <1>4, <2>2 DEF KeepsOrigin, NothingWritten
  <2>. QED
    BY <2>1, <2>2, <2>3, <2>4 DEF KeepsOrigin
<1>. QED
  BY <1>6, <1>7, <1>8, <1>9 DEF Structure

LEMMA SyncStepLinked ==
    ASSUME TypeOK, Structure, NEW w \in Workers, SyncStep(w) \/ SyncFails(w)
    PROVE  Structure'
<1>1. CASE SyncFails(w)
  BY <1>1, EndStep DEF SyncFails
<1>2. CASE SyncStep(w)
  BY <1>2, ReadStayLinked, ReadingEndsLinked, BeginTransactionLinked, PlanLinked,
     UpsertLinked, CommitLinked DEF SyncStep
<1>. QED
  BY <1>1, <1>2

-----------------------------------------------------------------------------
(* One row for each stay: administrators, Hostex and restarts *)

LEMMA CreateLinked ==
    ASSUME TypeOK, Structure, NEW w \in Workers, NEW nights, Create(w, nights)
    PROVE  Structure'
<1>. DEFINE o == [IdleOp EXCEPT !.pc = "book", !.kind = "create", !.change.nights = nights]
<1>1. o.pc = "book" /\ NothingWritten(o)
  BY DEF IdleOp, NothingWritten
<1>2. UNCHANGED <<rows, ref>> /\ Continue(w, o)
  BY DEF Create
<1>. HIDE DEF o
<1>. QED
  BY <1>1, <1>2, OwnStep DEF Holds

LEMMA BookDirectLinked ==
    ASSUME TypeOK, Structure, NEW w \in Workers, NEW s, BookDirect(w, s)
    PROVE  Structure'
<1>. DEFINE o == [IdleOp EXCEPT !.pc = "read", !.kind = "create", !.todo = {s}]
<1>1. o.pc = "read" /\ NothingWritten(o)
  BY DEF IdleOp, NothingWritten
<1>2. UNCHANGED <<rows, ref>> /\ (Continue(w, o) \/ End(w, "failed"))
  BY DEF BookDirect
<1>. HIDE DEF o
<1>3. CASE Continue(w, o)
  BY <1>1, <1>2, <1>3, OwnStep DEF Holds
<1>. QED
  BY <1>2, <1>3, EndStep

(* A row whose lock is free has no uncommitted write, of w itself, which   *)
(* is idle, or of another.                                                 *)
LEMMA FreeRowIsUnwritten ==
    ASSUME TypeOK, Structure, NEW w \in Workers, op[w].pc = "idle",
           NEW r \in Rows, RowLockFree(r, w)
    PROVE  \A v \in Workers : op[v].written[r] = Unwritten
<1>1. op[w].written[r] = Unwritten
  BY OutsideWritesNothing DEF NothingWritten
<1>. QED
  BY <1>1 DEF RowLockFree

LEMMA StartUpdateLinked ==
    ASSUME TypeOK, Structure, NEW w \in Workers, NEW r \in Rows,
           NEW change \in Requested(r), StartUpdate(w, r, change)
    PROVE  Structure'
<1>. DEFINE o == [IdleOp EXCEPT !.pc = "check", !.kind = "update", !.target = r,
                                !.change = change]
<1>1. NothingWritten(o) /\ o.pc = "check" /\ o.kind = "update" /\ o.target = r
      /\ o.change = change
  BY DEF IdleOp, NothingWritten
<1>2. /\ UNCHANGED <<rows, ref>> /\ Continue(w, o) /\ RowLockFree(r, w)
      /\ op[w].pc = "idle" /\ Allowed(r, change)
  BY DEF StartUpdate
<1>. HIDE DEF o
<1>3. change.origin = rows[r].origin
  <2>1. rows[r] \in RowType
    BY DEF TypeOK
  <2>2. \A wish \in {"confirmed", "cancelled", rows[r].status} \X Nights :
           [rows[r] EXCEPT !.status = wish[1], !.nights = wish[2]].origin = rows[r].origin
    BY <2>1 DEF RowType
  <2>. QED
    BY <2>2 DEF Requested
<1>4. KeepsOrigin(o)
  BY <1>1, <1>2, <1>3, FreeRowIsUnwritten DEF KeepsOrigin, Allowed
<1>. QED
  BY <1>1, <1>2, <1>4, OwnStep

LEMMA StartCancelLinked ==
    ASSUME TypeOK, Structure, NEW w \in Workers, NEW r \in Rows, StartCancel(w, r)
    PROVE  Structure'
<1>. DEFINE change == [rows[r] EXCEPT !.status = "cancelled"]
            o == [IdleOp EXCEPT !.pc = IF rows[r].origin = "hostex" THEN "call" ELSE "save",
                                !.kind = "cancel", !.target = r, !.change = change]
<1>1. NothingWritten(o) /\ o.pc \in {"call", "save"} /\ o.kind = "cancel" /\ o.target = r
      /\ o.change = change
  BY DEF IdleOp, NothingWritten
<1>2. /\ UNCHANGED <<rows, ref>> /\ Continue(w, o) /\ RowLockFree(r, w)
      /\ op[w].pc = "idle" /\ rows[r].origin \in {"manual", "hostex"}
  BY DEF StartCancel
<1>. HIDE DEF o
<1>3. change.origin = rows[r].origin
  BY DEF TypeOK, RowType
<1>4. KeepsOrigin(o)
  BY <1>1, <1>2, <1>3, FreeRowIsUnwritten DEF KeepsOrigin
<1>. QED
  BY <1>1, <1>2, <1>4, OwnStep

LEMMA CheckLinked ==
    ASSUME TypeOK, Structure, NEW w \in Workers, Check(w)
    PROVE  Structure'
<1>. DEFINE next == IF op[w].change.origin = "hostex" THEN "call" ELSE "save"
            o == [op[w] EXCEPT !.pc = next]
<1>1. op[w] \in OpType /\ op[w].pc = "check" /\ UNCHANGED <<rows, ref>>
  BY OpFields DEF Check
<1>2. End(w, "failed") \/ Continue(w, o)
  BY DEF Check
<1>3. /\ o.pc \in {"call", "save"} /\ o.kind = op[w].kind /\ o.target = op[w].target
      /\ o.change = op[w].change /\ o.written = op[w].written /\ o.links = op[w].links
  BY <1>1 DEF OpType
<1>. HIDE DEF o
<1>4. NothingWritten(o)
  BY <1>1, <1>3, OutsideWritesNothing DEF NothingWritten
<1>5. KeepsOrigin(o)
  BY <1>1, <1>3 DEF Structure, HeldRowsKeepOrigin, Holds, KeepsOrigin
<1>. QED
  BY <1>1, <1>2, <1>3, <1>4, <1>5, OwnStep, EndStep

LEMMA CallHostexLinked ==
    ASSUME TypeOK, Structure, NEW w \in Workers, NEW s, CallHostex(w, s)
    PROVE  Structure'
<1>1. op[w] \in OpType /\ op[w].pc = "call" /\ UNCHANGED <<rows, ref>>
  BY OpFields DEF CallHostex
<1>2. End(w, "failed")
      \/ \E ver : Continue(w, [op[w] EXCEPT !.pc = "save", !.change.ver = ver])
  BY DEF CallHostex
<1>3. ASSUME NEW ver, Continue(w, [op[w] EXCEPT !.pc = "save", !.change.ver = ver])
      PROVE  Structure'
  <2>. DEFINE o == [op[w] EXCEPT !.pc = "save", !.change.ver = ver]
  <2>1. /\ o.pc = "save" /\ o.kind = op[w].kind /\ o.target = op[w].target
        /\ o.change = [op[w].change EXCEPT !.ver = ver]
        /\ o.written = op[w].written /\ o.links = op[w].links
    BY <1>1 DEF OpType
  <2>2. o.change.origin = op[w].change.origin
    BY <2>1, OpFields DEF RowType
  <2>. HIDE DEF o
  <2>3. NothingWritten(o)
    BY <1>1, <2>1, OutsideWritesNothing DEF NothingWritten
  <2>4. KeepsOrigin(o)
    BY <1>1, <2>1, <2>2 DEF Structure, HeldRowsKeepOrigin, Holds, KeepsOrigin
  <2>. QED
    BY <1>1, <1>3, <2>1, <2>3, <2>4, OwnStep DEF o
<1>. QED
  BY <1>1, <1>2, <1>3, EndStep

LEMMA SaveLinked ==
    ASSUME TypeOK, Structure, NEW w \in Workers, Save(w)
    PROVE  Structure'
<1>. DEFINE o == [IdleOp EXCEPT !.result = "done"]
<1>1. op[w].pc = "save" /\ Continue(w, o) /\ UNCHANGED ref
      /\ rows' = [rows EXCEPT ![op[w].target] = op[w].change]
  BY DEF Save, End
<1>2. o.pc = "idle" /\ NothingWritten(o)
  BY DEF IdleOp, NothingWritten
<1>. HIDE DEF o
<1>3. KeepsOrigin(op[w])
  BY <1>1 DEF Structure, HeldRowsKeepOrigin, Holds
<1>4. \A r \in Rows : rows'[r].origin = rows[r].origin
  BY <1>1, <1>3 DEF KeepsOrigin, TypeOK
<1>5. /\ op'[w] = o
      /\ \A v \in Workers : v # w => op'[v] = op[v]
  BY <1>1 DEF Continue, TypeOK
<1>6. \A v \in Workers : InTransaction(v)' => v # w /\ InTransaction(v)
  BY <1>2, <1>5 DEF InTransaction
<1>7. OneTransaction' /\ WritesAreTransactions'
  <2>1. OneTransaction'
    BY <1>6 DEF OneTransaction, Structure
  <2>2. ASSUME NEW v \in Workers, ~InTransaction(v)'
        PROVE  NothingWritten(op'[v])
    BY <1>2, <1>5, <2>2 DEF WritesAreTransactions, Structure, InTransaction
  <2>. QED
    BY <2>1, <2>2 DEF WritesAreTransactions, NothingWritten
<1>8. ASSUME NEW v \in Workers, v # w
      PROVE  /\ Links(v)' = Links(v)
             /\ \A s \in HostexStays : ViewedRef(v, s)' = ViewedRef(v, s)
             /\ \A r \in Rows : View(v)'[r].origin = View(v)[r].origin
  BY <1>1, <1>4, <1>5, <1>8 DEF View, Links, ViewedRef
<1>9. Linked(rows, ref)'
  <2>1. Linked(rows', ref)
    BY <1>4, LinkedByOrigin DEF Structure, TypeOK
  <2>. QED
    BY <1>1, <2>1 DEF Linked
<1>10. ViewsAreLinked'
  <2>. SUFFICES ASSUME NEW v \in Workers, InTransaction(v)'
                PROVE  Linked(View(v), Links(v))'
    BY DEF ViewsAreLinked
  <2>1. Linked(View(v), Links(v)) /\ v # w
    BY <1>6 DEF Structure, ViewsAreLinked
  <2>2. Linked(View(v)', Links(v))
    BY <1>8, <2>1, LinkedByOrigin, OpFields
  <2>. QED
    BY <1>8, <2>1, <2>2 DEF Linked
<1>11. HeldRowsKeepOrigin'
  <2>. SUFFICES ASSUME NEW v \in Workers, Holds(op'[v])
                PROVE  KeepsOrigin(op[v])'
    BY DEF HeldRowsKeepOrigin, Holds
  <2>1. v # w /\ op'[v] = op[v]
    BY <1>2, <1>5 DEF Holds
  <2>2. KeepsOrigin(op[v])
    BY <2>1 DEF Structure, HeldRowsKeepOrigin
  <2>3. \A u \in Workers : op'[u].written[op[v].target] = Unwritten
    BY <1>2, <1>5, <2>2 DEF KeepsOrigin, NothingWritten
  <2>. QED
    BY <1>4, <2>1, <2>2, <2>3 DEF KeepsOrigin
<1>12. TargetsFit'
  <2>. SUFFICES ASSUME NEW v \in Workers, op'[v].pc = "upsert", NEW i \in op'[v].item
                PROVE  Fits(v, i)'
    BY DEF TargetsFit
  <2>1. v # w /\ op'[v] = op[v]
    BY <1>2, <1>5
  <2>2. Fits(v, i) /\ i.stay \in HostexStays
    BY <2>1, OpFields DEF Structure, TargetsFit, Reading
  <2>3. op[v].target \in Rows \cup {NoRow}
    BY OpFields
  <2>. QED
    BY <1>8, <2>1, <2>2, <2>3 DEF Fits
<1>. QED
  BY <1>7, <1>9, <1>10, <1>11, <1>12 DEF Structure

LEMMA CrashLinked ==
    ASSUME TypeOK, Structure, Crash
    PROVE  Structure'
<1>1. op' = [v \in Workers |-> IdleOp] /\ UNCHANGED <<rows, ref>>
  BY DEF Crash
<1>2. \A v \in Workers : op'[v].pc = "idle" /\ NothingWritten(op'[v])
  BY <1>1, IdleWritesNothing
<1>3. OneTransaction' /\ HeldRowsKeepOrigin' /\ TargetsFit' /\ ViewsAreLinked'
  BY <1>2 DEF OneTransaction, HeldRowsKeepOrigin, TargetsFit, ViewsAreLinked, InTransaction,
              Holds
<1>4. WritesAreTransactions'
  BY <1>2 DEF WritesAreTransactions, NothingWritten
<1>. QED
  BY <1>1, <1>3, <1>4 DEF Structure, Linked

-----------------------------------------------------------------------------
(* One row for each stay: the theorem *)

LEMMA OneRowIsLinked == OneRowPerStay <=> Linked(rows, ref)
BY DEF OneRowPerStay, Linked

LEMMA InitLinked == Init => Structure
<1>. SUFFICES ASSUME Init
              PROVE  Structure
  OBVIOUS
<1>1. \A v \in Workers : op[v].pc = "idle" /\ NothingWritten(op[v])
  BY IdleWritesNothing DEF Init
<1>2. OneTransaction /\ HeldRowsKeepOrigin /\ TargetsFit /\ ViewsAreLinked
  BY <1>1 DEF OneTransaction, HeldRowsKeepOrigin, TargetsFit, ViewsAreLinked, InTransaction,
              Holds
<1>3. WritesAreTransactions
  BY <1>1 DEF WritesAreTransactions
<1>4. Linked(rows, ref)
  BY BeginningsAreLinked DEF Init, Linked
<1>. QED
  BY <1>2, <1>3, <1>4 DEF Structure

LEMMA NextLinked ==
    ASSUME TypeOK, Structure, [Next]_vars
    PROVE  Structure'
<1>1. CASE StartTimer
  BY <1>1, BeginSyncLinked DEF StartTimer, Workers
<1>2. ASSUME NEW stays \in SUBSET HostexStays, StartInbox(stays)
      PROVE  Structure'
  BY <1>2, BeginSyncLinked DEF StartInbox, Workers
<1>3. ASSUME NEW w \in Workers, SyncStep(w) \/ SyncFails(w)
      PROVE  Structure'
  BY <1>3, SyncStepLinked
<1>4. ASSUME NEW w \in Admins, AdminStep(w) \/ Requests(w)
      PROVE  Structure'
  BY <1>4, CheckLinked, CallHostexLinked, SaveLinked, CreateLinked, BookDirectLinked,
     StartUpdateLinked, StartCancelLinked DEF AdminStep, Requests, Workers
<1>5. CASE HostexChanges
  BY <1>5, OpUnchanged DEF HostexChanges, Book, Change
<1>6. CASE Crash
  BY <1>6, CrashLinked
<1>7. CASE UNCHANGED vars
  BY <1>7, OpUnchanged DEF vars
<1>. QED
  BY <1>1, <1>2, <1>3, <1>4, <1>5, <1>6, <1>7 DEF Next

(* No number of imports, requests, lost answers and restarts gives a stay  *)
(* two rows or lays two stays on one row (planReservation under the        *)
(* advisory lock, upsertReservation, update).                              *)
THEOREM OneRowForEachStay == Spec => []OneRowPerStay
<1>1. Init => TypeOK /\ Structure
  BY InitTyped, InitLinked
<1>2. TypeOK /\ Structure /\ [Next]_vars => (TypeOK /\ Structure)'
  BY NextTyped, NextLinked
<1>3. TypeOK /\ Structure => OneRowPerStay
  BY OneRowIsLinked DEF Structure
<1>. QED
  BY <1>1, <1>2, <1>3, PTL DEF Spec

-----------------------------------------------------------------------------
(* No night twice: tables *)

Active(b) == b.origin \in {"manual", "hostex"} /\ b.status # "cancelled"

(* The nights are free in the table t, the row r apart.                    *)
Free(t, nights, r) ==
    \A q \in Rows : q # r /\ Active(t[q]) => ~Overlap(t[q].nights, nights)

(* No two active bookings of the table t share a night.                    *)
Apart(t) == \A r \in Rows : Active(t[r]) => Free(t, t[r].nights, r)

LEMMA FreeIsNotTaken ==
    ASSUME NEW t, NEW nights, NEW r
    PROVE  TakenBy(t, nights, r) = {} <=> Free(t, nights, r)
BY DEF TakenBy, Free, Active

LEMMA ApartIsNoDoubleBooking == NoDoubleBooking <=> Apart(rows)
BY FreeIsNotTaken DEF NoDoubleBooking, Apart, Active

LEMMA OverlapIsMutual ==
    ASSUME NEW a \in Nights, NEW b \in Nights
    PROVE  Overlap(a, b) <=> Overlap(b, a)
BY NightsAreRanges DEF Overlap

(* A booking with free nights, or one that takes none, joins the others.   *)
LEMMA ApartExtends ==
    ASSUME NEW t \in [Rows -> RowType], Apart(t), NEW r \in Rows, NEW b \in RowType,
           Active(b) => Free(t, b.nights, r), NEW u, u = [t EXCEPT ![r] = b]
    PROVE  Apart(u)
<1>. SUFFICES ASSUME NEW p \in Rows, NEW q \in Rows, p # q, Active(u[p]), Active(u[q])
              PROVE  ~Overlap(u[q].nights, u[p].nights)
  BY DEF Apart, Free
<1>1. t[p].nights \in Nights /\ t[q].nights \in Nights /\ b.nights \in Nights
  BY DEF RowType
<1>2. CASE p = r
  BY <1>2 DEF Free
<1>3. CASE q = r
  BY <1>1, <1>3, OverlapIsMutual DEF Free
<1>4. CASE p # r /\ q # r
  BY <1>4 DEF Apart, Free
<1>. QED
  BY <1>2, <1>3, <1>4

(* A cancelled booking takes nothing away from anybody.                    *)
LEMMA FreeAfterCancelling ==
    ASSUME NEW t \in [Rows -> RowType], NEW r, NEW nights, Free(t, nights, r),
           NEW q \in Rows, NEW b, ~Active(b), NEW u, u = [t EXCEPT ![q] = b]
    PROVE  Free(u, nights, r)
BY DEF Free

-----------------------------------------------------------------------------
(* No night twice: imports, with requests that create and cancel *)

(* A planned stay has room beside all rows but its own.                    *)
HasRoom(w, i) ==
    ToReservationStatus(i.status) # "cancelled" => Free(View(w), i.nights, op[w].target)

OnlyCancels(o) == o.kind # "update" /\ (Holds(o) => o.change.status = "cancelled")

ImportsApart ==
    /\ \A w \in Workers : OnlyCancels(op[w])
    /\ Apart(rows)
    /\ \A w \in Workers : InTransaction(w) => Apart(View(w))
    /\ \A w \in Workers : op[w].pc = "upsert" => \A i \in op[w].item : HasRoom(w, i)

(* A step of w that ends outside a transaction and leaves the table alone  *)
LEMMA OwnStepApart ==
    ASSUME TypeOK, ImportsApart, NEW w \in Workers, NEW o, Continue(w, o), UNCHANGED rows,
           o.pc \notin {"plan", "upsert"}, OnlyCancels(o)
    PROVE  ImportsApart'
<1>1. /\ op'[w] = o
      /\ \A v \in Workers : v # w => op'[v] = op[v]
  BY DEF Continue, TypeOK
<1>2. \A v \in Workers : InTransaction(v)' => v # w /\ InTransaction(v) /\ View(v)' = View(v)
  BY <1>1 DEF InTransaction, View
<1>3. \A v \in Workers : OnlyCancels(op[v])'
  BY <1>1 DEF ImportsApart, OnlyCancels, Holds
<1>4. \A v \in Workers : InTransaction(v)' => Apart(View(v))'
  BY <1>2 DEF ImportsApart, Apart, Free
<1>5. ASSUME NEW v \in Workers, op'[v].pc = "upsert", NEW i \in op'[v].item
      PROVE  HasRoom(v, i)'
  <2>1. v # w /\ View(v)' = View(v) /\ op'[v] = op[v]
    BY <1>1, <1>2, <1>5 DEF InTransaction
  <2>. QED
    BY <1>5, <2>1 DEF ImportsApart, HasRoom, Free
<1>6. Apart(rows)'
  BY DEF ImportsApart, Apart, Free
<1>. QED
  BY <1>3, <1>4, <1>5, <1>6 DEF ImportsApart

LEMMA OpUnchangedApart ==
    ASSUME ImportsApart, UNCHANGED <<op, rows>>
    PROVE  ImportsApart'
<1>1. \A w \in Workers : View(w)' = View(w)
  BY DEF View
<1>2. \A w \in Workers : OnlyCancels(op[w])' /\ (InTransaction(w)' <=> InTransaction(w))
  BY DEF ImportsApart, OnlyCancels, Holds, InTransaction
<1>. QED
  BY <1>1, <1>2 DEF ImportsApart, HasRoom, Apart, Free

LEMMA EndStepApart ==
    ASSUME TypeOK, ImportsApart, NEW w \in Workers, NEW result, End(w, result), UNCHANGED rows
    PROVE  ImportsApart'
<1>. DEFINE o == [IdleOp EXCEPT !.result = result]
<1>1. o.pc = "idle" /\ o.kind = "none"
  BY DEF IdleOp
<1>2. Continue(w, o)
  BY DEF End
<1>. HIDE DEF o
<1>. QED
  BY <1>1, <1>2, OwnStepApart DEF OnlyCancels, Holds

LEMMA BeginSyncApart ==
    ASSUME TypeOK, ImportsApart, NEW w \in Workers, NEW stays, BeginSync(w, stays),
           UNCHANGED rows
    PROVE  ImportsApart'
<1>. DEFINE o == [IdleOp EXCEPT !.pc = "read", !.kind = "sync", !.todo = stays,
                               !.whole = (stays = HostexStays)]
<1>1. o.pc = "read" /\ o.kind = "sync"
  BY DEF IdleOp
<1>2. Continue(w, o)
  BY DEF BeginSync
<1>. HIDE DEF o
<1>. QED
  BY <1>1, <1>2, OwnStepApart DEF OnlyCancels, Holds

LEMMA ReadingApart ==
    ASSUME TypeOK, ImportsApart, NEW w \in Workers,
           (\E s \in HostexStays : ReadStay(w, s)) \/ ReadingEnds(w)
    PROVE  ImportsApart'
<1>1. op[w] \in OpType /\ op[w].pc = "read" /\ UNCHANGED rows
  BY OpFields DEF ReadStay, ReadingEnds
<1>2. op[w].kind # "update"
  BY DEF ImportsApart, OnlyCancels
<1>3. \/ BeginSync(w, HostexStays)
      \/ End(w, "failed")
      \/ \E o : Continue(w, o) /\ o.pc \in {"read", "begin"} /\ o.kind = op[w].kind
  <2>1. ASSUME NEW s \in HostexStays, ReadStay(w, s)
        PROVE  \E o : Continue(w, o) /\ o.pc \in {"read", "begin"} /\ o.kind = op[w].kind
    <3>. DEFINE i == [stay |-> s, status |-> hostex[s].status, nights |-> hostex[s].nights,
                      ver |-> hostex[s].ver]
                unseen == [op[w] EXCEPT !.todo = @ \ {s}]
                seen == [unseen EXCEPT !.seen = @ \cup {i}]
    <3>1. unseen.pc = "read" /\ unseen.kind = op[w].kind
      BY <1>1 DEF OpType
    <3>2. seen.pc = "read" /\ seen.kind = op[w].kind
      BY <1>1 DEF OpType
    <3>3. Continue(w, unseen) \/ Continue(w, seen)
      BY <2>1 DEF ReadStay
    <3>. HIDE DEF unseen, seen
    <3>. QED
      BY <3>1, <3>2, <3>3
  <2>2. CASE ReadingEnds(w)
    <3>. DEFINE o == [op[w] EXCEPT !.pc = "begin"]
    <3>1. o.pc = "begin" /\ o.kind = op[w].kind
      BY <1>1 DEF OpType
    <3>2. BeginSync(w, HostexStays) \/ End(w, "failed") \/ Continue(w, o)
      BY <2>2 DEF ReadingEnds
    <3>. HIDE DEF o
    <3>. QED
      BY <3>1, <3>2
  <2>. QED
    BY <2>1, <2>2
<1>. QED
  BY <1>1, <1>2, <1>3, BeginSyncApart, EndStepApart, OwnStepApart DEF OnlyCancels, Holds

(* A step of the only transaction                                          *)
LEMMA TransactionApart ==
    ASSUME TypeOK, ImportsApart, NEW w \in Workers, NEW o, Continue(w, o),
           o.pc \in {"plan", "upsert"}, o.kind = op[w].kind,
           UNCHANGED rows, \A v \in Workers : InTransaction(v) => v = w,
           Apart(View(w)'),
           o.pc = "upsert" =>
               \A i \in o.item : ToReservationStatus(i.status) # "cancelled"
                                    => Free(View(w)', i.nights, o.target)
    PROVE  ImportsApart'
<1>1. /\ op'[w] = o
      /\ \A v \in Workers : v # w => op'[v] = op[v]
  BY DEF Continue, TypeOK
<1>2. \A v \in Workers : InTransaction(v)' => v = w
  BY <1>1 DEF InTransaction
<1>3. \A v \in Workers : OnlyCancels(op[v])'
  BY <1>1 DEF ImportsApart, OnlyCancels, Holds
<1>4. \A v \in Workers : InTransaction(v)' => Apart(View(v))'
  BY <1>2 DEF Apart, Free
<1>5. ASSUME NEW v \in Workers, op'[v].pc = "upsert", NEW i \in op'[v].item
      PROVE  HasRoom(v, i)'
  <2>1. v = w /\ op'[v] = o
    BY <1>1, <1>2, <1>5 DEF InTransaction
  <2>. QED
    BY <1>5, <2>1 DEF HasRoom, Free
<1>6. Apart(rows)'
  BY DEF ImportsApart, Apart, Free
<1>. QED
  BY <1>3, <1>4, <1>5, <1>6 DEF ImportsApart

LEMMA BeginTransactionApart ==
    ASSUME TypeOK, Structure, ImportsApart, NEW w \in Workers, BeginTransaction(w)
    PROVE  ImportsApart'
<1>. DEFINE o == [op[w] EXCEPT !.pc = "plan"]
<1>1. op[w] \in OpType /\ op[w].pc = "begin" /\ Continue(w, o) /\ UNCHANGED rows
  BY OpFields DEF BeginTransaction
<1>2. o.pc = "plan" /\ o.written = op[w].written /\ o.kind = op[w].kind
  BY <1>1 DEF OpType
<1>3. NothingWritten(op[w])
  BY <1>1, OutsideWritesNothing
<1>4. \A v \in Workers : ~InTransaction(v)
  BY DEF BeginTransaction, SyncLockFree
<1>. HIDE DEF o
<1>5. op'[w] = o
  BY <1>1 DEF Continue, TypeOK
<1>6. View(w)' = rows
  BY <1>1, <1>2, <1>3, <1>5 DEF NothingWritten, View, TypeOK
<1>7. Apart(View(w)')
  BY <1>6 DEF ImportsApart
<1>. QED
  BY <1>1, <1>2, <1>4, <1>7, TransactionApart

LEMMA PlanApart ==
    ASSUME TypeOK, Structure, ImportsApart, NEW w \in Workers, NEW i \in op[w].seen, Plan(w, i)
    PROVE  ImportsApart'
<1>1. op[w] \in OpType /\ op[w].pc = "plan" /\ i \in Reading /\ UNCHANGED rows
  BY OpFields DEF Plan
<1>2. \A v \in Workers : InTransaction(v) => v = w
  BY <1>1 DEF Structure, OneTransaction, InTransaction
<1>3. PICK o : /\ Continue(w, o) /\ o.pc \in {"plan", "upsert"}
               /\ o.written = op[w].written /\ o.kind = op[w].kind
               /\ o.pc = "upsert" =>
                      o.item = {i} /\ o.target = Target(w, i) /\ ~Conflicts(w, i)
  <2>. DEFINE reported == [[op[w] EXCEPT !.seen = @ \ {i}] EXCEPT
                    !.notes = @ \cup ConflictNote(i)
                              \cup (IF ViewedRef(w, i.stay) # NoRow THEN UnknownNote(i) ELSE {}),
                    !.handled = @ \cup {i}]
              planned == [[op[w] EXCEPT !.seen = @ \ {i}] EXCEPT
                    !.pc = "upsert", !.item = {i}, !.target = Target(w, i)]
  <2>1. /\ reported.pc = "plan" /\ reported.written = op[w].written
        /\ reported.kind = op[w].kind
    BY <1>1 DEF OpType
  <2>2. /\ planned.pc = "upsert" /\ planned.written = op[w].written
        /\ planned.kind = op[w].kind /\ planned.item = {i} /\ planned.target = Target(w, i)
    BY <1>1 DEF OpType
  <2>3. Continue(w, reported) \/ (Continue(w, planned) /\ ~Conflicts(w, i))
    BY DEF Plan
  <2>. HIDE DEF reported, planned
  <2>. QED
    BY <2>1, <2>2, <2>3
<1>4. op'[w] = o
  BY <1>3 DEF Continue, TypeOK
<1>5. View(w)' = View(w)
  BY <1>1, <1>3, <1>4 DEF View
<1>6. Apart(View(w))
  BY <1>1 DEF ImportsApart, InTransaction
<1>7. ASSUME o.pc = "upsert", ToReservationStatus(i.status) # "cancelled"
      PROVE  Free(View(w), i.nights, o.target)
  <2>. DEFINE own == ViewedRef(w, i.stay)
  <2>1. TakenBy(View(w), i.nights, own) = {}
    BY <1>3, <1>7 DEF Conflicts
  <2>2. Free(View(w), i.nights, own)
    BY <2>1, FreeIsNotTaken
  <2>3. CASE own = NoRow
    <3>1. Free(View(w), i.nights, NoRow)
      BY <2>2, <2>3
    <3>. QED
      BY <3>1, NullsAreOutside DEF Free
  <2>4. CASE own # NoRow
    <3>1. o.target = own
      BY <1>3, <1>7, <2>4 DEF Target
    <3>. QED
      BY <2>2, <3>1
  <2>. QED
    BY <2>3, <2>4
<1>. QED
  BY <1>1, <1>2, <1>3, <1>5, <1>6, <1>7, TransactionApart

LEMMA UpsertApart ==
    ASSUME TypeOK, Structure, ImportsApart, NEW w \in Workers, Upsert(w)
    PROVE  ImportsApart'
<1>. DEFINE b(i) == [origin |-> "hostex", status |-> ToReservationStatus(i.status),
                     nights |-> i.nights, ver |-> i.ver]
            Applied(i, r) ==
              [op[w] EXCEPT
                 !.pc = "plan", !.item = {}, !.target = NoRow, !.written[r] = b(i),
                 !.links[i.stay] = r, !.notes = @ \cup UnknownNote(i),
                 !.handled = @ \cup {i}]
<1>1. op[w] \in OpType /\ op[w].pc = "upsert" /\ UNCHANGED rows
  BY OpFields DEF Upsert
<1>2. \A v \in Workers : InTransaction(v) => v = w
  BY <1>1 DEF Structure, OneTransaction, InTransaction
<1>3. PICK i \in op[w].item, r \in Rows :
         /\ Continue(w, Applied(i, r))
         /\ op[w].target = NoRow \/ r = op[w].target
  BY DEF Upsert
<1>4. i \in Reading /\ i.nights \in Nights
  BY <1>3, OpFields DEF Reading
<1>5. /\ b(i) \in RowType /\ b(i) # Unwritten
      /\ b(i).nights = i.nights /\ b(i).status = ToReservationStatus(i.status)
  BY <1>4, StatusTyped, NullsAreOutside DEF Reading, RowType
<1>. DEFINE o == Applied(i, r)
<1>6. o.pc = "plan" /\ o.written = [op[w].written EXCEPT ![r] = b(i)] /\ o.kind = op[w].kind
  BY <1>1 DEF OpType
<1>7. Continue(w, o)
  BY <1>3
<1>. HIDE DEF o, b
<1>8. op'[w] = o
  BY <1>7 DEF Continue, TypeOK
<1>9. View(w)' = [View(w) EXCEPT ![r] = b(i)]
  BY <1>1, <1>5, <1>6, <1>8, OpFields DEF View
<1>10. Active(b(i)) => Free(View(w), b(i).nights, r)
  <2>1. Active(b(i)) => Free(View(w), i.nights, op[w].target)
    BY <1>1, <1>3, <1>5 DEF ImportsApart, HasRoom, Active
  <2>. QED
    BY <1>3, <1>5, <2>1, NullsAreOutside DEF Free
<1>11. Apart(View(w))
  BY <1>1 DEF ImportsApart, InTransaction
<1>12. Apart(View(w)')
  BY <1>5, <1>9, <1>10, <1>11, OpFields, ApartExtends
<1>. QED
  BY <1>1, <1>2, <1>6, <1>7, <1>12, TransactionApart

LEMMA CommitApart ==
    ASSUME TypeOK, Structure, ImportsApart, NEW w \in Workers, Commit(w)
    PROVE  ImportsApart'
<1>. DEFINE o == [IdleOp EXCEPT !.result = Outcome(w),
                                !.handled = IF w = Inbox THEN op[w].handled ELSE {}]
<1>1. op[w].pc = "plan" /\ Continue(w, o) /\ rows' = View(w)
  BY DEF Commit
<1>2. o.pc = "idle" /\ o.kind = "none"
  BY DEF IdleOp
<1>. HIDE DEF o
<1>3. /\ op'[w] = o
      /\ \A v \in Workers : v # w => op'[v] = op[v]
  BY <1>1 DEF Continue, TypeOK
<1>4. \A v \in Workers : ~InTransaction(v)'
  BY <1>1, <1>2, <1>3 DEF Structure, OneTransaction, InTransaction
<1>5. \A v \in Workers : OnlyCancels(op[v])'
  BY <1>2, <1>3 DEF ImportsApart, OnlyCancels, Holds
<1>6. Apart(rows)'
  BY <1>1 DEF ImportsApart, InTransaction, Apart, Free
<1>. QED
  BY <1>4, <1>5, <1>6 DEF ImportsApart, InTransaction

-----------------------------------------------------------------------------
(* No night twice: creating and cancelling *)

LEMMA CreateApart ==
    ASSUME TypeOK, ImportsApart, NEW w \in Workers, NEW nights, Create(w, nights)
    PROVE  ImportsApart'
<1>. DEFINE o == [IdleOp EXCEPT !.pc = "book", !.kind = "create", !.change.nights = nights]
<1>1. o.pc = "book" /\ o.kind = "create"
  BY DEF IdleOp
<1>2. UNCHANGED rows /\ Continue(w, o)
  BY DEF Create
<1>. HIDE DEF o
<1>. QED
  BY <1>1, <1>2, OwnStepApart DEF OnlyCancels, Holds

LEMMA BookDirectApart ==
    ASSUME TypeOK, ImportsApart, NEW w \in Workers, NEW s, BookDirect(w, s)
    PROVE  ImportsApart'
<1>. DEFINE o == [IdleOp EXCEPT !.pc = "read", !.kind = "create", !.todo = {s}]
<1>1. o.pc = "read" /\ o.kind = "create"
  BY DEF IdleOp
<1>2. UNCHANGED rows /\ (Continue(w, o) \/ End(w, "failed"))
  BY DEF BookDirect
<1>. HIDE DEF o
<1>. QED
  BY <1>1, <1>2, OwnStepApart, EndStepApart DEF OnlyCancels, Holds

LEMMA StartCancelApart ==
    ASSUME TypeOK, ImportsApart, NEW w \in Workers, NEW r \in Rows, StartCancel(w, r)
    PROVE  ImportsApart'
<1>. DEFINE change == [rows[r] EXCEPT !.status = "cancelled"]
            o == [IdleOp EXCEPT !.pc = IF rows[r].origin = "hostex" THEN "call" ELSE "save",
                                !.kind = "cancel", !.target = r, !.change = change]
<1>1. o.pc \in {"call", "save"} /\ o.kind = "cancel" /\ o.change = change
  BY DEF IdleOp
<1>2. UNCHANGED rows /\ Continue(w, o)
  BY DEF StartCancel
<1>3. change.status = "cancelled"
  BY DEF TypeOK, RowType
<1>. HIDE DEF o
<1>. QED
  BY <1>1, <1>2, <1>3, OwnStepApart DEF OnlyCancels

LEMMA CheckApart ==
    ASSUME TypeOK, ImportsApart, NEW w \in Workers, Check(w)
    PROVE  ImportsApart'
<1>. DEFINE o == [op[w] EXCEPT !.pc = IF op[w].change.origin = "hostex" THEN "call" ELSE "save"]
<1>1. op[w] \in OpType /\ op[w].pc = "check" /\ UNCHANGED rows
  BY OpFields DEF Check
<1>2. End(w, "failed") \/ Continue(w, o)
  BY DEF Check
<1>3. o.pc \in {"call", "save"} /\ o.kind = op[w].kind /\ o.change = op[w].change
  BY <1>1 DEF OpType
<1>. HIDE DEF o
<1>4. OnlyCancels(o)
  BY <1>1, <1>3 DEF ImportsApart, OnlyCancels, Holds
<1>. QED
  BY <1>1, <1>2, <1>3, <1>4, OwnStepApart, EndStepApart

LEMMA CallHostexApart ==
    ASSUME TypeOK, ImportsApart, NEW w \in Workers, NEW s, CallHostex(w, s)
    PROVE  ImportsApart'
<1>1. op[w] \in OpType /\ op[w].pc = "call" /\ UNCHANGED rows
  BY OpFields DEF CallHostex
<1>2. End(w, "failed")
      \/ \E ver : Continue(w, [op[w] EXCEPT !.pc = "save", !.change.ver = ver])
  BY DEF CallHostex
<1>3. ASSUME NEW ver, Continue(w, [op[w] EXCEPT !.pc = "save", !.change.ver = ver])
      PROVE  ImportsApart'
  <2>. DEFINE o == [op[w] EXCEPT !.pc = "save", !.change.ver = ver]
  <2>1. /\ o.pc = "save" /\ o.kind = op[w].kind
        /\ o.change = [op[w].change EXCEPT !.ver = ver]
    BY <1>1 DEF OpType
  <2>2. o.change.status = op[w].change.status
    BY <2>1, OpFields DEF RowType
  <2>. HIDE DEF o
  <2>3. OnlyCancels(o)
    BY <1>1, <2>1, <2>2 DEF ImportsApart, OnlyCancels, Holds
  <2>. QED
    BY <1>1, <1>3, <2>1, <2>3, OwnStepApart DEF o
<1>. QED
  BY <1>1, <1>2, <1>3, EndStepApart

(* A cancellation saved beside a transaction: the row is not one that the  *)
(* transaction has written, so it is cancelled in its view, too.           *)
LEMMA SaveApart ==
    ASSUME TypeOK, Structure, ImportsApart, NEW w \in Workers, Save(w)
    PROVE  ImportsApart'
<1>. DEFINE o == [IdleOp EXCEPT !.result = "done"]
            r == op[w].target
            b == op[w].change
<1>1. op[w].pc = "save" /\ Continue(w, o) /\ rows' = [rows EXCEPT ![r] = b]
  BY DEF Save, End
<1>2. o.pc = "idle" /\ o.kind = "none"
  BY DEF IdleOp
<1>. HIDE DEF o
<1>3. r \in Rows /\ \A v \in Workers : op[v].written[r] = Unwritten
  BY <1>1 DEF Structure, HeldRowsKeepOrigin, Holds, KeepsOrigin
<1>4. b \in RowType /\ ~Active(b)
  BY <1>1, OpFields DEF ImportsApart, OnlyCancels, Holds, Active
<1>. HIDE DEF r, b
<1>5. /\ op'[w] = o
      /\ \A v \in Workers : v # w => op'[v] = op[v]
  BY <1>1 DEF Continue, TypeOK
<1>6. ASSUME NEW v \in Workers, InTransaction(v)'
      PROVE  /\ v # w /\ InTransaction(v) /\ op'[v] = op[v]
             /\ View(v)' = [View(v) EXCEPT ![r] = b]
             /\ View(v) \in [Rows -> RowType]
  <2>1. v # w /\ op'[v] = op[v]
    BY <1>2, <1>5, <1>6 DEF InTransaction
  <2>. QED
    BY <1>1, <1>3, <1>6, <2>1, OpFields DEF InTransaction, View, TypeOK
<1>7. \A v \in Workers : OnlyCancels(op[v])'
  BY <1>2, <1>5 DEF ImportsApart, OnlyCancels, Holds
<1>8. Apart(rows)'
  <2>1. Apart(rows')
    BY <1>1, <1>3, <1>4, ApartExtends DEF ImportsApart, TypeOK
  <2>. QED
    BY <2>1 DEF Apart, Free
<1>9. ASSUME NEW v \in Workers, InTransaction(v)'
      PROVE  Apart(View(v))'
  <2>1. Apart(View(v)) /\ View(v) \in [Rows -> RowType]
    BY <1>6, <1>9 DEF ImportsApart
  <2>2. Apart(View(v)')
    BY <1>3, <1>4, <1>6, <1>9, <2>1, ApartExtends
  <2>. QED
    BY <2>2 DEF Apart, Free
<1>10. ASSUME NEW v \in Workers, op'[v].pc = "upsert", NEW i \in op'[v].item
       PROVE  HasRoom(v, i)'
  <2>1. InTransaction(v)'
    BY <1>10 DEF InTransaction
  <2>2. /\ op'[v] = op[v] /\ HasRoom(v, i) /\ View(v)' = [View(v) EXCEPT ![r] = b]
        /\ View(v) \in [Rows -> RowType]
    BY <1>6, <1>10, <2>1 DEF ImportsApart
  <2>3. Free(View(v), i.nights, op[v].target) => Free(View(v)', i.nights, op[v].target)
    BY <1>3, <1>4, <2>2, FreeAfterCancelling
  <2>. QED
    BY <2>2, <2>3 DEF HasRoom, Free
<1>. QED
  BY <1>7, <1>8, <1>9, <1>10 DEF ImportsApart

LEMMA CrashApart ==
    ASSUME TypeOK, ImportsApart, Crash
    PROVE  ImportsApart'
<1>1. op' = [v \in Workers |-> IdleOp] /\ UNCHANGED rows
  BY DEF Crash
<1>2. \A v \in Workers : op'[v].pc = "idle" /\ op'[v].kind = "none"
  BY <1>1 DEF IdleOp
<1>. QED
  BY <1>1, <1>2 DEF ImportsApart, OnlyCancels, Holds, InTransaction, Apart, Free

LEMMA NextApart ==
    ASSUME "update" \notin AdminRequests, TypeOK, Structure, ImportsApart, [Next]_vars
    PROVE  ImportsApart'
<1>1. CASE StartTimer
  BY <1>1, BeginSyncApart DEF StartTimer, Workers
<1>2. ASSUME NEW stays \in SUBSET HostexStays, StartInbox(stays)
      PROVE  ImportsApart'
  BY <1>2, BeginSyncApart DEF StartInbox, Workers
<1>3. ASSUME NEW w \in Workers, SyncStep(w) \/ SyncFails(w)
      PROVE  ImportsApart'
  <2>1. CASE SyncFails(w)
    BY <2>1, EndStepApart DEF SyncFails
  <2>2. CASE SyncStep(w)
    BY <2>2, ReadingApart, BeginTransactionApart, PlanApart, UpsertApart, CommitApart
       DEF SyncStep
  <2>. QED
    BY <1>3, <2>1, <2>2
<1>4. ASSUME NEW w \in Admins, AdminStep(w) \/ Requests(w)
      PROVE  ImportsApart'
  BY <1>4, CheckApart, CallHostexApart, SaveApart, CreateApart, BookDirectApart, StartCancelApart
     DEF AdminStep, Requests, StartUpdate, Workers
<1>5. CASE HostexChanges
  BY <1>5, OpUnchangedApart DEF HostexChanges, Book, Change
<1>6. CASE Crash
  BY <1>6, CrashApart
<1>7. CASE UNCHANGED vars
  BY <1>7, OpUnchangedApart DEF vars
<1>. QED
  BY <1>1, <1>2, <1>3, <1>4, <1>5, <1>6, <1>7 DEF Next

(* From a table without a double booking no number of imports comes to one *)
(* (planReservation and upsertReservation, under the advisory lock), also  *)
(* beside administrators who create bookings and cancel them.  With        *)
(* updates, which take another lock, it does not hold: the run `double'.   *)
THEOREM ImportsDoNotOverbook ==
    ASSUME "update" \notin AdminRequests
    PROVE  Spec /\ NoDoubleBooking => []NoDoubleBooking
<1>1. Init /\ NoDoubleBooking => TypeOK /\ Structure /\ ImportsApart
  <2>. SUFFICES ASSUME Init, NoDoubleBooking
                PROVE  ImportsApart
    BY InitTyped, InitLinked
  <2>1. \A v \in Workers : op[v].pc = "idle" /\ op[v].kind = "none"
    BY DEF Init, IdleOp
  <2>. QED
    BY <2>1, ApartIsNoDoubleBooking DEF ImportsApart, OnlyCancels, Holds, InTransaction
<1>2. TypeOK /\ Structure /\ ImportsApart /\ [Next]_vars => (TypeOK /\ Structure /\ ImportsApart)'
  BY NextTyped, NextLinked, NextApart
<1>3. ImportsApart => NoDoubleBooking
  BY ApartIsNoDoubleBooking DEF ImportsApart
<1>. QED
  BY <1>1, <1>2, <1>3, PTL DEF Spec

-----------------------------------------------------------------------------
(* No night twice: administrators *)

(* An update that has the apartment's lock                                 *)
Updating(o) == o.kind = "update" /\ o.pc \in {"call", "save"}

(* The nights it was granted are still free, whatever is saved meanwhile.  *)
Granted(o) ==
    o.pc \in {"call", "save"} /\ Active(o.change) => Free(rows, o.change.nights, o.target)

NotImporting(o) ==
    /\ o.pc = "idle" \/ Holds(o)
    /\ Holds(o) /\ o.kind # "update" => o.change.status = "cancelled"

NoImports == ~syncEnabled /\ budget["webhook"] = 0

UpdatesApart ==
    /\ NoImports
    /\ \A w \in Workers : NotImporting(op[w]) /\ Granted(op[w])
    /\ \A v, w \in Workers : Updating(op[v]) /\ Updating(op[w]) => v = w
    /\ Apart(rows)

LEMMA SpendSparesWebhooks ==
    ASSUME TypeOK, NEW kind, kind # "webhook", Spend(kind)
    PROVE  budget'["webhook"] = budget["webhook"]
BY DEF TypeOK, Spend, Disturbances

(* A step of w that leaves the table alone                                 *)
LEMMA OwnStepGranted ==
    ASSUME TypeOK, UpdatesApart, NEW w \in Workers, NEW o, Continue(w, o), UNCHANGED rows,
           NoImports', NotImporting(o), Granted(o),
           Updating(o) => Updating(op[w]) \/ ApartmentLockFree
    PROVE  UpdatesApart'
<1>1. /\ op'[w] = o
      /\ \A v \in Workers : v # w => op'[v] = op[v]
  BY DEF Continue, TypeOK
<1>2. \A v \in Workers : NotImporting(op[v])' /\ Granted(op[v])'
  BY <1>1 DEF UpdatesApart, NotImporting, Granted, Holds, Active, Free
<1>3. \A u, v \in Workers : Updating(op[u])' /\ Updating(op[v])' => u = v
  <2>1. ASSUME NEW v \in Workers, v # w, Updating(op[v])'
        PROVE  ~Updating(op[w])'
    <3>1. Updating(op[v]) /\ ~ApartmentLockFree
      BY <1>1, <2>1 DEF Updating, ApartmentLockFree
    <3>. QED
      BY <1>1, <2>1, <3>1 DEF UpdatesApart, Updating
  <2>2. ASSUME NEW u \in Workers, NEW v \in Workers, u # w, v # w,
               Updating(op[u])', Updating(op[v])'
        PROVE  u = v
    BY <1>1, <2>2 DEF UpdatesApart, Updating
  <2>. QED
    BY <2>1, <2>2
<1>4. Apart(rows)'
  BY DEF UpdatesApart, Apart, Free
<1>. QED
  BY <1>2, <1>3, <1>4 DEF UpdatesApart

LEMMA EndStepGranted ==
    ASSUME TypeOK, UpdatesApart, NEW w \in Workers, NEW result, End(w, result),
           UNCHANGED rows, NoImports'
    PROVE  UpdatesApart'
<1>. DEFINE o == [IdleOp EXCEPT !.result = result]
<1>1. o.pc = "idle" /\ o.kind = "none"
  BY DEF IdleOp
<1>2. Continue(w, o)
  BY DEF End
<1>. HIDE DEF o
<1>. QED
  BY <1>1, <1>2, OwnStepGranted DEF NotImporting, Granted, Updating, Holds

LEMMA NothingImports ==
    ASSUME TypeOK, UpdatesApart
    PROVE  /\ ~StartTimer
           /\ \A stays : ~StartInbox(stays)
           /\ \A w \in Workers : ~SyncStep(w) /\ ~SyncFails(w)
<1>1. ~StartTimer
  BY DEF UpdatesApart, NoImports, StartTimer
<1>2. \A stays : ~StartInbox(stays)
  BY DEF UpdatesApart, NoImports, StartInbox, Spend
<1>3. \A w \in Workers : op[w].pc \in {"idle", "check", "call", "save"}
  BY DEF UpdatesApart, NotImporting, Holds
<1>4. \A w \in Workers : ~SyncStep(w) /\ ~SyncFails(w)
  BY <1>3 DEF SyncStep, SyncFails, ReadStay, ReadingEnds, BeginTransaction, Plan, Upsert, Commit
<1>. QED
  BY <1>1, <1>2, <1>4

LEMMA StartUpdateGranted ==
    ASSUME TypeOK, UpdatesApart, NEW w \in Workers, NEW r, NEW change, StartUpdate(w, r, change)
    PROVE  UpdatesApart'
<1>. DEFINE o == [IdleOp EXCEPT !.pc = "check", !.kind = "update", !.target = r,
                                !.change = change]
<1>1. o.pc = "check" /\ o.kind = "update"
  BY DEF IdleOp
<1>2. UNCHANGED <<rows, syncEnabled>> /\ Continue(w, o) /\ Spend("request")
  BY DEF StartUpdate
<1>3. NoImports'
  BY <1>2, SpendSparesWebhooks DEF UpdatesApart, NoImports
<1>. HIDE DEF o
<1>. QED
  BY <1>1, <1>2, <1>3, OwnStepGranted DEF NotImporting, Granted, Updating, Holds

LEMMA StartCancelGranted ==
    ASSUME TypeOK, UpdatesApart, NEW w \in Workers, NEW r \in Rows, StartCancel(w, r)
    PROVE  UpdatesApart'
<1>. DEFINE change == [rows[r] EXCEPT !.status = "cancelled"]
            o == [IdleOp EXCEPT !.pc = IF rows[r].origin = "hostex" THEN "call" ELSE "save",
                                !.kind = "cancel", !.target = r, !.change = change]
<1>1. o.pc \in {"call", "save"} /\ o.kind = "cancel" /\ o.change = change
  BY DEF IdleOp
<1>2. UNCHANGED <<rows, syncEnabled>> /\ Continue(w, o) /\ Spend("request")
  BY DEF StartCancel
<1>3. NoImports'
  BY <1>2, SpendSparesWebhooks DEF UpdatesApart, NoImports
<1>4. change.status = "cancelled"
  BY DEF TypeOK, RowType
<1>. HIDE DEF o, change
<1>. QED
  BY <1>1, <1>2, <1>3, <1>4, OwnStepGranted DEF NotImporting, Granted, Updating, Holds, Active

LEMMA CheckGranted ==
    ASSUME TypeOK, UpdatesApart, NEW w \in Workers, Check(w)
    PROVE  UpdatesApart'
<1>. DEFINE change == op[w].change
            o == [op[w] EXCEPT !.pc = IF change.origin = "hostex" THEN "call" ELSE "save"]
<1>1. /\ op[w] \in OpType /\ op[w].pc = "check" /\ ApartmentLockFree
      /\ UNCHANGED <<rows, budget, syncEnabled>>
  BY OpFields DEF Check
<1>2. NoImports'
  BY <1>1 DEF UpdatesApart, NoImports
<1>3. \/ End(w, "failed")
      \/ Continue(w, o) /\ (change.status = "cancelled"
                               \/ TakenBy(rows, change.nights, op[w].target) = {})
  BY DEF Check
<1>4. /\ o.pc \in {"call", "save"} /\ o.kind = op[w].kind /\ o.change = change
      /\ o.target = op[w].target
  BY <1>1 DEF OpType
<1>. HIDE DEF o
<1>5. NotImporting(o)
  BY <1>1, <1>4 DEF UpdatesApart, NotImporting, Holds
<1>6. CASE End(w, "failed")
  BY <1>1, <1>2, <1>6, EndStepGranted
<1>7. CASE Continue(w, o) /\ (change.status = "cancelled"
                               \/ TakenBy(rows, change.nights, op[w].target) = {})
  <2>1. Granted(o)
    BY <1>4, <1>7, FreeIsNotTaken DEF Granted, Active
  <2>. QED
    BY <1>1, <1>2, <1>5, <1>7, <2>1, OwnStepGranted
<1>. QED
  BY <1>3, <1>6, <1>7

LEMMA CallHostexGranted ==
    ASSUME TypeOK, UpdatesApart, NEW w \in Workers, NEW s, CallHostex(w, s)
    PROVE  UpdatesApart'
<1>1. /\ op[w] \in OpType /\ op[w].pc = "call" /\ UNCHANGED <<rows, syncEnabled>>
      /\ UNCHANGED budget \/ Spend("fault")
  BY OpFields DEF CallHostex
<1>2. NoImports'
  BY <1>1, SpendSparesWebhooks DEF UpdatesApart, NoImports
<1>3. End(w, "failed")
      \/ \E ver : Continue(w, [op[w] EXCEPT !.pc = "save", !.change.ver = ver])
  BY DEF CallHostex
<1>4. ASSUME NEW ver, Continue(w, [op[w] EXCEPT !.pc = "save", !.change.ver = ver])
      PROVE  UpdatesApart'
  <2>. DEFINE o == [op[w] EXCEPT !.pc = "save", !.change.ver = ver]
  <2>1. /\ o.pc = "save" /\ o.kind = op[w].kind /\ o.target = op[w].target
        /\ o.change = [op[w].change EXCEPT !.ver = ver]
    BY <1>1 DEF OpType
  <2>2. /\ o.change.status = op[w].change.status
        /\ o.change.origin = op[w].change.origin
        /\ o.change.nights = op[w].change.nights
    BY <2>1, OpFields DEF RowType
  <2>. HIDE DEF o
  <2>3. NotImporting(o)
    BY <1>1, <2>1, <2>2 DEF UpdatesApart, NotImporting, Holds
  <2>4. Granted(o)
    BY <1>1, <2>1, <2>2 DEF UpdatesApart, Granted, Active
  <2>5. Updating(o) => Updating(op[w])
    BY <1>1, <2>1 DEF Updating
  <2>. QED
    BY <1>1, <1>2, <1>4, <2>3, <2>4, <2>5, OwnStepGranted DEF o
<1>. QED
  BY <1>1, <1>2, <1>3, <1>4, EndStepGranted

(* The row gets nights that were free when the apartment's lock was taken; *)
(* only cancellations have been saved since.                               *)
LEMMA SaveGranted ==
    ASSUME TypeOK, Structure, UpdatesApart, NEW w \in Workers, Save(w)
    PROVE  UpdatesApart'
<1>. DEFINE o == [IdleOp EXCEPT !.result = "done"]
            r == op[w].target
            b == op[w].change
<1>1. /\ op[w].pc = "save" /\ Continue(w, o) /\ rows' = [rows EXCEPT ![r] = b]
      /\ UNCHANGED <<budget, syncEnabled>>
  BY DEF Save, End
<1>2. o.pc = "idle" /\ o.kind = "none"
  BY DEF IdleOp
<1>. HIDE DEF o
<1>3. /\ op'[w] = o
      /\ \A v \in Workers : v # w => op'[v] = op[v]
  BY <1>1 DEF Continue, TypeOK
<1>4. r \in Rows /\ b \in RowType /\ rows \in [Rows -> RowType]
  BY <1>1, OpFields DEF Structure, HeldRowsKeepOrigin, Holds, KeepsOrigin, TypeOK
<1>5. Active(b) => Free(rows, b.nights, r)
  BY <1>1 DEF UpdatesApart, Granted
<1>6. Apart(rows)'
  <2>1. Apart(rows')
    BY <1>1, <1>4, <1>5, ApartExtends DEF UpdatesApart
  <2>. QED
    BY <2>1 DEF Apart, Free
<1>7. \A v \in Workers : NotImporting(op[v])'
  BY <1>2, <1>3 DEF UpdatesApart, NotImporting, Holds
<1>8. ASSUME NEW v \in Workers, op'[v].pc \in {"call", "save"}, Active(op'[v].change)
      PROVE  Free(rows', op'[v].change.nights, op'[v].target)
  <2>1. v # w /\ op'[v] = op[v]
    BY <1>2, <1>3, <1>8
  <2>2. Free(rows, op[v].change.nights, op[v].target)
    BY <1>8, <2>1 DEF UpdatesApart, Granted
  <2>3. Updating(op[v])
    BY <1>8, <2>1 DEF UpdatesApart, NotImporting, Holds, Updating, Active
  <2>4. ~Updating(op[w])
    BY <2>1, <2>3 DEF UpdatesApart
  <2>5. ~Active(b)
    BY <1>1, <2>4 DEF UpdatesApart, NotImporting, Holds, Updating, Active
  <2>. HIDE DEF b, r
  <2>6. Free(rows', op[v].change.nights, op[v].target)
    BY <1>1, <1>4, <2>2, <2>5, FreeAfterCancelling
  <2>. QED
    BY <2>1, <2>6
<1>9. \A v \in Workers : Granted(op[v])'
  BY <1>8 DEF Granted, Active, Free
<1>10. \A u, v \in Workers : Updating(op[u])' /\ Updating(op[v])' => u = v
  BY <1>2, <1>3 DEF UpdatesApart, Updating
<1>11. NoImports'
  BY <1>1 DEF UpdatesApart, NoImports
<1>. QED
  BY <1>6, <1>7, <1>9, <1>10, <1>11 DEF UpdatesApart

LEMMA OpUnchangedGranted ==
    ASSUME UpdatesApart, UNCHANGED <<op, rows>>, NoImports'
    PROVE  UpdatesApart'
BY DEF UpdatesApart, NotImporting, Granted, Updating, Holds, Apart, Free, Active

LEMMA CrashGranted ==
    ASSUME TypeOK, UpdatesApart, Crash
    PROVE  UpdatesApart'
<1>1. op' = [v \in Workers |-> IdleOp] /\ UNCHANGED <<rows, syncEnabled>> /\ Spend("crash")
  BY DEF Crash
<1>2. \A v \in Workers : op'[v].pc = "idle" /\ op'[v].kind = "none"
  BY <1>1 DEF IdleOp
<1>3. NoImports'
  BY <1>1, SpendSparesWebhooks DEF UpdatesApart, NoImports
<1>. QED
  BY <1>1, <1>2, <1>3
     DEF UpdatesApart, NotImporting, Granted, Updating, Holds, Apart, Free

LEMMA NextGranted ==
    ASSUME "create" \notin AdminRequests, TypeOK, Structure, UpdatesApart, [Next]_vars
    PROVE  UpdatesApart'
<1>1. ASSUME NEW w \in Admins, AdminStep(w) \/ Requests(w)
      PROVE  UpdatesApart'
  <2>1. ~(\E s \in HostexStays : BookDirect(w, s))
    BY DEF UpdatesApart, NotImporting, Holds, BookDirect, Workers
  <2>. QED
    BY <1>1, <2>1, CheckGranted, CallHostexGranted, SaveGranted, StartUpdateGranted,
       StartCancelGranted DEF AdminStep, Requests, Create, Workers
<1>2. CASE HostexChanges
  <2>1. UNCHANGED <<op, rows, syncEnabled>> /\ Spend("change")
    BY <1>2 DEF HostexChanges, Book, Change
  <2>2. NoImports'
    BY <2>1, SpendSparesWebhooks DEF UpdatesApart, NoImports
  <2>. QED
    BY <2>1, <2>2, OpUnchangedGranted
<1>3. CASE Crash
  BY <1>3, CrashGranted
<1>4. CASE UNCHANGED vars
  BY <1>4, OpUnchangedGranted DEF vars, UpdatesApart, NoImports
<1>. QED
  BY <1>1, <1>2, <1>3, <1>4, NothingImports DEF Next

(* Where no import runs, any number of administrators who move, cancel and *)
(* confirm bookings leave no night taken twice, however long Hostex takes  *)
(* to answer (lockApartment, assertNoOverlap; cancelManual).               *)
THEOREM UpdatesDoNotOverbook ==
    ASSUME "create" \notin AdminRequests
    PROVE  Spec /\ NoImports /\ NoDoubleBooking => []NoDoubleBooking
<1>1. Init /\ NoImports /\ NoDoubleBooking => TypeOK /\ Structure /\ UpdatesApart
  <2>. SUFFICES ASSUME Init, NoImports, NoDoubleBooking
                PROVE  UpdatesApart
    BY InitTyped, InitLinked
  <2>1. \A v \in Workers : op[v].pc = "idle" /\ op[v].kind = "none"
    BY DEF Init, IdleOp
  <2>. QED
    BY <2>1, ApartIsNoDoubleBooking
       DEF UpdatesApart, NotImporting, Granted, Updating, Holds
<1>2. TypeOK /\ Structure /\ UpdatesApart /\ [Next]_vars
          => (TypeOK /\ Structure /\ UpdatesApart)'
  BY NextTyped, NextLinked, NextGranted
<1>3. UpdatesApart => NoDoubleBooking
  BY ApartIsNoDoubleBooking DEF UpdatesApart
<1>. QED
  BY <1>1, <1>2, <1>3, PTL DEF Spec
===============================================================================
