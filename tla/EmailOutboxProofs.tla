--------------------------- MODULE EmailOutboxProofs ---------------------------
(***************************************************************************)
(* For any number of backends, mails, details and changes, whatever is     *)
(* lost or restarted: no mail arrives twice, and the newest mail says what *)
(* the booking is.                                                         *)
(***************************************************************************)
EXTENDS EmailOutbox, FiniteSetTheorems, TLAPS

-----------------------------------------------------------------------------
(* The inductive invariant *)

(* Each change appends one mail at most, so the changes to come find room. *)
Room ==
    /\ budget["change"] <= MaxMails
    /\ \A m \in Mails : Exists(m) => m + budget["change"] <= MaxMails

(* A run has a mail that was tried; it can still send it only while the    *)
(* provider knows its key, or nothing has arrived.                         *)
Runs ==
    \A b \in Backends :
        op[b].pc # "idle" =>
            /\ op[b].mail \in Mails
            /\ Exists(op[b].mail)
            /\ outbox[op[b].mail].request # NoSnapshot
            /\ op[b].pc \in {"lock", "send"} =>
                   arrived[op[b].mail] = 0 \/ keyAge[op[b].mail] < Day

(* The provider learns a key no earlier than the row notes its first       *)
(* attempt.                                                                *)
Keys ==
    \A m \in Mails :
        /\ arrived[m] <= 1
        /\ arrived[m] > 0 => /\ Exists(m)
                             /\ outbox[m].request # NoSnapshot
                             /\ keyAge[m] <= outbox[m].age

IsNewest(m, S) == m \in S /\ \A n \in S : n <= m

(* Only the newest mail can still change.  If it can be taken back, the    *)
(* one before it says what is true then: nothing before the mail about a   *)
(* new stay, the previous state of the stay before a modification.         *)
Folding ==
    \A m \in Open :
        /\ IsNewest(m, Existing(outbox))
        /\ outbox[m].kind = "new_reservation" => Existing(outbox) = {m}
        /\ outbox[m].kind = "reservation_modified" /\ outbox[m].previous.status = "confirmed" =>
               \E n \in Mails :
                   IsNewest(n, Existing(outbox) \ {m}) /\ Says(n) = outbox[m].previous

(* What the owner was told agrees with the stay.                           *)
Told ==
    /\ Existing(outbox) = {} => stay.status # "confirmed"
    /\ \A m \in Mails :
           IsNewest(m, Existing(outbox)) =>
               IF stay.status = "confirmed" THEN Says(m) = stay
               ELSE Says(m).status # "confirmed"
    /\ stay = NoSnapshot => Existing(outbox) = {}

Inductive == TypeOK /\ Room /\ Runs /\ Keys /\ Folding /\ Told

-----------------------------------------------------------------------------
(* What the actions share *)

(* The mails after some mail of S, for the latest one, are none.           *)
LEMMA Largest ==
    ASSUME NEW S \in SUBSET Mails, S # {}
    PROVE  \E m \in S : IsNewest(m, S)
<1>. DEFINE After(m) == {n \in S : n > m}
            T == {After(m) : m \in S}
            R == StrictSubsetOrdering(Mails)
<1>1. IsFiniteSet(Mails)
  BY FS_Interval, LimitsAreNaturals DEF Mails
<1>2. FiniteSubsetsOf(Mails) = SUBSET Mails
  BY <1>1, FS_FiniteSubsetsOfFinite
<1>3. IsWellFoundedOn(R, SUBSET Mails)
  BY <1>2, FS_StrictSubsetOrderingWellFounded
<1>4. T \subseteq SUBSET Mails /\ T # {}
  OBVIOUS
<1>5. \E x \in T : \A y \in T : <<y, x>> \notin R
  BY <1>3, <1>4, WFMin
<1>6. PICK m \in S : \A y \in T : <<y, After(m)>> \notin R
  BY <1>5
<1>7. \A n \in S : ~(n > m)
  <2>. SUFFICES ASSUME NEW n \in S, n > m PROVE FALSE
    OBVIOUS
  <2>1. n \in Nat /\ m \in Nat /\ S \subseteq Nat
    BY LimitsAreNaturals DEF Mails
  <2>2. After(n) \subseteq After(m)
    <3>1. \A k \in S : k > n => k > m
      BY <2>1
    <3>. QED
      BY <3>1
  <2>3. n \in After(m) /\ n \notin After(n)
    BY <2>1
  <2>4. After(n) # After(m)
    BY <2>3
  <2>5. After(n) \in SUBSET Mails /\ After(m) \in SUBSET Mails
    OBVIOUS
  <2>6. <<After(n), After(m)>> \in R
    BY <2>2, <2>4, <2>5 DEF StrictSubsetOrdering
  <2>. QED
    BY <1>6, <2>6
<1>. QED
  BY <1>7, LimitsAreNaturals DEF Mails, IsNewest

LEMMA Earliest ==
    ASSUME NEW S \in SUBSET Mails, S # {}
    PROVE  \E m \in S : \A n \in S : m <= n
<1>. DEFINE T == {MaxMails + 1 - n : n \in S}
<1>1. S \subseteq Nat /\ MaxMails \in Nat /\ \A n \in S : 1 <= n /\ n <= MaxMails
  BY LimitsAreNaturals DEF Mails
<1>2. T \in SUBSET Mails /\ T # {}
  <2>1. \A n \in S : MaxMails + 1 - n \in Mails
    BY <1>1 DEF Mails
  <2>. QED
    BY <2>1
<1>3. PICK k \in T : \A l \in T : l <= k
  BY <1>2, Largest DEF IsNewest
<1>4. PICK m \in S : k = MaxMails + 1 - m
  BY <1>3
<1>5. \A n \in S : MaxMails + 1 - n <= MaxMails + 1 - m
  BY <1>3, <1>4
<1>6. \A n \in S : m <= n
  BY <1>1, <1>5
<1>. QED
  BY <1>6

LEMMA NewestIs ==
    ASSUME NEW S \in SUBSET Mails, S # {}
    PROVE  /\ IsNewest(Newest(S), S)
           /\ \A m \in S : IsNewest(m, S) => m = Newest(S)
<1>1. IsNewest(Newest(S), S)
  BY Largest DEF Newest, IsNewest
<1>2. \A m, n \in S : m <= n /\ n <= m => m = n
  BY LimitsAreNaturals DEF Mails
<1>. QED
  BY <1>1, <1>2 DEF IsNewest

Rows == [Mails -> Row \cup {NoRow}]

LEMMA RowOrNone ==
    /\ \A r \in Row : r.status # "none"
    /\ NoRow.status = "none"
    /\ \A table \in Rows, m \in Mails :
           /\ m \in Existing(table) <=> table[m] \in Row
           /\ m \notin Existing(table) => table[m] = NoRow
<1>1. \A r \in Row : r.status # "none"
  BY DEF Row
<1>2. NoRow.status = "none"
  BY DEF NoRow
<1>. QED
  BY <1>1, <1>2 DEF Rows, Existing

LEMMA SnapshotOrNone == NoSnapshot \notin Snapshot /\ NoSnapshot.status = "none"
BY NoDetailsIsOutside DEF Snapshot, NoSnapshot

LEMMA IndexesAreNaturals == Mails \subseteq Nat /\ MaxMails \in Nat
BY LimitsAreNaturals DEF Mails

LEMMA OneNewest ==
    ASSUME NEW S \in SUBSET Mails, NEW m, NEW n, IsNewest(m, S), IsNewest(n, S)
    PROVE  m = n
BY IndexesAreNaturals DEF IsNewest

LEMMA SpendTyped ==
    ASSUME TypeOK, NEW kind \in {"change", "provider", "crash", "time"}, Spend(kind)
    PROVE  /\ budget' \in [{"change", "provider", "crash", "time"} -> Nat]
           /\ budget[kind] \in Nat \ {0} /\ budget'[kind] = budget[kind] - 1
           /\ budget'["change"] <= budget["change"]
BY DEF TypeOK, Spend

LEMMA OpenIsOne ==
    ASSUME Inductive, NEW m \in Open
    PROVE  /\ Open = {m} /\ Newest(Open) = m
           /\ m \in Existing(outbox) /\ outbox[m] \in Row /\ outbox[m].request = NoSnapshot
           /\ IsNewest(m, Existing(outbox))
<1>1. \A n \in Open : IsNewest(n, Existing(outbox))
  BY DEF Inductive, Folding
<1>2. Open = {m}
  BY <1>1, OneNewest DEF Existing
<1>3. Newest(Open) = m
  BY <1>2, NewestIs DEF Open, IsNewest
<1>4. m \in Mails /\ outbox[m].request = NoSnapshot
  BY DEF Open
<1>5. m \in Existing(outbox) /\ outbox[m] \in Row
  BY <1>1, <1>4, RowOrNone DEF IsNewest, Inductive, TypeOK, Rows
<1>. QED
  BY <1>1, <1>2, <1>3, <1>4, <1>5

(* A run or the time: the mails keep what they say.                        *)
LEMMA TellingKept ==
    ASSUME Inductive, UNCHANGED stay,
           \A m \in Mails : Exists(m)' <=> Exists(m),
           \A m \in Mails : Exists(m) => /\ outbox'[m].kind = outbox[m].kind
                                         /\ outbox'[m].previous = outbox[m].previous
                                         /\ Says(m)' = Says(m),
           Open' \subseteq Open
    PROVE  Folding' /\ Told'
<1>1. Existing(outbox)' = Existing(outbox)
  BY DEF Existing, Exists
<1>2. \A m \in Existing(outbox) : m \in Mails /\ Exists(m)
  BY DEF Existing, Exists
<1>3. \A m \in Open : m \in Mails /\ Exists(m)
  BY DEF Open, Exists
<1>4. Folding'
  BY <1>1, <1>2, <1>3 DEF Inductive, Folding, IsNewest
<1>5. Told'
  BY <1>1, <1>2 DEF Inductive, Told, IsNewest
<1>. QED
  BY <1>4, <1>5

LEMMA InitInductive == Init => Inductive
<1>. SUFFICES ASSUME Init PROVE Inductive
  OBVIOUS
<1>1. budget \in [{"change", "provider", "crash", "time"} -> Nat] /\ budget["change"] <= MaxMails
  BY BudgetsAreNaturals DEF Init
<1>2. TypeOK
  BY <1>1, IndexesAreNaturals DEF Init, TypeOK, OpType, IdleOp, Day
<1>3. Existing(outbox) = {} /\ \A m \in Mails : ~Exists(m) /\ outbox[m] = NoRow
  BY DEF Init, Existing, Exists, NoRow
<1>4. Room /\ Runs /\ Keys
  BY <1>1, <1>3 DEF Init, Room, Runs, Keys, IdleOp
<1>5. Open = {}
  BY <1>3 DEF Open, NoRow
<1>6. Folding /\ Told
  BY <1>3, <1>5, SnapshotOrNone DEF Init, Folding, Told, IsNewest
<1>. QED
  BY <1>2, <1>4, <1>6 DEF Inductive

-----------------------------------------------------------------------------
(* The trigger *)

(* The trigger does not touch a mail that was tried.                       *)
LEMMA TriggerKeeps ==
    ASSUME Inductive, Spend("change"), UNCHANGED <<op, arrived, keyAge>>,
           stay' \in Snapshot, outbox' \in Rows, Room',
           \A m \in Mails :
               Exists(m) /\ outbox[m].request # NoSnapshot => outbox'[m] = outbox[m]
    PROVE  TypeOK' /\ Runs' /\ Keys'
<1>1. TypeOK'
  BY SpendTyped DEF Inductive, TypeOK, Rows
<1>2. Runs'
  BY DEF Inductive, Runs, Exists
<1>3. Keys'
  <2>1. \A m \in Mails : arrived[m] > 0 => /\ Exists(m) /\ outbox[m].request # NoSnapshot
                                           /\ keyAge[m] <= outbox[m].age
    BY DEF Inductive, Keys
  <2>2. \A m \in Mails : arrived[m] > 0 => outbox'[m] = outbox[m]
    BY <2>1
  <2>. QED
    BY <2>1, <2>2 DEF Inductive, Keys, Exists
<1>. QED
  BY <1>1, <1>2, <1>3

(* The place of a new mail: after all others, and there is room.           *)
LEMMA InsertedRow ==
    ASSUME NEW table \in Rows, NEW room \in Nat \ {0}, room <= MaxMails,
           \A m \in Existing(table) : m + room <= MaxMails,
           NEW kind \in {"new_reservation", "reservation_modified", "reservation_cancelled"},
           NEW new \in Snapshot, NEW old \in Snapshot \cup {NoSnapshot}
    PROVE  \E i \in Mails, row \in Row :
               /\ Inserted(table, kind, new, old) = [table EXCEPT ![i] = row]
               /\ \A m \in Existing(table) : m < i
               /\ i + (room - 1) <= MaxMails
               /\ row.kind = kind /\ row.snapshot = new /\ row.previous = old
               /\ row.request = NoSnapshot /\ row.status = "pending"
<1>. DEFINE i == IF Existing(table) = {} THEN 1 ELSE Newest(Existing(table)) + 1
            row == [kind |-> kind, snapshot |-> new, previous |-> old, status |-> "pending",
                    attempts |-> 0, request |-> NoSnapshot, age |-> 0, waiting |-> TRUE]
<1>1. row \in Row
  BY DEF Row, Day
<1>2. Existing(table) \in SUBSET Mails
  BY DEF Existing
<1>3. i \in Mails /\ (\A m \in Existing(table) : m < i) /\ i + (room - 1) <= MaxMails
  <2>1. CASE Existing(table) = {}
    BY <2>1, IndexesAreNaturals DEF Mails
  <2>2. CASE Existing(table) # {}
    <3>. DEFINE n == Newest(Existing(table))
    <3>1. n \in Existing(table) /\ \A m \in Existing(table) : m <= n
      BY <1>2, <2>2, NewestIs DEF IsNewest
    <3>. HIDE DEF n
    <3>2. n \in Nat /\ n >= 1 /\ n + room <= MaxMails
      BY <1>2, <3>1, IndexesAreNaturals DEF Mails
    <3>3. n + 1 \in Mails /\ n + 1 + (room - 1) <= MaxMails
      BY <3>2, IndexesAreNaturals DEF Mails
    <3>4. \A m \in Existing(table) : m < n + 1
      BY <1>2, <3>1, <3>2, IndexesAreNaturals
    <3>. QED
      BY <2>2, <3>3, <3>4 DEF n
  <2>. QED
    BY <2>1, <2>2
<1>4. Inserted(table, kind, new, old) = [table EXCEPT ![i] = row]
  BY DEF Inserted
<1>. HIDE DEF i
<1>. QED
  BY <1>1, <1>3, <1>4

(* A new mail is put after the others, of which one may have been taken    *)
(* back at the same time.                                                  *)
LEMMA InsertKeeps ==
    ASSUME Inductive, Spend("change"), UNCHANGED <<op, arrived, keyAge>>,
           NEW table \in Rows,
           \A m \in Mails : table[m] = outbox[m] \/ (m \in Open /\ table[m] = NoRow),
           NEW kind \in {"new_reservation", "reservation_modified", "reservation_cancelled"},
           NEW new \in Snapshot, NEW old \in Snapshot \cup {NoSnapshot},
           stay' = new,
           outbox' = Inserted(table, kind, new, old),
           kind # "reservation_cancelled" =>
               Open = {} /\ table = outbox /\ new.status = "confirmed",
           kind = "reservation_cancelled" =>
               new.status = "cancelled" /\ \A m \in Open : table[m] = NoRow,
           kind = "new_reservation" => Existing(outbox) = {},
           kind = "reservation_modified" => old = stay
    PROVE  Inductive'
<1>. DEFINE room == budget["change"]
<1>1. room \in Nat \ {0} /\ budget'["change"] = room - 1 /\ room <= MaxMails
  BY SpendTyped DEF Inductive, Room
<1>2. outbox \in Rows /\ Existing(outbox) \in SUBSET Mails /\ Existing(table) \subseteq Existing(outbox)
  <2>1. outbox \in Rows
    BY DEF Inductive, TypeOK, Rows
  <2>. QED
    BY <2>1, RowOrNone DEF Existing
<1>3. \A m \in Existing(table) : m + room <= MaxMails
  BY <1>2 DEF Inductive, Room, Existing, Exists
<1>. HIDE DEF room
<1>4. PICK i \in Mails, row \in Row :
          /\ outbox' = [table EXCEPT ![i] = row]
          /\ \A m \in Existing(table) : m < i
          /\ i + (room - 1) <= MaxMails
          /\ row.kind = kind /\ row.snapshot = new /\ row.previous = old
          /\ row.request = NoSnapshot /\ row.status = "pending"
  BY <1>1, <1>3, InsertedRow
<1>5. /\ outbox' \in Rows
      /\ outbox'[i] = row
      /\ \A m \in Mails : m # i => outbox'[m] = table[m]
  BY <1>4 DEF Rows
<1>6. i \notin Existing(table) /\ table[i] = NoRow
  BY <1>4, IndexesAreNaturals, RowOrNone
<1>7. Existing(outbox') = Existing(table) \cup {i}
  BY <1>5, <1>6, RowOrNone DEF Existing
<1>8. IsNewest(i, Existing(outbox'))
  <2>1. i \in Nat /\ Existing(table) \subseteq Nat /\ \A m \in Existing(table) : m < i
    BY <1>2, <1>4, IndexesAreNaturals
  <2>2. \A m \in Existing(table) \cup {i} : m <= i
    BY <2>1
  <2>. QED
    BY <1>7, <2>2 DEF IsNewest
<1>9. Room'
  BY <1>1, <1>2, <1>3, <1>4, <1>7, IndexesAreNaturals DEF Room, Existing, Exists
<1>10. \A m \in Mails :
           Exists(m) /\ outbox[m].request # NoSnapshot => m # i /\ outbox'[m] = outbox[m]
  <2>1. \A m \in Mails : Exists(m) /\ outbox[m].request # NoSnapshot => table[m] = outbox[m]
    BY DEF Open
  <2>2. \A m \in Mails : Exists(m) <=> outbox[m] # NoRow
    BY <1>2, RowOrNone DEF Existing, Exists
  <2>. QED
    BY <1>5, <1>6, <2>1, <2>2
<1>11. TypeOK' /\ Runs' /\ Keys'
  BY <1>5, <1>9, <1>10, TriggerKeeps
<1>12. Told'
  <2>1. Says(i)' = new
    BY <1>4, <1>5 DEF Says
  <2>2. \A m \in Mails : IsNewest(m, Existing(outbox')) => m = i
    BY <1>2, <1>7, <1>8, OneNewest
  <2>3. kind = "reservation_cancelled" => new.status # "confirmed"
    OBVIOUS
  <2>4. new # NoSnapshot
    BY SnapshotOrNone
  <2>. QED
    BY <1>7, <2>1, <2>2, <2>3, <2>4 DEF Told
<1>13. Open' \subseteq IF kind = "reservation_cancelled" THEN {} ELSE {i}
  <2>1. \A m \in Mails : m # i /\ m \in Open' => m \in Open /\ table[m] = outbox[m]
    <3>1. ASSUME NEW m \in Mails, m # i, m \in Open'
          PROVE  m \in Open /\ table[m] = outbox[m]
      <4>1. outbox'[m] = table[m]
        BY <1>5, <3>1
      <4>2. table[m] # NoRow
        BY <3>1, <4>1, RowOrNone DEF Open
      <4>. QED
        BY <3>1, <4>1, <4>2 DEF Open
    <3>. QED
      BY <3>1
  <2>2. \A m \in Open : outbox[m] # NoRow
    BY RowOrNone DEF Open
  <2>3. \A m \in Open' : m \in Mails
    BY DEF Open
  <2>4. kind = "reservation_cancelled" => i \notin Open'
    BY <1>4, <1>5 DEF Open
  <2>. QED
    BY <2>1, <2>2, <2>3, <2>4
<1>14. Folding'
  <2>. SUFFICES ASSUME kind # "reservation_cancelled", i \in Open'
                PROVE  /\ outbox'[i].kind = "new_reservation" => Existing(outbox') = {i}
                       /\ outbox'[i].kind = "reservation_modified"
                             /\ outbox'[i].previous.status = "confirmed" =>
                             \E n \in Mails :
                                 /\ IsNewest(n, Existing(outbox') \ {i})
                                 /\ Says(n)' = outbox'[i].previous
    BY <1>8, <1>13 DEF Folding
  <2>1. kind = "new_reservation" => Existing(outbox') = {i}
    BY <1>7
  <2>2. ASSUME kind = "reservation_modified", old.status = "confirmed"
        PROVE  \E n \in Mails : IsNewest(n, Existing(outbox') \ {i}) /\ Says(n)' = old
    <3>1. old = stay /\ stay.status = "confirmed" /\ Existing(outbox) # {}
      BY <2>2 DEF Inductive, Told
    <3>2. PICK n \in Existing(outbox) : IsNewest(n, Existing(outbox))
      BY <1>2, <3>1, Largest
    <3>3. Says(n) = old
      BY <1>2, <3>1, <3>2 DEF Inductive, Told
    <3>4. Existing(outbox') \ {i} = Existing(outbox) /\ n # i
      BY <1>6, <1>7, <3>2
    <3>5. Says(n)' = Says(n)
      BY <1>2, <1>5, <3>2, <3>4 DEF Says
    <3>. QED
      BY <1>2, <3>2, <3>3, <3>4, <3>5
  <2>. QED
    BY <1>4, <1>5, <2>1, <2>2
<1>. QED
  BY <1>9, <1>11, <1>12, <1>14 DEF Inductive

(* The mail that waits takes in the new state.                             *)
LEMMA FoldKeeps ==
    ASSUME Inductive, Spend("change"), UNCHANGED <<op, arrived, keyAge>>,
           NEW m \in Open, NEW new \in Snapshot, new.status = "confirmed",
           stay' = new,
           outbox' = [outbox EXCEPT ![m] = [outbox[m] EXCEPT !.snapshot = new, !.waiting = TRUE]]
    PROVE  Inductive'
<1>. DEFINE row == [outbox[m] EXCEPT !.snapshot = new, !.waiting = TRUE]
<1>1. /\ Open = {m} /\ m \in Mails /\ m \in Existing(outbox)
      /\ outbox[m] \in Row /\ outbox[m].request = NoSnapshot
      /\ IsNewest(m, Existing(outbox))
  BY OpenIsOne DEF Open
<1>2. /\ outbox' \in Rows
      /\ outbox'[m] = row
      /\ \A n \in Mails : n # m => outbox'[n] = outbox[n]
  <2>1. row \in Row
    BY <1>1 DEF Row
  <2>. QED
    BY <1>1, <2>1 DEF Rows, Inductive, TypeOK
<1>3. /\ outbox'[m].status = outbox[m].status
      /\ outbox'[m].snapshot = new
      /\ outbox'[m].request = NoSnapshot
      /\ outbox'[m].kind = outbox[m].kind
      /\ outbox'[m].previous = outbox[m].previous
  <2>1. /\ row.status = outbox[m].status
        /\ row.snapshot = new
        /\ row.request = outbox[m].request
        /\ row.kind = outbox[m].kind
        /\ row.previous = outbox[m].previous
    BY <1>1 DEF Row
  <2>. QED
    BY <1>1, <1>2, <2>1
<1>. HIDE DEF row
<1>4. Existing(outbox') = Existing(outbox) /\ \A n \in Mails : Exists(n)' <=> Exists(n)
  BY <1>1, <1>2, <1>3 DEF Existing, Exists
<1>5. Room'
  BY <1>4, SpendTyped, IndexesAreNaturals DEF Inductive, TypeOK, Room
<1>6. TypeOK' /\ Runs' /\ Keys'
  BY <1>1, <1>2, <1>5, TriggerKeeps
<1>7. Says(m)' = new /\ \A n \in Mails : n # m => Says(n)' = Says(n)
  <2>1. Says(m)' = new
    BY <1>3 DEF Says
  <2>2. \A n \in Mails : n # m => Says(n)' = Says(n)
    BY <1>2 DEF Says
  <2>. QED
    BY <2>1, <2>2
<1>8. Told'
  BY <1>1, <1>4, <1>7, OneNewest, SnapshotOrNone DEF Told, Existing
<1>9. Open' \subseteq {m}
  BY <1>1, <1>2 DEF Open
<1>10. Folding'
  <2>1. ASSUME outbox[m].kind = "reservation_modified", outbox[m].previous.status = "confirmed"
        PROVE  \E n \in Mails :
                   IsNewest(n, Existing(outbox') \ {m}) /\ Says(n)' = outbox[m].previous
    <3>1. PICK n \in Mails :
              IsNewest(n, Existing(outbox) \ {m}) /\ Says(n) = outbox[m].previous
      BY <1>1, <2>1 DEF Inductive, Folding
    <3>2. n # m
      BY <3>1 DEF IsNewest
    <3>. QED
      BY <1>4, <1>7, <3>1, <3>2
  <2>2. outbox[m].kind = "new_reservation" => Existing(outbox') = {m}
    BY <1>1, <1>4 DEF Inductive, Folding
  <2>. QED
    BY <1>1, <1>3, <1>4, <1>9, <2>1, <2>2 DEF Folding
<1>. QED
  BY <1>5, <1>6, <1>8, <1>10 DEF Inductive

(* The mail that waits is taken back: what was told before is true again.  *)
LEMMA TakeBackKeeps ==
    ASSUME Inductive, Spend("change"), UNCHANGED <<op, arrived, keyAge>>,
           NEW m \in Open, NEW new \in Snapshot, stay' = new, outbox' = Deleted(m),
           \/ outbox[m].kind = "new_reservation" /\ new.status = "cancelled"
           \/ /\ outbox[m].kind = "reservation_modified" /\ new = outbox[m].previous
              /\ new.status = "confirmed"
    PROVE  Inductive'
<1>1. /\ Open = {m} /\ m \in Mails /\ m \in Existing(outbox)
      /\ outbox[m] \in Row /\ outbox[m].request = NoSnapshot
  BY OpenIsOne DEF Open
<1>2. /\ outbox' \in Rows
      /\ outbox'[m] = NoRow
      /\ \A n \in Mails : n # m => outbox'[n] = outbox[n]
  BY <1>1 DEF Deleted, Rows, Inductive, TypeOK
<1>3. Existing(outbox') = Existing(outbox) \ {m}
  BY <1>1, <1>2, RowOrNone DEF Existing
<1>4. Room'
  BY <1>3, SpendTyped, IndexesAreNaturals DEF Inductive, TypeOK, Room, Existing, Exists
<1>5. TypeOK' /\ Runs' /\ Keys'
  BY <1>1, <1>2, <1>4, TriggerKeeps
<1>6. Open' = {}
  BY <1>1, <1>2, RowOrNone DEF Open
<1>7. Told'
  <2>1. CASE outbox[m].kind = "new_reservation" /\ new.status = "cancelled"
    <3>1. Existing(outbox') = {}
      BY <1>1, <1>3, <2>1 DEF Inductive, Folding
    <3>. QED
      BY <2>1, <3>1 DEF Told, IsNewest
  <2>2. CASE /\ outbox[m].kind = "reservation_modified" /\ new = outbox[m].previous
             /\ new.status = "confirmed"
    <3>1. PICK n \in Mails : IsNewest(n, Existing(outbox')) /\ Says(n) = new
      BY <1>1, <1>3, <2>2 DEF Inductive, Folding
    <3>2. n # m /\ Existing(outbox') # {}
      BY <1>3, <3>1 DEF IsNewest
    <3>3. Says(n)' = new
      BY <1>2, <3>1, <3>2 DEF Says
    <3>4. \A k \in Mails : IsNewest(k, Existing(outbox')) => k = n
      BY <3>1, OneNewest DEF Existing
    <3>. QED
      BY <2>2, <3>2, <3>3, <3>4, SnapshotOrNone DEF Told
  <2>. QED
    BY <2>1, <2>2
<1>. QED
  BY <1>4, <1>5, <1>6, <1>7 DEF Inductive, Folding

(* A write the trigger passes over                                         *)
LEMMA SilentKeeps ==
    ASSUME Inductive, Spend("change"), UNCHANGED <<outbox, op, arrived, keyAge>>,
           stay' \in Snapshot, stay.status # "confirmed", stay'.status = "cancelled"
    PROVE  Inductive'
<1>1. Room'
  BY SpendTyped, IndexesAreNaturals DEF Inductive, TypeOK, Room, Exists
<1>2. TypeOK' /\ Runs' /\ Keys'
  BY <1>1, TriggerKeeps DEF Inductive, TypeOK, Rows
<1>3. Folding'
  BY DEF Inductive, Folding, Open, Says
<1>4. Told'
  BY SnapshotOrNone DEF Inductive, Told, Says
<1>. QED
  BY <1>1, <1>2, <1>3, <1>4 DEF Inductive

LEMMA CreateStayStep ==
    ASSUME Inductive, NEW new \in Snapshot, CreateStay(new)
    PROVE  Inductive'
<1>1. /\ stay = NoSnapshot /\ Spend("change") /\ stay' = new
      /\ UNCHANGED <<op, arrived, keyAge>>
  BY DEF CreateStay
<1>2. Existing(outbox) = {}
  BY <1>1 DEF Inductive, Told
<1>3. CASE new.status = "cancelled"
  BY <1>1, <1>3, SilentKeeps, SnapshotOrNone DEF CreateStay
<1>4. CASE new.status # "cancelled"
  <2>1. outbox' = Inserted(outbox, "new_reservation", new, NoSnapshot)
    BY <1>4 DEF CreateStay
  <2>2. new.status = "confirmed"
    BY <1>4 DEF Snapshot
  <2>3. Open = {}
    BY <1>2 DEF Open, Existing
  <2>4. outbox \in Rows
    BY DEF Inductive, TypeOK, Rows
  <2>. QED
    BY <1>1, <1>2, <2>1, <2>2, <2>3, <2>4, InsertKeeps
<1>. QED
  BY <1>3, <1>4

LEMMA UpdateStayStep ==
    ASSUME Inductive, NEW new \in Snapshot, UpdateStay(new)
    PROVE  Inductive'
<1>1. /\ stay \in Snapshot /\ Spend("change") /\ stay' = new
      /\ UNCHANGED <<op, arrived, keyAge>>
  BY DEF UpdateStay, Inductive, TypeOK
<1>2. /\ new.status \in {"confirmed", "cancelled"}
      /\ stay.status \in {"confirmed", "cancelled"}
      /\ outbox \in Rows
  BY <1>1 DEF Snapshot, Inductive, TypeOK, Rows
<1>3. CASE new.status = "confirmed"
  <2>1. outbox' = Modified(new)
    BY <1>3 DEF UpdateStay
  <2>2. CASE Open = {}
    <3>1. outbox' = Inserted(outbox, "reservation_modified", new, stay)
      BY <2>1, <2>2 DEF Modified
    <3>. QED
      BY <1>1, <1>2, <1>3, <2>2, <3>1, InsertKeeps
  <2>3. CASE Open # {}
    <3>1. PICK m \in Open : Newest(Open) = m
      BY <2>3, OpenIsOne
    <3>2. CASE outbox[m].kind = "reservation_modified" /\ new = outbox[m].previous
      <4>1. outbox' = Deleted(m)
        BY <2>1, <2>3, <3>1, <3>2 DEF Modified
      <4>. QED
        BY <1>1, <1>3, <3>2, <4>1, TakeBackKeeps
    <3>3. CASE ~(outbox[m].kind = "reservation_modified" /\ new = outbox[m].previous)
      <4>1. outbox' = [outbox EXCEPT ![m].snapshot = new, ![m].waiting = TRUE]
        BY <2>1, <2>3, <3>1, <3>3 DEF Modified
      <4>2. m \in Mails /\ outbox[m] \in Row
        BY OpenIsOne DEF Open
      <4>3. [outbox EXCEPT ![m].snapshot = new, ![m].waiting = TRUE] =
                [outbox EXCEPT ![m] = [outbox[m] EXCEPT !.snapshot = new, !.waiting = TRUE]]
        BY <1>2, <4>2 DEF Rows
      <4>. QED
        BY <1>1, <1>3, <4>1, <4>3, FoldKeeps
    <3>. QED
      BY <3>2, <3>3
  <2>. QED
    BY <2>2, <2>3
<1>4. CASE new.status = "cancelled" /\ stay.status = "confirmed"
  <2>1. outbox' = Cancelled(new)
    BY <1>4 DEF UpdateStay
  <2>2. CASE Open = {}
    <3>1. outbox' = Inserted(outbox, "reservation_cancelled", new, stay)
      BY <2>1, <2>2 DEF Cancelled
    <3>. QED
      BY <1>1, <1>2, <1>4, <2>2, <3>1, InsertKeeps
  <2>3. CASE Open # {}
    <3>1. PICK m \in Open : Newest(Open) = m /\ Open = {m}
      BY <2>3, OpenIsOne
    <3>2. CASE outbox[m].kind = "new_reservation"
      <4>1. outbox' = Deleted(m)
        BY <2>1, <2>3, <3>1, <3>2 DEF Cancelled
      <4>. QED
        BY <1>1, <1>4, <3>2, <4>1, TakeBackKeeps
    <3>3. CASE outbox[m].kind # "new_reservation"
      <4>1. outbox' = Inserted(Deleted(m), "reservation_cancelled", new, outbox[m].previous)
        BY <2>1, <2>3, <3>1, <3>3 DEF Cancelled
      <4>2. m \in Mails /\ outbox[m].previous \in Snapshot \cup {NoSnapshot}
        BY OpenIsOne DEF Open, Row
      <4>3. /\ Deleted(m) \in Rows
            /\ Deleted(m)[m] = NoRow
            /\ \A n \in Mails : n # m => Deleted(m)[n] = outbox[n]
        BY <1>2, <4>2 DEF Deleted, Rows
      <4>. QED
        BY <1>1, <1>4, <3>1, <4>1, <4>2, <4>3, InsertKeeps
    <3>. QED
      BY <3>2, <3>3
  <2>. QED
    BY <2>2, <2>3
<1>5. CASE new.status = "cancelled" /\ stay.status = "cancelled"
  <2>1. outbox' = outbox
    BY <1>5 DEF UpdateStay
  <2>. QED
    BY <1>1, <1>5, <2>1, SilentKeeps
<1>. QED
  BY <1>2, <1>3, <1>4, <1>5

-----------------------------------------------------------------------------
(* dispatch *)

LEMMA OpFields ==
    ASSUME Inductive, NEW b \in Backends
    PROVE  op[b] \in OpType
BY DEF Inductive, TypeOK

(* The row of the mail m changes, what the mail says stays.                *)
LEMMA RowKeeps ==
    ASSUME Inductive, NEW m \in Mails, Exists(m),
           NEW row \in Row, outbox' = [outbox EXCEPT ![m] = row],
           row.kind = outbox[m].kind, row.previous = outbox[m].previous,
           row.snapshot = outbox[m].snapshot,
           \/ row.request = outbox[m].request
           \/ outbox[m].request = NoSnapshot /\ row.request = row.snapshot,
           row.request = NoSnapshot => row.status = outbox[m].status,
           UNCHANGED <<stay, arrived>>,
           budget' \in [{"change", "provider", "crash", "time"} -> Nat],
           budget'["change"] <= budget["change"],
           keyAge' \in [Mails -> 0 .. Day],
           \A n \in Mails : n # m => keyAge'[n] = keyAge[n],
           arrived[m] > 0 /\ keyAge[m] <= outbox[m].age => keyAge'[m] <= row.age,
           op' \in [Backends -> OpType],
           \A b \in Backends :
               \/ op'[b] = op[b] /\ (op[b].mail = m => keyAge'[m] = keyAge[m])
               \/ op'[b].pc # "idle" => /\ op'[b].mail = m /\ row.request # NoSnapshot
                                        /\ arrived[m] = 0 \/ keyAge'[m] < Day
    PROVE  Inductive'
<1>1. outbox \in Rows /\ outbox[m] \in Row
  BY RowOrNone DEF Inductive, TypeOK, Rows, Existing, Exists
<1>2. outbox' \in Rows /\ outbox'[m] = row /\ \A n \in Mails : n # m => outbox'[n] = outbox[n]
  BY <1>1 DEF Rows
<1>3. \A n \in Mails : Exists(n)' <=> Exists(n)
  BY <1>2, RowOrNone DEF Exists
<1>4. Says(m)' = Says(m)
  BY <1>2 DEF Says
<1>5. \A n \in Mails : n # m => Says(n)' = Says(n)
  BY <1>2 DEF Says
<1>6. \A n \in Mails : outbox[n].request # NoSnapshot => outbox'[n].request # NoSnapshot
  <2>1. row.request = NoSnapshot => outbox[m].request = NoSnapshot
    OBVIOUS
  <2>. QED
    BY <1>2, <2>1
<1>7. Open' \subseteq Open
  <2>1. \A n \in Open' : n \in Mails
    BY DEF Open
  <2>2. m \in Open' => m \in Open
    BY <1>2, <1>6 DEF Open
  <2>3. \A n \in Mails : n # m /\ n \in Open' => n \in Open
    BY <1>2 DEF Open
  <2>. QED
    BY <2>1, <2>2, <2>3
<1>8. Folding' /\ Told'
  BY <1>2, <1>3, <1>4, <1>5, <1>7, TellingKept
<1>9. TypeOK'
  BY <1>2 DEF Inductive, TypeOK, Rows
<1>10. Room'
  <2>1. budget["change"] \in Nat /\ budget'["change"] \in Nat
    BY DEF Inductive, TypeOK
  <2>. QED
    BY <1>3, <2>1, IndexesAreNaturals DEF Inductive, Room
<1>11. Runs'
  <2>. SUFFICES ASSUME NEW b \in Backends, op'[b].pc # "idle"
                PROVE  \E n \in Mails : /\ op'[b].mail = n /\ Exists(n)'
                                        /\ outbox'[n].request # NoSnapshot
                                        /\ op'[b].pc \in {"lock", "send"} =>
                                               arrived'[n] = 0 \/ keyAge'[n] < Day
    BY DEF Runs, Exists
  <2>1. CASE op'[b] = op[b] /\ (op[b].mail = m => keyAge'[m] = keyAge[m])
    <3>1. PICK n \in Mails : /\ op[b].mail = n /\ Exists(n) /\ outbox[n].request # NoSnapshot
                             /\ op[b].pc \in {"lock", "send"} => arrived[n] = 0 \/ keyAge[n] < Day
      BY <2>1 DEF Inductive, Runs
    <3>2. keyAge'[n] = keyAge[n]
      BY <2>1, <3>1
    <3>. QED
      BY <1>3, <1>6, <2>1, <3>1, <3>2
  <2>2. CASE /\ op'[b].mail = m /\ row.request # NoSnapshot
             /\ arrived[m] = 0 \/ keyAge'[m] < Day
    BY <1>2, <1>3, <2>2
  <2>. QED
    BY <2>1, <2>2
<1>12. Keys'
  <2>1. \A n \in Mails : n # m /\ arrived[n] > 0 => keyAge'[n] <= outbox'[n].age
    BY <1>2 DEF Inductive, Keys
  <2>2. arrived[m] > 0 => keyAge'[m] <= outbox'[m].age
    BY <1>2 DEF Inductive, Keys
  <2>. QED
    BY <1>3, <1>6, <2>1, <2>2 DEF Inductive, Keys
<1>. QED
  BY <1>8, <1>9, <1>10, <1>11, <1>12 DEF Inductive

LEMMA StatementKeeps ==
    ASSUME Inductive, NEW b \in Backends, NEW o \in OpType, Continue(b, o),
           UNCHANGED <<stay, arrived, keyAge, budget>>,
           NEW m \in Mails, Exists(m), NEW row \in Row, outbox' = [outbox EXCEPT ![m] = row],
           row.kind = outbox[m].kind, row.previous = outbox[m].previous,
           row.snapshot = outbox[m].snapshot, row.age = outbox[m].age,
           \/ row.request = outbox[m].request
           \/ outbox[m].request = NoSnapshot /\ row.request = row.snapshot,
           row.request = NoSnapshot => row.status = outbox[m].status,
           o.pc # "idle" => /\ o.mail = m /\ row.request # NoSnapshot
                            /\ arrived[m] = 0 \/ keyAge[m] < Day
    PROVE  Inductive'
<1>1. op' \in [Backends -> OpType] /\ op'[b] = o /\ \A a \in Backends : a # b => op'[a] = op[a]
  BY DEF Continue, Inductive, TypeOK
<1>2. /\ keyAge' \in [Mails -> 0 .. Day]
      /\ budget' \in [{"change", "provider", "crash", "time"} -> Nat]
      /\ budget'["change"] <= budget["change"]
  BY DEF Inductive, TypeOK
<1>. QED
  BY <1>1, <1>2, RowKeeps

LEMMA LeaseStep ==
    ASSUME Inductive, NEW b \in Backends, Lease(b)
    PROVE  Inductive'
<1>. DEFINE m == Oldest(Due)
<1>1. m \in Due
  <2>1. Due # {} /\ Due \in SUBSET Mails
    BY DEF Lease, Due
  <2>2. \E k \in Due : \A n \in Due : k <= n
    BY <2>1, Earliest
  <2>. QED
    BY <2>2 DEF Oldest
<1>2. UNCHANGED <<stay, arrived, keyAge, budget>> /\ op[b].pc = "idle"
  BY DEF Lease
<1>3. outbox[m].request # NoSnapshot /\ outbox[m].age >= Window =>
          outbox' = [outbox EXCEPT ![m].status = "failed"] /\ UNCHANGED op
  BY DEF Lease
<1>4. ~(outbox[m].request # NoSnapshot /\ outbox[m].age >= Window) =>
          /\ outbox' = [outbox EXCEPT ![m] = Leased(outbox[m])]
          /\ Continue(b, [IdleOp EXCEPT !.pc = "lock", !.mail = m,
                                        !.tries = outbox[m].attempts])
  BY DEF Lease
<1>. HIDE DEF m
<1>5. m \in Mails /\ outbox[m].status = "pending" /\ Exists(m)
  BY <1>1 DEF Due, Exists
<1>6. outbox[m] \in Row /\ outbox \in Rows
  BY <1>5, RowOrNone DEF Inductive, TypeOK, Rows, Existing, Exists
<1>7. CASE outbox[m].request # NoSnapshot /\ outbox[m].age >= Window
  <2>. DEFINE row == [outbox[m] EXCEPT !.status = "failed"]
  <2>1. outbox' = [outbox EXCEPT ![m] = row]
    BY <1>3, <1>7
  <2>2. /\ row \in Row /\ row.kind = outbox[m].kind /\ row.previous = outbox[m].previous
        /\ row.snapshot = outbox[m].snapshot /\ row.age = outbox[m].age
        /\ row.request = outbox[m].request /\ row.request # NoSnapshot
    BY <1>6, <1>7 DEF Row
  <2>3. op[b] \in OpType /\ Continue(b, op[b])
    BY <1>3, <1>7, OpFields DEF Continue, Inductive, TypeOK
  <2>. HIDE DEF row
  <2>. QED
    BY <1>2, <1>5, <2>1, <2>2, <2>3, StatementKeeps
<1>8. CASE ~(outbox[m].request # NoSnapshot /\ outbox[m].age >= Window)
  <2>. DEFINE row == Leased(outbox[m])
              o == [IdleOp EXCEPT !.pc = "lock", !.mail = m, !.tries = outbox[m].attempts]
  <2>1. outbox' = [outbox EXCEPT ![m] = row] /\ Continue(b, o)
    BY <1>4, <1>8
  <2>2. ASSUME NEW r \in Row
        PROVE  /\ Leased(r) \in Row /\ Leased(r).kind = r.kind
               /\ Leased(r).previous = r.previous /\ Leased(r).snapshot = r.snapshot
               /\ Leased(r).age = r.age /\ Leased(r).status = r.status
               /\ Leased(r).request = IF r.request = NoSnapshot THEN r.snapshot ELSE r.request
    <3>1. /\ r.attempts + 1 \in Nat
          /\ (IF r.request = NoSnapshot THEN r.snapshot ELSE r.request) \in
                 Snapshot \cup {NoSnapshot}
      BY DEF Row
    <3>. QED
      BY <3>1 DEF Row, Leased
  <2>3. /\ row \in Row /\ row.kind = outbox[m].kind /\ row.previous = outbox[m].previous
        /\ row.snapshot = outbox[m].snapshot /\ row.age = outbox[m].age
        /\ row.status = outbox[m].status
        /\ row.request = IF outbox[m].request = NoSnapshot THEN outbox[m].snapshot
                         ELSE outbox[m].request
    BY <1>6, <2>2
  <2>4. row.request # NoSnapshot /\ row.snapshot # NoSnapshot
    <3>1. outbox[m].snapshot # NoSnapshot
      BY <1>6, SnapshotOrNone DEF Row
    <3>. QED
      BY <2>3, <3>1
  <2>5. arrived[m] = 0 \/ keyAge[m] < Day
    <3>1. arrived[m] \in Nat /\ keyAge[m] \in 0 .. Day /\ outbox[m].age \in 0 .. Day
      BY <1>5, <1>6 DEF Inductive, TypeOK, Row
    <3>2. arrived[m] > 0 => outbox[m].request # NoSnapshot /\ keyAge[m] <= outbox[m].age
      BY <1>5 DEF Inductive, Keys
    <3>. QED
      BY <1>8, <3>1, <3>2 DEF Window, Day
  <2>6. o \in OpType /\ o.mail = m
    <3>1. outbox[m].attempts \in Nat /\ m \in 0 .. MaxMails
      BY <1>5, <1>6, IndexesAreNaturals DEF Row, Mails
    <3>. QED
      BY <3>1 DEF IdleOp, OpType
  <2>. HIDE DEF row, o
  <2>. QED
    BY <1>2, <1>5, <2>1, <2>3, <2>4, <2>5, <2>6, StatementKeeps
<1>. QED
  BY <1>7, <1>8

(* A step of the run b that leaves the mails alone                         *)
LEMMA RunKeeps ==
    ASSUME Inductive, NEW b \in Backends, NEW o \in OpType, Continue(b, o),
           UNCHANGED <<stay, outbox>>,
           budget' \in [{"change", "provider", "crash", "time"} -> Nat],
           budget'["change"] <= budget["change"],
           arrived' \in [Mails -> Nat], keyAge' \in [Mails -> 0 .. Day], Keys',
           \A n \in Mails : arrived[n] = 0 \/ keyAge[n] < Day =>
                                arrived'[n] = 0 \/ keyAge'[n] < Day,
           o.pc # "idle" => op[b].pc # "idle" /\ o.mail = op[b].mail,
           o.pc \in {"lock", "send"} => op[b].pc \in {"lock", "send"}
    PROVE  Inductive'
<1>1. op' \in [Backends -> OpType] /\ op'[b] = o /\ \A a \in Backends : a # b => op'[a] = op[a]
  BY DEF Continue, Inductive, TypeOK
<1>2. TypeOK'
  BY <1>1 DEF Inductive, TypeOK
<1>3. Room'
  <2>1. budget["change"] \in Nat /\ budget'["change"] \in Nat
    BY DEF Inductive, TypeOK
  <2>2. \A n \in Mails : Exists(n)' <=> Exists(n)
    BY DEF Exists
  <2>. QED
    BY <2>1, <2>2, IndexesAreNaturals DEF Inductive, Room
<1>4. \A a \in Backends :
          op'[a].pc # "idle" =>
              /\ op[a].pc # "idle" /\ op'[a].mail = op[a].mail
              /\ op'[a].pc \in {"lock", "send"} => op[a].pc \in {"lock", "send"}
  BY <1>1
<1>5. Runs'
  <2>. SUFFICES ASSUME NEW a \in Backends, op'[a].pc # "idle"
                PROVE  \E n \in Mails : /\ op'[a].mail = n /\ Exists(n)'
                                        /\ outbox'[n].request # NoSnapshot
                                        /\ op'[a].pc \in {"lock", "send"} =>
                                               arrived'[n] = 0 \/ keyAge'[n] < Day
    BY DEF Runs, Exists
  <2>1. PICK n \in Mails : /\ op[a].mail = n /\ Exists(n) /\ outbox[n].request # NoSnapshot
                           /\ op[a].pc \in {"lock", "send"} => arrived[n] = 0 \/ keyAge[n] < Day
    BY <1>4 DEF Inductive, Runs
  <2>. QED
    BY <1>4, <2>1 DEF Exists
<1>6. Folding' /\ Told'
  BY DEF Inductive, Folding, Told, Open, Says
<1>. QED
  BY <1>2, <1>3, <1>5, <1>6 DEF Inductive

LEMMA LockAgainStep ==
    ASSUME Inductive, NEW b \in Backends, LockAgain(b)
    PROVE  Inductive'
<1>. DEFINE o == [op[b] EXCEPT !.pc = "send"]
<1>1. /\ Continue(b, o) /\ op[b].pc = "lock"
      /\ UNCHANGED <<stay, outbox, arrived, keyAge, budget>>
  BY DEF LockAgain
<1>2. o \in OpType /\ o.mail = op[b].mail /\ o.pc = "send"
  BY OpFields DEF OpType
<1>3. Keys' /\ arrived' \in [Mails -> Nat] /\ keyAge' \in [Mails -> 0 .. Day]
  BY <1>1 DEF Inductive, TypeOK, Keys, Exists
<1>4. /\ budget' \in [{"change", "provider", "crash", "time"} -> Nat]
      /\ budget'["change"] <= budget["change"]
  BY <1>1 DEF Inductive, TypeOK
<1>. HIDE DEF o
<1>. QED
  BY <1>1, <1>2, <1>3, <1>4, RunKeeps

LEMMA SendStep ==
    ASSUME Inductive, NEW b \in Backends, Send(b)
    PROVE  Inductive'
<1>1. PICK outcome \in {"sent", "retry", "terminal"} : Answer(b, outcome)
  BY DEF Send
<1>. DEFINE o == [op[b] EXCEPT !.pc = "record", !.outcome = outcome]
<1>2. Continue(b, o) /\ op[b].pc = "send" /\ UNCHANGED <<stay, outbox>>
  BY <1>1 DEF Send, Answer
<1>3. o \in OpType /\ o.mail = op[b].mail /\ o.pc = "record"
  BY OpFields DEF OpType
<1>4. UNCHANGED budget \/ Spend("provider")
  BY DEF Send
<1>5. /\ budget' \in [{"change", "provider", "crash", "time"} -> Nat]
      /\ budget'["change"] <= budget["change"]
  BY <1>4, SpendTyped DEF Inductive, TypeOK
<1>6. PICK m \in Mails : op[b].mail = m /\ Exists(m) /\ outbox[m].request # NoSnapshot
                         /\ (arrived[m] = 0 \/ keyAge[m] < Day)
  BY <1>2 DEF Inductive, Runs
<1>7. arrived \in [Mails -> Nat] /\ keyAge \in [Mails -> 0 .. Day]
  BY DEF Inductive, TypeOK
<1>8. outbox[m].age \in 0 .. Day
  BY <1>6, RowOrNone DEF Inductive, TypeOK, Rows, Existing, Exists, Row
<1>9. CASE UNCHANGED <<arrived, keyAge>>
  <2>1. Keys'
    BY <1>2, <1>9 DEF Inductive, Keys, Exists
  <2>. HIDE DEF o
  <2>. QED
    BY <1>2, <1>3, <1>5, <1>7, <1>9, <2>1, RunKeeps
<1>10. CASE /\ arrived' = [arrived EXCEPT ![m] = IF keyAge[m] < Day THEN @ ELSE @ + 1]
            /\ keyAge' = [keyAge EXCEPT ![m] = IF @ < Day THEN @ ELSE 0]
  <2>1. /\ arrived' \in [Mails -> Nat] /\ keyAge' \in [Mails -> 0 .. Day]
        /\ arrived'[m] = IF keyAge[m] < Day THEN arrived[m] ELSE arrived[m] + 1
        /\ keyAge'[m] = IF keyAge[m] < Day THEN keyAge[m] ELSE 0
        /\ \A n \in Mails : n # m => arrived'[n] = arrived[n] /\ keyAge'[n] = keyAge[n]
    BY <1>7, <1>10 DEF Day
  <2>2. /\ arrived'[m] <= 1 /\ keyAge'[m] < Day
        /\ arrived'[m] > 0 => keyAge'[m] <= outbox[m].age
    <3>1. arrived[m] <= 1 /\ (arrived[m] > 0 => keyAge[m] <= outbox[m].age)
      BY DEF Inductive, Keys
    <3>2. CASE keyAge[m] < Day
      BY <2>1, <3>1, <3>2
    <3>3. CASE ~(keyAge[m] < Day)
      BY <1>6, <1>7, <1>8, <2>1, <3>3 DEF Day
    <3>. QED
      BY <3>2, <3>3
  <2>3. Keys'
    BY <1>2, <1>6, <2>1, <2>2 DEF Inductive, Keys, Exists
  <2>4. \A n \in Mails : arrived[n] = 0 \/ keyAge[n] < Day =>
                             arrived'[n] = 0 \/ keyAge'[n] < Day
    BY <2>1, <2>2
  <2>. HIDE DEF o
  <2>. QED
    BY <1>2, <1>3, <1>5, <2>1, <2>3, <2>4, RunKeeps
<1>. QED
  BY <1>6, <1>9, <1>10 DEF Send

LEMMA RecordStep ==
    ASSUME Inductive, NEW b \in Backends, Record(b)
    PROVE  Inductive'
<1>1. PICK m \in Mails : op[b].mail = m /\ Exists(m) /\ outbox[m].request # NoSnapshot
  BY DEF Record, Inductive, Runs
<1>2. outbox[m] \in Row /\ outbox \in Rows
  BY <1>1, RowOrNone DEF Inductive, TypeOK, Rows, Existing, Exists
<1>. DEFINE row == [outbox[m] EXCEPT !.status = Settled(b), !.waiting = (Settled(b) = "pending")]
<1>3. Settled(b) \in {"pending", "sent", "failed"}
  BY DEF Settled
<1>4. outbox' = [outbox EXCEPT ![m].status = Settled(b),
                               ![m].waiting = (Settled(b) = "pending")]
  BY <1>1 DEF Record
<1>5. outbox' = [outbox EXCEPT ![m] = row]
  BY <1>2, <1>4 DEF Rows
<1>6. /\ row \in Row /\ row.kind = outbox[m].kind /\ row.previous = outbox[m].previous
      /\ row.snapshot = outbox[m].snapshot /\ row.age = outbox[m].age
      /\ row.request = outbox[m].request
  <2>1. (Settled(b) = "pending") \in BOOLEAN
    OBVIOUS
  <2>. QED
    BY <1>2, <1>3, <2>1 DEF Row
<1>7. Continue(b, IdleOp) /\ UNCHANGED <<stay, arrived, keyAge, budget>>
  BY DEF Record
<1>8. IdleOp \in OpType /\ IdleOp.pc = "idle"
  BY IndexesAreNaturals DEF IdleOp, OpType
<1>. HIDE DEF row
<1>. QED
  BY <1>1, <1>5, <1>6, <1>7, <1>8, StatementKeeps

LEMMA CrashStep ==
    ASSUME Inductive, NEW b \in Backends, Crash(b)
    PROVE  Inductive'
<1>1. Continue(b, IdleOp) /\ Spend("crash") /\ UNCHANGED <<stay, outbox, arrived, keyAge>>
  BY DEF Crash
<1>2. IdleOp \in OpType /\ IdleOp.pc = "idle"
  BY IndexesAreNaturals DEF IdleOp, OpType
<1>3. Keys' /\ arrived' \in [Mails -> Nat] /\ keyAge' \in [Mails -> 0 .. Day]
  BY <1>1 DEF Inductive, TypeOK, Keys, Exists
<1>4. /\ budget' \in [{"change", "provider", "crash", "time"} -> Nat]
      /\ budget'["change"] <= budget["change"]
  BY <1>1, SpendTyped DEF Inductive
<1>. QED
  BY <1>1, <1>2, <1>3, <1>4, RunKeeps

-----------------------------------------------------------------------------
(* Time *)

LEMMA ComesDueStep ==
    ASSUME Inductive, NEW m \in Mails, ComesDue(m)
    PROVE  Inductive'
<1>1. /\ Exists(m) /\ outbox' = [outbox EXCEPT ![m].waiting = FALSE]
      /\ UNCHANGED <<stay, op, arrived, keyAge, budget>>
  BY DEF ComesDue, Rests, Exists
<1>2. outbox[m] \in Row /\ outbox \in Rows
  BY <1>1, RowOrNone DEF Inductive, TypeOK, Rows, Existing, Exists
<1>. DEFINE row == [outbox[m] EXCEPT !.waiting = FALSE]
<1>3. outbox' = [outbox EXCEPT ![m] = row]
  BY <1>1, <1>2 DEF Rows
<1>4. /\ row \in Row /\ row.kind = outbox[m].kind /\ row.previous = outbox[m].previous
      /\ row.snapshot = outbox[m].snapshot /\ row.age = outbox[m].age
      /\ row.request = outbox[m].request /\ row.status = outbox[m].status
  BY <1>2 DEF Row
<1>5. /\ keyAge' \in [Mails -> 0 .. Day] /\ op' \in [Backends -> OpType]
      /\ budget' \in [{"change", "provider", "crash", "time"} -> Nat]
      /\ budget'["change"] <= budget["change"]
  BY <1>1 DEF Inductive, TypeOK
<1>. HIDE DEF row
<1>. QED
  BY <1>1, <1>3, <1>4, <1>5, RowKeeps

LEMMA TimePassesStep ==
    ASSUME Inductive, NEW m \in Mails, NEW hours \in Pauses, TimePasses(m, hours)
    PROVE  Inductive'
<1>1. /\ Exists(m) /\ Spend("time") /\ UNCHANGED <<stay, op, arrived>>
      /\ \A b \in Backends : op[b].mail # m
  BY DEF TimePasses, Rests, Held, Exists
<1>2. outbox[m] \in Row /\ outbox \in Rows /\ keyAge \in [Mails -> 0 .. Day]
  BY <1>1, RowOrNone DEF Inductive, TypeOK, Rows, Existing, Exists
<1>3. /\ outbox' = [outbox EXCEPT ![m].age = Later(outbox[m].age, hours)]
      /\ keyAge' = [keyAge EXCEPT ![m] = Later(keyAge[m], hours)]
  BY <1>2 DEF TimePasses, Rows
<1>4. outbox[m].age \in 0 .. Day /\ keyAge[m] \in 0 .. Day /\ hours \in Nat
  BY <1>2, PausesAreNaturals DEF Row
<1>5. /\ Later(outbox[m].age, hours) \in 0 .. Day /\ Later(keyAge[m], hours) \in 0 .. Day
      /\ keyAge[m] <= outbox[m].age => Later(keyAge[m], hours) <= Later(outbox[m].age, hours)
  BY <1>4 DEF Later, Day
<1>. DEFINE row == [outbox[m] EXCEPT !.age = Later(outbox[m].age, hours)]
<1>6. outbox' = [outbox EXCEPT ![m] = row]
  BY <1>2, <1>3 DEF Rows
<1>7. /\ row \in Row /\ row.kind = outbox[m].kind /\ row.previous = outbox[m].previous
      /\ row.snapshot = outbox[m].snapshot /\ row.age = Later(outbox[m].age, hours)
      /\ row.request = outbox[m].request /\ row.status = outbox[m].status
  BY <1>2, <1>5 DEF Row
<1>8. /\ keyAge' \in [Mails -> 0 .. Day] /\ keyAge'[m] = Later(keyAge[m], hours)
      /\ \A n \in Mails : n # m => keyAge'[n] = keyAge[n]
  BY <1>2, <1>3, <1>5
<1>9. /\ op' \in [Backends -> OpType]
      /\ budget' \in [{"change", "provider", "crash", "time"} -> Nat]
      /\ budget'["change"] <= budget["change"]
  BY <1>1, SpendTyped DEF Inductive, TypeOK
<1>. HIDE DEF row
<1>. QED
  BY <1>1, <1>5, <1>6, <1>7, <1>8, <1>9, RowKeeps

-----------------------------------------------------------------------------
(* The theorems *)

LEMMA NextInductive == Inductive /\ [Next]_vars => Inductive'
<1>. SUFFICES ASSUME Inductive, [Next]_vars PROVE Inductive'
  OBVIOUS
<1>1. ASSUME NEW new \in Snapshot, CreateStay(new) \/ UpdateStay(new) PROVE Inductive'
  BY <1>1, CreateStayStep, UpdateStayStep
<1>2. ASSUME NEW b \in Backends, RunStep(b) \/ Crash(b) PROVE Inductive'
  BY <1>2, LeaseStep, LockAgainStep, SendStep, RecordStep, CrashStep DEF RunStep
<1>3. ASSUME NEW m \in Mails, ComesDue(m) PROVE Inductive'
  BY <1>3, ComesDueStep
<1>4. ASSUME NEW m \in Mails, NEW hours \in Pauses, TimePasses(m, hours) PROVE Inductive'
  BY <1>4, TimePassesStep
<1>5. CASE UNCHANGED vars
  BY <1>5 DEF vars, Inductive, TypeOK, Room, Runs, Keys, Folding, Told, Open, Says, Exists
<1>. QED
  BY <1>1, <1>2, <1>3, <1>4, <1>5 DEF Next

LEMMA AlwaysInductive == Spec => []Inductive
BY InitInductive, NextInductive, PTL DEF Spec

(* Whatever the stay, the outbox and the runs go through, each keeps its   *)
(* type: no run works on a mail the table cannot hold, and no counter      *)
(* leaves its range (dispatch, enqueue_reservation_email).                 *)
THEOREM MailsTypeCorrect == Spec => []TypeOK
<1>1. Inductive => TypeOK
  BY DEF Inductive
<1>. QED
  BY <1>1, AlwaysInductive, PTL

(* The idempotency key, the request stored before the first attempt and    *)
(* the end of all attempts an hour before the provider forgets the key     *)
(* keep a mail from arriving twice, however many backends run the timer    *)
(* (dispatch).                                                             *)
THEOREM MailsArriveOnce == Spec => []NoMailTwice
<1>1. Inductive => NoMailTwice
  BY DEF Inductive, Keys, NoMailTwice
<1>. QED
  BY <1>1, AlwaysInductive, PTL

(* However the changes of a stay fold into, replace or take back the mail  *)
(* that waits, and whichever mails are being sent meanwhile, the newest    *)
(* mail says what the booking is (enqueue_reservation_email).              *)
THEOREM OwnerIsTold == Spec => []NewestMailAgrees
<1>1. ASSUME Inductive PROVE NewestMailAgrees
  <2>1. CASE Existing(outbox) = {}
    BY <1>1, <2>1, SnapshotOrNone DEF Inductive, Told, NewestMailAgrees
  <2>2. CASE Existing(outbox) # {}
    <3>1. IsNewest(Newest(Existing(outbox)), Existing(outbox))
      BY <2>2, NewestIs DEF Existing
    <3>2. Newest(Existing(outbox)) \in Mails
      BY <3>1 DEF IsNewest, Existing
    <3>. QED
      BY <1>1, <2>2, <3>1, <3>2 DEF Inductive, Told, NewestMailAgrees
  <2>. QED
    BY <2>1, <2>2
<1>. QED
  BY <1>1, AlwaysInductive, PTL
=============================================================================
