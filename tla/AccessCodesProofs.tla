--------------------------- MODULE AccessCodesProofs ---------------------------
(***************************************************************************)
(* Proofs about AccessCodes for every number of rows, reservations, PINs   *)
(* and administrators and every value of the bounds.                       *)
(*                                                                         *)
(* TypeOK is not inductive: a passcode gets its PIN and window from the    *)
(* operation that creates it, so the operation's local data must be known  *)
(* to be filled in at that step.  Shape says which fields are filled in    *)
(* where.  OneWriterPerCode is not inductive either: Writers adds that an  *)
(* owned row is never old enough to be taken over, and that nobody whose   *)
(* version is still current shares its row with an owner.                  *)
(*                                                                         *)
(* ActiveIsOnLock speaks of the table and the lock, and needs a second     *)
(* invariant above these, Linked: numbers name one passcode and one row,   *)
(* the data an operation carries agree with its row (Carries), and what it *)
(* works on is either its own or a row's that cannot become active, whose  *)
(* passcode has another PIN than the row (Keeps, Apart, Astray).           *)
(*                                                                         *)
(* NoForgottenPasscode and the promise of GuestAccess need a third, Tidy,  *)
(* which holds while no PIN is replaced: a passcode has its row's PIN      *)
(* (Kept), at most one passcode is in the way of a row without a number    *)
(* and has the row's window (Sole), each has its row (Covered), and what   *)
(* an operation has seen of the lock stays so until it acts (Neat).        *)
(***************************************************************************)
EXTENDS AccessCodes, TLAPS

USE DEF Pending, FailureEvents, Statuses

CodelessSteps == {"idle", "pick", "reserve"}

DataSteps == {"reserve", "prepare", "claim", "find", "exists", "available",
              "configured", "confirm", "create", "change", "store", "activate"}

FreshSteps == {"prepare", "claimDelete", "claim"}

GoodOp ==
    {o \in OpType :
        /\ o.pc \notin CodelessSteps => o.code \in Codes
        /\ o.pc \in DataSteps => o.pin \in Pins /\ o.win \in Windows
        /\ o.pc = "pick" => o.win \in Windows
        /\ o.pc \in {"pick", "reserve"} => o.res \in Reservations
        /\ o.fresh => o.pc \in FreshSteps}

GoodRow ==
    {x \in RowType :
        /\ x.status # "none" =>
              x.res \in Reservations /\ x.pin \in Pins /\ x.win \in Windows
        /\ x.aged => x.status \in {"sync_error"} \cup Pending}

GoodItem(e) ==
    /\ phase # "idle"
    /\ phase = "due" => e.res \in Reservations
    /\ phase # "due" => e.code \in Codes
    /\ phase = "dates" => e.win \in Windows

Shape ==
    /\ op \in [Workers -> GoodOp]
    /\ row \in [Codes -> GoodRow]
    /\ \A e \in todo : GoodItem(e)

Owning(w) == op[w].pc \in OwningSteps

Writers ==
    /\ \A w \in Workers :
          Owning(w) => row[op[w].code].status \in Pending /\ ~row[op[w].code].aged
    /\ \A v, w \in Workers :
          (v # w /\ Owning(v) /\ Owning(w)) => op[v].code # op[w].code
    /\ \A v, w \in Workers :
          (op[v].fresh /\ Owning(w)) => op[v].code # op[w].code
    /\ \A w \in Workers : op[w].fresh => Live(op[w].code)

Inductive == TypeOK /\ Shape /\ Writers /\ NoPinCollision

-----------------------------------------------------------------------------
(* Local data *)

LEMMA IdleOpGood == IdleOp \in GoodOp
  BY BoundsAreNaturals
  DEF IdleOp, GoodOp, OpType, Steps, Kinds, Intents, ReadingSteps, OwningSteps,
      LockCalls, CodelessSteps, DataSteps, FreshSteps

LEMMA ContinueGood ==
    ASSUME Shape, NEW w \in Workers, NEW o \in GoodOp, Continue(w, o)
    PROVE  op' \in [Workers -> GoodOp]
  BY DEF Shape, Continue

(* The type half of the invariant for a step of w that leaves the rows,    *)
(* the events, the lock and the sweep as they are.                         *)
LEMMA LocalStep ==
    ASSUME TypeOK, Shape, NEW w \in Workers, NEW o \in GoodOp, Continue(w, o),
           UNCHANGED <<booking, row, audit, goal, lock, made, phase, todo, today>>,
           budget' \in [Disturbances -> Nat]
    PROVE  TypeOK' /\ Shape'
<1>1. op' \in [Workers -> GoodOp]
  BY ContinueGood
<1>2. op' \in [Workers -> OpType]
  BY <1>1 DEF GoodOp
<1>3. TypeOK'
  BY <1>2 DEF TypeOK
<1>4. Shape'
  BY <1>1 DEF Shape, GoodItem
<1> QED
  BY <1>3, <1>4

(* The one-writer half for a step of w that writes no row. *)
LEMMA LocalWriters ==
    ASSUME Shape, Writers, NEW w \in Workers, NEW o \in GoodOp, Continue(w, o),
           UNCHANGED row,
           o.pc \in OwningSteps => Owning(w) /\ o.code = op[w].code,
           o.fresh => /\ Live(o.code)
                      /\ \A v \in Workers : Owning(v) => op[v].code # o.code
    PROVE  Writers'
<1>1. \A v \in Workers : op'[v] = IF v = w THEN o ELSE op[v]
  BY DEF Continue, Shape
<1>2. \A c : Live(c)' <=> Live(c)
  BY DEF Live
<1>3. o.fresh => ~(o.pc \in OwningSteps)
  BY DEF GoodOp, FreshSteps, OwningSteps, LockCalls
<1> QED
  BY <1>1, <1>2, <1>3 DEF Writers, Owning

(* No collision appears when no row becomes live and none moves. *)
LEMMA CollisionFrame ==
    ASSUME NoPinCollision,
           \A c \in Codes : Live(c)' =>
               Live(c) /\ row'[c].pin = row[c].pin /\ row'[c].win = row[c].win
    PROVE  NoPinCollision'
  BY DEF NoPinCollision

(* A step that moves w on to o, touches no row and reads no new version. *)
Moves(w, o) ==
    /\ Continue(w, o)
    /\ UNCHANGED row
    /\ ~o.fresh
    /\ o.pc \in OwningSteps => Owning(w) /\ o.code = op[w].code

LEMMA MovesKeepsRows ==
    ASSUME Inductive, NEW w \in Workers, NEW o \in GoodOp, Moves(w, o)
    PROVE  Writers' /\ NoPinCollision'
<1>1. Writers'
  BY LocalWriters DEF Inductive, Moves
<1>2. NoPinCollision'
  BY CollisionFrame DEF Inductive, Moves, Live
<1> QED
  BY <1>1, <1>2

BudgetType == [Disturbances -> Nat]

AuditType == [Codes -> [last : FailureEvents \cup {"none"}, today : 0 .. MaxFailures]]

(* A step that moves w on and writes no row keeps the invariant, whatever  *)
(* it does to the lock, the events and the bounds.                         *)
LEMMA MovesStep ==
    ASSUME Inductive, NEW w \in Workers, NEW o \in GoodOp, Moves(w, o),
           lock' \subseteq Passcode, made' \in 0 .. MaxPasscodes,
           audit' \in AuditType, budget' \in BudgetType,
           UNCHANGED <<booking, goal, phase, todo, today>>
    PROVE  Inductive'
<1>1. op' \in [Workers -> GoodOp]
  BY ContinueGood DEF Inductive, Moves
<1>2. op' \in [Workers -> OpType]
  BY <1>1 DEF GoodOp
<1>3. TypeOK'
  BY <1>2 DEF Inductive, TypeOK, Moves, AuditType, BudgetType
<1>4. Shape'
  BY <1>1 DEF Inductive, Shape, GoodItem, Moves
<1> QED
  BY <1>3, <1>4, MovesKeepsRows DEF Inductive

LEMMA SpendType ==
    ASSUME TypeOK, NEW k \in {"fault", "crash", "request", "change"}, Spend(k)
    PROVE  budget' \in BudgetType
  BY DEF TypeOK, Spend, BudgetType, Disturbances

LEMMA SameType ==
    ASSUME Inductive
    PROVE  /\ UNCHANGED lock => lock' \subseteq Passcode
           /\ UNCHANGED made => made' \in 0 .. MaxPasscodes
           /\ UNCHANGED audit => audit' \in AuditType
           /\ UNCHANGED budget => budget' \in BudgetType
  BY DEF Inductive, TypeOK, AuditType, BudgetType

LEMMA IdleMoves ==
    ASSUME NEW w \in Workers, Finish(w), UNCHANGED row
    PROVE  Moves(w, IdleOp)
  BY DEF Moves, Finish, IdleOp, OwningSteps, LockCalls

LEMMA OpHere == ASSUME Shape, NEW w \in Workers PROVE op[w] \in GoodOp
  BY DEF Shape

(* Going on to another owned step keeps the local data it needs. *)
LEMMA GotoGood ==
    ASSUME Inductive, NEW w \in Workers, Owning(w), NEW pc \in OwningSteps,
           pc \in DataSteps => op[w].pc \in DataSteps
    PROVE  [op[w] EXCEPT !.pc = pc] \in GoodOp /\ ~op[w].fresh
<1>1. op[w] \in GoodOp
  BY OpHere DEF Inductive
<1> QED
  BY <1>1 DEF Owning, GoodOp, OpType, Steps, OwningSteps, LockCalls, CodelessSteps,
              DataSteps, FreshSteps

LEMMA GotoMoves ==
    ASSUME Inductive, NEW w \in Workers, Owning(w), NEW pc \in OwningSteps,
           pc \in DataSteps => op[w].pc \in DataSteps,
           Goto(w, pc), UNCHANGED row
    PROVE  \E o \in GoodOp : Moves(w, o)
<1> DEFINE o == [op[w] EXCEPT !.pc = pc]
<1>1. o \in GoodOp /\ ~op[w].fresh
  BY GotoGood
<1>2. op[w] \in OpType
  BY OpHere DEF Inductive, GoodOp
<1>3. ~o.fresh /\ o.code = op[w].code /\ o.pc = pc
  BY <1>1, <1>2 DEF OpType
<1>4. Continue(w, o)
  BY DEF Goto
<1>5. Moves(w, o)
  BY <1>3, <1>4 DEF Moves
<1> QED
  BY <1>1, <1>5

-----------------------------------------------------------------------------
(* Steps that read the tables or the lock *)

LEMMA PickStep == ASSUME Inductive, NEW w \in Workers, Pick(w) PROVE Inductive'
<1>1. op[w] \in GoodOp
  BY OpHere DEF Inductive
<1>2. \A pin \in Pins : [op[w] EXCEPT !.pc = "reserve", !.pin = pin] \in GoodOp
  BY <1>1 DEF Pick, GoodOp, OpType, Steps, ReadingSteps, CodelessSteps, DataSteps, FreshSteps
<1>3. \A pin \in Pins : LET o == [op[w] EXCEPT !.pc = "reserve", !.pin = pin]
                        IN  o.pc = "reserve" /\ ~o.fresh
  BY <1>1 DEF Pick, GoodOp, OpType, FreshSteps
<1>4. PICK o \in GoodOp : Moves(w, o)
  <2>1. CASE Finish(w)
    BY <2>1, IdleMoves, IdleOpGood DEF Pick
  <2>2. CASE ~Finish(w)
    <3>1. PICK pin \in Pins : Continue(w, [op[w] EXCEPT !.pc = "reserve", !.pin = pin])
      BY <2>2 DEF Pick
    <3> QED
      BY <3>1, <1>2, <1>3 DEF Pick, Moves, OwningSteps, LockCalls
  <2> QED
    BY <2>1, <2>2
<1> QED
  BY <1>4, MovesStep, SameType DEF Pick

LEMMA LoadedType ==
    ASSUME NEW p \in OpType, NEW x \in RowType, NEW d \in BOOLEAN, NEW f \in FailureEvents
    PROVE  Loaded(p, x, d, f) \in OpType
<1>1. x.pin \in Pins \cup {NoPin} /\ x.win \in Windows \cup {NoWindow} /\ x.pid \in 0 .. MaxPasscodes
  BY DEF RowType
<1>2. "claim" \in Steps
  BY DEF Steps, ReadingSteps
<1>3. d \in BOOLEAN /\ f \in FailureEvents \cup {"none"}
  OBVIOUS
<1> QED
  BY <1>1, <1>2, <1>3 DEF Loaded, OpType

LEMMA LoadedFields ==
    ASSUME NEW p \in OpType, NEW x \in RowType, NEW d \in BOOLEAN, NEW f \in FailureEvents
    PROVE  /\ Loaded(p, x, d, f).pc = "claim"
           /\ Loaded(p, x, d, f).code = p.code
           /\ Loaded(p, x, d, f).pin = x.pin
           /\ Loaded(p, x, d, f).win = x.win
  BY DEF Loaded, OpType

LEMMA LoadStep == ASSUME Inductive, NEW w \in Workers, Load(w) PROVE Inductive'
<1> USE DEF Inductive
<1>1. op[w] \in GoodOp
  BY OpHere
<1>2. CASE Finish(w)
  <2>1. Moves(w, IdleOp)
    BY <1>2, IdleMoves DEF Load
  <2> QED
    BY <2>1, IdleOpGood, MovesStep, SameType DEF Load
<1>3. CASE ~Finish(w)
  <2> DEFINE c == op[w].code
             deleting == MustDelete(c, op[w].intent)
             failure == IF deleting THEN "delete_failed"
                        ELSE IF row[c].pid # 0 THEN "update_failed"
                        ELSE "create_failed"
             o == Loaded(op[w], row[c], deleting, failure)
  <2>1. Continue(w, o) /\ Reconcilable(c, op[w].intent)
    BY <1>3 DEF Load
  <2>2. c \in Codes
    BY <1>1 DEF Load, GoodOp, CodelessSteps
  <2>3. row[c] \in GoodRow
    BY <2>2 DEF Shape
  <2>4. Live(c) /\ (row[c].status \in Pending => row[c].aged)
    BY <2>1 DEF Reconcilable, Live
  <2>5. deleting \in BOOLEAN /\ failure \in FailureEvents
    BY DEF MustDelete, CancelledCode, Expired
  <2>6. o \in GoodOp /\ o.pc = "claim" /\ o.code = c
    <3> HIDE DEF deleting, failure
    <3>1. /\ o \in OpType /\ o.pc = "claim" /\ o.code = c
          /\ o.pin = row[c].pin /\ o.win = row[c].win
      BY <1>1, <2>3, <2>5, LoadedType, LoadedFields DEF GoodOp, GoodRow
    <3> QED
      BY <2>2, <2>3, <2>4, <3>1
      DEF GoodOp, GoodRow, CodelessSteps, DataSteps, FreshSteps, Live
  <2>7. \A v \in Workers : Owning(v) => op[v].code # c
    BY <2>4 DEF Writers
  <2> HIDE DEF o, c
  <2>8. TypeOK' /\ Shape'
    BY <2>1, <2>6, LocalStep DEF Load, TypeOK
  <2>9. Writers'
    BY <2>1, <2>4, <2>6, <2>7, LocalWriters DEF Load, OwningSteps, LockCalls
  <2>10. NoPinCollision'
    BY CollisionFrame DEF Load, Live
  <2> QED
    BY <2>8, <2>9, <2>10
<1> QED
  BY <1>2, <1>3

LEMMA FindStep == ASSUME Inductive, NEW w \in Workers, Find(w) PROVE Inductive'
<1>1. Owning(w) /\ op[w].pc \in DataSteps
  BY DEF Find, Owning, OwningSteps, LockCalls, DataSteps
<1>2. op[w] \in GoodOp
  BY OpHere DEF Inductive
<1>3. PICK o \in GoodOp : Moves(w, o)
  <2>1. CASE \E pc \in {"retire", "available"} : Goto(w, pc)
    <3>1. PICK pc \in {"retire", "available"} : Goto(w, pc)
      BY <2>1
    <3>2. pc \in OwningSteps /\ UNCHANGED row
      BY DEF Find, OwningSteps, LockCalls
    <3> QED
      BY <1>1, <3>1, <3>2, GotoMoves
  <2>2. CASE \E k \in lock, pc \in {"exists", "configured"} :
                Continue(w, [op[w] EXCEPT !.pid = k.id, !.pc = pc])
    <3>1. PICK k \in lock, pc \in {"exists", "configured"} :
             Continue(w, [op[w] EXCEPT !.pid = k.id, !.pc = pc])
      BY <2>2
    <3> DEFINE o == [op[w] EXCEPT !.pid = k.id, !.pc = pc]
    <3>2. k.id \in 0 .. MaxPasscodes
      BY BoundsAreNaturals DEF Inductive, TypeOK, Passcode
    <3>3. o \in OpType
      BY <1>2, <3>2 DEF GoodOp, OpType, Steps, OwningSteps, LockCalls
    <3>4. /\ o.pc = pc /\ o.code = op[w].code /\ o.fresh = op[w].fresh
          /\ o.pin = op[w].pin /\ o.win = op[w].win
      BY <1>2 DEF GoodOp, OpType
    <3>5. ~o.fresh
      BY <1>2, <3>4 DEF GoodOp, FreshSteps, Find
    <3>6. o \in GoodOp
      BY <1>1, <1>2, <3>3, <3>4, <3>5 DEF GoodOp, CodelessSteps, DataSteps, Find
    <3>7. Moves(w, o)
      BY <1>1, <3>1, <3>4, <3>5 DEF Moves, Find
    <3> QED
      BY <3>6, <3>7
  <2> QED
    BY <2>1, <2>2 DEF Find, Found
<1> QED
  BY <1>3, MovesStep, SameType DEF Find

LEMMA ExistsStep == ASSUME Inductive, NEW w \in Workers, Exists(w) PROVE Inductive'
<1>1. PICK pc \in {"delete", "retire"} : Goto(w, pc)
  BY DEF Exists
<1>2. PICK o \in GoodOp : Moves(w, o)
  BY <1>1, GotoMoves DEF Exists, Owning, OwningSteps, LockCalls, DataSteps
<1> QED
  BY <1>2, MovesStep, SameType DEF Exists

LEMMA AvailableStep == ASSUME Inductive, NEW w \in Workers, Available(w) PROVE Inductive'
<1>1. PICK pc \in {"fail", "create"} : Goto(w, pc)
  BY DEF Available
<1>2. PICK o \in GoodOp : Moves(w, o)
  BY <1>1, GotoMoves DEF Available, Owning, OwningSteps, LockCalls, DataSteps
<1> QED
  BY <1>2, MovesStep, SameType DEF Available

LEMMA CheckConfiguredStep ==
    ASSUME Inductive, NEW w \in Workers, CheckConfigured(w) PROVE Inductive'
<1>1. PICK pc \in {"store", "change"} : Goto(w, pc)
  BY DEF CheckConfigured
<1>2. PICK o \in GoodOp : Moves(w, o)
  BY <1>1, GotoMoves DEF CheckConfigured, Owning, OwningSteps, LockCalls, DataSteps
<1> QED
  BY <1>2, MovesStep, SameType DEF CheckConfigured

LEMMA ConfirmStep == ASSUME Inductive, NEW w \in Workers, Confirm(w) PROVE Inductive'
<1>1. PICK pc \in {"activate", "fail"} : Goto(w, pc)
  BY DEF Confirm
<1>2. PICK o \in GoodOp : Moves(w, o)
  BY <1>1, GotoMoves DEF Confirm, Owning, OwningSteps, LockCalls, DataSteps
<1> QED
  BY <1>2, MovesStep, SameType DEF Confirm

LEMMA LockCallFailsStep ==
    ASSUME Inductive, NEW w \in Workers, LockCallFails(w) PROVE Inductive'
<1>1. PICK o \in GoodOp : Moves(w, o)
  <2>1. CASE op[w].pc \in LockCalls /\ Goto(w, "fail")
    BY <2>1, GotoMoves DEF LockCallFails, Owning, OwningSteps, DataSteps
  <2>2. CASE Finish(w)
    BY <2>2, IdleMoves, IdleOpGood DEF LockCallFails
  <2> QED
    BY <2>1, <2>2 DEF LockCallFails
<1>2. budget' \in BudgetType
  BY SpendType DEF LockCallFails, Inductive
<1> QED
  BY <1>1, <1>2, MovesStep, SameType DEF LockCallFails

-----------------------------------------------------------------------------
(* Writes to the lock *)

LEMMA AnsweredMoves ==
    ASSUME Inductive, NEW w \in Workers, Owning(w), NEW o \in GoodOp, Answered(w, o),
           o.pc \in OwningSteps, o.code = op[w].code, ~o.fresh, UNCHANGED row
    PROVE  /\ \E q \in GoodOp : Moves(w, q)
           /\ budget' \in BudgetType
<1>1. CASE Continue(w, o) /\ UNCHANGED budget
  <2>1. Moves(w, o)
    BY <1>1 DEF Moves
  <2> QED
    BY <1>1, <2>1, SameType
<1>2. CASE Goto(w, "fail") /\ Spend("fault")
  <2>1. "fail" \in OwningSteps /\ "fail" \notin DataSteps
    BY DEF OwningSteps, DataSteps
  <2>2. \E q \in GoodOp : Moves(w, q)
    BY <1>2, <2>1, GotoMoves
  <2> QED
    BY <1>2, <2>2, SpendType DEF Inductive
<1> QED
  BY <1>1, <1>2 DEF Answered

LEMMA CreatePasscodeStep ==
    ASSUME Inductive, NEW w \in Workers, CreatePasscode(w) PROVE Inductive'
<1> DEFINE o == [op[w] EXCEPT !.pc = "store", !.pid = made + 1]
<1>1. op[w] \in GoodOp /\ Owning(w)
  BY OpHere DEF Inductive, CreatePasscode, Owning, OwningSteps, LockCalls
<1>2. made + 1 \in 1 .. MaxPasscodes /\ made + 1 \in 0 .. MaxPasscodes
  BY BoundsAreNaturals DEF Inductive, TypeOK, CreatePasscode
<1>3. o \in OpType
  <2>1. \A n \in 0 .. MaxPasscodes : [op[w] EXCEPT !.pc = "store", !.pid = n] \in OpType
    BY <1>1 DEF GoodOp, OpType, Steps, OwningSteps
  <2> QED
    BY <1>2, <2>1
<1>4. /\ o.pc = "store" /\ o.code = op[w].code /\ o.fresh = op[w].fresh
      /\ o.pin = op[w].pin /\ o.win = op[w].win
  BY <1>1 DEF GoodOp, OpType
<1>5. o \in GoodOp /\ ~o.fresh /\ o.pc \in OwningSteps
  BY <1>1, <1>3, <1>4
  DEF GoodOp, CodelessSteps, DataSteps, FreshSteps, OwningSteps, CreatePasscode
<1>6. /\ \E q \in GoodOp : Moves(w, q)
      /\ budget' \in BudgetType
  BY <1>1, <1>4, <1>5, AnsweredMoves DEF CreatePasscode
<1>7. op[w].pin \in Pins /\ op[w].win \in Windows
  BY <1>1 DEF GoodOp, DataSteps, CreatePasscode
<1>8. lock' \subseteq Passcode
  BY <1>2, <1>7 DEF Inductive, TypeOK, CreatePasscode, Passcode
<1>9. made' \in 0 .. MaxPasscodes
  BY <1>2, BoundsAreNaturals DEF CreatePasscode
<1> QED
  BY <1>6, <1>8, <1>9, MovesStep, SameType DEF CreatePasscode

LEMMA ChangePasscodeStep ==
    ASSUME Inductive, NEW w \in Workers, ChangePasscode(w) PROVE Inductive'
<1>1. op[w] \in GoodOp /\ Owning(w)
  BY OpHere DEF Inductive, ChangePasscode, Owning, OwningSteps, LockCalls
<1>2. /\ \E q \in GoodOp : Moves(w, q)
      /\ budget' \in BudgetType
  <2>1. CASE Goto(w, "fail") /\ UNCHANGED budget
    BY <1>1, <2>1, GotoMoves, SameType DEF ChangePasscode, OwningSteps, DataSteps
  <2>2. CASE \E pc \in {"store", "confirm"} : Answered(w, [op[w] EXCEPT !.pc = pc])
    <3>1. PICK pc \in {"store", "confirm"} : Answered(w, [op[w] EXCEPT !.pc = pc])
      BY <2>2
    <3> DEFINE o == [op[w] EXCEPT !.pc = pc]
    <3>2. pc \in OwningSteps /\ pc \in DataSteps /\ op[w].pc \in DataSteps
      BY DEF OwningSteps, LockCalls, DataSteps, ChangePasscode
    <3>3. o \in GoodOp /\ ~op[w].fresh
      BY <1>1, <3>2, GotoGood
    <3>4. o.pc = pc /\ o.code = op[w].code /\ o.fresh = op[w].fresh
      BY <1>1 DEF GoodOp, OpType
    <3> QED
      BY <1>1, <3>1, <3>2, <3>3, <3>4, AnsweredMoves DEF ChangePasscode
  <2> QED
    BY <2>1, <2>2 DEF ChangePasscode
<1>3. op[w].pin \in Pins /\ op[w].win \in Windows
  BY <1>1 DEF GoodOp, DataSteps, ChangePasscode
<1>4. \A k \in Passcode : Changed(k, op[w]) \in Passcode
  BY <1>3 DEF Changed, Passcode
<1>5. lock' \subseteq Passcode
  BY <1>4 DEF Inductive, TypeOK, ChangePasscode
<1> QED
  BY <1>2, <1>5, MovesStep, SameType DEF ChangePasscode

LEMMA DeletePasscodeStep ==
    ASSUME Inductive, NEW w \in Workers, DeletePasscode(w) PROVE Inductive'
<1>1. op[w] \in GoodOp /\ Owning(w)
  BY OpHere DEF Inductive, DeletePasscode, Owning, OwningSteps, LockCalls
<1>2. /\ \E q \in GoodOp : Moves(w, q)
      /\ budget' \in BudgetType
  <2>1. CASE Goto(w, "fail") /\ UNCHANGED budget
    BY <1>1, <2>1, GotoMoves, SameType DEF DeletePasscode, OwningSteps, DataSteps
  <2>2. CASE Answered(w, [op[w] EXCEPT !.pc = "retire"])
    <3> DEFINE o == [op[w] EXCEPT !.pc = "retire"]
    <3>1. "retire" \in OwningSteps /\ "retire" \notin DataSteps
      BY DEF OwningSteps, DataSteps
    <3>2. o \in GoodOp /\ ~op[w].fresh
      BY <1>1, <3>1, GotoGood
    <3>3. o.pc = "retire" /\ o.code = op[w].code /\ o.fresh = op[w].fresh
      BY <1>1 DEF GoodOp, OpType
    <3> QED
      BY <1>1, <2>2, <3>1, <3>2, <3>3, AnsweredMoves DEF DeletePasscode
  <2> QED
    BY <2>1, <2>2 DEF DeletePasscode
<1>3. lock' \subseteq Passcode
  BY DEF Inductive, TypeOK, DeletePasscode
<1> QED
  BY <1>2, <1>3, MovesStep, SameType DEF DeletePasscode

LEMMA RecordFailureStep ==
    ASSUME Inductive, NEW w \in Workers, RecordFailure(w) PROVE Inductive'
<1>1. op[w] \in OpType /\ op[w].code \in Codes
  BY OpHere DEF Inductive, GoodOp, CodelessSteps, RecordFailure
<1>2. audit' \in AuditType
  <2> DEFINE c == op[w].code
             n == IF audit[c].today < MaxFailures THEN audit[c].today + 1
                  ELSE audit[c].today
  <2>1. audit \in AuditType /\ audit[c] \in [last : FailureEvents \cup {"none"}, today : 0 .. MaxFailures]
    BY <1>1 DEF Inductive, TypeOK, AuditType
  <2>2. n \in 0 .. MaxFailures
    BY <2>1, BoundsAreNaturals
  <2>3. op[w].failure \in FailureEvents \cup {"none"}
    BY <1>1 DEF OpType
  <2>4. audit' = [audit EXCEPT ![c] = [last |-> op[w].failure, today |-> n]]
    BY DEF RecordFailure
  <2> QED
    BY <1>1, <2>1, <2>2, <2>3, <2>4 DEF AuditType
<1>3. Moves(w, IdleOp)
  BY IdleMoves DEF RecordFailure
<1> QED
  BY <1>2, <1>3, IdleOpGood, MovesStep, SameType DEF RecordFailure

-----------------------------------------------------------------------------
(* Writes of an owner to its row *)

LEMMA OwnedWrite ==
    ASSUME Inductive, NEW w \in Workers, Owning(w),
           NEW o \in GoodOp, Continue(w, o), ~o.fresh,
           NEW x \in GoodRow, row' = [row EXCEPT ![op[w].code] = x],
           x.status # "none", x.pin = row[op[w].code].pin, x.win = row[op[w].code].win,
           o.pc \in OwningSteps =>
               o.code = op[w].code /\ x.status \in Pending /\ ~x.aged,
           UNCHANGED <<booking, audit, goal, lock, made, phase, todo, today, budget>>
    PROVE  Inductive'
<1> DEFINE c == op[w].code
<1>1. c \in Codes
  BY OpHere DEF Inductive, GoodOp, Owning, OwningSteps, LockCalls, CodelessSteps
<1>2. op' \in [Workers -> GoodOp]
  BY ContinueGood DEF Inductive
<1>3. row' \in [Codes -> GoodRow]
  BY <1>1 DEF Inductive, Shape
<1>4. TypeOK'
  BY <1>2, <1>3 DEF Inductive, TypeOK, GoodOp, GoodRow
<1>5. Shape'
  BY <1>2, <1>3 DEF Inductive, Shape, GoodItem
<1>6. Live(c)
  BY DEF Inductive, Writers, Live
<1>7. \A v \in Workers : op'[v] = IF v = w THEN o ELSE op[v]
  BY DEF Continue, Inductive, Shape
<1>8. \A d \in Codes : row'[d] = IF d = c THEN x ELSE row[d]
  BY <1>1 DEF Inductive, Shape
<1>9. Writers'
  <2>1. \A v \in Workers : (v # w /\ (Owning(v) \/ op[v].fresh)) => op[v].code # c /\ op[v].code \in Codes
    BY OpHere DEF Inductive, Writers, GoodOp, Owning, OwningSteps, LockCalls,
                  CodelessSteps, FreshSteps
  <2> HIDE DEF c
  <2> QED
    BY <1>1, <1>7, <1>8, <2>1 DEF Inductive, Writers, Owning, Live, c
<1>10. NoPinCollision'
  BY <1>6, <1>8, CollisionFrame DEF Inductive, Live
<1> QED
  BY <1>4, <1>5, <1>9, <1>10 DEF Inductive

LEMMA GoodRowFields ==
    ASSUME NEW x \in GoodRow, NEW s \in Statuses \ {"none"}, x.status # "none"
    PROVE  LET y == [x EXCEPT !.status = s, !.aged = FALSE]
           IN  /\ y \in GoodRow
               /\ y.status = s /\ ~y.aged /\ y.pin = x.pin /\ y.win = x.win
  BY DEF GoodRow, RowType

LEMMA OwnedRow ==
    ASSUME Inductive, NEW w \in Workers, Owning(w)
    PROVE  /\ op[w].code \in Codes
           /\ row[op[w].code] \in GoodRow
           /\ row[op[w].code].status \in Pending
  BY OpHere DEF Inductive, Shape, Writers, GoodOp, Owning, OwningSteps, LockCalls,
                CodelessSteps

LEMMA StoreProviderIdStep ==
    ASSUME Inductive, NEW w \in Workers, StoreProviderId(w) PROVE Inductive'
<1>1. Owning(w) /\ op[w].pc \in DataSteps
  BY DEF StoreProviderId, Owning, OwningSteps, DataSteps
<1>2. CASE Goto(w, "fail") /\ UNCHANGED row
  <2>1. PICK o \in GoodOp : Moves(w, o)
    BY <1>1, <1>2, GotoMoves DEF OwningSteps, DataSteps
  <2> QED
    BY <2>1, MovesStep, SameType DEF StoreProviderId
<1>3. CASE /\ row' = [row EXCEPT ![op[w].code].pid = op[w].pid, ![op[w].code].aged = FALSE]
            /\ Goto(w, "confirm")
  <2> DEFINE c == op[w].code
             o == [op[w] EXCEPT !.pc = "confirm"]
             x == [row[c] EXCEPT !.pid = op[w].pid, !.aged = FALSE]
  <2>1. /\ c \in Codes /\ row[c] \in GoodRow /\ row[c].status \in Pending
        /\ op[w] \in GoodOp
    BY <1>1, OwnedRow, OpHere DEF Inductive
  <2>2. x \in GoodRow /\ x.status = row[c].status /\ ~x.aged
        /\ x.pin = row[c].pin /\ x.win = row[c].win
    BY <2>1 DEF GoodRow, RowType, GoodOp, OpType
  <2>3. row' = [row EXCEPT ![c] = x]
    BY <1>3, <2>1 DEF Inductive, Shape
  <2>4. o \in GoodOp /\ ~op[w].fresh
    BY <1>1, GotoGood DEF OwningSteps, LockCalls
  <2>5. o.pc = "confirm" /\ o.code = c /\ o.fresh = op[w].fresh
    BY <2>1 DEF GoodOp, OpType
  <2>6. Continue(w, o)
    BY <1>3 DEF Goto
  <2> HIDE DEF o, x, c
  <2> QED
    BY <1>1, <2>1, <2>2, <2>3, <2>4, <2>5, <2>6, OwnedWrite DEF StoreProviderId, c
<1> QED
  BY <1>2, <1>3 DEF StoreProviderId

(* The three last writes of an operation *)
LEMMA LastWrite ==
    ASSUME Inductive, NEW w \in Workers, Owning(w), NEW o \in GoodOp, Continue(w, o),
           ~o.fresh, o.pc \notin OwningSteps,
           NEW s \in {"active", "revoked", "sync_error"}, SetStatus(op[w].code, s),
           UNCHANGED <<booking, audit, goal, lock, made, phase, todo, today, budget>>
    PROVE  Inductive'
<1> DEFINE c == op[w].code
           x == [row[c] EXCEPT !.status = s, !.aged = FALSE]
<1>1. c \in Codes /\ row[c] \in GoodRow /\ row[c].status \in Pending
  BY OwnedRow
<1>2. x \in GoodRow /\ x.status = s /\ x.pin = row[c].pin /\ x.win = row[c].win
  BY <1>1, GoodRowFields
<1>3. row' = [row EXCEPT ![c] = x]
  BY <1>1 DEF SetStatus, Inductive, Shape
<1> HIDE DEF x
<1> QED
  BY <1>1, <1>2, <1>3, OwnedWrite

LEMMA IdleOpType == IdleOp \in OpType /\ IdleOp.fresh = FALSE
  BY IdleOpGood DEF GoodOp, IdleOp

LEMMA IdleFields == ~IdleOp.fresh /\ IdleOp.pc \notin OwningSteps
  BY DEF IdleOp, OwningSteps, LockCalls

LEMMA ActivateStep == ASSUME Inductive, NEW w \in Workers, Activate(w) PROVE Inductive'
  BY IdleOpGood, IdleFields, LastWrite DEF Activate, Finish, Owning, OwningSteps

LEMMA RetireStep == ASSUME Inductive, NEW w \in Workers, Retire(w) PROVE Inductive'
  BY IdleOpGood, IdleFields, LastWrite DEF Retire, Finish, Owning, OwningSteps

LEMMA MarkSyncErrorStep ==
    ASSUME Inductive, NEW w \in Workers, MarkSyncError(w) PROVE Inductive'
<1> DEFINE o == [op[w] EXCEPT !.pc = "record"]
<1>1. op[w] \in GoodOp /\ Owning(w)
  BY OpHere DEF Inductive, MarkSyncError, Owning, OwningSteps
<1>2. o \in OpType /\ o.pc = "record" /\ o.code = op[w].code /\ o.fresh = op[w].fresh
  BY <1>1 DEF GoodOp, OpType, Steps
<1>3. o \in GoodOp /\ ~o.fresh
  BY <1>1, <1>2 DEF GoodOp, CodelessSteps, DataSteps, FreshSteps, MarkSyncError
<1>4. o.pc \notin OwningSteps
  BY <1>2 DEF OwningSteps, LockCalls
<1>5. Continue(w, o)
  BY DEF MarkSyncError, Goto
<1> QED
  BY <1>1, <1>3, <1>4, <1>5, LastWrite DEF MarkSyncError

-----------------------------------------------------------------------------
(* Claims: the writes that check the version *)

LEMMA BumpedOps ==
    ASSUME Shape, NEW w \in Workers, NEW c \in Codes, NEW o \in GoodOp,
           ContinueBumping(w, c, o)
    PROVE  /\ op' \in [Workers -> GoodOp]
           /\ op'[w] = o
           /\ \A v \in Workers \ {w} :
                 /\ op'[v].pc = op[v].pc /\ op'[v].code = op[v].code
                 /\ op'[v].fresh => op[v].fresh /\ op[v].code # c
<1>1. \A p \in GoodOp : [p EXCEPT !.fresh = FALSE] \in OpType
  BY DEF GoodOp, OpType
<1>2. \A p \in GoodOp : LET q == [p EXCEPT !.fresh = FALSE]
                        IN  /\ q.pc = p.pc /\ q.code = p.code /\ q.pin = p.pin
                            /\ q.win = p.win /\ q.res = p.res /\ ~q.fresh
  BY DEF GoodOp, OpType
<1>3. \A p \in GoodOp : [p EXCEPT !.fresh = FALSE] \in GoodOp
  BY <1>1, <1>2 DEF GoodOp
<1>4. \A v \in Workers \ {w} :
         op'[v] = IF op[v].code = c THEN [op[v] EXCEPT !.fresh = FALSE] ELSE op[v]
  BY DEF ContinueBumping
<1>5. \A v \in Workers : op[v] \in GoodOp
  BY OpHere
<1>6. op'[w] = o
  BY DEF ContinueBumping
<1>7. \A v \in Workers : op'[v] \in GoodOp
  BY <1>3, <1>4, <1>5, <1>6
<1>8. op' \in [Workers -> GoodOp]
  BY <1>7 DEF ContinueBumping
<1>9. ASSUME NEW v \in Workers \ {w}
      PROVE  /\ op'[v].pc = op[v].pc /\ op'[v].code = op[v].code
             /\ op'[v].fresh => op[v].fresh /\ op[v].code # c
  <2>1. CASE op[v].code = c
    BY <1>2, <1>4, <1>5, <2>1
  <2>2. CASE op[v].code # c
    BY <1>4, <2>2
  <2> QED
    BY <2>1, <2>2
<1> QED
  BY <1>6, <1>8, <1>9

LEMMA BumpedTodo ==
    ASSUME TypeOK, Shape, NEW w, NEW c, NEW o, ContinueBumping(w, c, o), UNCHANGED phase
    PROVE  todo' \subseteq TodoItem /\ \A e \in todo' : GoodItem(e)'
<1>1. \A e \in TodoItem : LET f == [e EXCEPT !.fresh = FALSE]
                          IN  /\ f \in TodoItem
                              /\ f.code = e.code /\ f.res = e.res /\ f.win = e.win
  BY DEF TodoItem
<1>2. todo \subseteq TodoItem
  BY DEF TypeOK
<1>3. \A f \in todo' : f \in todo \/ \E e \in todo : f = [e EXCEPT !.fresh = FALSE]
  BY DEF ContinueBumping
<1>4. \A f \in todo' : /\ f \in TodoItem
                       /\ \E e \in todo : f.code = e.code /\ f.res = e.res /\ f.win = e.win
  BY <1>1, <1>2, <1>3
<1>5. ASSUME NEW f \in todo' PROVE GoodItem(f)'
  <2>1. PICK e \in todo : f.code = e.code /\ f.res = e.res /\ f.win = e.win
    BY <1>4
  <2> QED
    BY <2>1 DEF Shape, GoodItem
<1> QED
  BY <1>4, <1>5

LEMMA ClaimWrite ==
    ASSUME Inductive, NEW w \in Workers, op[w].fresh,
           NEW o \in GoodOp, o.pc \in OwningSteps, o.code = op[w].code, ~o.fresh,
           op[w].code \in Codes,
           ContinueBumping(w, op[w].code, o),
           NEW x \in GoodRow, x.status \in Pending, ~x.aged,
           row' = [row EXCEPT ![op[w].code] = x],
           goal' \in [Codes -> {"keep", "drop"}],
           UNCHANGED <<booking, audit, lock, made, phase, today, budget>>,
           NoPinCollision'
    PROVE  Inductive'
<1> DEFINE c == op[w].code
<1>1. /\ op' \in [Workers -> GoodOp]
      /\ op'[w] = o
      /\ \A v \in Workers \ {w} :
            /\ op'[v].pc = op[v].pc /\ op'[v].code = op[v].code
            /\ op'[v].fresh => op[v].fresh /\ op[v].code # c
  BY BumpedOps DEF Inductive
<1>2. row' \in [Codes -> GoodRow]
  BY DEF Inductive, Shape
<1>3. todo' \subseteq TodoItem /\ \A e \in todo' : GoodItem(e)'
  BY BumpedTodo DEF Inductive
<1>4. TypeOK'
  BY <1>1, <1>2, <1>3 DEF Inductive, TypeOK, GoodOp, GoodRow
<1>5. Shape'
  BY <1>1, <1>2, <1>3 DEF Shape
<1>6. \A d \in Codes : row'[d] = IF d = c THEN x ELSE row[d]
  BY DEF Inductive, Shape
<1>7. \A v \in Workers : (Owning(v) \/ op[v].fresh) => op[v].code \in Codes
  BY OpHere DEF Inductive, GoodOp, Owning, OwningSteps, LockCalls, CodelessSteps, FreshSteps
<1>8. \A v \in Workers : Owning(v) => op[v].code # c
  BY DEF Inductive, Writers
<1>9. Writers'
  <2> HIDE DEF c
  <2> QED
    BY <1>1, <1>6, <1>7, <1>8 DEF Inductive, Writers, Owning, Live, c
<1> QED
  BY <1>4, <1>5, <1>9 DEF Inductive

LEMMA FreshRow ==
    ASSUME Inductive, NEW w \in Workers, op[w].fresh
    PROVE  /\ op[w].code \in Codes
           /\ Live(op[w].code)
           /\ row[op[w].code] \in GoodRow
<1>1. op[w].code \in Codes
  BY OpHere DEF Inductive, GoodOp, FreshSteps, CodelessSteps
<1> QED
  BY <1>1 DEF Inductive, Writers, Shape

(* A claim that writes the status alone. *)
LEMMA StatusClaim ==
    ASSUME Inductive, NEW w \in Workers, op[w].fresh,
           NEW o \in GoodOp, o.pc \in OwningSteps, o.code = op[w].code, ~o.fresh,
           ContinueBumping(w, op[w].code, o),
           NEW s \in Pending, SetStatus(op[w].code, s),
           goal' \in [Codes -> {"keep", "drop"}],
           UNCHANGED <<booking, audit, lock, made, phase, today, budget>>
    PROVE  Inductive'
<1> DEFINE c == op[w].code
           x == [row[c] EXCEPT !.status = s, !.aged = FALSE]
<1>1. c \in Codes /\ row[c] \in GoodRow /\ Live(c)
  BY FreshRow
<1>2. /\ x \in GoodRow /\ x.status = s /\ ~x.aged
      /\ x.pin = row[c].pin /\ x.win = row[c].win
  BY <1>1, GoodRowFields DEF Live
<1>3. row' = [row EXCEPT ![c] = x]
  BY <1>1 DEF SetStatus, Inductive, Shape
<1>4. NoPinCollision'
  <2>1. \A d \in Codes : row'[d] = IF d = c THEN x ELSE row[d]
    BY <1>3 DEF Inductive, Shape
  <2> HIDE DEF x, c
  <2> QED
    BY <1>1, <1>2, <2>1, CollisionFrame DEF Inductive, Live
<1> HIDE DEF x
<1> QED
  BY <1>1, <1>2, <1>3, <1>4, ClaimWrite

LEMMA FinishStep ==
    ASSUME Inductive, NEW w \in Workers, Finish(w),
           UNCHANGED <<booking, row, audit, goal, lock, made, phase, todo, today, budget>>
    PROVE  Inductive'
<1>1. Moves(w, IdleOp)
  BY IdleMoves
<1> QED
  BY <1>1, IdleOpGood, MovesStep, SameType

LEMMA OverlapSymmetric == \A a, b : Overlap(a, b) <=> Overlap(b, a)
  BY DEF Overlap

(* The conflict query keeps PINs apart when row c is written as x. *)
LEMMA CollisionByQuery ==
    ASSUME Shape, NoPinCollision, NEW c \in Codes, NEW x,
           row' = [row EXCEPT ![c] = x], ~TakenInTable(x.pin, x.win, c)
    PROVE  NoPinCollision'
<1>1. \A d \in Codes : row'[d] = IF d = c THEN x ELSE row[d]
  BY DEF Shape
<1>2. \A d \in Codes \ {c} : (Live(d) /\ row[d].pin = x.pin) => ~Overlap(row[d].win, x.win)
  BY DEF TakenInTable
<1> QED
  BY <1>1, <1>2, OverlapSymmetric DEF NoPinCollision, Live

LEMMA NoRowType == NoRow \in RowType
  BY BoundsAreNaturals DEF NoRow, RowType

LEMMA ReserveStep == ASSUME Inductive, NEW w \in Workers, Reserve(w) PROVE Inductive'
<1> DEFINE p == op[w]
<1>1. CASE Finish(w) /\ UNCHANGED <<row, goal>>
  BY <1>1, FinishStep DEF Reserve
<1>2. CASE ~(Finish(w) /\ UNCHANGED <<row, goal>>)
  <2> DEFINE x == [NoRow EXCEPT !.status = "pending_create", !.res = p.res,
                                !.pin = p.pin, !.win = p.win]
             o(c) == [p EXCEPT !.pc = "create", !.code = c, !.failure = "create_failed"]
  <2>1. PICK c \in Codes :
           /\ row[c].status = "none"
           /\ row' = [row EXCEPT ![c] = x]
           /\ goal' = [goal EXCEPT ![c] = "keep"]
           /\ Continue(w, o(c))
    BY <1>2 DEF Reserve
  <2>2. ~TakenInTable(p.pin, p.win, NoCode)
    BY <1>2 DEF Reserve
  <2>3. p \in GoodOp
    BY OpHere DEF Inductive
  <2>4. p.res \in Reservations /\ p.pin \in Pins /\ p.win \in Windows /\ ~p.fresh
    BY <2>3 DEF GoodOp, DataSteps, FreshSteps, Reserve
  <2>5. /\ x.status = "pending_create" /\ x.pin = p.pin /\ x.win = p.win
        /\ x.res = p.res /\ ~x.aged
    BY DEF NoRow
  <2>6. x \in GoodRow
    <3>1. x \in RowType
      BY <2>4, NoRowType DEF RowType
    <3> QED
      BY <2>4, <2>5, <3>1 DEF GoodRow
  <2>7. o(c) \in OpType
    BY <2>3 DEF GoodOp, OpType, Steps, OwningSteps, LockCalls
  <2>8. /\ o(c).pc = "create" /\ o(c).code = c /\ o(c).fresh = p.fresh
        /\ o(c).pin = p.pin /\ o(c).win = p.win
    BY <2>3 DEF GoodOp, OpType
  <2> HIDE DEF x, o
  <2>9. o(c) \in GoodOp
    BY <2>4, <2>7, <2>8 DEF GoodOp, CodelessSteps
  <2>10. op' \in [Workers -> GoodOp]
    BY <2>1, <2>9, ContinueGood DEF Inductive
  <2>11. row' \in [Codes -> GoodRow]
    BY <2>1, <2>6 DEF Inductive, Shape
  <2>12. TypeOK'
    BY <2>1, <2>10, <2>11 DEF Inductive, TypeOK, GoodOp, GoodRow, Reserve
  <2>13. Shape'
    BY <2>10, <2>11 DEF Inductive, Shape, GoodItem, Reserve
  <2>14. \A v \in Workers : op'[v] = IF v = w THEN o(c) ELSE op[v]
    BY <2>1 DEF Continue, Inductive, Shape
  <2>15. \A d \in Codes : row'[d] = IF d = c THEN x ELSE row[d]
    BY <2>1 DEF Inductive, Shape
  <2>16. \A v \in Workers : (Owning(v) \/ op[v].fresh) => op[v].code \in Codes /\ op[v].code # c
    BY <2>1, OpHere DEF Inductive, Writers, Live, GoodOp, Owning, OwningSteps, LockCalls,
                        CodelessSteps, FreshSteps
  <2>17. Writers'
    BY <2>4, <2>5, <2>8, <2>14, <2>15, <2>16 DEF Inductive, Writers, Owning, Live
  <2>18. ~TakenInTable(x.pin, x.win, c)
    BY <2>2, <2>5 , NullsAreOutside DEF TakenInTable
  <2>19. NoPinCollision'
    BY <2>1, <2>18, CollisionByQuery DEF Inductive
  <2> QED
    BY <2>12, <2>13, <2>17, <2>19 DEF Inductive
<1> QED
  BY <1>1, <1>2

LEMMA PrepareStep == ASSUME Inductive, NEW w \in Workers, Prepare(w) PROVE Inductive'
<1> DEFINE p == op[w]
           c == op[w].code
<1>1. CASE Finish(w) /\ UNCHANGED <<row, goal, todo>>
  BY <1>1, FinishStep DEF Prepare
<1>2. CASE ~(Finish(w) /\ UNCHANGED <<row, goal, todo>>)
  <2> DEFINE x == [row[c] EXCEPT !.status = "pending_update", !.pin = p.pin,
                                 !.win = p.win, !.override = p.override, !.aged = FALSE]
             o == [p EXCEPT !.pc = "change", !.fresh = FALSE, !.failure = "update_failed"]
  <2>1. /\ p.fresh
        /\ ~TakenInTable(p.pin, p.win, c)
        /\ row' = [row EXCEPT ![c].status = "pending_update", ![c].pin = p.pin,
                              ![c].win = p.win, ![c].override = p.override, ![c].aged = FALSE]
        /\ goal' = [goal EXCEPT ![c] = "keep"]
        /\ ContinueBumping(w, c, o)
    BY <1>2 DEF Prepare
  <2>2. c \in Codes /\ Live(c) /\ row[c] \in GoodRow
    BY <2>1, FreshRow
  <2>3. p \in GoodOp
    BY OpHere DEF Inductive
  <2>4. p.pin \in Pins /\ p.win \in Windows /\ p.override \in Stays \cup {NoWindow}
    BY <2>3 DEF GoodOp, OpType, DataSteps, Prepare
  <2>5. x \in RowType
    BY <2>2, <2>4 DEF GoodRow, RowType
  <2>6. /\ x.status = "pending_update" /\ x.pin = p.pin /\ x.win = p.win
        /\ x.res = row[c].res
    BY <2>2 DEF GoodRow, RowType
  <2>7. ~x.aged
    BY <2>2 DEF GoodRow, RowType
  <2>8. x \in GoodRow
    BY <2>2, <2>4, <2>5, <2>6, <2>7 DEF GoodRow, Live
  <2>9. row' = [row EXCEPT ![c] = x]
    BY <2>1, <2>2 DEF Inductive, Shape
  <2>10. o \in OpType
    BY <2>3 DEF GoodOp, OpType, Steps, OwningSteps, LockCalls
  <2>11. /\ o.pc = "change" /\ o.code = c /\ o.pin = p.pin /\ o.win = p.win
    BY <2>3 DEF GoodOp, OpType
  <2>12. ~o.fresh
    BY <2>3 DEF GoodOp, OpType
  <2> HIDE DEF x, o
  <2>13. o \in GoodOp /\ o.pc \in OwningSteps
    BY <2>2, <2>4, <2>10, <2>11, <2>12 DEF GoodOp, OwningSteps, LockCalls
  <2>14. NoPinCollision'
    BY <2>1, <2>2, <2>6, <2>9, CollisionByQuery DEF Inductive
  <2>15. goal' \in [Codes -> {"keep", "drop"}]
    BY <2>1 DEF Inductive, TypeOK
  <2> QED
    BY <2>1, <2>2, <2>6, <2>7, <2>8, <2>9, <2>11, <2>12, <2>13, <2>14, <2>15, ClaimWrite
    DEF Prepare
<1> QED
  BY <1>1, <1>2

LEMMA ClaimDeleteStep ==
    ASSUME Inductive, NEW w \in Workers, ClaimDelete(w) PROVE Inductive'
<1> DEFINE p == op[w]
           c == op[w].code
<1>1. CASE Finish(w) /\ UNCHANGED <<row, goal, todo>>
  BY <1>1, FinishStep DEF ClaimDelete
<1>2. CASE ~(Finish(w) /\ UNCHANGED <<row, goal, todo>>)
  <2> DEFINE o == [p EXCEPT !.pc = "delete", !.fresh = FALSE, !.failure = "delete_failed"]
  <2>1. /\ p.fresh
        /\ SetStatus(c, "pending_delete")
        /\ goal' = [goal EXCEPT ![c] = "drop"]
        /\ ContinueBumping(w, c, o)
    BY <1>2 DEF ClaimDelete
  <2>2. c \in Codes /\ p \in GoodOp
    BY <2>1, FreshRow, OpHere DEF Inductive
  <2>3. o \in OpType
    BY <2>2 DEF GoodOp, OpType, Steps, OwningSteps, LockCalls
  <2>4. o.pc = "delete" /\ o.code = c
    BY <2>2 DEF GoodOp, OpType
  <2>5. ~o.fresh
    BY <2>2 DEF GoodOp, OpType
  <2> HIDE DEF o
  <2>6. o \in GoodOp /\ o.pc \in OwningSteps
    BY <2>2, <2>3, <2>4, <2>5 DEF GoodOp, DataSteps, OwningSteps, LockCalls
  <2>7. goal' \in [Codes -> {"keep", "drop"}]
    BY <2>1 DEF Inductive, TypeOK
  <2> QED
    BY <2>1, <2>4, <2>5, <2>6, <2>7, StatusClaim DEF ClaimDelete
<1> QED
  BY <1>1, <1>2

LEMMA ClaimStep == ASSUME Inductive, NEW w \in Workers, Claim(w) PROVE Inductive'
<1> DEFINE p == op[w]
           c == op[w].code
<1>1. CASE Finish(w) /\ UNCHANGED <<row, goal, todo>>
  BY <1>1, FinishStep DEF Claim
<1>2. CASE ~(Finish(w) /\ UNCHANGED <<row, goal, todo>>)
  <2> DEFINE o(pc) == [p EXCEPT !.fresh = FALSE, !.pc = pc]
  <2>1. /\ p.fresh
        /\ SetStatus(c, ClaimedStatus(p))
        /\ goal' = [goal EXCEPT ![c] = IF p.intent = "delete" THEN "drop"
                                       ELSE IF p.intent = "ensure" /\ ~p.deleting
                                            THEN "keep" ELSE goal[c]]
        /\ ContinueBumping(w, c, o(IF p.pid = 0 THEN "find"
                                   ELSE IF p.deleting THEN "exists" ELSE "configured"))
    BY <1>2 DEF Claim
  <2>2. PICK pc \in {"find", "exists", "configured"} : ContinueBumping(w, c, o(pc))
    <3>1. (IF p.pid = 0 THEN "find" ELSE IF p.deleting THEN "exists" ELSE "configured")
             \in {"find", "exists", "configured"}
      OBVIOUS
    <3> QED
      BY <2>1, <3>1
  <2>3. c \in Codes /\ p \in GoodOp
    BY <2>1, FreshRow, OpHere DEF Inductive
  <2>4. o(pc) \in OpType
    BY <2>3 DEF GoodOp, OpType, Steps, OwningSteps, LockCalls
  <2>5. o(pc).pc = pc /\ o(pc).code = c /\ o(pc).pin = p.pin /\ o(pc).win = p.win
    BY <2>3 DEF GoodOp, OpType
  <2>6. ~o(pc).fresh
    BY <2>3 DEF GoodOp, OpType
  <2>7. p.pin \in Pins /\ p.win \in Windows
    BY <2>3 DEF GoodOp, DataSteps, Claim
  <2> HIDE DEF o
  <2>8. o(pc) \in GoodOp /\ o(pc).pc \in OwningSteps
    BY <2>3, <2>4, <2>5, <2>6, <2>7 DEF GoodOp, OwningSteps, LockCalls
  <2>9. goal[c] \in {"keep", "drop"}
    BY <2>3 DEF Inductive, TypeOK
  <2>10. goal' \in [Codes -> {"keep", "drop"}]
    BY <2>1, <2>9 DEF Inductive, TypeOK
  <2>11. ClaimedStatus(p) \in Pending
    BY DEF ClaimedStatus
  <2> QED
    BY <2>1, <2>2, <2>5, <2>6, <2>8, <2>10, <2>11, StatusClaim DEF Claim
<1> QED
  BY <1>1, <1>2

-----------------------------------------------------------------------------
(* The start of a request or of a sweep's item: it reads, and a version it *)
(* reads belongs to a row nobody is writing.                               *)

Started(w, o) ==
    /\ Continue(w, o)
    /\ o.pc \notin OwningSteps
    /\ o.fresh => Live(o.code) /\ row[o.code].status \notin Pending

LEMMA StartKeeps ==
    ASSUME Inductive, NEW w \in Workers, NEW o \in GoodOp, Started(w, o),
           todo' \subseteq todo, budget' \in BudgetType,
           UNCHANGED <<booking, row, audit, goal, lock, made, phase, today>>
    PROVE  Inductive'
<1>1. op' \in [Workers -> GoodOp]
  BY ContinueGood DEF Inductive, Started
<1>2. TypeOK'
  BY <1>1 DEF Inductive, TypeOK, GoodOp, BudgetType
<1>3. Shape'
  BY <1>1 DEF Inductive, Shape, GoodItem
<1>4. \A v \in Workers : o.fresh /\ Owning(v) => op[v].code # o.code
  BY DEF Inductive, Writers, Started
<1>5. Writers'
  BY <1>4, LocalWriters DEF Inductive, Started
<1>6. NoPinCollision'
  BY CollisionFrame DEF Inductive, Live
<1> QED
  BY <1>2, <1>3, <1>5, <1>6 DEF Inductive

LEMMA StartReconcileStarts ==
    ASSUME Inductive, NEW w \in Workers, NEW c \in Codes, NEW i \in Intents,
           Continue(w, [IdleOp EXCEPT !.pc = "load", !.kind = "recover",
                                      !.code = c, !.intent = i])
    PROVE  \E o \in GoodOp : Started(w, o)
<1> DEFINE o == [IdleOp EXCEPT !.pc = "load", !.kind = "recover", !.code = c, !.intent = i]
<1>1. o \in OpType
  BY IdleOpType DEF OpType, Steps, ReadingSteps, Kinds
<1>2. o.pc = "load" /\ o.code = c /\ ~o.fresh
  BY IdleOpType DEF OpType
<1>3. o \in GoodOp /\ o.pc \notin OwningSteps
  BY <1>1, <1>2 DEF GoodOp, DataSteps, OwningSteps, LockCalls
<1> QED
  BY <1>2, <1>3 DEF Started

LEMMA ReconcileStarts ==
    ASSUME Inductive, NEW w \in Workers, NEW c \in Codes, StartReconcile(w, c)
    PROVE  \E o \in GoodOp : Started(w, o)
  BY StartReconcileStarts DEF StartReconcile, Intents

LEMMA EnsureStarts ==
    ASSUME Inductive, NEW w \in Workers, NEW r \in Reservations, StartEnsure(w, r)
    PROVE  \E o \in GoodOp : Started(w, o)
<1>1. CASE \E c \in Codes :
              Continue(w, [IdleOp EXCEPT !.pc = "load", !.kind = "recover",
                                         !.code = c, !.intent = "ensure"])
  BY <1>1, StartReconcileStarts DEF Intents
<1>2. CASE Continue(w, [IdleOp EXCEPT !.pc = "pick", !.kind = "provision",
                                      !.res = r, !.win = booking[r].stay])
  <2> DEFINE o == [IdleOp EXCEPT !.pc = "pick", !.kind = "provision",
                                 !.res = r, !.win = booking[r].stay]
  <2>1. booking[r].stay \in Windows
    BY WindowsAreIntervals DEF Inductive, TypeOK
  <2>2. o \in OpType
    BY <2>1, IdleOpType DEF OpType, Steps, ReadingSteps, Kinds, Intents
  <2>3. o.pc = "pick" /\ o.res = r /\ o.win = booking[r].stay /\ ~o.fresh
    BY IdleOpType DEF OpType
  <2>4. o \in GoodOp /\ o.pc \notin OwningSteps
    BY <2>1, <2>2, <2>3 DEF GoodOp, CodelessSteps, DataSteps, OwningSteps, LockCalls
  <2> QED
    BY <1>2, <2>3, <2>4 DEF Started
<1> QED
  BY <1>1, <1>2 DEF StartEnsure, Current

LEMMA FromDraftStarts ==
    ASSUME Inductive, NEW w \in Workers, NEW r \in Reservations, NEW pin \in Pins,
           NEW win \in Windows, StartFromDraft(w, r, pin, win)
    PROVE  \E o \in GoodOp : Started(w, o)
<1> DEFINE o == [IdleOp EXCEPT !.pc = "reserve", !.kind = "provision",
                               !.res = r, !.pin = pin, !.win = win]
<1>1. o \in OpType
  BY IdleOpType DEF OpType, Steps, ReadingSteps, Kinds, Intents
<1>2. o.pc = "reserve" /\ o.res = r /\ o.pin = pin /\ o.win = win /\ ~o.fresh
  BY IdleOpType DEF OpType
<1>3. o \in GoodOp /\ o.pc \notin OwningSteps
  BY <1>1, <1>2 DEF GoodOp, CodelessSteps, DataSteps, OwningSteps, LockCalls
<1> QED
  BY <1>2, <1>3 DEF Started, StartFromDraft

(* An operation that has read the row c and holds its version. *)
LEMMA ReaderStarts ==
    ASSUME Inductive, NEW w \in Workers, NEW c \in Codes,
           row[c].status \in {"active", "sync_error"},
           NEW o \in OpType, Continue(w, o),
           o.code = c, o.pc \in {"prepare", "claimDelete"},
           o.pc = "prepare" => o.pin \in Pins /\ o.win \in Windows
    PROVE  \E q \in GoodOp : Started(w, q)
<1>1. o \in GoodOp /\ o.pc \notin OwningSteps
  BY DEF GoodOp, CodelessSteps, DataSteps, FreshSteps, OwningSteps, LockCalls
<1> QED
  BY <1>1 DEF Started, Live

LEMMA RowFields ==
    ASSUME Inductive, NEW c \in Codes, row[c].status # "none"
    PROVE  /\ row[c].pin \in Pins /\ row[c].win \in Windows
           /\ row[c].res \in Reservations
           /\ row[c].pid \in 0 .. MaxPasscodes
           /\ booking[row[c].res].stay \in Stays
  BY DEF Inductive, Shape, TypeOK, GoodRow, RowType

LEMMA UpdateStarts ==
    ASSUME Inductive, NEW w \in Workers, NEW c \in Codes, NEW win \in Windows,
           NEW stay \in Stays \cup {NoWindow}, StartUpdate(w, c, win, stay)
    PROVE  \E o \in GoodOp : Started(w, o)
<1> DEFINE o == [IdleOp EXCEPT !.pc = "prepare", !.kind = "update", !.code = c,
                               !.fresh = TRUE, !.pin = row[c].pin, !.win = win,
                               !.pid = row[c].pid, !.override = stay]
<1>1. row[c].status = "active"
  BY DEF StartUpdate, UpdateApplies
<1>2. o \in OpType
  BY <1>1, RowFields DEF IdleOp, OpType, Steps, ReadingSteps, Kinds, Intents
<1>3. o.pc = "prepare" /\ o.code = c /\ o.pin = row[c].pin /\ o.win = win
  BY DEF IdleOp
<1> HIDE DEF o
<1> QED
  BY <1>1, <1>2, <1>3, RowFields, ReaderStarts DEF StartUpdate, o

LEMMA ReplaceStarts ==
    ASSUME Inductive, NEW w \in Workers, NEW c \in Codes, NEW pin \in Pins,
           NEW win \in Windows, StartReplace(w, c, pin, win)
    PROVE  \E o \in GoodOp : Started(w, o)
<1> DEFINE o == [IdleOp EXCEPT !.pc = "prepare", !.kind = "replace", !.code = c,
                               !.fresh = TRUE, !.pin = pin, !.win = win,
                               !.pid = row[c].pid,
                               !.override = booking[row[c].res].stay]
<1>1. row[c].status = "active"
  BY DEF StartReplace
<1>2. o \in OpType
  BY <1>1, RowFields DEF IdleOp, OpType, Steps, ReadingSteps, Kinds, Intents
<1>3. o.pc = "prepare" /\ o.code = c /\ o.pin = pin /\ o.win = win
  BY DEF IdleOp
<1> HIDE DEF o
<1> QED
  BY <1>1, <1>2, <1>3, ReaderStarts DEF StartReplace, o

LEMMA RevokeStarts ==
    ASSUME Inductive, NEW w \in Workers, NEW c \in Codes, StartRevoke(w, c)
    PROVE  \E o \in GoodOp : Started(w, o)
<1>1. row[c].status \in {"active", "sync_error"}
  BY DEF StartRevoke, RevokeApplies
<1>2. CASE row[c].pid = 0
  BY <1>2, StartReconcileStarts DEF StartRevoke, Intents
<1>3. CASE row[c].pid # 0
  <2> DEFINE o == [IdleOp EXCEPT !.pc = "claimDelete", !.kind = "revoke",
                                 !.code = c, !.fresh = TRUE, !.pid = row[c].pid]
  <2>1. o \in OpType
    BY <1>1, RowFields DEF IdleOp, OpType, Steps, ReadingSteps, Kinds, Intents
  <2>2. o.pc = "claimDelete" /\ o.code = c
    BY DEF IdleOp
  <2> HIDE DEF o
  <2> QED
    BY <1>1, <1>3, <2>1, <2>2, ReaderStarts DEF StartRevoke, o
<1> QED
  BY <1>2, <1>3

LEMMA RequestStep == ASSUME Inductive, NEW w \in Workers, Request(w) PROVE Inductive'
<1>1. PICK o \in GoodOp : Started(w, o)
  <2>1. CASE \E r \in Reservations : StartEnsure(w, r)
    BY <2>1, EnsureStarts
  <2>2. CASE \E r \in Reservations, pin \in Pins, win \in Windows : StartFromDraft(w, r, pin, win)
    BY <2>2, FromDraftStarts
  <2>3. CASE \E c \in {d \in Codes : row[d].status = "active"}, win \in Windows :
                \/ StartUpdate(w, c, win, booking[row[c].res].stay)
                \/ \E pin \in Pins : StartReplace(w, c, pin, win)
    <3>1. PICK c \in Codes, win \in Windows :
             /\ row[c].status = "active"
             /\ \/ StartUpdate(w, c, win, booking[row[c].res].stay)
                \/ \E pin \in Pins : StartReplace(w, c, pin, win)
      BY <2>3
    <3>2. booking[row[c].res].stay \in Stays
      BY <3>1, RowFields
    <3> QED
      BY <3>1, <3>2, UpdateStarts, ReplaceStarts
  <2>4. CASE \E c \in Codes : StartRevoke(w, c)
    BY <2>4, RevokeStarts
  <2>5. CASE \E c \in Codes : StartReconcile(w, c)
    BY <2>5, ReconcileStarts
  <2> QED
    BY <2>1, <2>2, <2>3, <2>4, <2>5 DEF Request
<1>2. budget' \in BudgetType
  BY SpendType DEF Request, Inductive
<1> QED
  BY <1>1, <1>2, StartKeeps DEF Request

-----------------------------------------------------------------------------
(* Steps that leave every operation where it is *)

BookingType == [Reservations -> [status : {"confirmed", "cancelled"}, stay : Stays]]

LEMMA EnvironmentStep ==
    ASSUME Inductive, UNCHANGED <<op, goal, lock, made>>,
           booking' \in BookingType, audit' \in AuditType, budget' \in BudgetType,
           today' \in 0 .. LastDay, phase' \in Phases,
           todo' \subseteq TodoItem, \A e \in todo' : GoodItem(e)',
           row' \in [Codes -> GoodRow],
           \A c \in Codes :
               /\ row'[c].status = row[c].status
               /\ row'[c].pin = row[c].pin
               /\ row'[c].win = row[c].win
               /\ row'[c].aged =>
                     row[c].aged \/ \A w \in Workers : Owning(w) => op[w].code # c
    PROVE  Inductive'
<1>1. TypeOK'
  BY DEF Inductive, TypeOK, BookingType, AuditType, BudgetType, GoodRow
<1>2. Shape'
  BY DEF Inductive, Shape
<1>3. \A w \in Workers : (Owning(w) \/ op[w].fresh) => op[w].code \in Codes
  BY OpHere DEF Inductive, GoodOp, Owning, OwningSteps, LockCalls, CodelessSteps, FreshSteps
<1>4. Writers'
  BY <1>3 DEF Inductive, Writers, Owning, Live
<1>5. NoPinCollision'
  BY CollisionFrame DEF Inductive, Live
<1> QED
  BY <1>1, <1>2, <1>4, <1>5 DEF Inductive

LEMMA InductiveTypes ==
    ASSUME Inductive
    PROVE  /\ booking \in BookingType /\ audit \in AuditType /\ budget \in BudgetType
           /\ today \in 0 .. LastDay /\ phase \in Phases
           /\ todo \subseteq TodoItem /\ \A e \in todo : GoodItem(e)
           /\ row \in [Codes -> GoodRow]
  BY DEF Inductive, TypeOK, Shape, BookingType, AuditType, BudgetType

LEMMA SameItems ==
    ASSUME Inductive, todo' \subseteq todo, UNCHANGED phase
    PROVE  todo' \subseteq TodoItem /\ \A e \in todo' : GoodItem(e)'
  BY InductiveTypes DEF GoodItem

LEMMA StutterStep == ASSUME Inductive, UNCHANGED vars PROVE Inductive'
  BY InductiveTypes, SameItems, EnvironmentStep DEF vars

LEMMA RefreshUsageStep ==
    ASSUME Inductive, NEW c \in Codes, RefreshUsage(c) PROVE Inductive'
<1> DEFINE x == [row[c] EXCEPT !.aged = FALSE]
<1>1. row[c] \in GoodRow
  BY InductiveTypes
<1>2. x \in GoodRow /\ x.status = row[c].status /\ x.pin = row[c].pin /\ x.win = row[c].win
      /\ ~x.aged
  BY <1>1 DEF GoodRow, RowType
<1>3. row' = [row EXCEPT ![c] = x]
  BY InductiveTypes DEF RefreshUsage
<1> HIDE DEF x
<1>4. row' \in [Codes -> GoodRow] /\ \A d \in Codes : row'[d] = IF d = c THEN x ELSE row[d]
  BY <1>2, <1>3, InductiveTypes
<1>5. budget' \in BudgetType
  BY SpendType DEF RefreshUsage, Inductive
<1> QED
  BY <1>2, <1>4, <1>5, InductiveTypes, SameItems, EnvironmentStep DEF RefreshUsage

LEMMA AgeStep == ASSUME Inductive, NEW c \in Codes, Age(c) PROVE Inductive'
<1> DEFINE x == [row[c] EXCEPT !.aged = TRUE]
<1>1. row[c] \in GoodRow
  BY InductiveTypes
<1>2. x \in GoodRow /\ x.status = row[c].status /\ x.pin = row[c].pin /\ x.win = row[c].win
  BY <1>1 DEF GoodRow, RowType, Age
<1>3. row' = [row EXCEPT ![c] = x]
  BY InductiveTypes DEF Age
<1> HIDE DEF x
<1>4. row' \in [Codes -> GoodRow] /\ \A d \in Codes : row'[d] = IF d = c THEN x ELSE row[d]
  BY <1>2, <1>3, InductiveTypes
<1>5. \A w \in Workers : Owning(w) => op[w].code # c
  BY DEF Age, Owns, Owning
<1> QED
  BY <1>2, <1>4, <1>5, InductiveTypes, SameItems, EnvironmentStep DEF Age

LEMMA FailureExpiresStep ==
    ASSUME Inductive, NEW c \in Codes, FailureExpires(c) PROVE Inductive'
<1> DEFINE AuditRow == [last : FailureEvents \cup {"none"}, today : 0 .. MaxFailures]
<1>1. audit[c] \in AuditRow /\ audit \in [Codes -> AuditRow]
  BY InductiveTypes DEF AuditType
<1>2. audit[c].today - 1 \in 0 .. MaxFailures
  BY <1>1, BoundsAreNaturals DEF FailureExpires
<1>3. \A n \in 0 .. MaxFailures : [audit[c] EXCEPT !.today = n] \in AuditRow
  BY <1>1
<1>4. audit' = [audit EXCEPT ![c] = [audit[c] EXCEPT !.today = audit[c].today - 1]]
  BY <1>1 DEF FailureExpires
<1>5. audit' \in AuditType
  BY <1>1, <1>2, <1>3, <1>4 DEF AuditType
<1> QED
  BY <1>5, InductiveTypes, SameItems, EnvironmentStep DEF FailureExpires

LEMMA CancelReservationStep ==
    ASSUME Inductive, NEW r \in Reservations, CancelReservation(r) PROVE Inductive'
<1>1. booking' \in BookingType
  BY InductiveTypes DEF CancelReservation, BookingType
<1>2. budget' \in BudgetType
  BY SpendType DEF CancelReservation, Inductive
<1> QED
  BY <1>1, <1>2, InductiveTypes, SameItems, EnvironmentStep DEF CancelReservation

LEMMA ReinstateStep ==
    ASSUME Inductive, NEW r \in Reservations, Reinstate(r) PROVE Inductive'
<1>1. booking' \in BookingType
  BY InductiveTypes DEF Reinstate, BookingType
<1>2. budget' \in BudgetType
  BY SpendType DEF Reinstate, Inductive
<1> QED
  BY <1>1, <1>2, InductiveTypes, SameItems, EnvironmentStep DEF Reinstate

LEMMA MoveStayStep ==
    ASSUME Inductive, NEW r \in Reservations, NEW s \in Stays, MoveStay(r, s) PROVE Inductive'
<1>1. booking' \in BookingType
  BY InductiveTypes DEF MoveStay, BookingType
<1>2. budget' \in BudgetType
  BY SpendType DEF MoveStay, Inductive
<1> QED
  BY <1>1, <1>2, InductiveTypes, SameItems, EnvironmentStep DEF MoveStay

LEMMA NewDayStep == ASSUME Inductive, NewDay PROVE Inductive'
<1>1. today' \in 0 .. LastDay
  BY InductiveTypes, WindowsAreIntervals DEF NewDay
<1> QED
  BY <1>1, InductiveTypes, SameItems, EnvironmentStep DEF NewDay

-----------------------------------------------------------------------------
(* The sweeps *)

LEMMA CodeItemType ==
    ASSUME NEW c \in Codes, NEW win \in Windows \cup {NoWindow}
    PROVE  /\ CodeItem(c, win) \in TodoItem
           /\ CodeItem(c, win).code = c
           /\ CodeItem(c, win).win = win
  BY DEF CodeItem, TodoItem

LEMMA SweepTypes ==
    ASSUME Inductive
    PROVE  /\ \A e \in ToRecover : e \in TodoItem /\ e.code \in Codes
           /\ \A e \in ToRevoke : e \in TodoItem /\ e.code \in Codes
           /\ \A e \in ToMove : e \in TodoItem /\ e.code \in Codes /\ e.win \in Windows
           /\ \A e \in ToCreate : e \in TodoItem /\ e.res \in Reservations
<1>1. \A e \in ToRecover : e \in TodoItem /\ e.code \in Codes
  BY CodeItemType DEF ToRecover
<1>2. \A e \in ToRevoke : e \in TodoItem /\ e.code \in Codes
  BY CodeItemType DEF ToRevoke
<1>3. ASSUME NEW e \in ToMove
      PROVE  e \in TodoItem /\ e.code \in Codes /\ e.win \in Windows
  <2>1. PICK c \in Codes :
           row[c].status = "active" /\ e = CodeItem(c, booking[row[c].res].stay)
    BY DEF ToMove
  <2>2. booking[row[c].res].stay \in Windows
    BY <2>1, RowFields, WindowsAreIntervals
  <2> QED
    BY <2>1, <2>2, CodeItemType
<1>4. ASSUME NEW e \in ToCreate PROVE e \in TodoItem /\ e.res \in Reservations
  <2>1. PICK r \in Reservations : e = [code |-> NoCode, res |-> r, win |-> NoWindow,
                                       fresh |-> TRUE]
    BY DEF ToCreate
  <2>2. e.res = r /\ e.fresh = TRUE
    BY <2>1
  <2>3. e \in TodoItem
    BY <2>1 DEF TodoItem
  <2> QED
    BY <2>2, <2>3
<1> QED
  BY <1>1, <1>2, <1>3, <1>4

LEMMA NextSweepStep == ASSUME Inductive, NextSweep PROVE Inductive'
<1>1. /\ phase' \in Phases
      /\ todo' \subseteq TodoItem
      /\ \A e \in todo' : GoodItem(e)'
  <2>1. CASE phase' = "recover" /\ todo' = ToRecover
    BY <2>1, SweepTypes DEF GoodItem, Phases
  <2>2. CASE phase' = "cancelled" /\ todo' = ToRevoke
    BY <2>2, SweepTypes DEF GoodItem, Phases
  <2>3. CASE phase' = "dates" /\ todo' = ToMove
    BY <2>3, SweepTypes DEF GoodItem, Phases
  <2>4. CASE phase' = "due" /\ todo' = ToCreate
    BY <2>4, SweepTypes DEF GoodItem, Phases
  <2>5. CASE phase' = "idle" /\ todo' = {}
    BY <2>5 DEF Phases
  <2> QED
    BY <2>1, <2>2, <2>3, <2>4, <2>5 DEF NextSweep
<1> QED
  BY <1>1, InductiveTypes, EnvironmentStep DEF NextSweep

LEMMA SweepItemStep == ASSUME Inductive, NEW e \in todo, SweepItem(e) PROVE Inductive'
<1>1. Cron \in Workers
  BY DEF Workers
<1>2. GoodItem(e)
  BY InductiveTypes
<1>3. CASE UNCHANGED op
  BY <1>3, InductiveTypes, SameItems, EnvironmentStep DEF SweepItem
<1>4. CASE \E o \in GoodOp : Started(Cron, o)
  BY <1>1, <1>4, StartKeeps, InductiveTypes DEF SweepItem
<1>5. CASE phase = "recover" /\ StartReconcile(Cron, e.code)
  BY <1>1, <1>2, <1>4, <1>5, ReconcileStarts DEF GoodItem
<1>6. CASE phase = "cancelled" /\ StartRevoke(Cron, e.code)
  BY <1>1, <1>2, <1>4, <1>6, RevokeStarts DEF GoodItem
<1>7. CASE phase = "dates" /\ StartUpdate(Cron, e.code, e.win, NoWindow)
  BY <1>1, <1>2, <1>4, <1>7, UpdateStarts DEF GoodItem
<1>8. CASE phase = "due" /\ StartEnsure(Cron, e.res)
  BY <1>1, <1>2, <1>4, <1>8, EnsureStarts DEF GoodItem
<1>9. \/ UNCHANGED op
      \/ phase = "recover" /\ StartReconcile(Cron, e.code)
      \/ phase = "cancelled" /\ StartRevoke(Cron, e.code)
      \/ phase = "dates" /\ StartUpdate(Cron, e.code, e.win, NoWindow)
      \/ phase = "due" /\ StartEnsure(Cron, e.res)
  BY DEF SweepItem
<1> QED
  BY <1>3, <1>5, <1>6, <1>7, <1>8, <1>9

-----------------------------------------------------------------------------
(* Restart, and the invariant as a whole *)

LEMMA CrashStep == ASSUME Inductive, Crash PROVE Inductive'
<1>1. op' \in [Workers -> GoodOp] /\ \A w \in Workers : op'[w] = IdleOp
  BY IdleOpGood DEF Crash
<1>2. budget' \in BudgetType
  BY SpendType DEF Crash, Inductive
<1>3. TypeOK'
  BY <1>1, <1>2 DEF Crash, Inductive, TypeOK, GoodOp, BudgetType, Phases
<1>4. Shape'
  BY <1>1 DEF Crash, Inductive, Shape
<1>5. Writers'
  BY <1>1, IdleFields DEF Writers, Owning
<1>6. NoPinCollision'
  BY CollisionFrame DEF Crash, Inductive, Live
<1> QED
  BY <1>3, <1>4, <1>5, <1>6 DEF Inductive

LEMMA NoRowGood == NoRow \in GoodRow /\ NoRow.status = "none"
<1>1. NoRow.status = "none" /\ ~NoRow.aged
  BY DEF NoRow
<1> QED
  BY <1>1, NoRowType DEF GoodRow

LEMMA InitInductive == Init => Inductive
<1> SUFFICES ASSUME Init PROVE Inductive
  OBVIOUS
<1>1. op \in [Workers -> GoodOp] /\ \A w \in Workers : op[w] = IdleOp
  BY IdleOpGood DEF Init
<1>2. row \in [Codes -> GoodRow] /\ \A c \in Codes : row[c].status = "none"
  BY NoRowGood DEF Init
<1>3. TypeOK
  <2>1. booking \in BookingType
    BY DEF Init, BookingType
  <2>2. audit \in AuditType
    BY BoundsAreNaturals DEF Init, AuditType
  <2>3. budget \in BudgetType
    BY BoundsAreNaturals DEF Init, BudgetType
  <2>4. today \in 0 .. LastDay /\ made \in 0 .. MaxPasscodes
    BY BoundsAreNaturals, WindowsAreIntervals DEF Init
  <2>5. goal \in [Codes -> {"keep", "drop"}] /\ lock = {} /\ phase \in Phases /\ todo = {}
    BY DEF Init, Phases
  <2> QED
    BY <1>1, <1>2, <2>1, <2>2, <2>3, <2>4, <2>5
    DEF TypeOK, GoodOp, GoodRow, BookingType, AuditType, BudgetType
<1>4. Shape
  BY <1>1, <1>2 DEF Shape, Init
<1>5. Writers
  BY <1>1, IdleFields DEF Writers, Owning
<1>6. NoPinCollision
  BY <1>2 DEF NoPinCollision, Live
<1> QED
  BY <1>3, <1>4, <1>5, <1>6 DEF Inductive

LEMMA ProceedStep == ASSUME Inductive, NEW w \in Workers, Proceed(w) PROVE Inductive'
  BY PickStep, ReserveStep, PrepareStep, ClaimDeleteStep, LoadStep, ClaimStep, FindStep,
     ExistsStep, AvailableStep, CheckConfiguredStep, CreatePasscodeStep, ChangePasscodeStep,
     DeletePasscodeStep, StoreProviderIdStep, ConfirmStep, ActivateStep, RetireStep,
     MarkSyncErrorStep, RecordFailureStep
  DEF Proceed

LEMMA NextInductive == Inductive /\ [Next]_vars => Inductive'
<1> SUFFICES ASSUME Inductive, [Next]_vars PROVE Inductive'
  OBVIOUS
<1>1. ASSUME NEW w \in Workers, Proceed(w) \/ LockCallFails(w) \/ Request(w)
      PROVE  Inductive'
  BY <1>1, ProceedStep, LockCallFailsStep, RequestStep
<1>2. CASE Automation
  BY <1>2, NextSweepStep, SweepItemStep DEF Automation
<1>3. ASSUME NEW c \in Codes, RefreshUsage(c) \/ Age(c) \/ FailureExpires(c)
      PROVE  Inductive'
  BY <1>3, RefreshUsageStep, AgeStep, FailureExpiresStep
<1>4. ASSUME NEW r \in Reservations,
             CancelReservation(r) \/ Reinstate(r) \/ \E s \in Stays : MoveStay(r, s)
      PROVE  Inductive'
  BY <1>4, CancelReservationStep, ReinstateStep, MoveStayStep
<1>5. CASE NewDay
  BY <1>5, NewDayStep
<1>6. CASE Crash
  BY <1>6, CrashStep
<1>7. CASE UNCHANGED vars
  BY <1>7, StutterStep
<1> QED
  BY <1>1, <1>2, <1>3, <1>4, <1>5, <1>6, <1>7 DEF Next

(* Inductive holds in every reachable state. *)
LEMMA AlwaysInductive == Spec => []Inductive
  BY InitInductive, NextInductive, PTL DEF Spec

-----------------------------------------------------------------------------
(* The variables keep their types: in particular no operation reaches the  *)
(* lock with a PIN or a window it has not been given.                      *)
THEOREM TypeCorrect == Spec => []TypeOK
<1>1. Inductive => TypeOK
  BY DEF Inductive
<1> QED
  BY <1>1, AlwaysInductive, PTL

(* The claims (version checks under the row's lock) leave at most one      *)
(* operation between a row's claim and its last write, with any number of  *)
(* administrators beside the automation and any restarts; so the later     *)
(* statements need no version check (access-codes.service.ts:866-986,      *)
(* 1032-1062, 1703-1752).                                                  *)
THEOREM OneWriter == Spec => []OneWriterPerCode
<1>1. Inductive => OneWriterPerCode
  <2> SUFFICES ASSUME Inductive PROVE OneWriterPerCode
    OBVIOUS
  <2>1. \A w \in Workers : Owning(w) => op[w].code \in Codes
    BY OwnedRow
  <2> QED
    BY <2>1 DEF Inductive, Writers, OneWriterPerCode, Owning
<1> QED
  BY <1>1, AlwaysInductive, PTL

(* The conflict query of reserveCandidate and prepareUpdate, run under the *)
(* device row's lock, is enough to keep PINs apart however many PINs are   *)
(* drawn outside it and however windows move.                              *)
THEOREM NoCollision == Spec => []NoPinCollision
<1>1. Inductive => NoPinCollision
  BY DEF Inductive
<1> QED
  BY <1>1, AlwaysInductive, PTL

(* The rows a step may write: rows not inserted yet, rows their owner or   *)
(* the holder of the current version writes, and old failed or pending     *)
(* ones.                                                                   *)
LEMMA RevokedUntouched ==
    ASSUME Inductive, [Next]_vars, NEW c \in Codes, row[c].status = "revoked"
    PROVE  row'[c] = row[c]
<1>1. \A w \in Workers : (Owning(w) \/ op[w].fresh) => op[w].code \in Codes /\ op[w].code # c
  BY OwnedRow, FreshRow DEF Live
<1>2. row \in [Codes -> GoodRow]
  BY InductiveTypes
<1>3. ASSUME NEW w \in Workers, Proceed(w) PROVE row'[c] = row[c]
  <2>1. CASE UNCHANGED row
    BY <2>1
  <2>2. CASE Reserve(w)
    BY <1>2, <2>2 DEF Reserve
  <2>3. CASE Prepare(w)
    <3>1. UNCHANGED row \/ op[w].fresh
      BY <2>3 DEF Prepare
    <3> QED
      BY <1>1, <1>2, <2>3, <3>1 DEF Prepare
  <2>4. CASE ClaimDelete(w)
    BY <1>1, <1>2, <2>4 DEF ClaimDelete, SetStatus
  <2>5. CASE Claim(w)
    BY <1>1, <1>2, <2>5 DEF Claim, SetStatus
  <2>6. CASE StoreProviderId(w)
    BY <1>1, <1>2, <2>6 DEF StoreProviderId, Owning, OwningSteps
  <2>7. CASE Activate(w)
    BY <1>1, <1>2, <2>7 DEF Activate, SetStatus, Owning, OwningSteps
  <2>8. CASE Retire(w)
    BY <1>1, <1>2, <2>8 DEF Retire, SetStatus, Owning, OwningSteps
  <2>9. CASE MarkSyncError(w)
    BY <1>1, <1>2, <2>9 DEF MarkSyncError, SetStatus, Owning, OwningSteps
  <2> QED
    BY <1>3, <2>1, <2>2, <2>3, <2>4, <2>5, <2>6, <2>7, <2>8, <2>9
    DEF Proceed, Pick, Load, Find, Exists, Available, CheckConfigured, CreatePasscode,
        ChangePasscode, DeletePasscode, Confirm, RecordFailure
<1>4. ASSUME NEW d \in Codes, RefreshUsage(d) PROVE row'[c] = row[c]
  BY <1>2, <1>4 DEF RefreshUsage, GoodRow
<1>5. ASSUME NEW d \in Codes, Age(d) PROVE row'[c] = row[c]
  BY <1>2, <1>5 DEF Age
<1> QED
  BY <1>3, <1>4, <1>5
  DEF Next, vars, LockCallFails, Request, Automation, NextSweep, SweepItem, FailureExpires,
      CancelReservation, Reinstate, MoveStay, NewDay, Crash

(* A revoked row is never written again: neither a late answer nor a       *)
(* restart nor recovery brings an old code back.                           *)
THEOREM RevokedRowsAreFinal == Spec => RevokedIsFinal
<1>1. Inductive /\ [Next]_vars
        => [\A c \in Codes : row[c].status = "revoked" => row'[c] = row[c]]_vars
  BY RevokedUntouched
<1> QED
  BY <1>1, AlwaysInductive, PTL DEF Spec, RevokedIsFinal

-----------------------------------------------------------------------------
(* Active codes are on the lock *)

(* A reservation of a PIN, which looks at the table alone, finds it free   *)
(* on the lock too.                                                        *)
TakesFreePins ==
    \A w \in Workers :
        (op[w].pc = "reserve" /\ op'[w].pc = "create")
            => ~TakenOnLock(op[w].pin, op[w].win)

(* The lock numbers its passcodes, and no two rows have one number.        *)
Numbered ==
    /\ \A k \in lock : k.id <= made
    /\ \A j, k \in lock : j.id = k.id => j = k
    /\ \A c \in Codes : row[c].pid <= made
    /\ \A c \in Codes : row[c].status = "none" => row[c].pid = 0
    /\ \A c, d \in Codes : row[c].pid = row[d].pid /\ row[c].pid # 0 => c = d

RecoverSteps == {"load", "claim", "find", "exists", "available", "configured"}

BlankSteps == {"pick", "reserve", "find", "available", "create"}

NumberSteps ==
    {"prepare", "claimDelete", "exists", "delete", "configured", "change", "store",
     "confirm", "activate"}

StoredSteps == {"confirm", "activate"}

(* What the operation o knows agrees with its row.                         *)
Carries(o) ==
    /\ o.pid <= made
    /\ o.pc \in RecoverSteps => o.kind = "recover"
    /\ o.fresh => o.pid = row[o.code].pid
    /\ o.fresh /\ o.pc = "claim" => o.pin = row[o.code].pin /\ o.win = row[o.code].win
    /\ o.fresh /\ o.pc = "prepare" => row[o.code].status = "active"
    /\ o.pc \in OwningSteps => row[o.code].pid \in {0, o.pid}
    /\ o.pc \in OwningSteps \cap DataSteps => o.pin = row[o.code].pin /\ o.win = row[o.code].win
    /\ o.pc \in BlankSteps => o.pid = 0
    /\ o.pc \in NumberSteps => o.pid # 0
    /\ o.pc \in StoredSteps \/ (o.pc = "change" /\ o.kind # "recover")
          => o.pid = row[o.code].pid

(* The passcode of row d, if it has one, has another PIN, and nobody is    *)
(* about to give it the row's: d cannot become active.                     *)
Astray(d) ==
    /\ \A k \in lock : k.id = row[d].pid => k.pin # row[d].pin
    /\ \A w \in Workers :
          ~(op[w].code = d /\ op[w].pc = "change" /\ op[w].kind = "replace")

(* The operation o works on a passcode of its own, or on one of a row that *)
(* is astray.                                                              *)
Keeps(o) ==
    o.pc \in OwningSteps =>
        /\ o.pid # 0 =>
              \A d \in Codes : row[d].pid = o.pid /\ d # o.code => Astray(d)
        /\ row[o.code].pid = 0 =>
              \A k \in lock : k.id = o.pid =>
                  \/ k.pin = row[o.code].pin /\ k.win = row[o.code].win
                  \/ \E d \in Codes : row[d].pid = k.id

Sure(o) ==
    o.pc = "activate" =>
        Configured(row[o.code].pid, row[o.code].pin, row[o.code].win)

Fine(o) == Carries(o) /\ Keeps(o) /\ Sure(o)

(* findPasscode may return the passcode k to recovery of the row c.        *)
Fits(k, c) == Live(c) /\ row[c].pid = 0 /\ k.pin = row[c].pin /\ Overlap(k.win, row[c].win)

(* What recovery finds is no other row's, unless that row is astray.       *)
Apart ==
    \A c, d \in Codes, k \in lock : Fits(k, c) /\ row[d].pid = k.id => Astray(d)

Linked == Numbered /\ Apart /\ ActiveIsOnLock /\ \A w \in Workers : Fine(op[w])

-----------------------------------------------------------------------------

Similar(v) ==
    /\ op'[v].pc = op[v].pc
    /\ op'[v].kind = op[v].kind
    /\ op'[v].code = op[v].code
    /\ op'[v].pid = op[v].pid
    /\ op'[v].pin = op[v].pin
    /\ op'[v].win = op[v].win
    /\ op'[v].fresh => op[v].fresh

LEMMA LinkTypes ==
    ASSUME Inductive
    PROVE  /\ \A w \in Workers : op[w].pid \in Nat /\ op[w].pid <= MaxPasscodes
           /\ \A c \in Codes : row[c].pid \in Nat /\ row[c].pid <= MaxPasscodes
           /\ \A k \in lock : k.id \in Nat /\ k.id # 0 /\ k.pin \in Pins /\ k.win \in Windows
           /\ made \in Nat /\ MaxPasscodes \in Nat
           /\ \A w \in Workers : (Owning(w) \/ op[w].fresh) => op[w].code \in Codes
           /\ \A w \in Workers : op[w].fresh => ~Owning(w)
           /\ \A w \in Workers : Owning(w) => row[op[w].code].status \in Pending
           /\ \A w \in Windows : Overlap(w, w)
<1>1. \A w \in Workers : op[w] \in GoodOp
  BY DEF Inductive, Shape
<1>2. \A c \in Codes : row[c] \in GoodRow
  BY DEF Inductive, Shape
<1>3. \A w \in Workers : op[w].pid \in Nat /\ op[w].pid <= MaxPasscodes
  BY <1>1, BoundsAreNaturals DEF GoodOp, OpType
<1>4. \A c \in Codes : row[c].pid \in Nat /\ row[c].pid <= MaxPasscodes
  BY <1>2, BoundsAreNaturals DEF GoodRow, RowType
<1>5. \A k \in lock : k.id \in Nat /\ k.id # 0 /\ k.pin \in Pins /\ k.win \in Windows
  BY BoundsAreNaturals DEF Inductive, TypeOK, Passcode
<1>6. made \in Nat /\ MaxPasscodes \in Nat
  BY BoundsAreNaturals DEF Inductive, TypeOK
<1>7. \A w \in Workers : (Owning(w) \/ op[w].fresh) => op[w].code \in Codes
  BY OwnedRow, FreshRow
<1>8. \A w \in Workers : op[w].fresh => ~Owning(w)
  BY <1>1 DEF GoodOp, FreshSteps, Owning, OwningSteps, LockCalls
<1>9. \A w \in Workers : Owning(w) => row[op[w].code].status \in Pending
  BY DEF Inductive, Writers
<1>10. \A w \in Windows : Overlap(w, w)
  BY WindowsAreIntervals DEF Overlap, Intervals
<1> QED
  BY <1>3, <1>4, <1>5, <1>6, <1>7, <1>8, <1>9, <1>10

(* Steps that leave the lock and every row's PIN, window and number alone. *)
LEMMA PlainStep ==
    ASSUME Inductive, Inductive', Linked,
           UNCHANGED <<lock, made>>,
           \A c \in Codes : /\ row'[c].pid = row[c].pid
                            /\ row'[c].pin = row[c].pin
                            /\ row'[c].win = row[c].win
                            /\ row'[c].status = "none" => row[c].status = "none"
                            /\ Live(c)' => Live(c)
                            /\ row'[c].status = "active" =>
                                  \/ row[c].status = "active"
                                  \/ Configured(row[c].pid, row[c].pin, row[c].win),
           \A v \in Workers :
              \/ /\ Similar(v)
                 /\ op'[v].fresh => row'[op[v].code].status = row[op[v].code].status
              \/ /\ Fine(op[v])'
                 /\ op'[v].pc = "change" => op'[v].kind # "replace"
    PROVE  Linked'
<1>1. Numbered'
  BY DEF Linked, Numbered
<1>2. \A d \in Codes : Astray(d) => Astray(d)'
  BY DEF Astray, Similar
<1>3. Apart'
  BY <1>2 DEF Linked, Apart, Fits
<1>4. ActiveIsOnLock'
  BY DEF Linked, ActiveIsOnLock, Configured
<1>5. ASSUME NEW v \in Workers, Similar(v),
             op'[v].fresh => row'[op[v].code].status = row[op[v].code].status
      PROVE  Fine(op[v])'
  <2>1. Fine(op[v])
    BY DEF Linked
  <2>2. op[v].pc \in OwningSteps \/ op'[v].fresh => op[v].code \in Codes
    BY <1>5, LinkTypes DEF Similar, Owning
  <2>3. Carries(op[v])'
    BY <1>5, <2>1, <2>2 DEF Fine, Carries, Similar, StoredSteps, OwningSteps, LockCalls
  <2>4. Keeps(op[v])'
    BY <1>2, <1>5, <2>1, <2>2 DEF Fine, Keeps, Similar
  <2>5. Sure(op[v])'
    BY <1>5, <2>1, <2>2 DEF Fine, Sure, Similar, Configured, OwningSteps, LockCalls
  <2> QED
    BY <2>3, <2>4, <2>5 DEF Fine
<1> QED
  BY <1>1, <1>3, <1>4, <1>5 DEF Linked

LEMMA Others ==
    ASSUME Inductive, NEW w \in Workers, NEW o, Continue(w, o)
    PROVE  op'[w] = o /\ \A v \in Workers : v # w => op'[v] = op[v]
  BY DEF Inductive, Shape, Continue

LEMMA OthersBumped ==
    ASSUME Inductive, NEW w \in Workers, NEW c, NEW o, ContinueBumping(w, c, o)
    PROVE  /\ op'[w] = o
           /\ \A v \in Workers : v # w => Similar(v) /\ (op'[v].fresh => op[v].code # c)
<1>1. op'[w] = o
  BY DEF ContinueBumping
<1>2. ASSUME NEW v \in Workers, v # w PROVE Similar(v) /\ (op'[v].fresh => op[v].code # c)
  <2>1. op[v] \in OpType
    BY DEF Inductive, Shape, GoodOp
  <2>2. op'[v] = IF op[v].code = c THEN [op[v] EXCEPT !.fresh = FALSE] ELSE op[v]
    BY <1>2 DEF ContinueBumping
  <2> QED
    BY <2>1, <2>2 DEF Similar, OpType
<1> QED
  BY <1>1, <1>2

(* A step of w that only reads. *)
LEMMA ReadingStep ==
    ASSUME Inductive, Inductive', Linked, NEW w \in Workers, NEW o, Continue(w, o),
           UNCHANGED <<row, lock, made>>,
           Fine(o), o.pc = "change" => o.kind # "replace"
    PROVE  Linked'
<1>1. op'[w] = o /\ \A v \in Workers : v # w => op'[v] = op[v]
  BY Others
<1>2. \A d \in Codes : Astray(d) => Astray(d)'
  BY <1>1 DEF Astray
<1>3. Fine(op[w])'
  <2>1. Carries(op[w])'
    BY <1>1 DEF Fine, Carries
  <2>2. Keeps(op[w])'
    BY <1>1, <1>2 DEF Fine, Keeps
  <2>3. Sure(op[w])'
    BY <1>1 DEF Fine, Sure, Configured
  <2> QED
    BY <2>1, <2>2, <2>3 DEF Fine
<1>4. \A v \in Workers : v # w => Similar(v)
  BY <1>1 DEF Similar
<1> QED
  BY <1>1, <1>3, <1>4, PlainStep DEF Live

LEMMA IdleFine == ASSUME Inductive PROVE Fine(IdleOp)
<1>1. made \in Nat
  BY LinkTypes
<1> QED
  BY <1>1
  DEF IdleOp, Fine, Carries, Keeps, Sure, OwningSteps, LockCalls, RecoverSteps,
      BlankSteps, NumberSteps, StoredSteps

LEMMA FinishLinked ==
    ASSUME Inductive, Inductive', Linked, NEW w \in Workers, Finish(w),
           UNCHANGED <<row, lock, made>>
    PROVE  Linked'
  BY ReadingStep, IdleFine DEF Finish, IdleOp

(* The operation o, gone on to another step and perhaps to another number. *)
OpAt(o, pc, pid) == [o EXCEPT !.pc = pc, !.pid = pid]

LEMMA OpAtFields ==
    ASSUME NEW o \in OpType, NEW pc, NEW pid
    PROVE  /\ OpAt(o, pc, pid).pc = pc
           /\ OpAt(o, pc, pid).pid = pid
           /\ OpAt(o, pc, pid).kind = o.kind
           /\ OpAt(o, pc, pid).code = o.code
           /\ OpAt(o, pc, pid).pin = o.pin
           /\ OpAt(o, pc, pid).win = o.win
           /\ OpAt(o, pc, pid).fresh = o.fresh
           /\ OpAt(o, pc, pid).deleting = o.deleting
           /\ [o EXCEPT !.pc = pc] = OpAt(o, pc, o.pid)
  BY DEF OpAt, OpType

(* An owner goes on with the number it has. *)
LEMMA GotoFine ==
    ASSUME Inductive, Linked, NEW w \in Workers, Owning(w), NEW pc \in OwningSteps,
           pc \in DataSteps => op[w].pc \in DataSteps,
           pc \in RecoverSteps => op[w].pc \in RecoverSteps,
           pc \in BlankSteps => op[w].pc \in BlankSteps,
           pc \in NumberSteps => op[w].pc \in NumberSteps,
           pc \in StoredSteps => op[w].pc \in StoredSteps,
           pc = "change" => op[w].pc \in RecoverSteps,
           pc = "activate" => Configured(op[w].pid, op[w].pin, op[w].win)
    PROVE  /\ Fine([op[w] EXCEPT !.pc = pc])
           /\ [op[w] EXCEPT !.pc = pc].pc = pc
           /\ [op[w] EXCEPT !.pc = pc].kind = op[w].kind
<1> DEFINE o == op[w]
           q == OpAt(op[w], pc, op[w].pid)
<1>1. o \in GoodOp /\ o \in OpType
  BY DEF Inductive, Shape, GoodOp
<1>2. /\ q.pc = pc /\ q.pid = o.pid /\ q.kind = o.kind /\ q.code = o.code
      /\ q.pin = o.pin /\ q.win = o.win /\ q.fresh = o.fresh /\ [o EXCEPT !.pc = pc] = q
  BY <1>1, OpAtFields
<1>3. ~o.fresh
  BY LinkTypes
<1>4. Fine(o)
  BY DEF Linked
<1> HIDE DEF q
<1>5. Carries(q)
  BY <1>2, <1>3, <1>4 DEF Fine, Carries, Owning, RecoverSteps
<1>6. Keeps(q)
  BY <1>2, <1>4 DEF Fine, Keeps, Owning
<1>7. Sure(q)
  BY <1>2, <1>4 DEF Fine, Carries, Sure, Owning, StoredSteps, DataSteps
<1> QED
  BY <1>2, <1>5, <1>6, <1>7 DEF Fine

LEMMA GotoLinked ==
    ASSUME Inductive, Inductive', Linked, NEW w \in Workers, Owning(w),
           NEW pc \in OwningSteps, Goto(w, pc), UNCHANGED <<row, lock, made>>,
           pc \in DataSteps => op[w].pc \in DataSteps,
           pc \in RecoverSteps => op[w].pc \in RecoverSteps,
           pc \in BlankSteps => op[w].pc \in BlankSteps,
           pc \in NumberSteps => op[w].pc \in NumberSteps,
           pc \in StoredSteps => op[w].pc \in StoredSteps,
           pc = "change" => op[w].pc \in RecoverSteps,
           pc = "activate" => Configured(op[w].pid, op[w].pin, op[w].win)
    PROVE  Linked'
<1> DEFINE o == [op[w] EXCEPT !.pc = pc]
<1>1. Fine(o) /\ o.pc = pc /\ o.kind = op[w].kind
  BY GotoFine
<1>2. pc = "change" => op[w].kind # "replace"
  BY DEF Linked, Fine, Carries
<1>3. Continue(w, o)
  BY DEF Goto
<1> QED
  BY <1>1, <1>2, <1>3, ReadingStep

LEMMA FailLinked ==
    ASSUME Inductive, Inductive', Linked, NEW w \in Workers, Owning(w), Goto(w, "fail"),
           UNCHANGED <<row, lock, made>>
    PROVE  Linked'
  BY GotoLinked
  DEF OwningSteps, DataSteps, RecoverSteps, BlankSteps, NumberSteps, StoredSteps

(* An operation that has claimed no row and read no version. *)
LEMMA FreeFine ==
    ASSUME Inductive, NEW o \in OpType, o.pc \notin OwningSteps, ~o.fresh, o.pid <= made,
           o.pc \notin NumberSteps, o.pc \in BlankSteps => o.pid = 0,
           o.pc \in RecoverSteps => o.kind = "recover"
    PROVE  Fine(o)
  BY DEF Fine, Carries, Keeps, Sure, OwningSteps, LockCalls, BlankSteps, NumberSteps,
         StoredSteps

LEMMA PickLinked ==
    ASSUME Inductive, Inductive', Linked, NEW w \in Workers, Pick(w) PROVE Linked'
<1>1. CASE Finish(w)
  BY <1>1, FinishLinked DEF Pick
<1>2. CASE ~Finish(w)
  <2>1. PICK pin \in Pins : Continue(w, [op[w] EXCEPT !.pc = "reserve", !.pin = pin])
    BY <1>2 DEF Pick
  <2> DEFINE o == [op[w] EXCEPT !.pc = "reserve", !.pin = pin]
  <2>2. op[w] \in GoodOp /\ op[w] \in OpType /\ Fine(op[w])
    BY DEF Inductive, Shape, GoodOp, Linked
  <2>3. o \in OpType /\ o.pc = "reserve" /\ o.pid = op[w].pid /\ o.fresh = op[w].fresh
    BY <2>2 DEF OpType, Steps, ReadingSteps
  <2>4. ~o.fresh
    BY <2>2, <2>3 DEF GoodOp, FreshSteps, Pick
  <2>5. o.pid = 0 /\ o.pid <= made
    BY <2>2, <2>3 DEF Fine, Carries, BlankSteps, Pick
  <2> HIDE DEF o
  <2>6. Fine(o)
    BY <2>3, <2>4, <2>5, FreeFine DEF OwningSteps, LockCalls, RecoverSteps, NumberSteps
  <2> QED
    BY <2>1, <2>3, <2>6, ReadingStep DEF Pick, o
<1> QED
  BY <1>1, <1>2

LEMMA LoadLinked ==
    ASSUME Inductive, Inductive', Linked, NEW w \in Workers, Load(w) PROVE Linked'
<1>1. CASE Finish(w)
  BY <1>1, FinishLinked DEF Load
<1>2. CASE ~Finish(w)
  <2> DEFINE c == op[w].code
             deleting == MustDelete(c, op[w].intent)
             failure == IF deleting THEN "delete_failed"
                        ELSE IF row[c].pid # 0 THEN "update_failed"
                        ELSE "create_failed"
             o == Loaded(op[w], row[c], deleting, failure)
  <2>1. Continue(w, o)
    BY <1>2 DEF Load
  <2>2. op[w] \in GoodOp /\ op[w] \in OpType /\ c \in Codes /\ Fine(op[w])
    BY DEF Inductive, Shape, GoodOp, Linked, Load, CodelessSteps
  <2>3. /\ o.pc = "claim" /\ o.code = c /\ o.pin = row[c].pin /\ o.win = row[c].win
        /\ o.pid = row[c].pid /\ o.kind = op[w].kind
    BY <2>2 DEF Loaded, OpType
  <2>4. o.kind = "recover"
    BY <2>2, <2>3 DEF Fine, Carries, RecoverSteps, Load
  <2>5. row[c].pid <= made
    BY <2>2 DEF Linked, Numbered
  <2> HIDE DEF o, c
  <2>6. Fine(o)
    BY <2>3, <2>4, <2>5
    DEF Fine, Carries, Keeps, Sure, OwningSteps, LockCalls, BlankSteps, NumberSteps,
        StoredSteps
  <2> QED
    BY <2>1, <2>3, <2>6, ReadingStep DEF Load
<1> QED
  BY <1>1, <1>2

LEMMA ExistsLinked ==
    ASSUME Inductive, Inductive', Linked, NEW w \in Workers, Exists(w) PROVE Linked'
<1>1. PICK pc \in {"delete", "retire"} : Goto(w, pc)
  BY DEF Exists
<1> QED
  BY <1>1, GotoLinked
  DEF Exists, Owning, OwningSteps, LockCalls, DataSteps, RecoverSteps, BlankSteps,
      NumberSteps, StoredSteps

LEMMA AvailableLinked ==
    ASSUME Inductive, Inductive', Linked, NEW w \in Workers, Available(w) PROVE Linked'
<1>1. PICK pc \in {"fail", "create"} : Goto(w, pc)
  BY DEF Available
<1> QED
  BY <1>1, GotoLinked
  DEF Available, Owning, OwningSteps, LockCalls, DataSteps, RecoverSteps, BlankSteps,
      NumberSteps, StoredSteps

LEMMA CheckConfiguredLinked ==
    ASSUME Inductive, Inductive', Linked, NEW w \in Workers, CheckConfigured(w) PROVE Linked'
<1>1. PICK pc \in {"store", "change"} : Goto(w, pc)
  BY DEF CheckConfigured
<1>2. op[w].kind = "recover"
  BY DEF Linked, Fine, Carries, RecoverSteps, CheckConfigured
<1> QED
  BY <1>1, <1>2, GotoLinked
  DEF CheckConfigured, Owning, OwningSteps, LockCalls, DataSteps, RecoverSteps, BlankSteps,
      NumberSteps, StoredSteps

LEMMA ConfirmLinked ==
    ASSUME Inductive, Inductive', Linked, NEW w \in Workers, Confirm(w) PROVE Linked'
<1>1. CASE Goto(w, "fail")
  BY <1>1, FailLinked DEF Confirm, Owning, OwningSteps, LockCalls
<1>2. CASE Goto(w, "activate") /\ Configured(op[w].pid, op[w].pin, op[w].win)
  BY <1>2, GotoLinked
  DEF Confirm, Owning, OwningSteps, LockCalls, DataSteps, RecoverSteps, BlankSteps,
      NumberSteps, StoredSteps
<1> QED
  BY <1>1, <1>2 DEF Confirm

LEMMA LockCallFailsLinked ==
    ASSUME Inductive, Inductive', Linked, NEW w \in Workers, LockCallFails(w) PROVE Linked'
  BY FailLinked, FinishLinked DEF LockCallFails, Owning, OwningSteps

LEMMA RecordFailureLinked ==
    ASSUME Inductive, Inductive', Linked, NEW w \in Workers, RecordFailure(w) PROVE Linked'
  BY FinishLinked DEF RecordFailure

LEMMA FindLinked ==
    ASSUME Inductive, Inductive', Linked, NEW w \in Workers, Find(w) PROVE Linked'
<1> DEFINE c == op[w].code
<1>1. op[w] \in OpType /\ Fine(op[w]) /\ Owning(w) /\ ~op[w].fresh /\ c \in Codes
  BY LinkTypes DEF Inductive, Shape, GoodOp, Linked, Find, Owning, OwningSteps, LockCalls
<1>2. op[w].pid = 0 /\ row[c].pid = 0 /\ op[w].pin = row[c].pin /\ op[w].win = row[c].win
  BY <1>1 DEF Fine, Carries, Find, BlankSteps, DataSteps, OwningSteps, LockCalls
<1>3. op[w].kind = "recover"
  BY <1>1 DEF Fine, Carries, RecoverSteps, Find
<1>4. CASE \E pc \in {"retire", "available"} : Goto(w, pc)
  BY <1>1, <1>4, GotoLinked
  DEF Find, OwningSteps, LockCalls, DataSteps, RecoverSteps, BlankSteps, NumberSteps,
      StoredSteps
<1>5. CASE \E k \in Found(op[w]), pc \in {"exists", "configured"} :
              Continue(w, [op[w] EXCEPT !.pid = k.id, !.pc = pc])
  <2>1. PICK k \in Found(op[w]), pc \in {"exists", "configured"} :
           Continue(w, [op[w] EXCEPT !.pid = k.id, !.pc = pc])
    BY <1>5
  <2> DEFINE o == OpAt(op[w], pc, k.id)
  <2>2. [op[w] EXCEPT !.pid = k.id, !.pc = pc] = o
    BY <1>1 DEF OpAt, OpType
  <2>3. /\ o.pc = pc /\ o.pid = k.id /\ o.kind = op[w].kind /\ o.code = c
        /\ o.pin = op[w].pin /\ o.win = op[w].win /\ o.fresh = op[w].fresh
    BY <1>1 DEF OpAt, OpType
  <2>4. k \in lock /\ k.pin = row[c].pin /\ k.win = row[c].win
    <3>1. k \in lock /\ k.pin = op[w].pin /\ k.win = op[w].win
      BY DEF Found
    <3> QED
      BY <1>2, <3>1
  <2>5. k.id # 0 /\ k.id <= made /\ Overlap(k.win, row[c].win)
    BY <2>4, LinkTypes DEF Linked, Numbered
  <2>6. Live(c)
    BY <1>1, LinkTypes DEF Live
  <2>7. Fits(k, c)
    BY <1>2, <2>4, <2>5, <2>6 DEF Fits
  <2> HIDE DEF o, c
  <2>8. Carries(o)
    BY <1>1, <1>2, <1>3, <2>3, <2>5
    DEF Carries, RecoverSteps, OwningSteps, DataSteps, BlankSteps, NumberSteps,
        StoredSteps
  <2>9. Keeps(o)
    <3>1. \A d \in Codes : row[d].pid = k.id => Astray(d)
      BY <1>1, <2>4, <2>7 DEF Linked, Apart
    <3>2. \A j \in lock : j.id = k.id => j = k
      BY <2>4 DEF Linked, Numbered
    <3> QED
      BY <2>3, <2>4, <3>1, <3>2 DEF Keeps
  <2>10. Sure(o)
    BY <2>3 DEF Sure
  <2>11. Fine(o) /\ o.pc # "change"
    BY <2>3, <2>8, <2>9, <2>10 DEF Fine
  <2> QED
    BY <2>1, <2>2, <2>11, ReadingStep DEF Find
<1> QED
  BY <1>4, <1>5 DEF Find

-----------------------------------------------------------------------------
(* What an operation is when it begins *)
Begins(o) ==
    /\ o.pc \in {"load", "pick", "reserve", "prepare", "claimDelete"}
    /\ o.pc = "load" => o.kind = "recover"
    /\ o.fresh => o.code \in Codes /\ o.pid = row[o.code].pid
    /\ ~o.fresh => o.pid = 0
    /\ o.pc \in {"prepare", "claimDelete"} => o.pid # 0
    /\ o.pc \in {"pick", "reserve"} => o.pid = 0
    /\ o.pc = "prepare" =>
          /\ row[o.code].status = "active"
          /\ o.kind \in {"update", "replace"}
          /\ o.kind = "update" => o.pin = row[o.code].pin

LEMMA BeginsFine ==
    ASSUME Inductive, Linked, NEW o, Begins(o) PROVE Fine(o)
  BY LinkTypes
  DEF Begins, Linked, Numbered, Fine, Carries, Keeps, Sure, OwningSteps, LockCalls,
      RecoverSteps, BlankSteps, NumberSteps, StoredSteps

LEMMA BeginsLinked ==
    ASSUME Inductive, Inductive', Linked, NEW w \in Workers,
           \E o : Continue(w, o) /\ Begins(o), UNCHANGED <<row, lock, made>>
    PROVE  Linked'
<1>1. PICK o : Continue(w, o) /\ Begins(o)
  OBVIOUS
<1>2. o.pc # "change"
  BY <1>1 DEF Begins
<1> QED
  BY <1>1, <1>2, BeginsFine, ReadingStep

LEMMA LoadBegins ==
    ASSUME NEW w \in Workers, NEW c \in Codes, NEW i \in Intents,
           Continue(w, [IdleOp EXCEPT !.pc = "load", !.kind = "recover",
                                      !.code = c, !.intent = i])
    PROVE  \E o : Continue(w, o) /\ Begins(o) /\ o.pc # "reserve"
<1> DEFINE o == [IdleOp EXCEPT !.pc = "load", !.kind = "recover", !.code = c, !.intent = i]
<1>1. o.pc = "load" /\ o.kind = "recover" /\ ~o.fresh /\ o.pid = 0
  BY DEF IdleOp
<1> QED
  BY <1>1 DEF Begins

LEMMA EnsureBegins ==
    ASSUME NEW w \in Workers, NEW r, StartEnsure(w, r)
    PROVE  \E o : Continue(w, o) /\ Begins(o) /\ o.pc # "reserve"
<1>1. CASE \E c \in Codes :
              Continue(w, [IdleOp EXCEPT !.pc = "load", !.kind = "recover",
                                         !.code = c, !.intent = "ensure"])
  BY <1>1, LoadBegins DEF Intents
<1>2. CASE Continue(w, [IdleOp EXCEPT !.pc = "pick", !.kind = "provision",
                                      !.res = r, !.win = booking[r].stay])
  <2> DEFINE o == [IdleOp EXCEPT !.pc = "pick", !.kind = "provision",
                                 !.res = r, !.win = booking[r].stay]
  <2>1. o.pc = "pick" /\ ~o.fresh /\ o.pid = 0
    BY DEF IdleOp
  <2> QED
    BY <1>2, <2>1 DEF Begins
<1> QED
  BY <1>1, <1>2 DEF StartEnsure, Current

LEMMA FromDraftBegins ==
    ASSUME NEW w \in Workers, NEW r, NEW pin, NEW win, StartFromDraft(w, r, pin, win)
    PROVE  \E o : Continue(w, o) /\ Begins(o)
<1> DEFINE o == [IdleOp EXCEPT !.pc = "reserve", !.kind = "provision",
                               !.res = r, !.pin = pin, !.win = win]
<1>1. o.pc = "reserve" /\ ~o.fresh /\ o.pid = 0
  BY DEF IdleOp
<1> QED
  BY <1>1 DEF Begins, StartFromDraft

LEMMA UpdateBegins ==
    ASSUME NEW w \in Workers, NEW c \in Codes, NEW win, NEW stay, StartUpdate(w, c, win, stay)
    PROVE  \E o : Continue(w, o) /\ Begins(o) /\ o.pc # "reserve"
<1> DEFINE o == [IdleOp EXCEPT !.pc = "prepare", !.kind = "update", !.code = c,
                               !.fresh = TRUE, !.pin = row[c].pin, !.win = win,
                               !.pid = row[c].pid, !.override = stay]
<1>1. /\ o.pc = "prepare" /\ o.fresh /\ o.kind = "update" /\ o.code = c
      /\ o.pin = row[c].pin /\ o.pid = row[c].pid
  BY DEF IdleOp
<1>2. row[c].status = "active" /\ row[c].pid # 0 /\ Continue(w, o)
  BY DEF StartUpdate, UpdateApplies
<1> HIDE DEF o
<1> QED
  BY <1>1, <1>2 DEF Begins

LEMMA ReplaceBegins ==
    ASSUME NEW w \in Workers, NEW c \in Codes, NEW pin, NEW win, StartReplace(w, c, pin, win)
    PROVE  \E o : Continue(w, o) /\ Begins(o)
<1> DEFINE o == [IdleOp EXCEPT !.pc = "prepare", !.kind = "replace", !.code = c,
                               !.fresh = TRUE, !.pin = pin, !.win = win,
                               !.pid = row[c].pid,
                               !.override = booking[row[c].res].stay]
<1>1. /\ o.pc = "prepare" /\ o.fresh /\ o.kind = "replace" /\ o.code = c
      /\ o.pid = row[c].pid
  BY DEF IdleOp
<1>2. row[c].status = "active" /\ row[c].pid # 0 /\ Continue(w, o)
  BY DEF StartReplace
<1> HIDE DEF o
<1> QED
  BY <1>1, <1>2 DEF Begins

LEMMA RevokeBegins ==
    ASSUME NEW w \in Workers, NEW c \in Codes, StartRevoke(w, c)
    PROVE  \E o : Continue(w, o) /\ Begins(o) /\ o.pc # "reserve"
<1>1. CASE row[c].pid = 0
  BY <1>1, LoadBegins DEF StartRevoke, Intents
<1>2. CASE row[c].pid # 0
  <2> DEFINE o == [IdleOp EXCEPT !.pc = "claimDelete", !.kind = "revoke",
                                 !.code = c, !.fresh = TRUE, !.pid = row[c].pid]
  <2>1. o.pc = "claimDelete" /\ o.fresh /\ o.code = c /\ o.pid = row[c].pid
    BY DEF IdleOp
  <2>2. Continue(w, o)
    BY <1>2 DEF StartRevoke
  <2> HIDE DEF o
  <2> QED
    BY <1>2, <2>1, <2>2 DEF Begins
<1> QED
  BY <1>1, <1>2

LEMMA ReconcileBegins ==
    ASSUME NEW w \in Workers, NEW c \in Codes, StartReconcile(w, c)
    PROVE  \E o : Continue(w, o) /\ Begins(o) /\ o.pc # "reserve"
  BY LoadBegins DEF StartReconcile, Intents

LEMMA RequestBegins ==
    ASSUME NEW w \in Workers, Request(w)
    PROVE  \E o : Continue(w, o) /\ Begins(o)
<1>1. CASE \E r \in Reservations : StartEnsure(w, r)
  BY <1>1, EnsureBegins
<1>2. CASE \E r \in Reservations, pin \in Pins, win \in Windows : StartFromDraft(w, r, pin, win)
  BY <1>2, FromDraftBegins
<1>3. CASE \E c \in {d \in Codes : row[d].status = "active"}, win \in Windows :
              \/ StartUpdate(w, c, win, booking[row[c].res].stay)
              \/ \E pin \in Pins : StartReplace(w, c, pin, win)
  BY <1>3, UpdateBegins, ReplaceBegins
<1>4. CASE \E c \in Codes : StartRevoke(w, c)
  BY <1>4, RevokeBegins
<1>5. CASE \E c \in Codes : StartReconcile(w, c)
  BY <1>5, ReconcileBegins
<1> QED
  BY <1>1, <1>2, <1>3, <1>4, <1>5 DEF Request

LEMMA SweepItemBegins ==
    ASSUME Inductive, NEW e \in todo, SweepItem(e)
    PROVE  UNCHANGED op \/ \E o : Continue(Cron, o) /\ Begins(o) /\ o.pc # "reserve"
<1>1. Cron \in Workers
  BY DEF Workers
<1>2. GoodItem(e)
  BY InductiveTypes
<1> QED
  BY <1>1, <1>2, ReconcileBegins, RevokeBegins, UpdateBegins, EnsureBegins
  DEF SweepItem, GoodItem

LEMMA StillLinked ==
    ASSUME Inductive, Inductive', Linked, UNCHANGED <<row, op, lock, made>> PROVE Linked'
  BY PlainStep DEF Similar, Live

LEMMA RequestLinked ==
    ASSUME Inductive, Inductive', Linked, NEW w \in Workers, Request(w) PROVE Linked'
  BY RequestBegins, BeginsLinked DEF Request

LEMMA SweepItemLinked ==
    ASSUME Inductive, Inductive', Linked, NEW e \in todo, SweepItem(e) PROVE Linked'
<1>1. UNCHANGED op \/ \E o : Continue(Cron, o) /\ Begins(o)
  BY SweepItemBegins
<1>2. Cron \in Workers
  BY DEF Workers
<1> QED
  BY <1>1, <1>2, BeginsLinked, StillLinked DEF SweepItem

-----------------------------------------------------------------------------
(* Writes of a status *)

LEMMA SetStatusRow ==
    ASSUME Inductive, NEW c \in Codes, NEW s, SetStatus(c, s)
    PROVE  /\ \A d \in Codes : /\ row'[d].pid = row[d].pid
                               /\ row'[d].pin = row[d].pin
                               /\ row'[d].win = row[d].win
           /\ row'[c].status = s
           /\ \A d \in Codes : d # c => row'[d] = row[d]
<1>1. \A d \in Codes : row[d] \in RowType
  BY DEF Inductive, Shape, GoodRow
<1>2. \A d \in Codes : row'[d] = IF d = c THEN [row[c] EXCEPT !.status = s, !.aged = FALSE]
                                 ELSE row[d]
  BY DEF Inductive, Shape, SetStatus
<1>3. \A x \in RowType : LET y == [x EXCEPT !.status = s, !.aged = FALSE]
                        IN  /\ y.pid = x.pid /\ y.pin = x.pin /\ y.win = x.win
                            /\ y.status = s
  BY DEF RowType
<1> QED
  BY <1>1, <1>2, <1>3

LEMMA StatusLinked ==
    ASSUME Inductive, Inductive', Linked, NEW w \in Workers, NEW c \in Codes, Live(c),
           NEW s, s # "none", SetStatus(c, s),
           s = "active" => Configured(row[c].pid, row[c].pin, row[c].win),
           UNCHANGED <<lock, made>>,
           \A v \in Workers : v # w => Similar(v) /\ (op'[v].fresh => op[v].code # c),
           Fine(op[w])', op'[w].pc # "change"
    PROVE  Linked'
<1>1. /\ \A d \in Codes : /\ row'[d].pid = row[d].pid
                          /\ row'[d].pin = row[d].pin
                          /\ row'[d].win = row[d].win
      /\ row'[c].status = s
      /\ \A d \in Codes : d # c => row'[d] = row[d]
  BY SetStatusRow
<1>2. \A d \in Codes : Live(d)' => Live(d)
  BY <1>1 DEF Live
<1>3. \A v \in Workers : v # w /\ op'[v].fresh => op[v].code \in Codes /\ op[v].code # c
  BY LinkTypes DEF Similar
<1> QED
  BY <1>1, <1>2, <1>3, PlainStep

(* A version nobody else holds: the owner of a row shares it with nobody.  *)
LEMMA OwnerAlone ==
    ASSUME Inductive, NEW w \in Workers, Owning(w), NEW o, Continue(w, o)
    PROVE  /\ op'[w] = o
           /\ op[w].code \in Codes /\ Live(op[w].code)
           /\ \A v \in Workers : v # w =>
                 Similar(v) /\ (op'[v].fresh \/ Owning(v) => op[v].code # op[w].code)
<1>1. op'[w] = o /\ \A v \in Workers : v # w => op'[v] = op[v]
  BY Others
<1>2. op[w].code \in Codes /\ Live(op[w].code)
  BY LinkTypes DEF Live
<1> QED
  BY <1>1, <1>2 DEF Similar, Inductive, Writers

LEMMA IdleFineNext == ASSUME Inductive' PROVE Fine(IdleOp)'
<1>1. made' \in Nat
  BY BoundsAreNaturals DEF Inductive, TypeOK
<1> QED
  BY <1>1
  DEF IdleOp, Fine, Carries, Keeps, Sure, OwningSteps, LockCalls, RecoverSteps,
      BlankSteps, NumberSteps, StoredSteps

LEMMA LastStatusLinked ==
    ASSUME Inductive, Inductive', Linked, NEW w \in Workers, Owning(w),
           NEW s, s # "none", SetStatus(op[w].code, s), Finish(w),
           s = "active" =>
               Configured(row[op[w].code].pid, row[op[w].code].pin, row[op[w].code].win),
           UNCHANGED <<lock, made>>
    PROVE  Linked'
<1>1. /\ op'[w] = IdleOp
      /\ op[w].code \in Codes /\ Live(op[w].code)
      /\ \A v \in Workers : v # w =>
            Similar(v) /\ (op'[v].fresh => op[v].code # op[w].code)
  BY OwnerAlone DEF Finish
<1>2. Fine(op[w])'
  BY <1>1, IdleFineNext
<1>3. op'[w].pc # "change"
  BY <1>1 DEF IdleOp
<1> QED
  BY <1>1, <1>2, <1>3, StatusLinked

LEMMA ActivateLinked ==
    ASSUME Inductive, Inductive', Linked, NEW w \in Workers, Activate(w) PROVE Linked'
  BY LastStatusLinked DEF Activate, Owning, OwningSteps, Linked, Fine, Sure

LEMMA RetireLinked ==
    ASSUME Inductive, Inductive', Linked, NEW w \in Workers, Retire(w) PROVE Linked'
  BY LastStatusLinked DEF Retire, Owning, OwningSteps

LEMMA MarkSyncErrorLinked ==
    ASSUME Inductive, Inductive', Linked, NEW w \in Workers, MarkSyncError(w) PROVE Linked'
<1> DEFINE o == OpAt(op[w], "record", op[w].pid)
<1>1. Owning(w) /\ op[w] \in OpType /\ Fine(op[w]) /\ ~op[w].fresh
  BY LinkTypes DEF MarkSyncError, Owning, OwningSteps, Inductive, Shape, GoodOp, Linked
<1>2. o = [op[w] EXCEPT !.pc = "record"] /\ o.pc = "record" /\ o.pid = op[w].pid
      /\ o.fresh = op[w].fresh
  BY <1>1, OpAtFields
<1> HIDE DEF o
<1>3. /\ op'[w] = o
      /\ op[w].code \in Codes /\ Live(op[w].code)
      /\ \A v \in Workers : v # w =>
            Similar(v) /\ (op'[v].fresh => op[v].code # op[w].code)
  BY <1>1, <1>2, OwnerAlone DEF MarkSyncError, Goto
<1>4. made' = made /\ o.pid <= made
  BY <1>1, <1>2 DEF MarkSyncError, Fine, Carries
<1>5. Fine(op[w])' /\ op'[w].pc # "change"
  BY <1>1, <1>2, <1>3, <1>4
  DEF Fine, Carries, Keeps, Sure, OwningSteps, LockCalls, RecoverSteps, BlankSteps,
      NumberSteps, StoredSteps
<1> QED
  BY <1>3, <1>5, StatusLinked DEF MarkSyncError

(* What a claim that changes the status alone leaves its operation with.   *)
LEMMA ClaimFine ==
    ASSUME Inductive, Inductive', Linked, NEW w \in Workers, op[w].fresh,
           NEW s, SetStatus(op[w].code, s), UNCHANGED <<lock, made>>,
           ~op'[w].fresh, op'[w].code = op[w].code, op'[w].pid = op[w].pid,
           op'[w].kind = op[w].kind,
           op'[w].pc \in {"find", "exists", "configured", "delete"},
           op'[w].pc \in {"find", "exists", "configured"} =>
               op[w].pc = "claim" /\ op'[w].pin = op[w].pin /\ op'[w].win = op[w].win,
           op'[w].pc = "find" <=> op[w].pid = 0
    PROVE  Fine(op[w])'
<1>1. op[w].code \in Codes /\ Fine(op[w])
  BY LinkTypes DEF Linked
<1>2. \A d \in Codes : /\ row'[d].pid = row[d].pid
                       /\ row'[d].pin = row[d].pin
                       /\ row'[d].win = row[d].win
  BY <1>1, SetStatusRow
<1>3. Carries(op[w])'
  BY <1>1, <1>2
  DEF Fine, Carries, OwningSteps, LockCalls, RecoverSteps, BlankSteps, NumberSteps,
      StoredSteps, DataSteps
<1>4. Keeps(op[w])'
  <2>1. op[w].pid = row[op[w].code].pid
    BY <1>1 DEF Fine, Carries
  <2>2. \A k \in lock' : k.id # 0
    BY LinkTypes, lock' = lock
  <2> QED
    BY <1>1, <1>2, <2>1, <2>2 DEF Keeps, Linked, Numbered
<1>5. Sure(op[w])'
  BY DEF Sure
<1> QED
  BY <1>3, <1>4, <1>5 DEF Fine

LEMMA ClaimDeleteLinked ==
    ASSUME Inductive, Inductive', Linked, NEW w \in Workers, ClaimDelete(w) PROVE Linked'
<1>1. CASE Finish(w) /\ UNCHANGED row
  BY <1>1, FinishLinked DEF ClaimDelete
<1>2. CASE ~(Finish(w) /\ UNCHANGED row)
  <2> DEFINE c == op[w].code
             o == [op[w] EXCEPT !.pc = "delete", !.fresh = FALSE, !.failure = "delete_failed"]
  <2>1. op[w].fresh /\ SetStatus(c, "pending_delete") /\ ContinueBumping(w, c, o)
    BY <1>2 DEF ClaimDelete
  <2>2. c \in Codes /\ Live(c) /\ op[w] \in OpType
    BY <2>1, FreshRow DEF Inductive, Shape, GoodOp
  <2>3. op'[w] = o /\ \A v \in Workers : v # w => Similar(v) /\ (op'[v].fresh => op[v].code # c)
    BY <2>1, OthersBumped
  <2>4. /\ o.pc = "delete" /\ ~o.fresh /\ o.code = c /\ o.pid = op[w].pid
        /\ o.kind = op[w].kind
    BY <2>2 DEF OpType
  <2>5. op[w].pid # 0
    BY DEF Linked, Fine, Carries, NumberSteps, ClaimDelete
  <2> HIDE DEF o
  <2>6. Fine(op[w])' /\ op'[w].pc # "change"
    BY <2>1, <2>3, <2>4, <2>5, ClaimFine DEF ClaimDelete
  <2> QED
    BY <2>1, <2>2, <2>3, <2>6, StatusLinked DEF ClaimDelete
<1> QED
  BY <1>1, <1>2

LEMMA ClaimLinked ==
    ASSUME Inductive, Inductive', Linked, NEW w \in Workers, Claim(w) PROVE Linked'
<1>1. CASE Finish(w) /\ UNCHANGED row
  BY <1>1, FinishLinked DEF Claim
<1>2. CASE ~(Finish(w) /\ UNCHANGED row)
  <2> DEFINE c == op[w].code
             pc == IF op[w].pid = 0 THEN "find"
                   ELSE IF op[w].deleting THEN "exists" ELSE "configured"
             o == [op[w] EXCEPT !.fresh = FALSE, !.pc = pc]
             s == ClaimedStatus(op[w])
  <2>1. op[w].fresh /\ SetStatus(c, s) /\ ContinueBumping(w, c, o)
    BY <1>2 DEF Claim
  <2>2. c \in Codes /\ Live(c) /\ op[w] \in OpType
    BY <2>1, FreshRow DEF Inductive, Shape, GoodOp
  <2>3. op'[w] = o /\ \A v \in Workers : v # w => Similar(v) /\ (op'[v].fresh => op[v].code # c)
    BY <2>1, OthersBumped
  <2>4. /\ o.pc = pc /\ ~o.fresh /\ o.code = c /\ o.pid = op[w].pid
        /\ o.kind = op[w].kind /\ o.pin = op[w].pin /\ o.win = op[w].win
    BY <2>2 DEF OpType
  <2>5. s # "none" /\ s # "active"
    BY DEF ClaimedStatus
  <2>6. pc \in {"find", "exists", "configured"} /\ (pc = "find" <=> op[w].pid = 0)
    OBVIOUS
  <2> HIDE DEF o, pc, s
  <2>7. Fine(op[w])' /\ op'[w].pc # "change"
    BY <2>1, <2>3, <2>4, <2>6, ClaimFine DEF Claim
  <2> QED
    BY <2>1, <2>2, <2>3, <2>5, <2>7, StatusLinked DEF Claim
<1> QED
  BY <1>1, <1>2

-----------------------------------------------------------------------------
(* Steps of the clock, the bookings and the process *)

LEMMA AgedLinked ==
    ASSUME Inductive, Inductive', Linked, UNCHANGED <<op, lock, made>>, NEW c \in Codes,
           NEW b \in BOOLEAN, row' = [row EXCEPT ![c].aged = b]
    PROVE  Linked'
<1>1. \A d \in Codes : row[d] \in RowType
  BY DEF Inductive, Shape, GoodRow
<1>2. \A d \in Codes : row'[d] = IF d = c THEN [row[c] EXCEPT !.aged = b] ELSE row[d]
  BY DEF Inductive, Shape
<1>3. \A x \in RowType : LET y == [x EXCEPT !.aged = b]
                        IN  /\ y.pid = x.pid /\ y.pin = x.pin /\ y.win = x.win
                            /\ y.status = x.status
  BY DEF RowType
<1>4. \A d \in Codes : /\ row'[d].pid = row[d].pid
                       /\ row'[d].pin = row[d].pin
                       /\ row'[d].win = row[d].win
                       /\ row'[d].status = row[d].status
  BY <1>1, <1>2, <1>3
<1>5. \A v \in Workers : Similar(v) /\ (op'[v].fresh => op[v].code \in Codes)
  BY LinkTypes DEF Similar
<1> QED
  BY <1>4, <1>5, PlainStep DEF Live

LEMMA CrashLinked ==
    ASSUME Inductive, Inductive', Linked, Crash PROVE Linked'
<1>1. \A v \in Workers : op'[v] = IdleOp
  BY DEF Crash
<1>2. \A v \in Workers : Fine(op[v])' /\ op'[v].pc # "change"
  BY <1>1, IdleFineNext DEF IdleOp
<1> QED
  BY <1>2, PlainStep DEF Crash, Live

-----------------------------------------------------------------------------
(* Writes of a row's number, window or PIN *)

LEMMA StoreLinked ==
    ASSUME Inductive, Inductive', Linked, NEW w \in Workers, StoreProviderId(w)
    PROVE  Linked'
<1> DEFINE c == op[w].code
           p == op[w].pid
<1>1. Owning(w) /\ op[w] \in OpType /\ Fine(op[w]) /\ ~op[w].fresh /\ c \in Codes
  BY LinkTypes DEF Inductive, Shape, GoodOp, Linked, StoreProviderId, Owning, OwningSteps
<1>2. CASE Goto(w, "fail") /\ UNCHANGED row
  BY <1>1, <1>2, FailLinked DEF StoreProviderId
<1>3. CASE ~(Goto(w, "fail") /\ UNCHANGED row)
  <2> DEFINE o == OpAt(op[w], "confirm", p)
  <2>1. /\ \A d \in Codes \ {c} : row[d].pid # p
        /\ row' = [row EXCEPT ![c].pid = p, ![c].aged = FALSE]
        /\ Goto(w, "confirm")
    BY <1>3 DEF StoreProviderId
  <2>2. /\ o = [op[w] EXCEPT !.pc = "confirm"]
        /\ o.pc = "confirm" /\ o.pid = p /\ o.fresh = op[w].fresh /\ o.code = c
        /\ o.pin = op[w].pin /\ o.win = op[w].win /\ o.kind = op[w].kind
    BY <1>1, OpAtFields
  <2> HIDE DEF o
  <2>3. /\ op'[w] = o
        /\ \A v \in Workers : v # w =>
              Similar(v) /\ (op'[v].fresh \/ Owning(v) => op[v].code # c)
    BY <1>1, <2>1, <2>2, OwnerAlone DEF Goto
  <2>4. /\ row'[c].pid = p /\ row'[c].pin = row[c].pin /\ row'[c].win = row[c].win
        /\ row'[c].status = row[c].status
        /\ \A d \in Codes : d # c => row'[d] = row[d]
    <3>1. row[c] \in RowType /\ row \in [Codes -> GoodRow]
      BY <1>1 DEF Inductive, Shape, GoodRow
    <3>2. row'[c] = [row[c] EXCEPT !.pid = p, !.aged = FALSE]
      BY <1>1, <2>1, <3>1
    <3>3. \A d \in Codes : d # c => row'[d] = row[d]
      BY <1>1, <2>1, <3>1
    <3> QED
      BY <3>1, <3>2, <3>3 DEF RowType
  <2>5. /\ p # 0 /\ p <= made /\ row[c].pid \in {0, p}
        /\ op[w].pin = row[c].pin /\ op[w].win = row[c].win
        /\ row[c].status \in Pending
    BY <1>1, LinkTypes
    DEF Fine, Carries, StoreProviderId, NumberSteps, OwningSteps, DataSteps
  <2>6. UNCHANGED <<lock, made>>
    BY DEF StoreProviderId
  <2> HIDE DEF c, p
  <2>7. Numbered'
    <3>1. \A d \in Codes : row'[d].pid = IF d = c THEN p ELSE row[d].pid
      BY <2>4
    <3>2. \A d \in Codes : row'[d].status = "none" => d # c /\ row[d].status = "none"
      BY <2>4, <2>5
    <3>3. \A d \in Codes : row'[d].status = "none" => row'[d].pid = 0
      BY <3>1, <3>2 DEF Linked, Numbered
    <3>4. \A d \in Codes : row'[d].pid <= made'
      BY <3>1, <2>5, <2>6 DEF Linked, Numbered
    <3>5. \A d, e \in Codes : row'[d].pid = row'[e].pid /\ row'[d].pid # 0 => d = e
      BY <3>1, <2>1 DEF Linked, Numbered
    <3> QED
      BY <3>3, <3>4, <3>5, <2>6 DEF Linked, Numbered
  <2>8. ASSUME row[c].pid = 0, NEW k \in lock, k.id = p
        PROVE  k.pin = row[c].pin /\ k.win = row[c].win
    <3>1. \A d \in Codes : row[d].pid # p
      BY <1>1, <2>1, <2>5, <2>8
    <3> QED
      BY <1>1, <2>8, <3>1 DEF Fine, Keeps, Owning, c, p
  <2>9. ASSUME NEW d \in Codes, d # c \/ row[c].pid = p, Astray(d) PROVE Astray(d)'
    <3>1. row'[d].pid = row[d].pid /\ row'[d].pin = row[d].pin
      BY <2>4, <2>9
    <3>2. \A u \in Workers :
             op'[u].pc = "change" => op[u].pc = "change" /\ op'[u].code = op[u].code
                                     /\ op'[u].kind = op[u].kind
      BY <2>2, <2>3 DEF Similar
    <3> QED
      BY <2>6, <2>9, <3>1, <3>2 DEF Astray
  <2>10. \A d \in Codes : d # c /\ Live(d) /\ row[d].pin = row[c].pin
            => ~Overlap(row[c].win, row[d].win) /\ row[d].win # row[c].win
    <3>1. Live(c) /\ row[c].win \in Windows
      BY <1>1, <2>5, RowFields DEF Live
    <3> QED
      BY <1>1, <3>1, LinkTypes DEF Inductive, NoPinCollision
  <2>11. Apart'
    <3> SUFFICES ASSUME NEW e \in Codes, NEW d \in Codes, NEW k \in lock,
                        Fits(k, e)', row'[d].pid = k.id
                 PROVE  Astray(d)'
      BY <2>6 DEF Apart
    <3>1. e # c /\ Fits(k, e)
      BY <2>4, <2>5 DEF Fits, Live
    <3>2. CASE d # c \/ row[c].pid = p
      BY <2>4, <2>9, <3>1, <3>2 DEF Linked, Apart
    <3>3. CASE d = c /\ row[c].pid = 0
      BY <2>4, <2>8, <2>10, <3>1, <3>3 DEF Fits
    <3> QED
      BY <2>5, <3>2, <3>3
  <2>12. ActiveIsOnLock'
    BY <2>4, <2>5, <2>6 DEF Linked, ActiveIsOnLock, Configured
  <2>13. Fine(op[w])'
    <3>1. Carries(op[w])'
      BY <2>2, <2>3, <2>4, <2>5, <2>6, <1>1
      DEF Carries, OwningSteps, LockCalls, RecoverSteps, BlankSteps, NumberSteps, StoredSteps
    <3>2. Keeps(op[w])'
      BY <2>1, <2>2, <2>3, <2>4, <2>5 DEF Keeps
    <3>3. Sure(op[w])'
      BY <2>2, <2>3 DEF Sure
    <3> QED
      BY <3>1, <3>2, <3>3 DEF Fine
  <2>14. ASSUME NEW v \in Workers, v # w PROVE Fine(op[v])'
    <3> DEFINE e == op[v].code
    <3>1. Fine(op[v]) /\ Similar(v) /\ op'[v].code = e
      BY <2>3, <2>14 DEF Linked, Similar
    <3>2. op'[v].fresh \/ Owning(v) => e \in Codes /\ e # c /\ row'[e] = row[e]
      BY <2>3, <2>4, <2>14, LinkTypes DEF Similar
    <3>3. Owning(v) => Live(e)
      BY LinkTypes DEF Live
    <3> HIDE DEF e
    <3>4. Carries(op[v])'
      BY <2>6, <3>1, <3>2
      DEF Fine, Carries, Similar, StoredSteps, OwningSteps, LockCalls, Owning, e
    <3>5. Keeps(op[v])'
      <4> SUFFICES ASSUME Owning(v) PROVE Keeps(op[v])'
        BY <3>1 DEF Keeps, Owning, Similar
      <4>1. ASSUME NEW d \in Codes, row'[d].pid = op[v].pid, d # e, op[v].pid # 0
            PROVE  Astray(d)'
        <5>1. CASE d # c \/ row[c].pid = p
          BY <2>4, <2>9, <3>1, <4>1, <5>1 DEF Fine, Keeps, Owning, e
        <5>2. CASE d = c /\ row[c].pid = 0
          <6>1. op[v].pid = p /\ row[e].pid = 0
            BY <2>1, <2>4, <3>1, <3>2, <4>1, <5>2 DEF Fine, Carries, Owning, e
          <6>2. \A k \in lock : k.id = p => FALSE
            <7> SUFFICES ASSUME NEW k \in lock, k.id = p PROVE FALSE
              OBVIOUS
            <7>1. k.pin = row[c].pin /\ k.win = row[c].win
              BY <2>8, <5>2
            <7>2. \A f \in Codes : row[f].pid # p
              BY <2>1, <2>5, <5>2
            <7>3. k.pin = row[e].pin /\ k.win = row[e].win
              BY <3>1, <6>1, <7>2 DEF Fine, Keeps, Owning, e
            <7> QED
              BY <7>1, <7>3, <2>10, <3>2, <3>3
          <6>3. \A u \in Workers : ~(op'[u].code = c /\ op'[u].pc = "change")
            BY <2>2, <2>3 DEF Similar, Owning, OwningSteps, LockCalls
          <6> QED
            BY <2>4, <2>6, <5>2, <6>2, <6>3 DEF Astray
        <5> QED
          BY <2>5, <5>1, <5>2
      <4>2. ASSUME row'[e].pid = 0, NEW k \in lock, k.id = op[v].pid
            PROVE  \/ k.pin = row'[e].pin /\ k.win = row'[e].win
                   \/ \E d \in Codes : row'[d].pid = k.id
        <5>1. \/ k.pin = row[e].pin /\ k.win = row[e].win
              \/ \E d \in Codes : row[d].pid = k.id
          BY <3>1, <3>2, <4>2 DEF Fine, Keeps, Owning, e
        <5>2. k.id # 0
          BY LinkTypes
        <5> QED
          BY <2>4, <2>5, <3>2, <5>1, <5>2
      <4> QED
        BY <2>6, <3>1, <4>1, <4>2 DEF Keeps, Similar
    <3>6. Sure(op[v])'
      BY <2>6, <3>1, <3>2
      DEF Fine, Sure, Similar, Configured, Owning, OwningSteps, LockCalls
    <3> QED
      BY <3>4, <3>5, <3>6 DEF Fine
  <2> QED
    BY <2>7, <2>11, <2>12, <2>13, <2>14 DEF Linked
<1> QED
  BY <1>2, <1>3

LEMMA PrepareLinked ==
    ASSUME Inductive, Inductive', Linked, NEW w \in Workers, Prepare(w) PROVE Linked'
<1> DEFINE c == op[w].code
<1>1. CASE Finish(w) /\ UNCHANGED row
  BY <1>1, FinishLinked DEF Prepare
<1>2. CASE ~(Finish(w) /\ UNCHANGED row)
  <2> DEFINE o == [op[w] EXCEPT !.pc = "change", !.fresh = FALSE, !.failure = "update_failed"]
  <2>1. /\ op[w].fresh /\ ContinueBumping(w, c, o)
        /\ row' = [row EXCEPT ![c].status = "pending_update", ![c].pin = op[w].pin,
                              ![c].win = op[w].win, ![c].override = op[w].override,
                              ![c].aged = FALSE]
    BY <1>2 DEF Prepare
  <2>2. c \in Codes /\ op[w] \in OpType /\ Fine(op[w])
    BY <2>1, FreshRow DEF Inductive, Shape, GoodOp, Linked
  <2>3. op'[w] = o /\ \A v \in Workers : v # w => Similar(v) /\ (op'[v].fresh => op[v].code # c)
    BY <2>1, OthersBumped
  <2>4. /\ o.pc = "change" /\ ~o.fresh /\ o.code = c /\ o.pid = op[w].pid
        /\ o.kind = op[w].kind /\ o.pin = op[w].pin /\ o.win = op[w].win
    BY <2>2 DEF OpType
  <2>5. /\ row'[c].pid = row[c].pid /\ row'[c].pin = op[w].pin /\ row'[c].win = op[w].win
        /\ row'[c].status = "pending_update"
        /\ \A d \in Codes : d # c => row'[d] = row[d]
    <3>1. row[c] \in RowType /\ row \in [Codes -> GoodRow]
      BY <2>2 DEF Inductive, Shape, GoodRow
    <3>2. row'[c] = [row[c] EXCEPT !.status = "pending_update", !.pin = op[w].pin,
                                   !.win = op[w].win, !.override = op[w].override,
                                   !.aged = FALSE]
      BY <2>1, <2>2, <3>1
    <3>3. \A d \in Codes : d # c => row'[d] = row[d]
      BY <2>1, <2>2, <3>1
    <3> QED
      BY <3>1, <3>2, <3>3 DEF RowType
  <2>6. /\ row[c].status = "active" /\ op[w].pid = row[c].pid
        /\ op[w].pid # 0 /\ op[w].pid <= made
    BY <2>1, <2>2 DEF Fine, Carries, NumberSteps, Prepare
  <2>7. UNCHANGED <<lock, made>>
    BY DEF Prepare
  <2>8. ~Astray(c)
    <3>1. Configured(row[c].pid, row[c].pin, row[c].win)
      BY <2>2, <2>6 DEF Linked, ActiveIsOnLock
    <3> DEFINE k == [id |-> row[c].pid, pin |-> row[c].pin, win |-> row[c].win]
    <3>2. k \in lock /\ k.id = row[c].pid /\ k.pin = row[c].pin
      BY <3>1 DEF Configured
    <3> QED
      BY <3>2 DEF Astray
  <2> HIDE DEF c, o
  <2>9. ASSUME NEW d \in Codes, Astray(d) PROVE d # c /\ Astray(d)'
    <3>1. d # c /\ row'[d] = row[d]
      BY <2>5, <2>8, <2>9
    <3>2. \A u \in Workers :
             op'[u].pc = "change" /\ op'[u].code = d
                => op[u].pc = "change" /\ op[u].code = d /\ op'[u].kind = op[u].kind
      BY <2>3, <2>4, <3>1 DEF Similar
    <3> QED
      BY <2>7, <2>9, <3>1, <3>2 DEF Astray
  <2>10. \A d \in Codes : row'[d].pid = row[d].pid
    BY <2>5
  <2>11. Numbered'
    BY <2>5, <2>7, <2>10 DEF Linked, Numbered
  <2>12. \A k \in lock, e \in Codes : Fits(k, e)' => Fits(k, e)
    BY <2>5, <2>6 DEF Fits, Live
  <2>13. Apart'
    BY <2>7, <2>9, <2>10, <2>12 DEF Linked, Apart
  <2>14. ActiveIsOnLock'
    BY <2>5, <2>7 DEF Linked, ActiveIsOnLock, Configured
  <2>15. Fine(op[w])'
    <3>1. Carries(op[w])'
      BY <2>3, <2>4, <2>5, <2>6, <2>7
      DEF Carries, OwningSteps, LockCalls, RecoverSteps, BlankSteps, NumberSteps, StoredSteps
    <3>2. Keeps(op[w])'
      BY <2>2, <2>3, <2>4, <2>6, <2>10 DEF Keeps, Linked, Numbered
    <3>3. Sure(op[w])'
      BY <2>3, <2>4 DEF Sure
    <3> QED
      BY <3>1, <3>2, <3>3 DEF Fine
  <2>16. ASSUME NEW v \in Workers, v # w PROVE Fine(op[v])'
    <3> DEFINE e == op[v].code
    <3>1. Fine(op[v]) /\ Similar(v) /\ op'[v].code = e
      BY <2>3, <2>16 DEF Linked, Similar
    <3>2. op'[v].fresh \/ Owning(v) => e \in Codes /\ e # c /\ row'[e] = row[e]
      BY <2>1, <2>3, <2>5, <2>16, LinkTypes DEF Similar, Inductive, Writers, c
    <3> HIDE DEF e
    <3>3. Carries(op[v])'
      BY <2>7, <3>1, <3>2
      DEF Fine, Carries, Similar, StoredSteps, OwningSteps, LockCalls, Owning, e
    <3>4. Keeps(op[v])'
      BY <2>7, <2>9, <2>10, <3>1, <3>2 DEF Fine, Keeps, Similar, Owning, e
    <3>5. Sure(op[v])'
      BY <2>7, <3>1, <3>2
      DEF Fine, Sure, Similar, Configured, Owning, OwningSteps, LockCalls, e
    <3> QED
      BY <3>3, <3>4, <3>5 DEF Fine
  <2> QED
    BY <2>11, <2>13, <2>14, <2>15, <2>16 DEF Linked
<1> QED
  BY <1>1, <1>2

(* Where the PIN that is reserved is free on the lock too.                 *)
LEMMA ReserveLinked ==
    ASSUME Inductive, Inductive', Linked, TakesFreePins, NEW w \in Workers, Reserve(w)
    PROVE  Linked'
<1>1. CASE Finish(w) /\ UNCHANGED row
  BY <1>1, FinishLinked DEF Reserve
<1>2. CASE ~(Finish(w) /\ UNCHANGED row)
  <2>1. PICK c \in Codes :
           /\ row[c].status = "none"
           /\ row' = [row EXCEPT ![c] =
                 [NoRow EXCEPT !.status = "pending_create", !.res = op[w].res,
                               !.pin = op[w].pin, !.win = op[w].win]]
           /\ Continue(w, [op[w] EXCEPT !.pc = "create", !.code = c,
                                        !.failure = "create_failed"])
    BY <1>2 DEF Reserve
  <2> DEFINE o == [op[w] EXCEPT !.pc = "create", !.code = c, !.failure = "create_failed"]
  <2>2. op[w] \in OpType /\ op[w] \in GoodOp /\ Fine(op[w]) /\ op[w].pc = "reserve"
    BY DEF Inductive, Shape, GoodOp, Linked, Reserve
  <2>3. op'[w] = o /\ \A v \in Workers : v # w => op'[v] = op[v] /\ Similar(v)
    BY <2>1, Others DEF Similar
  <2>4. /\ o.pc = "create" /\ o.code = c /\ o.pid = op[w].pid /\ o.fresh = op[w].fresh
        /\ o.pin = op[w].pin /\ o.win = op[w].win
    BY <2>2 DEF OpType
  <2>5. op[w].pid = 0 /\ ~op[w].fresh /\ row[c].pid = 0 /\ made \in Nat
    BY <2>1, <2>2, LinkTypes DEF Fine, Carries, BlankSteps, GoodOp, FreshSteps, Linked, Numbered
  <2>6. /\ row'[c].pid = 0 /\ row'[c].pin = op[w].pin /\ row'[c].win = op[w].win
        /\ row'[c].status = "pending_create"
        /\ \A d \in Codes : d # c => row'[d] = row[d]
    <3>1. row'[c] = [NoRow EXCEPT !.status = "pending_create", !.res = op[w].res,
                                  !.pin = op[w].pin, !.win = op[w].win]
      BY <2>1 DEF Inductive, Shape
    <3>2. \A d \in Codes : d # c => row'[d] = row[d]
      BY <2>1 DEF Inductive, Shape
    <3> QED
      BY <3>1, <3>2 DEF NoRow
  <2>7. UNCHANGED <<lock, made>>
    BY DEF Reserve
  <2>8. ~TakenOnLock(op[w].pin, op[w].win)
    BY <2>2, <2>3, <2>4 DEF TakesFreePins
  <2> HIDE DEF o
  <2>9. \A d \in Codes : row'[d].pid = row[d].pid
    BY <2>5, <2>6
  <2>10. Numbered'
    BY <2>6, <2>7, <2>9 DEF Linked, Numbered
  <2>11. \A k \in lock : k.id # 0
    BY LinkTypes
  <2>12. ASSUME NEW d \in Codes, Astray(d) PROVE Astray(d)'
    <3>1. row'[d].pid = row[d].pid /\ (d # c => row'[d].pin = row[d].pin)
      BY <2>6, <2>9
    <3>2. d = c => row'[d].pid = 0
      BY <2>6
    <3>3. \A u \in Workers : op'[u].pc = "change" => op'[u] = op[u]
      BY <2>3, <2>4
    <3> QED
      BY <2>7, <2>11, <2>12, <3>1, <3>2, <3>3 DEF Astray
  <2>13. \A k \in lock, e \in Codes : Fits(k, e)' => Fits(k, e)
    BY <2>6, <2>8 DEF Fits, Live, TakenOnLock
  <2>14. Apart'
    BY <2>7, <2>9, <2>12, <2>13 DEF Linked, Apart
  <2>15. ActiveIsOnLock'
    BY <2>6, <2>7 DEF Linked, ActiveIsOnLock, Configured
  <2>16. Fine(op[w])'
    <3>1. Carries(op[w])'
      BY <2>3, <2>4, <2>5, <2>6, <2>7
      DEF Carries, OwningSteps, LockCalls, RecoverSteps, BlankSteps, NumberSteps, StoredSteps
    <3>2. Keeps(op[w])'
      BY <2>3, <2>4, <2>5, <2>7, <2>11 DEF Keeps
    <3>3. Sure(op[w])'
      BY <2>3, <2>4 DEF Sure
    <3> QED
      BY <3>1, <3>2, <3>3 DEF Fine
  <2>17. ASSUME NEW v \in Workers, v # w PROVE Fine(op[v])'
    <3> DEFINE e == op[v].code
    <3>1. Fine(op[v]) /\ op'[v] = op[v]
      BY <2>3, <2>17 DEF Linked
    <3>2. op[v].fresh \/ Owning(v) => e \in Codes /\ row'[e] = row[e]
      BY <2>1, <2>6, LinkTypes, FreshRow DEF Live
    <3> HIDE DEF e
    <3>3. Carries(op[v])'
      BY <2>7, <3>1, <3>2 DEF Fine, Carries, StoredSteps, OwningSteps, LockCalls, Owning, e
    <3>4. Keeps(op[v])'
      BY <2>7, <2>9, <2>12, <3>1, <3>2 DEF Fine, Keeps, Owning, e
    <3>5. Sure(op[v])'
      BY <2>7, <3>1, <3>2 DEF Fine, Sure, Configured, Owning, OwningSteps, LockCalls, e
    <3> QED
      BY <3>3, <3>4, <3>5 DEF Fine
  <2> QED
    BY <2>10, <2>14, <2>15, <2>16, <2>17 DEF Linked
<1> QED
  BY <1>1, <1>2

-----------------------------------------------------------------------------
(* Writes to the lock *)

(* The operation goes on as o, or to its failure, when the answer is lost. *)
LEMMA AnsweredOps ==
    ASSUME Inductive, Linked, NEW w \in Workers, Owning(w), NEW o, Answered(w, o)
    PROVE  /\ \/ op'[w] = o
              \/ op'[w] = OpAt(op[w], "fail", op[w].pid)
           /\ \A v \in Workers : v # w => op'[v] = op[v]
           /\ op[w].code \in Codes /\ Live(op[w].code)
           /\ \A v \in Workers : v # w /\ (op[v].fresh \/ Owning(v))
                 => op[v].code \in Codes /\ op[v].code # op[w].code
<1>1. op[w] \in OpType
  BY DEF Inductive, Shape, GoodOp
<1>2. [op[w] EXCEPT !.pc = "fail"] = OpAt(op[w], "fail", op[w].pid)
  BY <1>1, OpAtFields
<1>3. op[w].code \in Codes /\ Live(op[w].code)
  BY LinkTypes DEF Live
<1>4. \A v \in Workers : v # w /\ (op[v].fresh \/ Owning(v))
         => op[v].code \in Codes /\ op[v].code # op[w].code
  BY LinkTypes DEF Inductive, Writers
<1>5. PICK q : Continue(w, q) /\ (q = o \/ q = [op[w] EXCEPT !.pc = "fail"])
  BY DEF Answered, Goto
<1> QED
  BY <1>2, <1>3, <1>4, <1>5, Others

(* What the write leaves the others and the rows with. *)
LEMMA LockWriteLinked ==
    ASSUME Inductive, Inductive', Linked, NEW w \in Workers, UNCHANGED row, made <= made',
           \A v \in Workers : v # w => op'[v] = op[v],
           Numbered', Apart', ActiveIsOnLock', Fine(op[w])',
           \A d \in Codes : Astray(d) => Astray(d)',
           \A v \in Workers : v # w /\ Owning(v) =>
              /\ row[op[v].code].pid = 0 => \A k \in lock' : k.id = op[v].pid =>
                    \/ k.pin = row[op[v].code].pin /\ k.win = row[op[v].code].win
                    \/ \E d \in Codes : row[d].pid = k.id
              /\ op[v].pc = "activate" =>
                    Configured(row[op[v].code].pid, row[op[v].code].pin,
                               row[op[v].code].win)'
    PROVE  Linked'
<1>1. ASSUME NEW v \in Workers, v # w PROVE Fine(op[v])'
  <2>1. Fine(op[v]) /\ op'[v] = op[v]
    BY <1>1 DEF Linked
  <2>2. op[v].pid \in Nat /\ made \in Nat /\ made' \in Nat
    BY LinkTypes, BoundsAreNaturals DEF Inductive, TypeOK
  <2>3. Carries(op[v])'
    BY <2>1, <2>2 DEF Fine, Carries
  <2>4. Keeps(op[v])'
    BY <1>1, <2>1 DEF Fine, Keeps, Owning
  <2>5. Sure(op[v])'
    BY <1>1, <2>1 DEF Sure, Owning, OwningSteps
  <2> QED
    BY <2>3, <2>4, <2>5 DEF Fine
<1> QED
  BY <1>1 DEF Linked

LEMMA CreateLinked ==
    ASSUME Inductive, Inductive', Linked, NEW w \in Workers, CreatePasscode(w)
    PROVE  Linked'
<1> DEFINE c == op[w].code
           n == [id |-> made + 1, pin |-> op[w].pin, win |-> op[w].win]
           o == OpAt(op[w], "store", made + 1)
           f == OpAt(op[w], "fail", op[w].pid)
<1>1. Owning(w) /\ op[w] \in OpType /\ Fine(op[w]) /\ ~op[w].fresh
  BY LinkTypes DEF Inductive, Shape, GoodOp, Linked, CreatePasscode, Owning, OwningSteps, LockCalls
<1>2. /\ o.pc = "store" /\ o.pid = made + 1 /\ o.code = c /\ o.pin = op[w].pin
      /\ o.win = op[w].win /\ o.fresh = op[w].fresh
      /\ f.pc = "fail" /\ f.pid = op[w].pid /\ f.code = c /\ f.fresh = op[w].fresh
  BY <1>1 DEF OpAt, OpType
<1>3. o = [op[w] EXCEPT !.pc = "store", !.pid = made + 1]
  BY DEF OpAt
<1>4. n.id = made + 1 /\ n.pin = op[w].pin /\ n.win = op[w].win
  OBVIOUS
<1>5. lock' = lock \cup {n} /\ made' = made + 1 /\ UNCHANGED row /\ made \in Nat
  BY LinkTypes DEF CreatePasscode
<1> HIDE DEF o, f, n
<1>6. /\ op'[w] = o \/ op'[w] = f
      /\ \A v \in Workers : v # w => op'[v] = op[v]
      /\ c \in Codes /\ Live(c)
      /\ \A v \in Workers : v # w /\ (op[v].fresh \/ Owning(v))
            => op[v].code \in Codes /\ op[v].code # c
  BY <1>1, <1>3, AnsweredOps DEF CreatePasscode, f
<1> HIDE DEF c
<1>7. /\ op[w].pid = 0 /\ row[c].pid = 0 /\ op[w].pin = row[c].pin
      /\ op[w].win = row[c].win
  BY <1>1, <1>6
  DEF Fine, Carries, BlankSteps, OwningSteps, LockCalls, DataSteps, CreatePasscode, c
<1>8. /\ \A d \in Codes : row[d].pid \in Nat /\ row[d].pid <= made
      /\ \A k \in lock : k.id \in Nat /\ k.id <= made /\ k.id # 0
      /\ \A v \in Workers : op[v].pid \in Nat /\ op[v].pid <= made
  BY LinkTypes DEF Linked, Numbered, Fine, Carries
<1>9. Numbered'
  <2>1. \A k \in lock' : k.id <= made'
    BY <1>4, <1>5, <1>8
  <2>2. \A j, k \in lock' : j.id = k.id => j = k
    BY <1>4, <1>5, <1>8 DEF Linked, Numbered
  <2> QED
    BY <1>5, <1>8, <2>1, <2>2 DEF Linked, Numbered
<1>10. \A d \in Codes, k \in lock' : row[d].pid = k.id => k \in lock
  BY <1>4, <1>5, <1>8
<1>11. ASSUME NEW d \in Codes, Astray(d) PROVE Astray(d)'
  BY <1>2, <1>5, <1>6, <1>10, <1>11 DEF Astray
<1>12. Apart'
  BY <1>5, <1>10, <1>11 DEF Linked, Apart, Fits, Live
<1>13. ActiveIsOnLock'
  BY <1>5 DEF Linked, ActiveIsOnLock, Configured
<1>14. Fine(op[w])'
  <2>1. Carries(op[w])'
    BY <1>1, <1>2, <1>5, <1>6, <1>7, <1>8
    DEF Carries, OwningSteps, LockCalls, DataSteps, RecoverSteps, BlankSteps, NumberSteps,
        StoredSteps
  <2>2. Keeps(op[w])'
    BY <1>2, <1>4, <1>5, <1>6, <1>7, <1>8 DEF Keeps
  <2>3. Sure(op[w])'
    BY <1>2, <1>6 DEF Sure
  <2> QED
    BY <2>1, <2>2, <2>3 DEF Fine
<1>15. ASSUME NEW v \in Workers, v # w, Owning(v)
       PROVE  /\ row[op[v].code].pid = 0 => \A k \in lock' : k.id = op[v].pid =>
                    \/ k.pin = row[op[v].code].pin /\ k.win = row[op[v].code].win
                    \/ \E d \in Codes : row[d].pid = k.id
              /\ op[v].pc = "activate" =>
                    Configured(row[op[v].code].pid, row[op[v].code].pin,
                               row[op[v].code].win)'
  <2>1. Fine(op[v])
    BY DEF Linked
  <2>2. \A k \in lock' : k.id = op[v].pid => k \in lock
    BY <1>4, <1>5, <1>8
  <2> QED
    BY <1>5, <1>6, <1>15, <2>1, <2>2 DEF Fine, Keeps, Sure, Configured, Owning
<1> QED
  BY <1>5, <1>6, <1>9, <1>11, <1>12, <1>13, <1>14, <1>15, LockWriteLinked

LEMMA DeleteLinked ==
    ASSUME Inductive, Inductive', Linked, NEW w \in Workers, DeletePasscode(w)
    PROVE  Linked'
<1> DEFINE c == op[w].code
           p == op[w].pid
           o == OpAt(op[w], "retire", p)
           f == OpAt(op[w], "fail", p)
<1>1. Owning(w) /\ op[w] \in OpType /\ Fine(op[w]) /\ ~op[w].fresh
  BY LinkTypes DEF Inductive, Shape, GoodOp, Linked, DeletePasscode, Owning, OwningSteps, LockCalls
<1>2. CASE ~OnLock(p)
  BY <1>1, <1>2, FailLinked DEF DeletePasscode
<1>3. CASE OnLock(p)
  <2>1. /\ o.pc = "retire" /\ o.pid = p /\ o.code = c /\ o.fresh = op[w].fresh
        /\ f.pc = "fail" /\ f.pid = p /\ f.code = c /\ f.fresh = op[w].fresh
    BY <1>1 DEF OpAt, OpType
  <2>2. o = [op[w] EXCEPT !.pc = "retire"]
    BY <1>1, OpAtFields
  <2>3. lock' = {k \in lock : k.id # p} /\ UNCHANGED <<row, made>>
    BY <1>3 DEF DeletePasscode
  <2> HIDE DEF o, f
  <2>4. /\ op'[w] = o \/ op'[w] = f
        /\ \A v \in Workers : v # w => op'[v] = op[v]
        /\ c \in Codes /\ Live(c)
        /\ \A v \in Workers : v # w /\ (op[v].fresh \/ Owning(v))
              => op[v].code \in Codes /\ op[v].code # c
    BY <1>1, <1>3, <2>2, AnsweredOps DEF DeletePasscode, f
  <2> HIDE DEF c, p
  <2>5. p # 0 /\ p <= made /\ row[c].pid \in {0, p} /\ row[c].status \in Pending
    BY <1>1, LinkTypes DEF Fine, Carries, NumberSteps, Owning, DeletePasscode, c, p
  <2>6. ASSUME NEW d \in Codes, Astray(d) PROVE Astray(d)'
    BY <2>1, <2>3, <2>4, <2>6 DEF Astray
  <2>7. Numbered'
    BY <2>3 DEF Linked, Numbered
  <2>8. Apart'
    BY <2>3, <2>6 DEF Linked, Apart, Fits, Live
  <2>9. ASSUME NEW d \in Codes, d # c, Configured(row[d].pid, row[d].pin, row[d].win)
        PROVE  Configured(row[d].pid, row[d].pin, row[d].win)'
    <3> DEFINE k == [id |-> row[d].pid, pin |-> row[d].pin, win |-> row[d].win]
    <3>1. k \in lock /\ k.id = row[d].pid /\ k.pin = row[d].pin
      BY <2>9 DEF Configured
    <3>2. ~Astray(d)
      BY <3>1 DEF Astray
    <3>3. row[d].pid # p
      BY <1>1, <2>5, <2>9, <3>2 DEF Fine, Keeps, Owning, c, p
    <3> HIDE DEF k
    <3>4. k \in lock'
      BY <2>3, <3>1, <3>3
    <3> QED
      BY <2>3, <3>4 DEF Configured, k
  <2>10. ActiveIsOnLock'
    BY <2>3, <2>5, <2>9 DEF Linked, ActiveIsOnLock
  <2>11. Fine(op[w])'
    <3>1. Carries(op[w])'
      BY <1>1, <2>1, <2>3, <2>4, <2>5
      DEF Carries, OwningSteps, LockCalls, DataSteps, RecoverSteps, BlankSteps, NumberSteps,
          StoredSteps
    <3>2. Keeps(op[w])'
      BY <1>1, <2>1, <2>3, <2>4, <2>6 DEF Fine, Keeps, Owning, c, p
    <3>3. Sure(op[w])'
      BY <2>1, <2>4 DEF Sure
    <3> QED
      BY <3>1, <3>2, <3>3 DEF Fine
  <2>12. ASSUME NEW v \in Workers, v # w, Owning(v)
         PROVE  /\ row[op[v].code].pid = 0 => \A k \in lock' : k.id = op[v].pid =>
                      \/ k.pin = row[op[v].code].pin /\ k.win = row[op[v].code].win
                      \/ \E d \in Codes : row[d].pid = k.id
                /\ op[v].pc = "activate" =>
                      Configured(row[op[v].code].pid, row[op[v].code].pin,
                                 row[op[v].code].win)'
    <3>1. Fine(op[v]) /\ op[v].code \in Codes /\ op[v].code # c /\ op'[v] = op[v]
      BY <2>4, <2>12 DEF Linked
    <3>2. op[v].pc = "activate" => Configured(row[op[v].code].pid, row[op[v].code].pin,
                                              row[op[v].code].win)
      BY <3>1 DEF Fine, Sure
    <3>3. op[v].pc = "activate" => Configured(row[op[v].code].pid, row[op[v].code].pin,
                                              row[op[v].code].win)'
      BY <2>3, <2>9, <3>1, <3>2
    <3> QED
      BY <2>3, <2>12, <3>1, <3>3 DEF Fine, Keeps, Owning
  <2>13. made <= made'
    BY <2>3, LinkTypes
  <2> QED
    BY <2>3, <2>4, <2>6, <2>7, <2>8, <2>10, <2>11, <2>12, <2>13, LockWriteLinked
<1> QED
  BY <1>2, <1>3

LEMMA ChangeLinked ==
    ASSUME Inductive, Inductive', Linked, NEW w \in Workers, ChangePasscode(w)
    PROVE  Linked'
<1> DEFINE c == op[w].code
           p == op[w].pid
           pc == IF op[w].kind = "recover" THEN "store" ELSE "confirm"
           o == OpAt(op[w], pc, p)
           f == OpAt(op[w], "fail", p)
<1>1. Owning(w) /\ op[w] \in OpType /\ Fine(op[w]) /\ ~op[w].fresh
  BY LinkTypes DEF Inductive, Shape, GoodOp, Linked, ChangePasscode, Owning, OwningSteps, LockCalls
<1>2. CASE ~OnLock(p)
  BY <1>1, <1>2, FailLinked DEF ChangePasscode
<1>3. CASE OnLock(p)
  <2>1. /\ o.pc = pc /\ o.pid = p /\ o.code = c /\ o.fresh = op[w].fresh
        /\ o.pin = op[w].pin /\ o.win = op[w].win /\ o.kind = op[w].kind
        /\ f.pc = "fail" /\ f.pid = p /\ f.code = c /\ f.fresh = op[w].fresh
    BY <1>1 DEF OpAt, OpType
  <2>2. o = [op[w] EXCEPT !.pc = pc]
    BY <1>1 DEF OpAt, OpType
  <2>3. /\ lock' = {IF k.id = p THEN Changed(k, op[w]) ELSE k : k \in lock}
        /\ Answered(w, o)
        /\ UNCHANGED <<row, made>>
    BY <1>3, <2>2 DEF ChangePasscode
  <2>4. pc \in {"store", "confirm"} /\ (pc = "store" <=> op[w].kind = "recover")
    OBVIOUS
  <2> HIDE DEF o, f, pc
  <2>5. /\ op'[w] = o \/ op'[w] = f
        /\ \A v \in Workers : v # w => op'[v] = op[v]
        /\ c \in Codes /\ Live(c)
        /\ \A v \in Workers : v # w /\ (op[v].fresh \/ Owning(v))
              => op[v].code \in Codes /\ op[v].code # c
    BY <1>1, <2>3, AnsweredOps DEF f
  <2>6. PICK k0 \in lock : k0.id = p
    BY <1>3 DEF OnLock
  <2> DEFINE k1 == Changed(k0, op[w])
  <2>7. /\ k1.id = p /\ k1.win = op[w].win
        /\ k1.pin = IF op[w].kind = "replace" THEN op[w].pin ELSE k0.pin
    BY <2>6 DEF Changed
  <2> HIDE DEF k1
  <2>8. \A k : k \in lock' <=> (k \in lock /\ k.id # p) \/ k = k1
    <3>1. \A k \in lock : k.id = p => k = k0
      BY <2>6 DEF Linked, Numbered
    <3> QED
      BY <2>3, <2>6, <3>1 DEF k1
  <2> HIDE DEF c, p
  <2>9. /\ p # 0 /\ p <= made /\ row[c].pid \in {0, p} /\ row[c].status \in Pending
        /\ op[w].pin = row[c].pin /\ op[w].win = row[c].win
        /\ op[w].kind # "recover" => row[c].pid = p
    BY <1>1, LinkTypes
    DEF Fine, Carries, NumberSteps, Owning, ChangePasscode, OwningSteps, LockCalls,
        DataSteps, c, p
  <2>10. \A d \in Codes : row[d].pid = p /\ d # c => Astray(d)
    BY <1>1, <2>9 DEF Fine, Keeps, Owning, c, p
  <2>11. row[c].pid = p => \A d \in Codes : row[d].pid = p => d = c
    BY <2>5, <2>9 DEF Linked, Numbered
  <2>12. ASSUME NEW e \in Codes, e # c, Live(e)
         PROVE  /\ ~(row[e].pin = row[c].pin /\ Overlap(row[c].win, row[e].win))
                /\ ~(row[e].pin = row[c].pin /\ row[e].win = row[c].win)
    <3>1. row[c].win \in Windows
      BY <2>5, RowFields DEF Live
    <3> QED
      BY <2>5, <2>12, <3>1, LinkTypes DEF Inductive, NoPinCollision
  <2>13. ASSUME NEW d \in Codes, Astray(d) PROVE Astray(d)'
    <3>1. ~(op[w].code = d /\ op[w].kind = "replace")
      BY <2>13 DEF Astray, ChangePasscode
    <3>2. k1.id = row[d].pid => k1.pin # row[d].pin
      BY <2>6, <2>7, <2>9, <2>11, <2>13, <3>1 DEF Astray, c
    <3>3. \A u \in Workers : op'[u].pc = "change" => op'[u] = op[u]
      BY <2>1, <2>4, <2>5
    <3> QED
      BY <2>3, <2>8, <2>13, <3>2, <3>3 DEF Astray
  <2>14. Numbered'
    <3>1. \A k \in lock' : k.id <= made'
      BY <2>3, <2>7, <2>8, <2>9 DEF Linked, Numbered
    <3>2. \A j, k \in lock' : j.id = k.id => j = k
      BY <2>7, <2>8 DEF Linked, Numbered
    <3> QED
      BY <2>3, <3>1, <3>2 DEF Linked, Numbered
  <2>15. Apart'
    <3> SUFFICES ASSUME NEW e \in Codes, NEW d \in Codes, NEW k \in lock',
                        Fits(k, e), row[d].pid = k.id
                 PROVE  Astray(d)'
      BY <2>3 DEF Apart, Fits, Live
    <3>1. CASE k \in lock
      BY <2>13, <3>1 DEF Linked, Apart
    <3>2. CASE k = k1 /\ d # c
      BY <2>7, <2>10, <2>13, <3>2
    <3>3. CASE k = k1 /\ d = c
      <4>1. row[c].pid = p /\ e # c /\ Live(e)
        BY <2>7, <2>9, <3>3 DEF Fits
      <4>2. k1.pin # row[c].pin
        BY <2>7, <2>9, <2>12, <3>3, <4>1 DEF Fits
      <4>3. op'[w].pc # "change"
        BY <2>1, <2>4, <2>5
      <4>4. \A u \in Workers : ~(op'[u].code = c /\ op'[u].pc = "change")
        BY <2>5, <4>3 DEF Owning, OwningSteps, LockCalls
      <4>5. \A j \in lock' : j.id = p => j = k1
        BY <2>8
      <4> QED
        BY <2>3, <3>3, <4>1, <4>2, <4>4, <4>5 DEF Astray
    <3> QED
      BY <2>8, <3>1, <3>2, <3>3
  <2>16. ASSUME NEW d \in Codes, d # c, Configured(row[d].pid, row[d].pin, row[d].win)
         PROVE  Configured(row[d].pid, row[d].pin, row[d].win)'
    <3> DEFINE k == [id |-> row[d].pid, pin |-> row[d].pin, win |-> row[d].win]
    <3>1. k \in lock /\ k.id = row[d].pid /\ k.pin = row[d].pin
      BY <2>16 DEF Configured
    <3>2. ~Astray(d)
      BY <3>1 DEF Astray
    <3>3. row[d].pid # p
      BY <2>10, <2>16, <3>2
    <3> HIDE DEF k
    <3>4. k \in lock'
      BY <2>8, <3>1, <3>3
    <3> QED
      BY <2>3, <3>4 DEF Configured, k
  <2>17. ActiveIsOnLock'
    BY <2>3, <2>9, <2>16 DEF Linked, ActiveIsOnLock
  <2>18. Fine(op[w])'
    <3>1. Carries(op[w])'
      BY <1>1, <2>1, <2>3, <2>4, <2>5, <2>9
      DEF Carries, OwningSteps, LockCalls, DataSteps, RecoverSteps, BlankSteps, NumberSteps,
          StoredSteps
    <3>2. ASSUME row[c].pid = 0
          PROVE  (k1.pin = row[c].pin /\ k1.win = row[c].win) \/ \E d \in Codes : row[d].pid = p
      <4>1. k0.pin = row[c].pin \/ \E d \in Codes : row[d].pid = p
        BY <1>1, <2>6, <3>2 DEF Fine, Keeps, Owning, c, p
      <4> QED
        BY <2>7, <2>9, <3>2, <4>1
    <3>3. Keeps(op[w])'
      BY <2>1, <2>3, <2>5, <2>7, <2>8, <2>10, <2>13, <3>2 DEF Keeps
    <3>4. Sure(op[w])'
      BY <2>1, <2>4, <2>5 DEF Sure
    <3> QED
      BY <3>1, <3>3, <3>4 DEF Fine
  <2>19. ASSUME NEW v \in Workers, v # w, Owning(v)
         PROVE  /\ row[op[v].code].pid = 0 => \A k \in lock' : k.id = op[v].pid =>
                      \/ k.pin = row[op[v].code].pin /\ k.win = row[op[v].code].win
                      \/ \E d \in Codes : row[d].pid = k.id
                /\ op[v].pc = "activate" =>
                      Configured(row[op[v].code].pid, row[op[v].code].pin,
                                 row[op[v].code].win)'
    <3> DEFINE e == op[v].code
    <3>1. Fine(op[v]) /\ e \in Codes /\ e # c /\ op'[v] = op[v] /\ Live(e)
      BY <2>5, <2>19, LinkTypes DEF Linked, Live
    <3>2. op[v].pc = "activate" => Configured(row[e].pid, row[e].pin, row[e].win)
      BY <3>1 DEF Fine, Sure
    <3>3. op[v].pc = "activate" => Configured(row[e].pid, row[e].pin, row[e].win)'
      BY <2>3, <2>16, <3>1, <3>2
    <3> HIDE DEF e
    <3>4. ASSUME row[e].pid = 0, NEW k \in lock', k.id = op[v].pid
          PROVE  \/ k.pin = row[e].pin /\ k.win = row[e].win
                 \/ \E d \in Codes : row[d].pid = k.id
      <4>1. CASE k \in lock
        BY <2>19, <3>1, <3>4, <4>1 DEF Fine, Keeps, Owning, e
      <4>2. CASE k = k1 /\ ~\E d \in Codes : row[d].pid = p
        <5>1. k0.pin = row[e].pin /\ k0.win = row[e].win
          BY <2>6, <2>7, <2>19, <3>1, <3>4, <4>2 DEF Fine, Keeps, Owning, e
        <5>2. k0.pin = row[c].pin /\ k0.win = row[c].win
          BY <1>1, <2>5, <2>6, <2>9, <4>2 DEF Fine, Keeps, Owning, c, p
        <5> QED
          BY <2>12, <3>1, <5>1, <5>2
      <4> QED
        BY <2>7, <2>8, <4>1, <4>2
    <3> QED
      BY <3>3, <3>4 DEF e
  <2>20. made <= made'
    BY <2>3, LinkTypes
  <2> QED
    BY <2>3, <2>5, <2>13, <2>14, <2>15, <2>17, <2>18, <2>19, <2>20, LockWriteLinked
<1> QED
  BY <1>2, <1>3

LEMMA ProceedLinked ==
    ASSUME Inductive, Inductive', Linked, TakesFreePins, NEW w \in Workers, Proceed(w)
    PROVE  Linked'
  BY PickLinked, ReserveLinked, PrepareLinked, ClaimDeleteLinked, LoadLinked, ClaimLinked,
     FindLinked, ExistsLinked, AvailableLinked, CheckConfiguredLinked, CreateLinked,
     ChangeLinked, DeleteLinked, StoreLinked, ConfirmLinked, ActivateLinked, RetireLinked,
     MarkSyncErrorLinked, RecordFailureLinked
  DEF Proceed

LEMMA NextLinked ==
    Inductive /\ Inductive' /\ Linked /\ [Next]_vars /\ [TakesFreePins]_vars => Linked'
<1> SUFFICES ASSUME Inductive, Inductive', Linked, [Next]_vars, [TakesFreePins]_vars
             PROVE  Linked'
  OBVIOUS
<1>1. CASE UNCHANGED vars
  BY <1>1, StillLinked DEF vars
<1>2. ASSUME NEW w \in Workers, Proceed(w), TakesFreePins PROVE Linked'
  BY <1>2, ProceedLinked
<1>3. ASSUME NEW w \in Workers, LockCallFails(w) \/ Request(w) PROVE Linked'
  BY <1>3, LockCallFailsLinked, RequestLinked
<1>4. CASE Automation
  BY <1>4, SweepItemLinked, StillLinked DEF Automation, NextSweep
<1>5. ASSUME NEW c \in Codes, RefreshUsage(c) PROVE Linked'
  BY <1>5, AgedLinked DEF RefreshUsage
<1>6. ASSUME NEW c \in Codes, Age(c) PROVE Linked'
  BY <1>6, AgedLinked DEF Age
<1>7. ASSUME NEW c \in Codes, FailureExpires(c) PROVE Linked'
  BY <1>7, StillLinked DEF FailureExpires
<1>8. ASSUME NEW r \in Reservations,
             CancelReservation(r) \/ Reinstate(r) \/ \E s \in Stays : MoveStay(r, s)
      PROVE  Linked'
  BY <1>8, StillLinked DEF CancelReservation, Reinstate, MoveStay
<1>9. CASE NewDay
  BY <1>9, StillLinked DEF NewDay
<1>10. CASE Crash
  BY <1>10, CrashLinked
<1> QED
  BY <1>1, <1>2, <1>3, <1>4, <1>5, <1>6, <1>7, <1>8, <1>9, <1>10 DEF Next

LEMMA InitLinked == Init => Linked
<1> SUFFICES ASSUME Init PROVE Linked
  OBVIOUS
<1>1. Inductive
  BY InitInductive
<1>2. \A w \in Workers : op[w] = IdleOp
  BY DEF Init
<1>3. \A c \in Codes : row[c].pid = 0 /\ row[c].status = "none"
  BY DEF Init, NoRow
<1>4. lock = {} /\ made = 0
  BY DEF Init
<1>5. \A w \in Workers : Fine(op[w])
  BY <1>1, <1>2, IdleFine
<1>6. Numbered
  BY <1>3, <1>4 DEF Numbered
<1>7. Apart /\ ActiveIsOnLock
  BY <1>3, <1>4 DEF Apart, ActiveIsOnLock
<1> QED
  BY <1>5, <1>6, <1>7 DEF Linked

(* An active code is on the lock with its PIN and its window, through      *)
(* lock calls that fail before or after taking effect, restarts and        *)
(* recovery by PIN and window (access-codes.service.ts:993-1318), as long  *)
(* as no reservation draws a PIN the lock still holds in that window:      *)
(* reserveCandidate asks only the table, where the old PIN of a code under *)
(* replacement is free already (:1501-1576).                               *)
THEOREM ActiveCodesAreOnLock == Spec /\ [][TakesFreePins]_vars => []ActiveIsOnLock
<1>1. Linked => ActiveIsOnLock
  BY DEF Linked
<1> QED
  BY <1>1, InitLinked, NextLinked, AlwaysInductive, PTL DEF Spec

-----------------------------------------------------------------------------
(* The automation alone never does *)

(* The automation, which reserves what it has just seen free on the lock,  *)
(* finds it free still.                                                    *)
Drawn == op[Cron].pc = "reserve" => ~TakenOnLock(op[Cron].pin, op[Cron].win)

LEMMA NextDrawn ==
    ASSUME Admins = {}, Inductive, Drawn, [Next]_vars PROVE Drawn'
<1>1. /\ \A w \in Workers : w = Cron
      /\ Cron \in Workers
      /\ op[Cron] \in OpType
      /\ DOMAIN op = Workers
      /\ IdleOp.pc # "reserve"
  BY DEF Workers, Inductive, Shape, GoodOp, IdleOp
<1>2. \A o : Continue(Cron, o) => op'[Cron] = o
  BY <1>1 DEF Continue
<1>3. \A c, o : ContinueBumping(Cron, c, o) => op'[Cron] = o
  BY <1>1 DEF ContinueBumping
<1>4. Finish(Cron) => op'[Cron].pc # "reserve"
  BY <1>1, <1>2 DEF Finish
<1>5. \A pc : Goto(Cron, pc) => op'[Cron].pc = pc
  BY <1>1, <1>2 DEF Goto, OpType
<1>6. CASE UNCHANGED <<op, lock>>
  BY <1>6 DEF Drawn, TakenOnLock
<1>7. CASE Proceed(Cron)
  <2>1. CASE Pick(Cron) /\ ~Finish(Cron)
    <3>1. PICK pin \in Pins : /\ ~TakenOnLock(pin, op[Cron].win)
                              /\ op'[Cron] = [op[Cron] EXCEPT !.pc = "reserve", !.pin = pin]
      BY <1>2, <2>1 DEF Pick
    <3>2. op'[Cron].pin = pin /\ op'[Cron].win = op[Cron].win
      BY <1>1, <3>1 DEF OpType
    <3> QED
      BY <2>1, <3>1, <3>2 DEF Drawn, Pick, TakenOnLock
  <2>2. CASE Reserve(Cron)
    BY <1>1, <1>2, <1>4, <2>2 DEF Reserve, Drawn, OpType
  <2>3. CASE Prepare(Cron)
    BY <1>1, <1>2, <1>3, <1>4, <2>3 DEF Prepare, Drawn, OpType
  <2>4. CASE ClaimDelete(Cron)
    BY <1>1, <1>2, <1>3, <1>4, <2>4 DEF ClaimDelete, Drawn, OpType
  <2>5. CASE Load(Cron)
    BY <1>1, <1>2, <1>4, <2>5 DEF Load, Loaded, Drawn, OpType
  <2>6. CASE Claim(Cron)
    BY <1>1, <1>2, <1>3, <1>4, <2>6 DEF Claim, Drawn, OpType
  <2>7. CASE CreatePasscode(Cron) \/ ChangePasscode(Cron) \/ DeletePasscode(Cron)
    BY <1>1, <1>2, <1>4, <1>5, <2>7
    DEF CreatePasscode, ChangePasscode, DeletePasscode, Answered, Drawn, OpType
  <2>8. CASE MarkSyncError(Cron)
    BY <1>1, <1>2, <1>4, <1>5, <2>8 DEF MarkSyncError, Drawn, OpType
  <2>9. CASE \/ Find(Cron) \/ Exists(Cron) \/ Available(Cron) \/ CheckConfigured(Cron)
             \/ StoreProviderId(Cron) \/ Confirm(Cron) \/ Activate(Cron) \/ Retire(Cron)
             \/ RecordFailure(Cron)
    BY <1>1, <1>2, <1>4, <1>5, <2>9
    DEF Find, Exists, Available, CheckConfigured, StoreProviderId, Confirm, Activate,
        Retire, RecordFailure, Drawn, OpType
  <2> QED
    BY <1>4, <1>7, <2>1, <2>2, <2>3, <2>4, <2>5, <2>6, <2>7, <2>8, <2>9 DEF Proceed, Drawn
<1>8. CASE LockCallFails(Cron)
  BY <1>4, <1>5, <1>8 DEF LockCallFails, Drawn
<1>9. CASE Automation
  <2>1. ASSUME NEW e \in todo, SweepItem(e) PROVE Drawn'
    BY <1>2, <1>6, <2>1, SweepItemBegins DEF SweepItem, Drawn
  <2> QED
    BY <1>6, <1>9, <2>1 DEF Automation, NextSweep
<1>10. CASE Crash
  BY <1>1, <1>10 DEF Crash, Drawn
<1>11. \A w \in Workers : ~Request(w)
  BY DEF Request
<1>12. ASSUME NEW c \in Codes, RefreshUsage(c) \/ Age(c) \/ FailureExpires(c) PROVE Drawn'
  BY <1>6, <1>12 DEF RefreshUsage, Age, FailureExpires
<1>13. ASSUME NEW r \in Reservations,
              CancelReservation(r) \/ Reinstate(r) \/ \E s \in Stays : MoveStay(r, s)
       PROVE  Drawn'
  BY <1>6, <1>13 DEF CancelReservation, Reinstate, MoveStay
<1>14. CASE NewDay
  BY <1>6, <1>14 DEF NewDay
<1>15. CASE UNCHANGED vars
  BY <1>6, <1>15 DEF vars
<1> QED
  BY <1>1, <1>7, <1>8, <1>9, <1>10, <1>11, <1>12, <1>13, <1>14, <1>15 DEF Next

(* Without administrators the hypothesis of ActiveCodesAreOnLock is met:   *)
(* the sweep, whose reservations follow their own look at the lock, keeps  *)
(* every active code on the lock through any faults, restarts, moved stays *)
(* and cancellations (access-codes.service.ts:106-273, 1446-1576).         *)
THEOREM AutomationKeepsCodesOnLock ==
    ASSUME Admins = {} PROVE Spec => []ActiveIsOnLock
<1>1. Init => Drawn
  BY DEF Init, IdleOp, Drawn, Workers
<1>2. Inductive /\ Drawn /\ [Next]_vars => Drawn'
  BY NextDrawn
<1>3. Inductive /\ Drawn /\ [Next]_vars => [TakesFreePins]_vars
  BY DEF Drawn, TakesFreePins, Workers
<1> QED
  BY <1>1, <1>2, <1>3, AlwaysInductive, ActiveCodesAreOnLock, PTL DEF Spec

-----------------------------------------------------------------------------
(* No passcode is forgotten *)

(* A replacement that fails leaves its PIN in the row and not on the lock, *)
(* and recovery never sends it: what follows is about the other requests.  *)
NothingIsReplaced == \A w \in Workers : op[w].kind # "replace"

(* A passcode has the PIN of the row with its number.                      *)
Kept == \A d \in Codes, k \in lock : row[d].pid = k.id => k.pin = row[d].pin

(* One passcode at most is in the way of a row without a number, and it is *)
(* the row's own.                                                          *)
Sole ==
    \A c \in Codes, j, k \in lock :
        Fits(j, c) /\ Fits(k, c) => j = k /\ k.win = row[c].win

Covered == \A k \in lock : \E c \in Codes : AnswersFor(c, k)

UnstoredSteps == {"exists", "delete", "configured", "change", "store"}

(* What the operation o knows of the lock is so until it has acted on it.  *)
Neat(o) ==
    /\ o.pc \in UnstoredSteps /\ row[o.code].pid = 0 => OnLock(o.pid)
    /\ o.pc = "create" => ~TakenOnLock(o.pin, o.win)
    /\ o.pc = "retire" => \A k \in lock : ~AnswersFor(o.code, k)
    /\ o.pc = "prepare" /\ o.fresh => o.pin = row[o.code].pin

Tidy == Kept /\ Sole /\ Covered /\ \A w \in Workers : Neat(op[w])

-----------------------------------------------------------------------------

(* Whose a passcode is, without the rows it is not.                        *)
LEMMA AnswerForm ==
    ASSUME Inductive, Linked, Tidy, NEW c \in Codes, NEW k \in lock
    PROVE  AnswersFor(c, k) <=>
              Live(c) /\ \/ row[c].pid = k.id
                         \/ row[c].pid = 0 /\ row[c].pin = k.pin /\ row[c].win = k.win
<1>1. ASSUME Live(c), row[c].pid = 0, row[c].pin = k.pin, row[c].win = k.win,
             NEW d \in Codes, row[d].pid = k.id
      PROVE  FALSE
  <2>1. Overlap(k.win, k.win)
    BY LinkTypes
  <2>2. Fits(k, c)
    BY <1>1, <2>1 DEF Fits
  <2>3. Astray(d)
    BY <1>1, <2>2 DEF Linked, Apart
  <2> QED
    BY <1>1, <2>3 DEF Astray, Tidy, Kept
<1> QED
  BY <1>1 DEF AnswersFor

LEMMA FitAnswers ==
    ASSUME Inductive, Linked, Tidy, NEW c \in Codes, NEW k \in lock, Fits(k, c)
    PROVE  AnswersFor(c, k)
  BY AnswerForm DEF Tidy, Sole, Fits

LEMMA AnswerFits ==
    ASSUME Inductive, NEW c \in Codes, NEW k \in lock, AnswersFor(c, k), row[c].pid # k.id
    PROVE  Fits(k, c)
<1>1. Overlap(k.win, k.win)
  BY LinkTypes
<1> QED
  BY <1>1 DEF AnswersFor, Fits

(* Live rows with one PIN have windows apart. *)
LEMMA RowsApart ==
    ASSUME Inductive, NEW c \in Codes, NEW d \in Codes, Live(c), Live(d), c # d,
           row[c].pin = row[d].pin
    PROVE  ~Overlap(row[c].win, row[d].win) /\ row[c].win # row[d].win
<1>1. row[c].win \in Windows
  BY RowFields DEF Live
<1> QED
  BY <1>1, LinkTypes DEF Inductive, NoPinCollision

LEMMA OneAnswer ==
    ASSUME Inductive, Linked, Tidy, NEW k \in lock
    PROVE  /\ \A c \in Codes, j \in lock : AnswersFor(c, j) /\ AnswersFor(c, k) => j = k
           /\ \A c, d \in Codes : AnswersFor(c, k) /\ AnswersFor(d, k) => c = d
<1>1. ASSUME NEW c \in Codes, NEW j \in lock, AnswersFor(c, j), AnswersFor(c, k)
      PROVE  j = k
  <2>1. CASE row[c].pid = j.id \/ row[c].pid = k.id
    <3>1. j.id # 0 /\ k.id # 0
      BY LinkTypes
    <3>2. j.id = k.id
      BY <1>1, <2>1, <3>1 DEF AnswersFor
    <3> QED
      BY <3>2 DEF Linked, Numbered
  <2>2. CASE row[c].pid # j.id /\ row[c].pid # k.id
    BY <1>1, <2>2, AnswerFits DEF Tidy, Sole
  <2> QED
    BY <2>1, <2>2
<1>2. ASSUME NEW c \in Codes, NEW d \in Codes, AnswersFor(c, k), AnswersFor(d, k)
      PROVE  c = d
  <2>1. k.id # 0
    BY LinkTypes
  <2>2. CASE row[c].pid = k.id \/ row[d].pid = k.id
    BY <1>2, <2>1, <2>2 DEF AnswersFor, Linked, Numbered
  <2>3. CASE row[c].pid # k.id /\ row[d].pid # k.id
    <3>1. /\ Live(c) /\ Live(d) /\ row[c].pin = row[d].pin /\ row[c].win = row[d].win
      BY <1>2, <2>3 DEF AnswersFor
    <3> QED
      BY <3>1, RowsApart
  <2> QED
    BY <2>2, <2>3
<1> QED
  BY <1>1, <1>2

(* The passcode an operation works on is its row's. *)
LEMMA Mine ==
    ASSUME Inductive, Linked, Tidy, NEW w \in Workers, Owning(w),
           NEW k \in lock, k.id = op[w].pid
    PROVE  /\ \A d \in Codes : row[d].pid = k.id => d = op[w].code
           /\ row[op[w].code].pid = 0 =>
                 k.pin = row[op[w].code].pin /\ k.win = row[op[w].code].win
           /\ k.pin = row[op[w].code].pin
           /\ AnswersFor(op[w].code, k)
           /\ \A v \in Workers : v # w /\ Owning(v) => op[v].pid # k.id
<1> DEFINE c == op[w].code
<1>1. Fine(op[w]) /\ c \in Codes /\ Live(c) /\ k.id # 0
  BY LinkTypes DEF Linked, Live
<1>2. ASSUME NEW d \in Codes, row[d].pid = k.id PROVE d = c
  <2>1. d # c => Astray(d)
    BY <1>1, <1>2 DEF Fine, Keeps, Owning
  <2> QED
    BY <1>2, <2>1 DEF Astray, Tidy, Kept
<1>3. row[c].pid = 0 => k.pin = row[c].pin /\ k.win = row[c].win
  BY <1>1, <1>2 DEF Fine, Keeps, Owning
<1>4. row[c].pid \in {0, k.id}
  BY <1>1 DEF Fine, Carries, Owning
<1>5. k.pin = row[c].pin
  BY <1>1, <1>3, <1>4 DEF Tidy, Kept
<1>6. AnswersFor(c, k)
  BY <1>1, <1>3, <1>4, AnswerForm
<1>7. ASSUME NEW v \in Workers, v # w, Owning(v), op[v].pid = k.id PROVE FALSE
  <2> DEFINE e == op[v].code
  <2>1. Fine(op[v]) /\ e \in Codes /\ Live(e) /\ e # c
    BY <1>7, LinkTypes DEF Linked, Live, Inductive, Writers
  <2>2. row[e].pid \in {0, k.id}
    BY <1>7, <2>1 DEF Fine, Carries, Owning
  <2>3. row[e].pid = 0
    BY <1>2, <2>1, <2>2
  <2>4. row[c].pid = k.id => Astray(c)
    BY <1>1, <1>7, <2>1 DEF Fine, Keeps, Owning
  <2>5. row[c].pid = 0
    BY <1>1, <1>4, <2>4 DEF Astray, Tidy, Kept
  <2>6. k.pin = row[e].pin /\ k.win = row[e].win
    BY <1>1, <1>2, <1>7, <2>1, <2>3, <2>5 DEF Fine, Keeps, Owning
  <2> QED
    BY <1>1, <1>3, <2>1, <2>5, <2>6, RowsApart
<1> QED
  BY <1>2, <1>3, <1>5, <1>6, <1>7

-----------------------------------------------------------------------------
(* Steps that leave the lock and every row's PIN, window and number alone *)

LEMMA SameAnswers ==
    ASSUME Inductive, Linked, Tidy, UNCHANGED lock,
           \A c \in Codes : /\ row'[c].pid = row[c].pid
                            /\ row'[c].pin = row[c].pin
                            /\ row[c].pid = 0 => row'[c].win = row[c].win
                            /\ Live(c)' => Live(c),
           \A c \in Codes : Live(c) /\ ~Live(c)' => \A k \in lock : ~AnswersFor(c, k)
    PROVE  \A c \in Codes, k \in lock : AnswersFor(c, k)' <=> AnswersFor(c, k)
  BY DEF AnswersFor

LEMMA PlainTidy ==
    ASSUME Inductive, Linked, Tidy, UNCHANGED lock,
           \A c \in Codes : /\ row'[c].pid = row[c].pid
                            /\ row'[c].pin = row[c].pin
                            /\ row[c].pid = 0 => row'[c].win = row[c].win
                            /\ Live(c)' => Live(c),
           \A c \in Codes : Live(c) /\ ~Live(c)' => \A k \in lock : ~AnswersFor(c, k),
           \A v \in Workers : Similar(v) \/ Neat(op[v])'
    PROVE  Tidy'
<1>1. \A c \in Codes, k \in lock : AnswersFor(c, k)' <=> AnswersFor(c, k)
  BY SameAnswers
<1>2. Kept'
  BY DEF Tidy, Kept
<1>3. Sole'
  BY DEF Tidy, Sole, Fits
<1>4. Covered'
  BY <1>1 DEF Tidy, Covered
<1>5. ASSUME NEW v \in Workers, Similar(v) PROVE Neat(op[v])'
  <2>1. Neat(op[v])
    BY DEF Tidy
  <2>2. Owning(v) \/ op'[v].fresh => op[v].code \in Codes
    BY <1>5, LinkTypes DEF Similar
  <2>3. op'[v].pc \in UnstoredSteps /\ row'[op[v].code].pid = 0 => OnLock(op[v].pid)'
    BY <1>5, <2>1, <2>2 DEF Neat, Similar, OnLock, UnstoredSteps, Owning, OwningSteps, LockCalls
  <2>4. op'[v].pc = "create" => ~TakenOnLock(op[v].pin, op[v].win)'
    BY <1>5, <2>1 DEF Neat, Similar, TakenOnLock
  <2>5. op'[v].pc = "retire" => \A k \in lock : ~AnswersFor(op[v].code, k)'
    BY <1>1, <1>5, <2>1, <2>2 DEF Neat, Similar, Owning, OwningSteps, LockCalls
  <2>6. op'[v].pc = "prepare" /\ op'[v].fresh => op'[v].pin = row'[op'[v].code].pin
    BY <1>5, <2>1, <2>2 DEF Neat, Similar
  <2> QED
    BY <1>5, <2>3, <2>4, <2>5, <2>6 DEF Neat, Similar
<1> QED
  BY <1>2, <1>3, <1>4, <1>5 DEF Tidy

LEMMA ReadingTidy ==
    ASSUME Inductive, Linked, Tidy, NEW w \in Workers, NEW o, Continue(w, o),
           UNCHANGED <<row, lock>>, Neat(o)
    PROVE  Tidy'
<1>1. op'[w] = o /\ \A v \in Workers : v # w => op'[v] = op[v]
  BY Others
<1>2. Neat(op[w])'
  BY <1>1 DEF Neat, OnLock, TakenOnLock, AnswersFor, Live
<1>3. \A v \in Workers : v # w => Similar(v)
  BY <1>1 DEF Similar
<1> QED
  BY <1>1, <1>2, <1>3, PlainTidy DEF Live

(* Steps at which the lock does not matter. *)
LEMMA Easy ==
    ASSUME NEW o, o.pc \notin UnstoredSteps \cup {"create", "retire", "prepare"} PROVE Neat(o)
  BY DEF Neat

LEMMA IdleNeat == Neat(IdleOp)
  BY Easy DEF IdleOp, UnstoredSteps

LEMMA FinishTidy ==
    ASSUME Inductive, Linked, Tidy, NEW w \in Workers, Finish(w), UNCHANGED <<row, lock>>
    PROVE  Tidy'
  BY ReadingTidy, IdleNeat DEF Finish

LEMMA GotoTidy ==
    ASSUME Inductive, Linked, Tidy, NEW w \in Workers, NEW pc, Goto(w, pc),
           UNCHANGED <<row, lock>>, Neat(OpAt(op[w], pc, op[w].pid))
    PROVE  Tidy'
<1>1. [op[w] EXCEPT !.pc = pc] = OpAt(op[w], pc, op[w].pid)
  BY DEF OpAt, OpType, Inductive, Shape, GoodOp
<1> QED
  BY <1>1, ReadingTidy DEF Goto

LEMMA StillTidy ==
    ASSUME Inductive, Linked, Tidy, UNCHANGED <<row, op, lock>> PROVE Tidy'
  BY PlainTidy DEF Similar, Live

LEMMA PickTidy ==
    ASSUME Inductive, Linked, Tidy, NEW w \in Workers, Pick(w) PROVE Tidy'
<1>1. CASE Finish(w)
  BY <1>1, FinishTidy DEF Pick
<1>2. CASE ~Finish(w)
  <2>1. PICK pin \in Pins : Continue(w, [op[w] EXCEPT !.pc = "reserve", !.pin = pin])
    BY <1>2 DEF Pick
  <2> DEFINE o == [op[w] EXCEPT !.pc = "reserve", !.pin = pin]
  <2>2. o.pc = "reserve"
    BY DEF Inductive, Shape, GoodOp, OpType
  <2> HIDE DEF o
  <2>3. Neat(o)
    BY <2>2, Easy DEF UnstoredSteps
  <2> QED
    BY <2>1, <2>3, ReadingTidy DEF Pick, o
<1> QED
  BY <1>1, <1>2

LEMMA LoadTidy ==
    ASSUME Inductive, Linked, Tidy, NEW w \in Workers, Load(w) PROVE Tidy'
<1>1. CASE Finish(w)
  BY <1>1, FinishTidy DEF Load
<1>2. CASE ~Finish(w)
  <2>1. PICK d, f : Continue(w, Loaded(op[w], row[op[w].code], d, f))
    BY <1>2 DEF Load
  <2>2. Loaded(op[w], row[op[w].code], d, f).pc = "claim"
    BY DEF Loaded, Inductive, Shape, GoodOp, OpType
  <2>3. Neat(Loaded(op[w], row[op[w].code], d, f))
    BY <2>2, Easy DEF UnstoredSteps
  <2> QED
    BY <2>1, <2>3, ReadingTidy DEF Load
<1> QED
  BY <1>1, <1>2

LEMMA FindTidy ==
    ASSUME Inductive, Linked, Tidy, NEW w \in Workers, Find(w) PROVE Tidy'
<1> DEFINE c == op[w].code
<1>1. op[w] \in OpType /\ Fine(op[w]) /\ Owning(w) /\ ~op[w].fresh /\ c \in Codes
  BY LinkTypes DEF Inductive, Shape, GoodOp, Linked, Find, Owning, OwningSteps, LockCalls
<1>2. row[c].pid = 0 /\ op[w].pin = row[c].pin /\ op[w].win = row[c].win
  BY <1>1 DEF Fine, Carries, Find, BlankSteps, DataSteps, Owning
<1>3. ASSUME NEW k \in Found(op[w]),
             Continue(w, [op[w] EXCEPT !.pid = k.id,
                                       !.pc = IF op[w].deleting THEN "exists" ELSE "configured"])
      PROVE  Tidy'
  <2> DEFINE o == [op[w] EXCEPT !.pid = k.id,
                                !.pc = IF op[w].deleting THEN "exists" ELSE "configured"]
  <2>1. o.pc \in {"exists", "configured"} /\ o.pid = k.id
    BY <1>1 DEF OpType
  <2>2. k \in lock
    BY DEF Found
  <2> HIDE DEF o
  <2>3. Neat(o)
    BY <2>1, <2>2 DEF Neat, OnLock
  <2> QED
    BY <1>3, <2>3, ReadingTidy DEF Find, o
<1>4. CASE Found(op[w]) = {} /\ Goto(w, IF op[w].deleting THEN "retire" ELSE "available")
  <2> DEFINE pc == IF op[w].deleting THEN "retire" ELSE "available"
             o == OpAt(op[w], pc, op[w].pid)
  <2>1. o.pc = pc /\ o.code = c /\ pc \in {"retire", "available"}
    BY <1>1 DEF OpAt, OpType
  <2>2. \A k \in lock : ~AnswersFor(c, k)
    <3>1. \A k \in lock : k.id # 0
      BY LinkTypes
    <3> QED
      BY <1>2, <1>4, <3>1 DEF Found, AnswersFor
  <2> HIDE DEF o, pc
  <2>3. Neat(o)
    BY <2>1, <2>2 DEF Neat, UnstoredSteps
  <2> QED
    BY <1>4, <2>3, GotoTidy DEF Find, o, pc
<1> QED
  BY <1>3, <1>4 DEF Find

LEMMA ExistsTidy ==
    ASSUME Inductive, Linked, Tidy, NEW w \in Workers, Exists(w) PROVE Tidy'
<1> DEFINE c == op[w].code
           pc == IF OnLock(op[w].pid) THEN "delete" ELSE "retire"
           o == OpAt(op[w], pc, op[w].pid)
<1>1. op[w] \in OpType /\ Fine(op[w]) /\ Owning(w) /\ Neat(op[w]) /\ c \in Codes
  BY LinkTypes DEF Inductive, Shape, GoodOp, Linked, Tidy, Exists, Owning, OwningSteps, LockCalls
<1>2. o.pc = pc /\ o.code = c /\ o.pid = op[w].pid /\ pc \in {"delete", "retire"}
  BY <1>1 DEF OpAt, OpType
<1>3. pc = "retire" => \A k \in lock : ~AnswersFor(c, k)
  <2>1. SUFFICES ASSUME ~OnLock(op[w].pid) PROVE \A k \in lock : ~AnswersFor(c, k)
    OBVIOUS
  <2>2. row[c].pid = op[w].pid /\ row[c].pid # 0
    BY <1>1, <2>1 DEF Fine, Carries, Neat, UnstoredSteps, Owning, Exists
  <2> QED
    BY <2>1, <2>2 DEF AnswersFor, OnLock
<1>4. pc = "delete" => OnLock(op[w].pid)
  OBVIOUS
<1> HIDE DEF o, pc
<1>5. Neat(o)
  BY <1>2, <1>3, <1>4 DEF Neat, UnstoredSteps
<1> QED
  BY <1>5, GotoTidy DEF Exists, o, pc

LEMMA AvailableTidy ==
    ASSUME Inductive, Linked, Tidy, NEW w \in Workers, Available(w) PROVE Tidy'
<1> DEFINE pc == IF TakenOnLock(op[w].pin, op[w].win) THEN "fail" ELSE "create"
           o == OpAt(op[w], pc, op[w].pid)
<1>1. o.pc = pc /\ o.pin = op[w].pin /\ o.win = op[w].win
  BY DEF OpAt, OpType, Inductive, Shape, GoodOp
<1>2. pc \in {"fail", "create"} /\ (pc = "create" => ~TakenOnLock(op[w].pin, op[w].win))
  OBVIOUS
<1> HIDE DEF o, pc
<1>3. Neat(o)
  BY <1>1, <1>2 DEF Neat, UnstoredSteps
<1> QED
  BY <1>3, GotoTidy DEF Available, o, pc

LEMMA CheckConfiguredTidy ==
    ASSUME Inductive, Linked, Tidy, NEW w \in Workers, CheckConfigured(w) PROVE Tidy'
<1> DEFINE pc == IF Configured(op[w].pid, op[w].pin, op[w].win) THEN "store" ELSE "change"
           o == OpAt(op[w], pc, op[w].pid)
<1>1. o.pc = pc /\ o.code = op[w].code /\ o.pid = op[w].pid /\ pc \in {"store", "change"}
  BY DEF OpAt, OpType, Inductive, Shape, GoodOp
<1> HIDE DEF o, pc
<1>2. Neat(o)
  BY <1>1 DEF Neat, UnstoredSteps, Tidy, CheckConfigured
<1> QED
  BY <1>2, GotoTidy DEF CheckConfigured, o, pc

LEMMA FailTidy ==
    ASSUME Inductive, Linked, Tidy, NEW w \in Workers, NEW pc \in {"fail", "activate", "confirm"},
           Goto(w, pc), UNCHANGED <<row, lock>>
    PROVE  Tidy'
<1> DEFINE o == OpAt(op[w], pc, op[w].pid)
<1>1. o.pc = pc
  BY DEF OpAt, OpType, Inductive, Shape, GoodOp
<1> HIDE DEF o
<1>2. Neat(o)
  BY <1>1 DEF Neat, UnstoredSteps
<1> QED
  BY <1>2, GotoTidy DEF o

LEMMA ConfirmTidy ==
    ASSUME Inductive, Linked, Tidy, NEW w \in Workers, Confirm(w) PROVE Tidy'
  BY FailTidy DEF Confirm

LEMMA LockCallFailsTidy ==
    ASSUME Inductive, Linked, Tidy, NEW w \in Workers, LockCallFails(w) PROVE Tidy'
  BY FailTidy, FinishTidy DEF LockCallFails

LEMMA RecordFailureTidy ==
    ASSUME Inductive, Linked, Tidy, NEW w \in Workers, RecordFailure(w) PROVE Tidy'
  BY FinishTidy DEF RecordFailure

LEMMA BeginsTidy ==
    ASSUME Inductive, Linked, Tidy, NothingIsReplaced', NEW w \in Workers,
           \E o : Continue(w, o) /\ Begins(o), UNCHANGED <<row, lock>>
    PROVE  Tidy'
<1>1. PICK o : Continue(w, o) /\ Begins(o)
  OBVIOUS
<1>2. o.kind # "replace"
  BY <1>1, Others DEF NothingIsReplaced
<1>3. Neat(o)
  BY <1>1, <1>2 DEF Begins, Neat, UnstoredSteps
<1> QED
  BY <1>1, <1>3, ReadingTidy

LEMMA RequestTidy ==
    ASSUME Inductive, Linked, Tidy, NothingIsReplaced', NEW w \in Workers, Request(w)
    PROVE  Tidy'
  BY RequestBegins, BeginsTidy DEF Request

LEMMA SweepItemTidy ==
    ASSUME Inductive, Linked, Tidy, NothingIsReplaced', NEW e \in todo, SweepItem(e)
    PROVE  Tidy'
<1>1. Cron \in Workers
  BY DEF Workers
<1> QED
  BY <1>1, SweepItemBegins, BeginsTidy, StillTidy DEF SweepItem

LEMMA StatusTidy ==
    ASSUME Inductive, Linked, Tidy, NEW w \in Workers, NEW c \in Codes, Live(c),
           NEW s, s # "none", SetStatus(c, s),
           s = "revoked" => \A k \in lock : ~AnswersFor(c, k),
           UNCHANGED lock, \A v \in Workers : v # w => Similar(v), Neat(op[w])'
    PROVE  Tidy'
<1>1. /\ \A d \in Codes : /\ row'[d].pid = row[d].pid
                          /\ row'[d].pin = row[d].pin
                          /\ row'[d].win = row[d].win
      /\ row'[c].status = s
      /\ \A d \in Codes : d # c => row'[d] = row[d]
  BY SetStatusRow
<1>2. \A d \in Codes : Live(d)' => Live(d)
  BY <1>1 DEF Live
<1>3. \A d \in Codes : Live(d) /\ ~Live(d)' => \A k \in lock : ~AnswersFor(d, k)
  BY <1>1 DEF Live
<1> QED
  BY <1>1, <1>2, <1>3, PlainTidy

LEMMA OwnedStatusTidy ==
    ASSUME Inductive, Linked, Tidy, NEW w \in Workers, Owning(w),
           NEW s, s # "none", SetStatus(op[w].code, s), NEW o, Continue(w, o),
           o.pc \in {"idle", "record"},
           s = "revoked" => \A k \in lock : ~AnswersFor(op[w].code, k),
           UNCHANGED lock
    PROVE  Tidy'
<1>1. /\ op'[w] = o
      /\ op[w].code \in Codes /\ Live(op[w].code)
      /\ \A v \in Workers : v # w => Similar(v)
  BY OwnerAlone
<1>2. Neat(op[w])'
  BY <1>1 DEF Neat, UnstoredSteps
<1> QED
  BY <1>1, <1>2, StatusTidy

LEMMA ActivateTidy ==
    ASSUME Inductive, Linked, Tidy, NEW w \in Workers, Activate(w) PROVE Tidy'
<1>1. IdleOp.pc = "idle"
  BY DEF IdleOp
<1> QED
  BY <1>1, OwnedStatusTidy DEF Activate, Finish, Owning, OwningSteps

LEMMA RetireTidy ==
    ASSUME Inductive, Linked, Tidy, NEW w \in Workers, Retire(w) PROVE Tidy'
<1>1. IdleOp.pc = "idle"
  BY DEF IdleOp
<1>2. \A k \in lock : ~AnswersFor(op[w].code, k)
  BY DEF Retire, Tidy, Neat
<1> QED
  BY <1>1, <1>2, OwnedStatusTidy DEF Retire, Finish, Owning, OwningSteps

LEMMA MarkSyncErrorTidy ==
    ASSUME Inductive, Linked, Tidy, NEW w \in Workers, MarkSyncError(w) PROVE Tidy'
<1> DEFINE o == [op[w] EXCEPT !.pc = "record"]
<1>1. o.pc = "record"
  BY DEF Inductive, Shape, GoodOp, OpType
<1>2. Continue(w, o) /\ SetStatus(op[w].code, "sync_error") /\ Owning(w) /\ lock' = lock
  BY DEF MarkSyncError, Goto, Owning, OwningSteps
<1> HIDE DEF o
<1> QED
  BY <1>1, <1>2, OwnedStatusTidy

LEMMA ClaimDeleteTidy ==
    ASSUME Inductive, Linked, Tidy, NEW w \in Workers, ClaimDelete(w) PROVE Tidy'
<1>1. CASE Finish(w) /\ UNCHANGED row
  BY <1>1, FinishTidy DEF ClaimDelete
<1>2. CASE ~(Finish(w) /\ UNCHANGED row)
  <2> DEFINE c == op[w].code
             o == [op[w] EXCEPT !.pc = "delete", !.fresh = FALSE, !.failure = "delete_failed"]
  <2>1. op[w].fresh /\ SetStatus(c, "pending_delete") /\ ContinueBumping(w, c, o)
    BY <1>2 DEF ClaimDelete
  <2>2. c \in Codes /\ Live(c) /\ op[w] \in OpType /\ Fine(op[w])
    BY <2>1, FreshRow DEF Inductive, Shape, GoodOp, Linked
  <2>3. op'[w] = o /\ \A v \in Workers : v # w => Similar(v)
    BY <2>1, OthersBumped
  <2>4. o.pc = "delete" /\ o.code = c
    BY <2>2 DEF OpType
  <2>5. row'[c].pid # 0
    BY <2>1, <2>2, SetStatusRow DEF Fine, Carries, NumberSteps, ClaimDelete
  <2> HIDE DEF o, c
  <2>6. Neat(op[w])'
    BY <2>3, <2>4, <2>5 DEF Neat
  <2> QED
    BY <2>1, <2>2, <2>3, <2>6, StatusTidy DEF ClaimDelete
<1> QED
  BY <1>1, <1>2

LEMMA ClaimTidy ==
    ASSUME Inductive, Linked, Tidy, NEW w \in Workers, Claim(w) PROVE Tidy'
<1>1. CASE Finish(w) /\ UNCHANGED row
  BY <1>1, FinishTidy DEF Claim
<1>2. CASE ~(Finish(w) /\ UNCHANGED row)
  <2> DEFINE c == op[w].code
             pc == IF op[w].pid = 0 THEN "find"
                   ELSE IF op[w].deleting THEN "exists" ELSE "configured"
             o == [op[w] EXCEPT !.fresh = FALSE, !.pc = pc]
             s == ClaimedStatus(op[w])
  <2>1. op[w].fresh /\ SetStatus(c, s) /\ ContinueBumping(w, c, o)
    BY <1>2 DEF Claim
  <2>2. c \in Codes /\ Live(c) /\ op[w] \in OpType /\ Fine(op[w])
    BY <2>1, FreshRow DEF Inductive, Shape, GoodOp, Linked
  <2>3. op'[w] = o /\ \A v \in Workers : v # w => Similar(v)
    BY <2>1, OthersBumped
  <2>4. o.pc = pc /\ o.code = c
    BY <2>2 DEF OpType
  <2>5. s # "none" /\ s # "revoked"
    BY DEF ClaimedStatus
  <2>6. pc = "find" \/ (pc \in {"exists", "configured"} /\ op[w].pid # 0)
    OBVIOUS
  <2>7. row'[c].pid = op[w].pid
    BY <2>1, <2>2, SetStatusRow DEF Fine, Carries
  <2> HIDE DEF o, pc, s, c
  <2>8. Neat(op[w])'
    BY <2>3, <2>4, <2>6, <2>7 DEF Neat, UnstoredSteps
  <2> QED
    BY <2>1, <2>2, <2>3, <2>5, <2>8, StatusTidy DEF Claim
<1> QED
  BY <1>1, <1>2

LEMMA AgedTidy ==
    ASSUME Inductive, Linked, Tidy, UNCHANGED <<op, lock>>, NEW c \in Codes,
           NEW b \in BOOLEAN, row' = [row EXCEPT ![c].aged = b]
    PROVE  Tidy'
<1>1. \A d \in Codes : row[d] \in RowType
  BY DEF Inductive, Shape, GoodRow
<1>2. \A d \in Codes : row'[d] = IF d = c THEN [row[c] EXCEPT !.aged = b] ELSE row[d]
  BY DEF Inductive, Shape
<1>3. \A x \in RowType : LET y == [x EXCEPT !.aged = b]
                        IN  /\ y.pid = x.pid /\ y.pin = x.pin /\ y.win = x.win
                            /\ y.status = x.status
  BY DEF RowType
<1>4. \A d \in Codes : /\ row'[d].pid = row[d].pid
                       /\ row'[d].pin = row[d].pin
                       /\ row'[d].win = row[d].win
                       /\ row'[d].status = row[d].status
  BY <1>1, <1>2, <1>3
<1>5. \A v \in Workers : Similar(v)
  BY DEF Similar
<1> QED
  BY <1>4, <1>5, PlainTidy DEF Live

LEMMA CrashTidy ==
    ASSUME Inductive, Linked, Tidy, Crash PROVE Tidy'
<1>1. \A v \in Workers : op'[v] = IdleOp
  BY DEF Crash
<1>2. \A v \in Workers : Neat(op[v])'
  BY <1>1 DEF Neat, IdleOp, UnstoredSteps
<1> QED
  BY <1>2, PlainTidy DEF Crash, Live

-----------------------------------------------------------------------------
(* Writes to the lock *)

(* The operation of w has written to the lock for its row; everybody else  *)
(* works on another.                                                       *)
Writes(w) ==
    /\ Owning(w)
    /\ op[w].code \in Codes /\ Live(op[w].code) /\ row[op[w].code].status \in Pending
    /\ UNCHANGED row
    /\ op'[w].code = op[w].code
    /\ \A v \in Workers : v # w => op'[v] = op[v]
    /\ \A v \in Workers : v # w /\ Owning(v) => op[v].code \in Codes /\ op[v].code # op[w].code

LEMMA AnsweredWrites ==
    ASSUME Inductive, Linked, NEW w \in Workers, Owning(w), UNCHANGED row,
           NEW o, Answered(w, o), o.code = op[w].code
    PROVE  Writes(w) /\ (op'[w] = o \/ op'[w].pc = "fail")
<1>1. OpAt(op[w], "fail", op[w].pid).code = op[w].code /\ OpAt(op[w], "fail", op[w].pid).pc = "fail"
  BY DEF OpAt, OpType, Inductive, Shape, GoodOp
<1>2. row[op[w].code].status \in Pending
  BY LinkTypes
<1> QED
  BY <1>1, <1>2, AnsweredOps DEF Writes

LEMMA CreateEffect ==
    ASSUME Inductive, Linked, NEW w \in Workers, CreatePasscode(w)
    PROVE  /\ Writes(w)
           /\ op[w].pin = row[op[w].code].pin /\ op[w].win = row[op[w].code].win
           /\ row[op[w].code].pid = 0
           /\ lock' = lock \cup {[id |-> made + 1, pin |-> op[w].pin, win |-> op[w].win]}
           /\ op'[w].pc \in {"store", "fail"}
           /\ op'[w].pc = "store" => op'[w].pid = made + 1
<1> DEFINE o == [op[w] EXCEPT !.pc = "store", !.pid = made + 1]
<1>1. Owning(w) /\ op[w] \in OpType /\ Fine(op[w])
  BY DEF Inductive, Shape, GoodOp, Linked, CreatePasscode, Owning, OwningSteps, LockCalls
<1>2. o.pc = "store" /\ o.pid = made + 1 /\ o.code = op[w].code
  BY <1>1 DEF OpType
<1>3. Answered(w, o) /\ UNCHANGED row
  BY DEF CreatePasscode
<1> HIDE DEF o
<1>4. Writes(w) /\ (op'[w] = o \/ op'[w].pc = "fail")
  BY <1>1, <1>2, <1>3, AnsweredWrites
<1>5. /\ op[w].pin = row[op[w].code].pin /\ op[w].win = row[op[w].code].win
      /\ row[op[w].code].pid = 0
  BY <1>1 DEF Fine, Carries, CreatePasscode, BlankSteps, DataSteps, Owning
<1> QED
  BY <1>2, <1>4, <1>5 DEF CreatePasscode

LEMMA CreateTidy ==
    ASSUME Inductive, Linked, Tidy, NEW w \in Workers, CreatePasscode(w) PROVE Tidy'
<1> DEFINE c == op[w].code
           n == [id |-> made + 1, pin |-> op[w].pin, win |-> op[w].win]
<1>1. /\ Writes(w)
      /\ op[w].pin = row[c].pin /\ op[w].win = row[c].win /\ row[c].pid = 0
      /\ lock' = lock \cup {n}
      /\ op'[w].pc \in {"store", "fail"}
      /\ op'[w].pc = "store" => op'[w].pid = made + 1
  BY CreateEffect
<1>2. n.id = made + 1 /\ n.pin = row[c].pin /\ n.win = row[c].win
  BY <1>1
<1> HIDE DEF c, n
<1>3. c \in Codes /\ Live(c) /\ row' = row
  BY <1>1 DEF Writes, c
<1>4. \A d \in Codes : row[d].pid # n.id
  BY <1>2, LinkTypes DEF Linked, Numbered
<1>5. \A e \in Codes : Live(e) /\ row[e].pin = n.pin /\ (Overlap(n.win, row[e].win) \/ n.win = row[e].win)
         => e = c
  BY <1>2, <1>3, RowsApart
<1>6. \A k \in lock : ~Fits(k, c)
  BY <1>1 DEF Tidy, Neat, CreatePasscode, TakenOnLock, Fits, c
<1>7. Kept'
  BY <1>1, <1>3, <1>4 DEF Tidy, Kept
<1>8. Sole'
  <2>1. \A e \in Codes : Fits(n, e) => e = c
    BY <1>5 DEF Fits
  <2>2. ASSUME NEW e \in Codes, NEW j \in lock', NEW k \in lock', Fits(j, e), Fits(k, e)
        PROVE  j = k /\ k.win = row[e].win
    <3>1. CASE e = c
      BY <1>1, <1>2, <1>6, <2>2, <3>1
    <3>2. CASE e # c
      BY <1>1, <2>1, <2>2, <3>2 DEF Tidy, Sole
    <3> QED
      BY <3>1, <3>2
  <2> QED
    BY <1>3, <2>2 DEF Sole, Fits, Live
<1>9. Covered'
  <2>1. AnswersFor(c, n)
    BY <1>1, <1>2, <1>3, <1>4 DEF AnswersFor
  <2> QED
    BY <1>1, <1>3, <2>1 DEF Tidy, Covered, AnswersFor, Live
<1>10. ASSUME NEW v \in Workers, v # w PROVE Neat(op[v])'
  <2> DEFINE e == op[v].code
  <2>1. op'[v] = op[v] /\ Neat(op[v]) /\ (Owning(v) => e \in Codes /\ e # c /\ Live(e))
    BY <1>1, <1>10, LinkTypes DEF Writes, Tidy, Live, c
  <2>2. op[v].pc = "create" => ~TakenOnLock(op[v].pin, op[v].win)'
    <3>1. SUFFICES ASSUME op[v].pc = "create" PROVE ~TakenOnLock(op[v].pin, op[v].win)'
      OBVIOUS
    <3>2. Owning(v) /\ Fine(op[v])
      BY <3>1 DEF Owning, OwningSteps, LockCalls, Linked
    <3>3. op[v].pin = row[e].pin /\ op[v].win = row[e].win
      BY <3>1, <3>2 DEF Fine, Carries, Owning, DataSteps
    <3> QED
      BY <1>1, <1>5, <2>1, <3>1, <3>2, <3>3 DEF Neat, TakenOnLock
  <2>3. op[v].pc = "retire" => \A k \in lock' : ~AnswersFor(e, k)
    <3>1. Owning(v) => ~AnswersFor(e, n)
      BY <1>4, <1>5, <2>1 DEF AnswersFor
    <3> QED
      BY <1>1, <2>1, <3>1 DEF Neat, Owning, OwningSteps
  <2> QED
    BY <1>1, <1>3, <2>1, <2>2, <2>3 DEF Neat, OnLock, AnswersFor, Live
<1>11. Neat(op[w])'
  BY <1>1, <1>2 DEF Neat, OnLock, UnstoredSteps
<1> QED
  BY <1>7, <1>8, <1>9, <1>10, <1>11 DEF Tidy

LEMMA ChangeEffect ==
    ASSUME Inductive, Linked, Tidy, NothingIsReplaced, NEW w \in Workers,
           ChangePasscode(w), OnLock(op[w].pid)
    PROVE  \E k0 \in lock : \E k1 :
              /\ Writes(w)
              /\ k0.id = op[w].pid /\ k1.id = op[w].pid
              /\ k1.pin = row[op[w].code].pin /\ k1.win = row[op[w].code].win
              /\ row[op[w].code].pid = 0 => k1 = k0
              /\ \A k : k \in lock' <=> (k \in lock /\ k.id # op[w].pid) \/ k = k1
              /\ op'[w].pc \in {"store", "confirm", "fail"} /\ op'[w].pid = op[w].pid
<1> DEFINE c == op[w].code
           pc == IF op[w].kind = "recover" THEN "store" ELSE "confirm"
           o == OpAt(op[w], pc, op[w].pid)
<1>1. Owning(w) /\ op[w] \in OpType /\ Fine(op[w])
  BY DEF Inductive, Shape, GoodOp, Linked, ChangePasscode, Owning, OwningSteps, LockCalls
<1>2. o.pc = pc /\ o.pid = op[w].pid /\ o.code = c /\ pc \in {"store", "confirm"}
  BY <1>1 DEF OpAt, OpType
<1>3. o = [op[w] EXCEPT !.pc = pc]
  BY <1>1 DEF OpAt, OpType
<1>4. /\ lock' = {IF k.id = op[w].pid THEN Changed(k, op[w]) ELSE k : k \in lock}
      /\ Answered(w, o) /\ UNCHANGED row
  BY <1>3 DEF ChangePasscode
<1>5. OpAt(op[w], "fail", op[w].pid).pid = op[w].pid /\ OpAt(op[w], "fail", op[w].pid).pc = "fail"
  BY <1>1 DEF OpAt, OpType
<1> HIDE DEF o, pc
<1>6. Writes(w) /\ op'[w].pc \in {"store", "confirm", "fail"} /\ op'[w].pid = op[w].pid
  BY <1>1, <1>2, <1>4, <1>5, AnsweredWrites, AnsweredOps
<1>7. PICK k0 \in lock : k0.id = op[w].pid
  BY DEF OnLock
<1>8. /\ row[c].pid = 0 => k0.pin = row[c].pin /\ k0.win = row[c].win
      /\ k0.pin = row[c].pin
  BY <1>1, <1>7, Mine
<1>9. op[w].win = row[c].win
  BY <1>1 DEF Fine, Carries, DataSteps, Owning, ChangePasscode
<1> DEFINE k1 == Changed(k0, op[w])
<1>10. k1.id = op[w].pid /\ k1.pin = row[c].pin /\ k1.win = row[c].win
  BY <1>7, <1>8, <1>9 DEF Changed, NothingIsReplaced
<1>11. row[c].pid = 0 => k1 = k0
  <2>1. k0 \in Passcode
    BY <1>7 DEF Inductive, TypeOK
  <2> QED
    BY <1>7, <1>8, <1>9, <2>1 DEF Changed, NothingIsReplaced, Passcode
<1>12. \A k : k \in lock' <=> (k \in lock /\ k.id # op[w].pid) \/ k = k1
  <2>1. \A k \in lock : k.id = op[w].pid => k = k0
    BY <1>7 DEF Linked, Numbered
  <2> QED
    BY <1>4, <1>7, <2>1 DEF k1
<1> HIDE DEF k1, c
<1> QED
  BY <1>6, <1>7, <1>10, <1>11, <1>12 DEF c

LEMMA ChangeTidy ==
    ASSUME Inductive, Linked, Tidy, NothingIsReplaced, NEW w \in Workers, ChangePasscode(w)
    PROVE  Tidy'
<1> DEFINE c == op[w].code
           p == op[w].pid
<1>1. CASE ~OnLock(p)
  BY <1>1, FailTidy DEF ChangePasscode
<1>2. CASE OnLock(p)
  <2>0. PICK k0 \in lock : \E k1 :
              /\ Writes(w)
              /\ k0.id = p /\ k1.id = p
              /\ k1.pin = row[c].pin /\ k1.win = row[c].win
              /\ row[c].pid = 0 => k1 = k0
              /\ \A k : k \in lock' <=> (k \in lock /\ k.id # p) \/ k = k1
              /\ op'[w].pc \in {"store", "confirm", "fail"} /\ op'[w].pid = p
    BY <1>2, ChangeEffect
  <2>1. PICK k1 :
              /\ Writes(w)
              /\ k0.id = p /\ k1.id = p
              /\ k1.pin = row[c].pin /\ k1.win = row[c].win
              /\ row[c].pid = 0 => k1 = k0
              /\ \A k : k \in lock' <=> (k \in lock /\ k.id # p) \/ k = k1
              /\ op'[w].pc \in {"store", "confirm", "fail"} /\ op'[w].pid = p
    BY <2>0
  <2>2. /\ \A d \in Codes : row[d].pid = p => d = c
        /\ AnswersFor(c, k0)
    BY <2>1, Mine DEF Writes
  <2> HIDE DEF c, p
  <2>3. c \in Codes /\ Live(c) /\ row' = row
    BY <2>1 DEF Writes, c
  <2>4. \A e \in Codes : Live(e) /\ row[e].pin = k1.pin /\ (Overlap(k1.win, row[e].win) \/ k1.win = row[e].win)
           => e = c
    BY <2>1, <2>3, RowsApart
  <2>5. \A i : OnLock(i)' <=> OnLock(i)
    BY <2>1 DEF OnLock
  <2>6. Kept'
    BY <2>1, <2>2, <2>3 DEF Tidy, Kept
  <2>7. Sole'
    <3>1. \A e \in Codes : Fits(k1, e) => e = c /\ k1 = k0
      BY <2>1, <2>4 DEF Fits
    <3>2. \A e \in Codes, k \in lock' : Fits(k, e) => k \in lock
      BY <2>1, <3>1
    <3> QED
      BY <2>3, <3>2 DEF Tidy, Sole, Fits, Live
  <2>8. Covered'
    <3>1. AnswersFor(c, k1)
      BY <2>1, <2>2, <2>3 DEF AnswersFor
    <3> QED
      BY <2>1, <2>3, <3>1 DEF Tidy, Covered, AnswersFor, Live
  <2>9. ASSUME NEW v \in Workers, v # w PROVE Neat(op[v])'
    <3> DEFINE e == op[v].code
    <3>1. op'[v] = op[v] /\ Neat(op[v]) /\ (Owning(v) => e \in Codes /\ e # c /\ Live(e))
      BY <2>1, <2>9, LinkTypes DEF Writes, Tidy, Live, c
    <3>2. op[v].pc = "create" => ~TakenOnLock(op[v].pin, op[v].win)'
      <4>1. SUFFICES ASSUME op[v].pc = "create" PROVE ~TakenOnLock(op[v].pin, op[v].win)'
        OBVIOUS
      <4>2. Owning(v) /\ Fine(op[v])
        BY <4>1 DEF Owning, OwningSteps, LockCalls, Linked
      <4>3. op[v].pin = row[e].pin /\ op[v].win = row[e].win
        BY <4>1, <4>2 DEF Fine, Carries, Owning, DataSteps
      <4> QED
        BY <2>1, <2>4, <3>1, <4>1, <4>2, <4>3 DEF Neat, TakenOnLock
    <3>3. op[v].pc = "retire" => \A k \in lock' : ~AnswersFor(e, k)
      <4>1. Owning(v) => ~AnswersFor(e, k1)
        BY <2>1, <2>2, <2>4, <3>1 DEF AnswersFor
      <4> QED
        BY <2>1, <3>1, <4>1 DEF Neat, Owning, OwningSteps
    <3> QED
      BY <2>3, <2>5, <3>1, <3>2, <3>3 DEF Neat, AnswersFor, Live
  <2>10. Neat(op[w])'
    BY <2>1 DEF Neat, OnLock, UnstoredSteps
  <2> QED
    BY <2>6, <2>7, <2>8, <2>9, <2>10 DEF Tidy
<1> QED
  BY <1>1, <1>2

LEMMA DeleteEffect ==
    ASSUME Inductive, Linked, NEW w \in Workers, DeletePasscode(w), OnLock(op[w].pid)
    PROVE  /\ Writes(w)
           /\ lock' = {k \in lock : k.id # op[w].pid}
           /\ op'[w].pc \in {"retire", "fail"}
<1> DEFINE o == OpAt(op[w], "retire", op[w].pid)
<1>1. Owning(w) /\ op[w] \in OpType
  BY DEF Inductive, Shape, GoodOp, DeletePasscode, Owning, OwningSteps, LockCalls
<1>2. o.pc = "retire" /\ o.code = op[w].code /\ o = [op[w] EXCEPT !.pc = "retire"]
  BY <1>1 DEF OpAt, OpType
<1>3. Answered(w, o) /\ UNCHANGED row /\ lock' = {k \in lock : k.id # op[w].pid}
  BY <1>2 DEF DeletePasscode
<1> HIDE DEF o
<1> QED
  BY <1>1, <1>2, <1>3, AnsweredWrites

LEMMA DeleteTidy ==
    ASSUME Inductive, Linked, Tidy, NEW w \in Workers, DeletePasscode(w) PROVE Tidy'
<1> DEFINE c == op[w].code
           p == op[w].pid
<1>1. CASE ~OnLock(p)
  BY <1>1, FailTidy DEF DeletePasscode
<1>2. CASE OnLock(p)
  <2>1. /\ Writes(w) /\ lock' = {k \in lock : k.id # p} /\ op'[w].pc \in {"retire", "fail"}
    BY <1>2, DeleteEffect
  <2>2. PICK k0 \in lock : k0.id = p
    BY <1>2 DEF OnLock
  <2>3. /\ AnswersFor(c, k0)
        /\ \A v \in Workers : v # w /\ Owning(v) => op[v].pid # p
    BY <2>1, <2>2, Mine DEF Writes
  <2> HIDE DEF c, p
  <2>4. c \in Codes /\ row' = row
    BY <2>1 DEF Writes, c
  <2>5. \A k \in lock : ~AnswersFor(c, k) \/ k = k0
    BY <2>3, <2>4, OneAnswer
  <2>6. Kept' /\ Sole' /\ Covered'
    BY <2>1, <2>4 DEF Tidy, Kept, Sole, Covered, AnswersFor, Fits, Live
  <2>7. ASSUME NEW v \in Workers, v # w PROVE Neat(op[v])'
    <3>1. op'[v] = op[v] /\ Neat(op[v])
      BY <2>1, <2>7 DEF Writes, Tidy
    <3>2. op[v].pc \in UnstoredSteps => Owning(v)
      BY DEF UnstoredSteps, Owning, OwningSteps, LockCalls
    <3>3. op[v].pc \in UnstoredSteps /\ OnLock(op[v].pid)
             => \E k \in lock' : k.id = op[v].pid
      BY <2>1, <2>3, <2>7, <3>2 DEF OnLock
    <3>4. op[v].pc = "create" => ~TakenOnLock(op[v].pin, op[v].win)'
      BY <2>1, <3>1 DEF Neat, TakenOnLock
    <3>5. op[v].pc = "retire" => \A k \in lock' : ~AnswersFor(op[v].code, k)
      BY <2>1, <3>1 DEF Neat
    <3> QED
      BY <2>4, <3>1, <3>3, <3>4, <3>5 DEF Neat, OnLock, AnswersFor, Live
  <2>8. Neat(op[w])'
    <3>1. op'[w].code = c
      BY <2>1 DEF Writes, c
    <3>2. \A k \in lock' : ~AnswersFor(c, k)
      BY <2>1, <2>2, <2>5
    <3> QED
      BY <2>1, <2>4, <3>1, <3>2 DEF Neat, AnswersFor, Live, UnstoredSteps
  <2> QED
    BY <2>6, <2>7, <2>8 DEF Tidy
<1> QED
  BY <1>1, <1>2

-----------------------------------------------------------------------------
(* Writes of a row's number, window or PIN *)

LEMMA NumberTidy ==
    ASSUME Inductive, Linked, Tidy, UNCHANGED lock, NEW w \in Workers, Owning(w),
           NEW k0 \in lock, k0.id = op[w].pid, row[op[w].code].pid = 0,
           \A d \in Codes : row[d].pid # k0.id,
           row'[op[w].code].pid = k0.id,
           \A d \in Codes : /\ row'[d].pin = row[d].pin
                            /\ row'[d].win = row[d].win
                            /\ row'[d].status = row[d].status
                            /\ d # op[w].code => row'[d].pid = row[d].pid,
           op'[w].pc = "confirm",
           \A v \in Workers : v # w => op'[v] = op[v]
    PROVE  Tidy'
<1> DEFINE c == op[w].code
<1>1. AnswersFor(c, k0) /\ k0.pin = row[c].pin
  BY Mine
<1>2. c \in Codes /\ \A v \in Workers : v # w /\ Owning(v) => op[v].code \in Codes /\ op[v].code # c
  BY LinkTypes DEF Inductive, Writers
<1> HIDE DEF c
<1>3. \A k \in lock : k.id # 0 /\ (k.id = k0.id => k = k0)
  BY LinkTypes DEF Linked, Numbered
<1>4. \A d \in Codes : /\ row'[d].pin = row[d].pin
                       /\ row'[d].win = row[d].win
                       /\ Live(d)' <=> Live(d)
                       /\ row'[d].pid = IF d = c THEN k0.id ELSE row[d].pid
  BY DEF c, Live
<1>5. row[c].pid = 0
  BY DEF c
<1>6. Kept'
  BY <1>1, <1>3, <1>4 DEF Tidy, Kept
<1>7. Sole'
  BY <1>3, <1>4, <1>5 DEF Tidy, Sole, Fits
<1>8. ASSUME NEW k \in lock PROVE \E d \in Codes : AnswersFor(d, k)'
  <2>1. CASE k = k0
    <3>1. \A d \in Codes : d = c => AnswersFor(d, k0)'
      BY <1>1, <1>2, <1>4 DEF AnswersFor
    <3> QED
      BY <1>2, <2>1, <3>1
  <2>2. CASE k # k0
    <3>1. PICK d \in Codes : AnswersFor(d, k)
      BY DEF Tidy, Covered
    <3>2. d # c
      BY <1>1, <1>2, <2>2, <3>1, OneAnswer
    <3>3. AnswersFor(d, k)'
      BY <1>3, <1>4, <2>2, <3>1, <3>2 DEF AnswersFor
    <3> QED
      BY <3>3
  <2> QED
    BY <2>1, <2>2
<1>9. \A d \in Codes, k \in lock : d # c /\ AnswersFor(d, k)' => AnswersFor(d, k)
  BY <1>3, <1>4, <1>5 DEF AnswersFor
<1>10. ASSUME NEW v \in Workers, v # w PROVE Neat(op[v])'
  <2>1. op'[v] = op[v] /\ Neat(op[v]) /\ (op[v].fresh => op[v].code \in Codes)
    BY <1>10, LinkTypes DEF Tidy
  <2>2. op[v].pc \in UnstoredSteps \cup {"retire"} => Owning(v)
    BY DEF UnstoredSteps, Owning, OwningSteps, LockCalls
  <2>3. op[v].pc \in UnstoredSteps /\ row'[op[v].code].pid = 0 => OnLock(op[v].pid)
    BY <1>2, <1>4, <1>10, <2>1, <2>2 DEF Neat
  <2>4. op[v].pc = "retire" => \A k \in lock : ~AnswersFor(op[v].code, k)'
    BY <1>2, <1>9, <1>10, <2>1, <2>2 DEF Neat
  <2>5. op[v].pc = "prepare" /\ op[v].fresh => op[v].pin = row'[op[v].code].pin
    BY <1>4, <2>1 DEF Neat
  <2> QED
    BY <2>1, <2>3, <2>4, <2>5 DEF Neat, OnLock, TakenOnLock
<1>11. Neat(op[w])'
  BY DEF Neat, UnstoredSteps
<1> QED
  BY <1>6, <1>7, <1>8, <1>10, <1>11 DEF Tidy, Covered

LEMMA StoreTidy ==
    ASSUME Inductive, Linked, Tidy, NEW w \in Workers, StoreProviderId(w) PROVE Tidy'
<1> DEFINE c == op[w].code
           p == op[w].pid
<1>1. Owning(w) /\ op[w] \in OpType /\ Fine(op[w]) /\ c \in Codes
  BY LinkTypes DEF Inductive, Shape, GoodOp, Linked, StoreProviderId, Owning, OwningSteps
<1>2. CASE Goto(w, "fail") /\ UNCHANGED row
  BY <1>2, FailTidy DEF StoreProviderId
<1>3. CASE ~(Goto(w, "fail") /\ UNCHANGED row)
  <2>1. /\ \A d \in Codes \ {c} : row[d].pid # p
        /\ row' = [row EXCEPT ![c].pid = p, ![c].aged = FALSE]
        /\ Continue(w, [op[w] EXCEPT !.pc = "confirm"])
        /\ lock' = lock
    BY <1>3 DEF StoreProviderId, Goto
  <2>2. op'[w].pc = "confirm" /\ \A v \in Workers : v # w => op'[v] = op[v]
    BY <1>1, <2>1, Others DEF OpType
  <2>3. /\ row'[c].pid = p /\ row'[c].pin = row[c].pin /\ row'[c].win = row[c].win
        /\ row'[c].status = row[c].status
        /\ \A d \in Codes : d # c => row'[d] = row[d]
    <3>1. row[c] \in RowType /\ row \in [Codes -> GoodRow]
      BY <1>1 DEF Inductive, Shape, GoodRow
    <3>2. row'[c] = [row[c] EXCEPT !.pid = p, !.aged = FALSE]
      BY <1>1, <2>1, <3>1
    <3>3. \A d \in Codes : d # c => row'[d] = row[d]
      BY <1>1, <2>1, <3>1
    <3> QED
      BY <3>1, <3>2, <3>3 DEF RowType
  <2>4. p # 0 /\ row[c].pid \in {0, p} /\ (row[c].pid = 0 => OnLock(p))
    BY <1>1 DEF Fine, Carries, StoreProviderId, NumberSteps, Owning, Tidy, Neat, UnstoredSteps
  <2> HIDE DEF c, p
  <2>5. CASE row[c].pid = p
    <3>1. \A d \in Codes : /\ row'[d].pid = row[d].pid
                           /\ row'[d].pin = row[d].pin
                           /\ row'[d].win = row[d].win
                           /\ row'[d].status = row[d].status
      BY <2>3, <2>5
    <3>2. Neat(op[w])'
      BY <2>2 DEF Neat, UnstoredSteps
    <3> QED
      BY <2>1, <2>2, <3>1, <3>2, PlainTidy DEF Live, Similar
  <2>6. CASE row[c].pid = 0
    <3>1. PICK k0 \in lock : k0.id = p
      BY <2>4, <2>6 DEF OnLock
    <3>2. \A d \in Codes : row[d].pid # k0.id
      BY <2>1, <2>4, <2>6, <3>1
    <3>3. row'[c].pid = k0.id
      BY <2>3, <3>1
    <3>4. \A d \in Codes : /\ row'[d].pin = row[d].pin
                           /\ row'[d].win = row[d].win
                           /\ row'[d].status = row[d].status
                           /\ d # c => row'[d].pid = row[d].pid
      BY <2>3
    <3> QED
      BY <1>1, <2>1, <2>2, <2>6, <3>1, <3>2, <3>3, <3>4, NumberTidy DEF c, p
  <2> QED
    BY <2>4, <2>5, <2>6
<1> QED
  BY <1>2, <1>3

LEMMA PrepareTidy ==
    ASSUME Inductive, Linked, Tidy, NEW w \in Workers, Prepare(w) PROVE Tidy'
<1> DEFINE c == op[w].code
<1>1. CASE Finish(w) /\ UNCHANGED row
  BY <1>1, FinishTidy DEF Prepare
<1>2. CASE ~(Finish(w) /\ UNCHANGED row)
  <2> DEFINE o == [op[w] EXCEPT !.pc = "change", !.fresh = FALSE, !.failure = "update_failed"]
  <2>1. /\ op[w].fresh /\ ContinueBumping(w, c, o) /\ lock' = lock
        /\ row' = [row EXCEPT ![c].status = "pending_update", ![c].pin = op[w].pin,
                              ![c].win = op[w].win, ![c].override = op[w].override,
                              ![c].aged = FALSE]
    BY <1>2 DEF Prepare
  <2>2. c \in Codes /\ op[w] \in OpType /\ Fine(op[w]) /\ Neat(op[w])
    BY <2>1, FreshRow DEF Inductive, Shape, GoodOp, Linked, Tidy
  <2>3. op'[w] = o /\ \A v \in Workers : v # w => Similar(v)
    BY <2>1, OthersBumped
  <2>4. o.pc = "change" /\ o.code = c
    BY <2>2 DEF OpType
  <2>5. /\ row'[c].pid = row[c].pid /\ row'[c].pin = op[w].pin
        /\ row'[c].status = "pending_update"
        /\ \A d \in Codes : d # c => row'[d] = row[d]
    <3>1. row[c] \in RowType /\ row \in [Codes -> GoodRow]
      BY <2>2 DEF Inductive, Shape, GoodRow
    <3>2. row'[c] = [row[c] EXCEPT !.status = "pending_update", !.pin = op[w].pin,
                                   !.win = op[w].win, !.override = op[w].override,
                                   !.aged = FALSE]
      BY <2>1, <2>2, <3>1
    <3>3. \A d \in Codes : d # c => row'[d] = row[d]
      BY <2>1, <2>2, <3>1
    <3> QED
      BY <3>1, <3>2, <3>3 DEF RowType
  <2>6. row[c].status = "active" /\ row[c].pid # 0 /\ op[w].pin = row[c].pin
    BY <2>1, <2>2 DEF Fine, Carries, NumberSteps, Prepare, Neat
  <2> HIDE DEF c, o
  <2>7. \A d \in Codes : /\ row'[d].pid = row[d].pid
                         /\ row'[d].pin = row[d].pin
                         /\ row[d].pid = 0 => row'[d].win = row[d].win
                         /\ Live(d)' <=> Live(d)
    BY <2>5, <2>6 DEF Live
  <2>8. Neat(op[w])'
    BY <2>3, <2>4, <2>5, <2>6 DEF Neat
  <2> QED
    BY <2>1, <2>3, <2>7, <2>8, PlainTidy
<1> QED
  BY <1>1, <1>2

LEMMA ReserveTidy ==
    ASSUME Inductive, Linked, Tidy, TakesFreePins, NEW w \in Workers, Reserve(w)
    PROVE  Tidy'
<1>1. CASE Finish(w) /\ UNCHANGED row
  BY <1>1, FinishTidy DEF Reserve
<1>2. CASE ~(Finish(w) /\ UNCHANGED row)
  <2>1. PICK c \in Codes :
           /\ row[c].status = "none"
           /\ row' = [row EXCEPT ![c] =
                 [NoRow EXCEPT !.status = "pending_create", !.res = op[w].res,
                               !.pin = op[w].pin, !.win = op[w].win]]
           /\ Continue(w, [op[w] EXCEPT !.pc = "create", !.code = c,
                                        !.failure = "create_failed"])
    BY <1>2 DEF Reserve
  <2> DEFINE o == [op[w] EXCEPT !.pc = "create", !.code = c, !.failure = "create_failed"]
  <2>2. op[w] \in OpType /\ op[w].pc = "reserve"
    BY DEF Inductive, Shape, GoodOp, Reserve
  <2>3. op'[w] = o /\ \A v \in Workers : v # w => op'[v] = op[v]
    BY <2>1, Others
  <2>4. o.pc = "create" /\ o.pin = op[w].pin /\ o.win = op[w].win
    BY <2>2 DEF OpType
  <2>5. ~TakenOnLock(op[w].pin, op[w].win)
    BY <2>2, <2>3, <2>4 DEF TakesFreePins
  <2>6. /\ row'[c].pid = 0 /\ row'[c].pin = op[w].pin /\ row'[c].win = op[w].win
        /\ \A d \in Codes : d # c => row'[d] = row[d]
    <3>1. row'[c] = [NoRow EXCEPT !.status = "pending_create", !.res = op[w].res,
                                  !.pin = op[w].pin, !.win = op[w].win]
      BY <2>1 DEF Inductive, Shape
    <3>2. \A d \in Codes : d # c => row'[d] = row[d]
      BY <2>1 DEF Inductive, Shape
    <3> QED
      BY <3>1, <3>2 DEF NoRow
  <2>7. lock' = lock /\ row[c].pid = 0 /\ ~Live(c) /\ \A k \in lock : k.id # 0
    BY <2>1, LinkTypes DEF Reserve, Linked, Numbered, Live
  <2> HIDE DEF o
  <2>8. \A d \in Codes : row'[d].pid = row[d].pid
    BY <2>6, <2>7
  <2>9. \A k \in lock : ~Fits(k, c)'
    BY <2>5, <2>6 DEF Fits, TakenOnLock
  <2>10. Kept'
    BY <2>6, <2>7 DEF Tidy, Kept
  <2>11. Sole'
    BY <2>6, <2>7, <2>9 DEF Tidy, Sole, Fits, Live
  <2>12. \A d \in Codes, k \in lock : d # c => (AnswersFor(d, k)' <=> AnswersFor(d, k))
    BY <2>6, <2>8 DEF AnswersFor, Live
  <2>13. Covered'
    BY <2>7, <2>12 DEF Tidy, Covered, AnswersFor
  <2>14. ASSUME NEW v \in Workers, v # w PROVE Neat(op[v])'
    <3>1. op'[v] = op[v] /\ Neat(op[v])
      BY <2>3, <2>14 DEF Tidy
    <3>2. Owning(v) \/ op[v].fresh => op[v].code \in Codes /\ op[v].code # c
      BY <2>1, LinkTypes, FreshRow DEF Live
    <3>3. op[v].pc \in UnstoredSteps \cup {"retire"} => Owning(v)
      BY DEF UnstoredSteps, Owning, OwningSteps, LockCalls
    <3>4. op[v].pc = "retire" => \A k \in lock : ~AnswersFor(op[v].code, k)'
      BY <2>12, <3>1, <3>2, <3>3 DEF Neat
    <3> QED
      BY <2>6, <2>7, <3>1, <3>2, <3>3, <3>4 DEF Neat, OnLock, TakenOnLock
  <2>15. Neat(op[w])'
    BY <2>3, <2>4, <2>5, <2>7 DEF Neat, TakenOnLock, UnstoredSteps
  <2> QED
    BY <2>10, <2>11, <2>13, <2>14, <2>15 DEF Tidy
<1> QED
  BY <1>1, <1>2

LEMMA ProceedTidy ==
    ASSUME Inductive, Linked, Tidy, NothingIsReplaced, TakesFreePins,
           NEW w \in Workers, Proceed(w)
    PROVE  Tidy'
  BY PickTidy, ReserveTidy, PrepareTidy, ClaimDeleteTidy, LoadTidy, ClaimTidy,
     FindTidy, ExistsTidy, AvailableTidy, CheckConfiguredTidy, CreateTidy,
     ChangeTidy, DeleteTidy, StoreTidy, ConfirmTidy, ActivateTidy, RetireTidy,
     MarkSyncErrorTidy, RecordFailureTidy
  DEF Proceed

LEMMA NextTidy ==
    /\ Inductive /\ Linked /\ Tidy /\ NothingIsReplaced /\ NothingIsReplaced'
    /\ [Next]_vars /\ [TakesFreePins]_vars
    => Tidy'
<1> SUFFICES ASSUME Inductive, Linked, Tidy, NothingIsReplaced, NothingIsReplaced',
                    [Next]_vars, [TakesFreePins]_vars
             PROVE  Tidy'
  OBVIOUS
<1>1. CASE UNCHANGED vars
  BY <1>1, StillTidy DEF vars
<1>2. ASSUME NEW w \in Workers, Proceed(w), TakesFreePins PROVE Tidy'
  BY <1>2, ProceedTidy
<1>3. ASSUME NEW w \in Workers, LockCallFails(w) \/ Request(w) PROVE Tidy'
  BY <1>3, LockCallFailsTidy, RequestTidy
<1>4. CASE Automation
  BY <1>4, SweepItemTidy, StillTidy DEF Automation, NextSweep
<1>5. ASSUME NEW c \in Codes, RefreshUsage(c) PROVE Tidy'
  BY <1>5, AgedTidy DEF RefreshUsage
<1>6. ASSUME NEW c \in Codes, Age(c) PROVE Tidy'
  BY <1>6, AgedTidy DEF Age
<1>7. ASSUME NEW c \in Codes, FailureExpires(c) PROVE Tidy'
  BY <1>7, StillTidy DEF FailureExpires
<1>8. ASSUME NEW r \in Reservations,
             CancelReservation(r) \/ Reinstate(r) \/ \E s \in Stays : MoveStay(r, s)
      PROVE  Tidy'
  BY <1>8, StillTidy DEF CancelReservation, Reinstate, MoveStay
<1>9. CASE NewDay
  BY <1>9, StillTidy DEF NewDay
<1>10. CASE Crash
  BY <1>10, CrashTidy
<1> QED
  BY <1>1, <1>2, <1>3, <1>4, <1>5, <1>6, <1>7, <1>8, <1>9, <1>10 DEF Next

LEMMA InitTidy == Init => Tidy
<1> SUFFICES ASSUME Init PROVE Tidy
  OBVIOUS
<1>1. \A w \in Workers : Neat(op[w])
  BY IdleNeat DEF Init
<1>2. lock = {}
  BY DEF Init
<1> QED
  BY <1>1, <1>2 DEF Tidy, Kept, Sole, Covered

(* What holds at every step while nothing is replaced.                     *)
Setup == Inductive /\ Linked /\ Tidy

LEMMA AlwaysSetup ==
    Spec /\ []NothingIsReplaced /\ [][TakesFreePins]_vars => []Setup
<1>1. Init => Linked /\ Tidy
  BY InitLinked, InitTidy
<1>2. /\ Inductive /\ Inductive' /\ Linked /\ Tidy /\ NothingIsReplaced /\ NothingIsReplaced'
      /\ [Next]_vars /\ [TakesFreePins]_vars
      => Linked' /\ Tidy'
  BY NextLinked, NextTidy
<1>3. Setup <=> Inductive /\ Linked /\ Tidy
  BY DEF Setup
<1> QED
  BY <1>1, <1>2, <1>3, AlwaysInductive, PTL DEF Spec

(* Whatever answers the lock loses and whenever the backend restarts, no   *)
(* passcode is left behind a revoked row and no code has two: recovery by  *)
(* number, PIN and window finds each one (access-codes.service.ts:         *)
(* 993-1318).  Beside the hypothesis of ActiveCodesAreOnLock it takes that *)
(* no administrator replaces a PIN: after a call that failed the row has   *)
(* the new PIN and window and the lock the old ones, and recovery, which   *)
(* sends the window alone (:1088), moves the old PIN to where another code *)
(* may have it.                                                            *)
THEOREM NoPasscodeIsForgotten ==
    Spec /\ []NothingIsReplaced /\ [][TakesFreePins]_vars => []NoForgottenPasscode
<1>1. Setup => NoForgottenPasscode
  BY OneAnswer DEF Setup, Tidy, Covered, NoForgottenPasscode
<1> QED
  BY <1>1, AlwaysSetup, PTL

-----------------------------------------------------------------------------
(* The promise of GuestAccess *)

(* What the panel shows of the code c, and its passcodes, as AccessCodes   *)
(* gives them to GuestAccess.                                              *)
ShownAs(c) ==
    IF row[c].status \in {"none", "active", "revoked"} THEN row[c].status ELSE "pending"

Held(c) == {k \in lock : AnswersFor(c, k)}

(* The step is one of the promise, or none.                                *)
Served == [Promise!Next]_(Promise!vars)

LEMMA IdleServes ==
    ASSUME \A c \in Codes : ShownAs(c)' = ShownAs(c) /\ Held(c)' = Held(c)
    PROVE  Served
  BY DEF Served, Promise!vars, ShownAs, Held

LEMMA ShowServes ==
    ASSUME NEW c \in Codes, NEW s, ShownAs(c)' = s,
           \A d \in Codes : d # c => ShownAs(d)' = ShownAs(d),
           \A d \in Codes : Held(d)' = Held(d)
    PROVE  Promise!Show(c, ShownAs(c), s)
  BY DEF Promise!Show, ShownAs, Held

LEMMA SetServes ==
    ASSUME NEW c \in Codes, ShownAs(c) = "pending", NEW s, Held(c)' = s,
           \A d \in Codes : ShownAs(d)' = ShownAs(d),
           \A d \in Codes : d # c => Held(d)' = Held(d)
    PROVE  Promise!Set(c, s)
  BY DEF Promise!Set, ShownAs, Held

LEMMA HeldFrame ==
    ASSUME UNCHANGED lock, NEW c \in Codes, \A k \in lock : AnswersFor(c, k)' <=> AnswersFor(c, k)
    PROVE  Held(c)' = Held(c)
  BY DEF Held

LEMMA ShowsServe ==
    ASSUME NEW c \in Codes,
           \A d \in Codes : d # c => ShownAs(d)' = ShownAs(d),
           \A d \in Codes : Held(d)' = Held(d),
           \/ ShownAs(c)' = ShownAs(c)
           \/ ShownAs(c) \in {"none", "active"} /\ ShownAs(c)' = "pending"
           \/ ShownAs(c) = "pending" /\ ShownAs(c)' = "active" /\ Held(c) # {}
           \/ ShownAs(c) = "pending" /\ ShownAs(c)' = "revoked" /\ Held(c) = {}
    PROVE  Served
<1>1. CASE ShownAs(c)' = ShownAs(c)
  BY <1>1, IdleServes
<1>2. CASE ShownAs(c) \in {"none", "active"} /\ ShownAs(c)' = "pending"
  <2>1. Promise!Order(c) \/ Promise!Rework(c)
    BY <1>2, ShowServes DEF Promise!Order, Promise!Rework
  <2> QED
    BY <2>1 DEF Served, Promise!Next
<1>3. CASE ShownAs(c) = "pending" /\ ShownAs(c)' = "active" /\ Held(c) # {}
  <2>1. Promise!Activate(c)
    BY <1>3, ShowServes DEF Promise!Activate, Held
  <2> QED
    BY <2>1 DEF Served, Promise!Next
<1>4. CASE ShownAs(c) = "pending" /\ ShownAs(c)' = "revoked" /\ Held(c) = {}
  <2>1. Promise!Revoke(c)
    BY <1>4, ShowServes DEF Promise!Revoke, Held
  <2> QED
    BY <2>1 DEF Served, Promise!Next
<1> QED
  BY <1>1, <1>2, <1>3, <1>4

LEMMA StatusServes ==
    ASSUME Inductive, Linked, Tidy, NEW c \in Codes, NEW s, SetStatus(c, s),
           UNCHANGED lock, Live(c),
           \/ s \in Pending \cup {"sync_error"}
           \/ row[c].status \in Pending /\ s = "active" /\ Held(c) # {}
           \/ row[c].status \in Pending /\ s = "revoked" /\ Held(c) = {}
    PROVE  Served
<1>1. /\ \A d \in Codes : /\ row'[d].pid = row[d].pid
                          /\ row'[d].pin = row[d].pin
                          /\ row'[d].win = row[d].win
      /\ row'[c].status = s
      /\ \A d \in Codes : d # c => row'[d] = row[d]
  BY SetStatusRow
<1>2. \A d \in Codes : Live(d)' => Live(d)
  BY <1>1 DEF Live
<1>3. \A d \in Codes : Live(d) /\ ~Live(d)' => \A k \in lock : ~AnswersFor(d, k)
  BY <1>1 DEF Live, Held
<1>4. \A d \in Codes, k \in lock : AnswersFor(d, k)' <=> AnswersFor(d, k)
  BY <1>1, <1>2, <1>3, SameAnswers
<1>5. \A d \in Codes : Held(d)' = Held(d)
  BY <1>4, HeldFrame
<1>6. \A d \in Codes : d # c => ShownAs(d)' = ShownAs(d)
  BY <1>1 DEF ShownAs
<1>7. \/ ShownAs(c) \in {"active", "pending"} /\ ShownAs(c)' = "pending"
      \/ ShownAs(c) = "pending" /\ ShownAs(c)' = "active" /\ Held(c) # {}
      \/ ShownAs(c) = "pending" /\ ShownAs(c)' = "revoked" /\ Held(c) = {}
  BY <1>1 DEF ShownAs, Live
<1> QED
  BY <1>5, <1>6, <1>7, ShowsServe

(* Steps that write no status, PIN, window or number to a row, and nothing *)
(* to the lock.                                                            *)
LEMMA QuietServes ==
    ASSUME Inductive, Linked, Tidy, UNCHANGED lock,
           \A c \in Codes : /\ row'[c].pid = row[c].pid
                            /\ row'[c].pin = row[c].pin
                            /\ row'[c].win = row[c].win
                            /\ row'[c].status = row[c].status
    PROVE  Served
<1>1. \A d \in Codes, k \in lock : AnswersFor(d, k)' <=> AnswersFor(d, k)
  BY DEF AnswersFor, Live
<1>2. \A d \in Codes : Held(d)' = Held(d) /\ ShownAs(d)' = ShownAs(d)
  BY <1>1, HeldFrame DEF ShownAs
<1> QED
  BY <1>2, IdleServes

LEMMA SameServes ==
    ASSUME Inductive, Linked, Tidy, UNCHANGED <<row, lock>> PROVE Served
  BY QuietServes

LEMMA AgedServes ==
    ASSUME Inductive, Linked, Tidy, UNCHANGED lock, NEW c \in Codes,
           NEW b \in BOOLEAN, row' = [row EXCEPT ![c].aged = b]
    PROVE  Served
<1>1. \A d \in Codes : row[d] \in RowType
  BY DEF Inductive, Shape, GoodRow
<1>2. \A d \in Codes : row'[d] = IF d = c THEN [row[c] EXCEPT !.aged = b] ELSE row[d]
  BY DEF Inductive, Shape
<1>3. \A x \in RowType : LET y == [x EXCEPT !.aged = b]
                        IN  /\ y.pid = x.pid /\ y.pin = x.pin /\ y.win = x.win
                            /\ y.status = x.status
  BY DEF RowType
<1> QED
  BY <1>1, <1>2, <1>3, QuietServes

LEMMA ActivateServes ==
    ASSUME Inductive, Linked, Tidy, NEW w \in Workers, Activate(w) PROVE Served
<1>1. PICK c \in Codes : c = op[w].code
  BY LinkTypes DEF Activate, Owning, OwningSteps
<1>2. /\ row[c].status \in Pending /\ Live(c)
      /\ Configured(row[c].pid, row[c].pin, row[c].win)
  BY <1>1, LinkTypes DEF Activate, Owning, OwningSteps, Linked, Fine, Sure, Live
<1>3. PICK k \in lock : k.id = row[c].pid
  BY <1>2 DEF Configured
<1>4. Held(c) # {}
  BY <1>2, <1>3 DEF Held, AnswersFor
<1> QED
  BY <1>1, <1>2, <1>4, StatusServes DEF Activate

LEMMA RetireServes ==
    ASSUME Inductive, Linked, Tidy, NEW w \in Workers, Retire(w) PROVE Served
<1>1. PICK c \in Codes : c = op[w].code
  BY LinkTypes DEF Retire, Owning, OwningSteps
<1>2. row[c].status \in Pending /\ Live(c)
  BY <1>1, LinkTypes DEF Retire, Owning, OwningSteps, Live
<1>3. Held(c) = {}
  BY <1>1 DEF Held, Tidy, Neat, Retire
<1> QED
  BY <1>1, <1>2, <1>3, StatusServes DEF Retire

LEMMA MarkSyncErrorServes ==
    ASSUME Inductive, Linked, Tidy, NEW w \in Workers, MarkSyncError(w) PROVE Served
<1>1. op[w].code \in Codes /\ Live(op[w].code)
  BY LinkTypes DEF MarkSyncError, Owning, OwningSteps, Live
<1> QED
  BY <1>1, StatusServes DEF MarkSyncError

LEMMA ClaimDeleteServes ==
    ASSUME Inductive, Linked, Tidy, NEW w \in Workers, ClaimDelete(w) PROVE Served
<1>1. CASE Finish(w) /\ UNCHANGED row
  BY <1>1, SameServes DEF ClaimDelete
<1>2. CASE ~(Finish(w) /\ UNCHANGED row)
  <2>1. op[w].fresh /\ SetStatus(op[w].code, "pending_delete")
    BY <1>2 DEF ClaimDelete
  <2>2. op[w].code \in Codes /\ Live(op[w].code)
    BY <2>1, FreshRow
  <2> QED
    BY <2>1, <2>2, StatusServes DEF ClaimDelete
<1> QED
  BY <1>1, <1>2

LEMMA ClaimServes ==
    ASSUME Inductive, Linked, Tidy, NEW w \in Workers, Claim(w) PROVE Served
<1>1. CASE Finish(w) /\ UNCHANGED row
  BY <1>1, SameServes DEF Claim
<1>2. CASE ~(Finish(w) /\ UNCHANGED row)
  <2>1. op[w].fresh /\ SetStatus(op[w].code, ClaimedStatus(op[w]))
    BY <1>2 DEF Claim
  <2>2. op[w].code \in Codes /\ Live(op[w].code)
    BY <2>1, FreshRow
  <2>3. ClaimedStatus(op[w]) \in Pending
    BY DEF ClaimedStatus
  <2> QED
    BY <2>1, <2>2, <2>3, StatusServes DEF Claim
<1> QED
  BY <1>1, <1>2

LEMMA NumberServes ==
    ASSUME Inductive, Linked, Tidy, UNCHANGED lock, NEW c \in Codes,
           NEW k0 \in lock, row[c].pid = 0, AnswersFor(c, k0),
           row'[c].pid = k0.id,
           \A d \in Codes : /\ row'[d].pin = row[d].pin
                            /\ row'[d].win = row[d].win
                            /\ row'[d].status = row[d].status
                            /\ d # c => row'[d].pid = row[d].pid
    PROVE  Served
<1>1. \A k \in lock : k.id # 0 /\ (k.id = k0.id => k = k0)
  BY LinkTypes DEF Linked, Numbered
<1>2. \A d \in Codes : /\ row'[d].pin = row[d].pin
                       /\ row'[d].win = row[d].win
                       /\ Live(d)' <=> Live(d)
                       /\ ShownAs(d)' = ShownAs(d)
                       /\ row'[d].pid = IF d = c THEN k0.id ELSE row[d].pid
  BY DEF ShownAs, Live
<1>3. \A k \in lock : AnswersFor(c, k) => k = k0
  BY OneAnswer
<1>4. \A k \in lock : AnswersFor(c, k)' <=> AnswersFor(c, k)
  BY <1>1, <1>2, <1>3 DEF AnswersFor
<1>5. ASSUME NEW d \in Codes, d # c, NEW k \in lock
      PROVE  AnswersFor(d, k)' <=> AnswersFor(d, k)
  <2>1. CASE k = k0
    <3>1. ~AnswersFor(d, k)
      BY <1>5, <2>1, OneAnswer
    <3> QED
      BY <1>1, <1>2, <1>5, <2>1, <3>1 DEF AnswersFor
  <2>2. CASE k # k0
    BY <1>1, <1>2, <1>5, <2>2 DEF AnswersFor
  <2> QED
    BY <2>1, <2>2
<1>6. \A d \in Codes : Held(d)' = Held(d)
  BY <1>4, <1>5, HeldFrame
<1> QED
  BY <1>2, <1>6, IdleServes

LEMMA StoreServes ==
    ASSUME Inductive, Linked, Tidy, NEW w \in Workers, StoreProviderId(w) PROVE Served
<1>1. PICK c \in Codes : c = op[w].code
  BY LinkTypes DEF StoreProviderId, Owning, OwningSteps
<1> DEFINE p == op[w].pid
<1>2. Owning(w) /\ Fine(op[w])
  BY DEF Linked, StoreProviderId, Owning, OwningSteps
<1>3. CASE UNCHANGED row
  BY <1>3, SameServes DEF StoreProviderId
<1>4. CASE ~UNCHANGED row
  <2>1. row' = [row EXCEPT ![c].pid = p, ![c].aged = FALSE] /\ lock' = lock
    BY <1>1, <1>4 DEF StoreProviderId
  <2>2. /\ row'[c].pid = p /\ row'[c].pin = row[c].pin /\ row'[c].win = row[c].win
        /\ row'[c].status = row[c].status
        /\ \A d \in Codes : d # c => row'[d] = row[d]
    <3>1. row[c] \in RowType /\ row \in [Codes -> GoodRow]
      BY DEF Inductive, Shape, GoodRow
    <3>2. row'[c] = [row[c] EXCEPT !.pid = p, !.aged = FALSE]
      BY <2>1, <3>1
    <3>3. \A d \in Codes : d # c => row'[d] = row[d]
      BY <2>1, <3>1
    <3> QED
      BY <3>1, <3>2, <3>3 DEF RowType
  <2>3. row[c].pid \in {0, p} /\ (row[c].pid = 0 => OnLock(p))
    BY <1>1, <1>2 DEF Fine, Carries, StoreProviderId, Owning, Tidy, Neat, UnstoredSteps
  <2>4. \A d \in Codes : /\ row'[d].pin = row[d].pin
                         /\ row'[d].win = row[d].win
                         /\ row'[d].status = row[d].status
                         /\ d # c => row'[d].pid = row[d].pid
    BY <2>2
  <2>5. CASE row[c].pid = p
    BY <2>1, <2>2, <2>4, <2>5, QuietServes
  <2>6. CASE row[c].pid = 0
    <3>1. PICK k0 \in lock : k0.id = p
      BY <2>3, <2>6 DEF OnLock
    <3>2. AnswersFor(c, k0)
      BY <1>1, <1>2, <3>1, Mine
    <3>3. row'[c].pid = k0.id
      BY <2>2, <3>1
    <3> HIDE DEF p
    <3> QED
      BY <2>1, <2>4, <2>6, <3>2, <3>3, NumberServes
  <2> QED
    BY <2>3, <2>5, <2>6
<1> QED
  BY <1>3, <1>4

LEMMA PrepareServes ==
    ASSUME Inductive, Linked, Tidy, NEW w \in Workers, Prepare(w) PROVE Served
<1>1. CASE UNCHANGED row
  BY <1>1, SameServes DEF Prepare
<1>2. CASE ~UNCHANGED row
  <2>1. op[w].fresh
    BY <1>2 DEF Prepare
  <2>2. PICK c \in Codes : c = op[w].code
    BY <2>1, FreshRow
  <2>3. /\ lock' = lock
        /\ row' = [row EXCEPT ![c].status = "pending_update", ![c].pin = op[w].pin,
                              ![c].win = op[w].win, ![c].override = op[w].override,
                              ![c].aged = FALSE]
    BY <1>2, <2>2 DEF Prepare
  <2>4. /\ row'[c].pid = row[c].pid /\ row'[c].status = "pending_update"
        /\ \A d \in Codes : d # c => row'[d] = row[d]
    <3>1. row[c] \in RowType /\ row \in [Codes -> GoodRow]
      BY DEF Inductive, Shape, GoodRow
    <3>2. row'[c] = [row[c] EXCEPT !.status = "pending_update", !.pin = op[w].pin,
                                   !.win = op[w].win, !.override = op[w].override,
                                   !.aged = FALSE]
      BY <2>3, <3>1
    <3>3. \A d \in Codes : d # c => row'[d] = row[d]
      BY <2>3, <3>1
    <3> QED
      BY <3>1, <3>2, <3>3 DEF RowType
  <2>5. row[c].status = "active" /\ row[c].pid # 0
    BY <2>1, <2>2 DEF Linked, Fine, Carries, NumberSteps, Prepare
  <2>6. \A d \in Codes : row'[d].pid = row[d].pid /\ (Live(d)' <=> Live(d))
    BY <2>4, <2>5 DEF Live
  <2>7. \A d \in Codes, k \in lock : AnswersFor(d, k)' <=> AnswersFor(d, k)
    BY <2>4, <2>5, <2>6 DEF AnswersFor
  <2>8. \A d \in Codes : Held(d)' = Held(d)
    BY <2>3, <2>7, HeldFrame
  <2>9. /\ \A d \in Codes : d # c => ShownAs(d)' = ShownAs(d)
        /\ ShownAs(c) = "active" /\ ShownAs(c)' = "pending"
    BY <2>4, <2>5 DEF ShownAs
  <2> QED
    BY <2>8, <2>9, ShowsServe
<1> QED
  BY <1>1, <1>2

LEMMA ReserveServes ==
    ASSUME Inductive, Linked, Tidy, TakesFreePins, NEW w \in Workers, Reserve(w)
    PROVE  Served
<1>1. CASE UNCHANGED row
  BY <1>1, SameServes DEF Reserve
<1>2. CASE ~UNCHANGED row
  <2>1. PICK c \in Codes :
           /\ row[c].status = "none"
           /\ row' = [row EXCEPT ![c] =
                 [NoRow EXCEPT !.status = "pending_create", !.res = op[w].res,
                               !.pin = op[w].pin, !.win = op[w].win]]
           /\ Continue(w, [op[w] EXCEPT !.pc = "create", !.code = c,
                                        !.failure = "create_failed"])
    BY <1>2 DEF Reserve
  <2>2. op[w] \in OpType /\ op[w].pc = "reserve"
    BY DEF Inductive, Shape, GoodOp, Reserve
  <2> DEFINE o == [op[w] EXCEPT !.pc = "create", !.code = c, !.failure = "create_failed"]
  <2>0. o.pc = "create"
    BY <2>2 DEF OpType
  <2> HIDE DEF o
  <2>3. op'[w].pc = "create"
    BY <2>0, <2>1, Others DEF o
  <2>4. ~TakenOnLock(op[w].pin, op[w].win)
    BY <2>2, <2>3 DEF TakesFreePins
  <2>5. /\ row'[c].pid = 0 /\ row'[c].pin = op[w].pin /\ row'[c].win = op[w].win
        /\ row'[c].status = "pending_create"
        /\ \A d \in Codes : d # c => row'[d] = row[d]
    <3>1. row'[c] = [NoRow EXCEPT !.status = "pending_create", !.res = op[w].res,
                                  !.pin = op[w].pin, !.win = op[w].win]
      BY <2>1 DEF Inductive, Shape
    <3>2. \A d \in Codes : d # c => row'[d] = row[d]
      BY <2>1 DEF Inductive, Shape
    <3> QED
      BY <3>1, <3>2 DEF NoRow
  <2>6. lock' = lock /\ row[c].pid = 0 /\ ~Live(c)
    BY <2>1 DEF Reserve, Linked, Numbered, Live
  <2>7. \A k \in lock : k.id # 0 /\ ~(k.pin = op[w].pin /\ k.win = op[w].win)
    BY <2>4, LinkTypes DEF TakenOnLock
  <2>8. \A k \in lock : ~AnswersFor(c, k)' /\ ~AnswersFor(c, k)
    BY <2>5, <2>6, <2>7 DEF AnswersFor
  <2>9. \A d \in Codes : row'[d].pid = row[d].pid
    BY <2>5, <2>6
  <2>10. \A d \in Codes, k \in lock : d # c => (AnswersFor(d, k)' <=> AnswersFor(d, k))
    BY <2>5, <2>9 DEF AnswersFor, Live
  <2>11. \A d \in Codes : Held(d)' = Held(d)
    BY <2>6, <2>8, <2>10, HeldFrame
  <2>12. /\ \A d \in Codes : d # c => ShownAs(d)' = ShownAs(d)
         /\ ShownAs(c) = "none" /\ ShownAs(c)' = "pending"
    BY <2>1, <2>5 DEF ShownAs
  <2> QED
    BY <2>11, <2>12, ShowsServe
<1> QED
  BY <1>1, <1>2

LEMMA CreateServes ==
    ASSUME Inductive, Inductive', Linked, Tidy, NEW w \in Workers, CreatePasscode(w)
    PROVE  Served
<1>1. /\ Writes(w)
      /\ op[w].pin = row[op[w].code].pin /\ op[w].win = row[op[w].code].win
      /\ row[op[w].code].pid = 0
      /\ lock' = lock \cup {[id |-> made + 1, pin |-> op[w].pin, win |-> op[w].win]}
  BY CreateEffect
<1>2. PICK c \in Codes : c = op[w].code
  BY <1>1 DEF Writes
<1> DEFINE n == [id |-> made + 1, pin |-> row[c].pin, win |-> row[c].win]
<1>3. /\ lock' = lock \cup {n} /\ row' = row /\ Live(c) /\ row[c].status \in Pending
      /\ row[c].pid = 0
  BY <1>1, <1>2 DEF Writes
<1>4. n.id = made + 1 /\ n.pin = row[c].pin /\ n.win = row[c].win /\ n \in lock'
  BY <1>3
<1>5. n \in Passcode
  BY <1>4 DEF Inductive, TypeOK
<1> HIDE DEF n
<1>6. /\ \A d \in Codes : row[d].pid # n.id
      /\ \A k \in lock : k.id # n.id /\ k.id # 0
  BY <1>4, LinkTypes DEF Linked, Numbered
<1>7. \A k \in lock : ~AnswersFor(c, k)
  BY <1>1, <1>2, <1>3, <1>6, AnswerFits DEF Tidy, Neat, CreatePasscode, TakenOnLock, Fits
<1>8. PICK k1 : k1 = n
  OBVIOUS
<1>9. \A d \in Codes : d # c => ~AnswersFor(d, n)
  BY <1>3, <1>4, <1>6, RowsApart DEF AnswersFor
<1>10. AnswersFor(c, n)
  BY <1>3, <1>4, <1>6 DEF AnswersFor
<1>11. \A d \in Codes : \A k : AnswersFor(d, k)' <=> AnswersFor(d, k)
  BY <1>3 DEF AnswersFor, Live
<1>12. Held(c)' = {k1} /\ Held(c) = {}
  BY <1>3, <1>7, <1>8, <1>10, <1>11 DEF Held
<1>13. \A d \in Codes : d # c => Held(d)' = Held(d)
  BY <1>3, <1>9, <1>11 DEF Held
<1>14. \A d \in Codes : ShownAs(d)' = ShownAs(d)
  BY <1>3 DEF ShownAs
<1>15. ShownAs(c) = "pending"
  BY <1>3 DEF ShownAs
<1>16. Promise!Set(c, {k1})
  BY <1>12, <1>13, <1>14, <1>15, SetServes
<1>17. Promise!Put(c, k1)
  BY <1>6, <1>8, <1>12, <1>16 DEF Promise!Put, Held
<1> QED
  BY <1>5, <1>8, <1>17 DEF Served, Promise!Next

LEMMA ChangeServes ==
    ASSUME Inductive, Inductive', Linked, Tidy, NothingIsReplaced, NEW w \in Workers,
           ChangePasscode(w)
    PROVE  Served
<1>1. CASE ~OnLock(op[w].pid)
  BY <1>1, SameServes DEF ChangePasscode
<1>2. CASE OnLock(op[w].pid)
  <2>1. PICK p : p = op[w].pid
    OBVIOUS
  <2>2. PICK c \in Codes : c = op[w].code
    BY LinkTypes DEF ChangePasscode, Owning, OwningSteps, LockCalls
  <2>3. PICK k0 \in lock : \E k1 :
              /\ Writes(w)
              /\ k0.id = p /\ k1.id = p
              /\ k1.pin = row[c].pin /\ k1.win = row[c].win
              /\ row[c].pid = 0 => k1 = k0
              /\ \A k : k \in lock' <=> (k \in lock /\ k.id # p) \/ k = k1
    BY <1>2, <2>1, <2>2, ChangeEffect
  <2>4. PICK k1 :
              /\ Writes(w)
              /\ k0.id = p /\ k1.id = p
              /\ k1.pin = row[c].pin /\ k1.win = row[c].win
              /\ row[c].pid = 0 => k1 = k0
              /\ \A k : k \in lock' <=> (k \in lock /\ k.id # p) \/ k = k1
    BY <2>3
  <2>5. row' = row /\ Live(c) /\ row[c].status \in Pending
    BY <2>2, <2>4 DEF Writes
  <2>6. /\ \A d \in Codes : row[d].pid = p => d = c
        /\ AnswersFor(c, k0)
    BY <2>1, <2>2, <2>4, Mine DEF Writes
  <2>7. k1 \in Passcode
    BY <2>4 DEF Inductive, TypeOK
  <2>8. \A k \in lock : k.id = p => k = k0
    BY <2>4 DEF Linked, Numbered
  <2>9. AnswersFor(c, k1)
    BY <2>4, <2>5, <2>6 DEF AnswersFor
  <2>10. \A k \in lock : k.id # p => ~AnswersFor(c, k)
    BY <2>4, <2>6, OneAnswer
  <2>11. \A d \in Codes : d # c => ~AnswersFor(d, k1) /\ ~AnswersFor(d, k0)
    <3>1. \A d \in Codes : d # c => ~AnswersFor(d, k1)
      BY <2>4, <2>5, <2>6, RowsApart DEF AnswersFor
    <3>2. \A d \in Codes : d # c => ~AnswersFor(d, k0)
      BY <2>6, OneAnswer
    <3> QED
      BY <3>1, <3>2
  <2>12. \A d \in Codes : \A k : AnswersFor(d, k)' <=> AnswersFor(d, k)
    BY <2>5 DEF AnswersFor, Live
  <2>13. Held(c)' = {k1}
    BY <2>4, <2>9, <2>10, <2>12 DEF Held
  <2>14. k0 \in Held(c)
    BY <2>6 DEF Held
  <2>15. \A d \in Codes : d # c => Held(d)' = Held(d)
    BY <2>4, <2>8, <2>11, <2>12 DEF Held
  <2>16. \A d \in Codes : ShownAs(d)' = ShownAs(d)
    BY <2>5 DEF ShownAs
  <2>17. ShownAs(c) = "pending"
    BY <2>5 DEF ShownAs
  <2>18. Promise!Set(c, {k1})
    BY <2>13, <2>15, <2>16, <2>17, SetServes
  <2>19. Promise!Replace(c, k1)
    BY <2>4, <2>14, <2>18 DEF Promise!Replace, Held
  <2> QED
    BY <2>7, <2>19 DEF Served, Promise!Next
<1> QED
  BY <1>1, <1>2

LEMMA DeleteServes ==
    ASSUME Inductive, Linked, Tidy, NEW w \in Workers, DeletePasscode(w) PROVE Served
<1>1. CASE ~OnLock(op[w].pid)
  BY <1>1, SameServes DEF DeletePasscode
<1>2. CASE OnLock(op[w].pid)
  <2>1. PICK c \in Codes : c = op[w].code
    BY LinkTypes DEF DeletePasscode, Owning, OwningSteps, LockCalls
  <2>2. PICK k0 \in lock : k0.id = op[w].pid
    BY <1>2 DEF OnLock
  <2>3. Writes(w) /\ lock' = {k \in lock : k.id # k0.id}
    BY <1>2, <2>2, DeleteEffect
  <2>4. row' = row /\ row[c].status \in Pending
    BY <2>1, <2>3 DEF Writes
  <2>5. AnswersFor(c, k0)
    BY <2>1, <2>2, <2>3, Mine DEF Writes
  <2>6. \A k \in lock : k.id = k0.id => k = k0
    BY DEF Linked, Numbered
  <2>7. \A d \in Codes : \A k : AnswersFor(d, k)' <=> AnswersFor(d, k)
    BY <2>4 DEF AnswersFor, Live
  <2>8. PICK e : e = {}
    OBVIOUS
  <2>9. Held(c)' = e /\ k0 \in Held(c)
    BY <2>3, <2>5, <2>7, <2>8, OneAnswer DEF Held
  <2>10. \A d \in Codes : d # c => Held(d)' = Held(d)
    BY <2>3, <2>5, <2>6, <2>7, OneAnswer DEF Held
  <2>11. ShownAs(c) = "pending" /\ \A d \in Codes : ShownAs(d)' = ShownAs(d)
    BY <2>4 DEF ShownAs
  <2>12. Promise!Set(c, {})
    BY <2>8, <2>9, <2>10, <2>11, SetServes
  <2>13. Promise!Remove(c)
    BY <2>9, <2>12 DEF Promise!Remove, Held
  <2> QED
    BY <2>13 DEF Served, Promise!Next
<1> QED
  BY <1>1, <1>2

LEMMA ProceedServes ==
    ASSUME Inductive, Inductive', Linked, Tidy, NothingIsReplaced, TakesFreePins,
           NEW w \in Workers, Proceed(w)
    PROVE  Served
<1>1. CASE \/ Pick(w) \/ Load(w) \/ Find(w) \/ Exists(w) \/ Available(w)
           \/ CheckConfigured(w) \/ Confirm(w) \/ RecordFailure(w)
  BY <1>1, SameServes
  DEF Pick, Load, Find, Exists, Available, CheckConfigured, Confirm, RecordFailure
<1> QED
  BY <1>1, ReserveServes, PrepareServes, ClaimDeleteServes, ClaimServes, CreateServes,
     ChangeServes, DeleteServes, StoreServes, ActivateServes, RetireServes,
     MarkSyncErrorServes
  DEF Proceed

LEMMA NextServes ==
    /\ Setup /\ Inductive' /\ NothingIsReplaced /\ [Next]_vars /\ [TakesFreePins]_vars
    => Served
<1> SUFFICES ASSUME Inductive, Inductive', Linked, Tidy, NothingIsReplaced,
                    [Next]_vars, [TakesFreePins]_vars
             PROVE  Served
  BY DEF Setup
<1>1. CASE UNCHANGED vars
  BY <1>1, SameServes DEF vars
<1>2. ASSUME NEW w \in Workers, Proceed(w), TakesFreePins PROVE Served
  BY <1>2, ProceedServes
<1>3. ASSUME NEW w \in Workers, LockCallFails(w) \/ Request(w) PROVE Served
  BY <1>3, SameServes DEF LockCallFails, Request
<1>4. CASE Automation
  BY <1>4, SameServes DEF Automation, NextSweep, SweepItem
<1>5. ASSUME NEW c \in Codes, RefreshUsage(c) PROVE Served
  BY <1>5, AgedServes DEF RefreshUsage
<1>6. ASSUME NEW c \in Codes, Age(c) PROVE Served
  BY <1>6, AgedServes DEF Age
<1>7. ASSUME NEW c \in Codes, FailureExpires(c) PROVE Served
  BY <1>7, SameServes DEF FailureExpires
<1>8. ASSUME NEW r \in Reservations,
             CancelReservation(r) \/ Reinstate(r) \/ \E s \in Stays : MoveStay(r, s)
      PROVE  Served
  BY <1>8, SameServes DEF CancelReservation, Reinstate, MoveStay
<1>9. CASE NewDay
  BY <1>9, SameServes DEF NewDay
<1>10. CASE Crash
  BY <1>10, SameServes DEF Crash
<1> QED
  BY <1>1, <1>2, <1>3, <1>4, <1>5, <1>6, <1>7, <1>8, <1>9, <1>10 DEF Next

LEMMA InitServes == Init => Promise!Init
  BY DEF Init, Promise!Init, NoRow

(* Under the same hypotheses the rows, the lock and the requests between   *)
(* them implement GuestAccess: each statement and each lock call is one    *)
(* step of the promise or leaves it alone.                                 *)
THEOREM CodesKeepThePromise ==
    Spec /\ []NothingIsReplaced /\ [][TakesFreePins]_vars => KeepsPromise
<1>1. Setup => Inductive
  BY DEF Setup
<1>2. Setup /\ Inductive' /\ NothingIsReplaced /\ [Next]_vars /\ [TakesFreePins]_vars
      => [Promise!Next]_(Promise!vars)
  BY NextServes DEF Served
<1> QED
  BY <1>1, <1>2, AlwaysSetup, InitServes, PTL DEF Spec, KeepsPromise, Promise!Spec

-----------------------------------------------------------------------------
(* The automation alone keeps it *)

LEMMA SweepItemKind ==
    ASSUME Inductive, NEW e \in todo, SweepItem(e), op[Cron].kind # "replace"
    PROVE  op'[Cron].kind # "replace"
<1>1. Cron \in Workers /\ DOMAIN op = Workers
  BY DEF Workers, Inductive, Shape
<1>2. \A o : Continue(Cron, o) => op'[Cron] = o
  BY <1>1 DEF Continue
<1>3. ASSUME NEW c, StartReconcile(Cron, c) PROVE op'[Cron].kind # "replace"
  BY <1>2, <1>3 DEF StartReconcile, IdleOp
<1>4. ASSUME NEW c, StartRevoke(Cron, c) PROVE op'[Cron].kind # "replace"
  BY <1>2, <1>4 DEF StartRevoke, IdleOp
<1>5. ASSUME NEW c, NEW win, NEW stay, StartUpdate(Cron, c, win, stay)
      PROVE  op'[Cron].kind # "replace"
  BY <1>2, <1>5 DEF StartUpdate, IdleOp
<1>6. ASSUME NEW r, StartEnsure(Cron, r) PROVE op'[Cron].kind # "replace"
  BY <1>2, <1>6 DEF StartEnsure, IdleOp
<1> QED
  BY <1>3, <1>4, <1>5, <1>6 DEF SweepItem

LEMMA NextKind ==
    ASSUME Admins = {}, Inductive, NothingIsReplaced, [Next]_vars PROVE NothingIsReplaced'
<1>1. /\ \A w \in Workers : w = Cron
      /\ Cron \in Workers
      /\ op[Cron] \in OpType
      /\ DOMAIN op = Workers
      /\ IdleOp.kind # "replace"
      /\ op[Cron].kind # "replace"
  BY DEF Workers, Inductive, Shape, GoodOp, IdleOp, NothingIsReplaced
<1>2. SUFFICES op'[Cron].kind # "replace"
  BY <1>1 DEF NothingIsReplaced
<1>3. \A o : Continue(Cron, o) => op'[Cron] = o
  BY <1>1 DEF Continue
<1>4. \A c, o : ContinueBumping(Cron, c, o) => op'[Cron] = o
  BY <1>1 DEF ContinueBumping
<1>5. Finish(Cron) => op'[Cron].kind # "replace"
  BY <1>1, <1>3 DEF Finish
<1>6. \A pc : Goto(Cron, pc) => op'[Cron].kind # "replace"
  BY <1>1, <1>3 DEF Goto, OpType
<1>7. CASE Proceed(Cron)
  <2>1. CASE Pick(Cron)
    BY <1>1, <1>3, <1>5, <2>1 DEF Pick, OpType
  <2>2. CASE Reserve(Cron)
    BY <1>1, <1>3, <1>5, <2>2 DEF Reserve, OpType
  <2>3. CASE Prepare(Cron)
    BY <1>1, <1>4, <1>5, <2>3 DEF Prepare, OpType
  <2>4. CASE ClaimDelete(Cron)
    BY <1>1, <1>4, <1>5, <2>4 DEF ClaimDelete, OpType
  <2>5. CASE Load(Cron)
    BY <1>1, <1>3, <1>5, <2>5 DEF Load, Loaded, OpType
  <2>6. CASE Claim(Cron)
    BY <1>1, <1>4, <1>5, <2>6 DEF Claim, OpType
  <2>7. CASE Find(Cron)
    BY <1>1, <1>3, <1>6, <2>7 DEF Find, OpType
  <2>8. CASE CreatePasscode(Cron) \/ ChangePasscode(Cron) \/ DeletePasscode(Cron)
    BY <1>1, <1>3, <1>6, <2>8
    DEF CreatePasscode, ChangePasscode, DeletePasscode, Answered, OpType
  <2>9. CASE \/ Exists(Cron) \/ Available(Cron) \/ CheckConfigured(Cron)
             \/ StoreProviderId(Cron) \/ Confirm(Cron) \/ Activate(Cron) \/ Retire(Cron)
             \/ MarkSyncError(Cron) \/ RecordFailure(Cron)
    BY <1>5, <1>6, <2>9
    DEF Exists, Available, CheckConfigured, StoreProviderId, Confirm, Activate,
        Retire, MarkSyncError, RecordFailure
  <2> QED
    BY <1>7, <2>1, <2>2, <2>3, <2>4, <2>5, <2>6, <2>7, <2>8, <2>9 DEF Proceed
<1>8. CASE LockCallFails(Cron)
  BY <1>5, <1>6, <1>8 DEF LockCallFails
<1>9. CASE Automation
  BY <1>1, <1>9, SweepItemKind DEF Automation, NextSweep
<1>10. CASE Crash
  BY <1>1, <1>10 DEF Crash
<1>11. \A w \in Workers : ~Request(w)
  BY DEF Request
<1>12. ASSUME NEW c \in Codes, RefreshUsage(c) \/ Age(c) \/ FailureExpires(c)
       PROVE  op'[Cron].kind # "replace"
  BY <1>1, <1>12 DEF RefreshUsage, Age, FailureExpires
<1>13. ASSUME NEW r \in Reservations,
              CancelReservation(r) \/ Reinstate(r) \/ \E s \in Stays : MoveStay(r, s)
       PROVE  op'[Cron].kind # "replace"
  BY <1>1, <1>13 DEF CancelReservation, Reinstate, MoveStay
<1>14. CASE NewDay \/ UNCHANGED vars
  BY <1>1, <1>14 DEF NewDay, vars
<1> QED
  BY <1>1, <1>7, <1>8, <1>9, <1>10, <1>11, <1>12, <1>13, <1>14 DEF Next

(* Without administrators both hypotheses are met: the one-minute sweep    *)
(* replaces no PIN and reserves what it has just seen free on the lock     *)
(* (access-codes.service.ts:106-273, 1446-1576).                           *)
THEOREM AutomationKeepsThePromise ==
    ASSUME Admins = {} PROVE Spec => []NoForgottenPasscode /\ KeepsPromise
<1>1. Init => Drawn /\ NothingIsReplaced
  BY DEF Init, IdleOp, Drawn, Workers, NothingIsReplaced
<1>2. Inductive /\ Drawn /\ NothingIsReplaced /\ [Next]_vars => Drawn' /\ NothingIsReplaced'
  BY NextDrawn, NextKind
<1>3. Inductive /\ Drawn /\ [Next]_vars => [TakesFreePins]_vars
  BY DEF Drawn, TakesFreePins, Workers
<1> QED
  BY <1>1, <1>2, <1>3, AlwaysInductive, NoPasscodeIsForgotten, CodesKeepThePromise, PTL
  DEF Spec

===============================================================================
