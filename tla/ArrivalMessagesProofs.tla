------------------------- MODULE ArrivalMessagesProofs -------------------------
(***************************************************************************)
(* For any number of backends, requests, reservations and days: a guest    *)
(* gets one text at most for each arrival date, and never one that is then *)
(* reported as failed.                                                     *)
(***************************************************************************)
EXTENDS ArrivalMessages, TLAPS

-----------------------------------------------------------------------------
(* The inductive invariant *)

(* From the claim to the last UPDATE the row is the worker's own.          *)
OwningSteps == {"render", "send", "mark", "finish"}

Owns(w, s) == op[w].pc \in OwningSteps /\ op[w].current = {s}

(* A worker has one stay in hand, a conclusion has an outcome, and a row   *)
(* that was never claimed has no attempts.                                 *)
Shape ==
    /\ \A w \in Workers :
          /\ op[w].pc \in OwningSteps \cup {"claim", "notify"} =>
                 \E s \in Stays : op[w].current = {s}
          /\ op[w].pc \in {"finish", "notify"} => op[w].outcome # "none"
    /\ \A s \in Stays : delivery[s].status = "none" => delivery[s].attempts = 0

(* The claim leaves a row to one worker, and no other statement takes it.  *)
Owners ==
    /\ \A w \in Workers, s \in Stays :
          Owns(w, s) => delivery[s].status = "sending" /\ ~delivery[s].stale
    /\ \A v, w \in Workers, s \in Stays : Owns(v, s) /\ Owns(w, s) => v = w

(* How far a text can have come                                            *)
Texts ==
    /\ \A s \in Stays : texts[s] <= 1
    /\ \A s \in Stays : delivery[s].status \in {"none", "failed"} => texts[s] = 0
    /\ \A w \in Workers, s \in Stays :
          /\ Owns(w, s) /\ op[w].pc \in {"render", "send"} => texts[s] = 0
          /\ Owns(w, s) /\ op[w].pc = "finish" /\ op[w].outcome = "failed" => texts[s] = 0

Inductive == TypeOK /\ Shape /\ Owners /\ Texts

-----------------------------------------------------------------------------
(* What the actions share *)

LEMMA OpFields ==
    ASSUME TypeOK, NEW w \in Workers
    PROVE  op[w] \in OpType
BY DEF TypeOK

LEMMA NextStayTyped ==
    ASSUME NEW o \in OpType, NEW p \in {"sweep", "idle"}
    PROVE  [IdleOp EXCEPT !.pc = p, !.queue = o.queue] \in OpType
BY DEF OpType, IdleOp

(* A step of w after which it owns no row: a claim that lost, the end of a *)
(* stay, an error, a restart.  The row it owned stays as it is.            *)
LEMMA Release ==
    ASSUME Inductive, NEW w \in Workers, NEW o \in OpType, Continue(w, o),
           o.pc \notin OwningSteps \cup {"notify"},
           o.pc = "claim" => \E s \in Stays : o.current = {s},
           UNCHANGED <<delivery, texts>>
    PROVE  Shape' /\ Owners' /\ Texts' /\ op' \in [Workers -> OpType]
<1>1. op'[w] = o /\ \A v \in Workers : v # w => op'[v] = op[v]
  BY DEF Continue, Inductive, TypeOK
<1>2. op' \in [Workers -> OpType]
  BY DEF Continue, Inductive, TypeOK
<1>3. \A v \in Workers, s \in Stays : Owns(v, s)' => v # w /\ Owns(v, s)
  BY <1>1 DEF Owns
<1>4. Shape'
  BY <1>1 DEF Inductive, Shape, OwningSteps
<1>5. Owners'
  BY <1>3 DEF Inductive, Owners
<1>6. Texts'
  BY <1>1, <1>3 DEF Inductive, Texts
<1>. QED
  BY <1>2, <1>4, <1>5, <1>6

(* A step of w that keeps its row: only the row's owner can have sent.     *)
LEMMA Advance ==
    ASSUME Inductive, NEW w \in Workers, NEW o \in OpType, Continue(w, o),
           NEW s \in Stays, Owns(w, s), o.current = {s}, o.pc \in OwningSteps,
           o.pc = "finish" => o.outcome # "none",
           UNCHANGED delivery,
           \A t \in Stays : t # s => texts'[t] = texts[t],
           texts'[s] \in {0, 1},
           o.pc \in {"render", "send"} => texts'[s] = 0,
           o.pc = "finish" /\ o.outcome = "failed" => texts'[s] = 0
    PROVE  Shape' /\ Owners' /\ Texts' /\ op' \in [Workers -> OpType]
<1>1. op'[w] = o /\ \A v \in Workers : v # w => op'[v] = op[v]
  BY DEF Continue, Inductive, TypeOK
<1>2. op' \in [Workers -> OpType]
  BY DEF Continue, Inductive, TypeOK
<1>3. \A v \in Workers, t \in Stays : Owns(v, t)' => Owns(v, t)
  BY <1>1 DEF Owns
<1>4. \A v \in Workers, t \in Stays : v # w /\ Owns(v, t)' => t # s
  BY <1>1 DEF Owns, Inductive, Owners
<1>5. Shape'
  BY <1>1 DEF Inductive, Shape, OwningSteps
<1>6. Owners'
  BY <1>3 DEF Inductive, Owners
<1>7. delivery[s].status = "sending"
  BY DEF Inductive, Owners
<1>8. Texts'
  <2>1. \A t \in Stays : texts'[t] <= 1
    BY DEF Inductive, Texts
  <2>2. \A t \in Stays : delivery'[t].status \in {"none", "failed"} => texts'[t] = 0
    BY <1>7 DEF Inductive, Texts
  <2>3. ASSUME NEW v \in Workers, NEW t \in Stays, Owns(v, t)'
        PROVE  /\ op'[v].pc \in {"render", "send"} => texts'[t] = 0
               /\ op'[v].pc = "finish" /\ op'[v].outcome = "failed" => texts'[t] = 0
    <3>1. CASE v = w
      BY <1>1, <2>3, <3>1 DEF Owns
    <3>2. CASE v # w
      BY <1>1, <1>3, <1>4, <2>3, <3>2 DEF Inductive, Texts
    <3>. QED
      BY <3>1, <3>2
  <2>. QED
    BY <2>1, <2>2, <2>3 DEF Texts
<1>. QED
  BY <1>2, <1>5, <1>6, <1>8

LEMMA Elsewhere ==
    ASSUME Inductive, UNCHANGED <<op, delivery, texts>>
    PROVE  Shape' /\ Owners' /\ Texts'
BY DEF Inductive, Shape, Owners, Texts, Owns

LEMMA SpendTyped ==
    ASSUME TypeOK, NEW kind \in {"fault", "crash", "request", "change"}, Spend(kind)
    PROVE  budget' \in [{"fault", "crash", "request", "change"} -> Nat]
BY DEF TypeOK, Spend

LEMMA IdleTyped == IdleOp \in OpType
BY DEF IdleOp, OpType

LEMMA NextStayReleases ==
    ASSUME Inductive, NEW w \in Workers, NextStay(w), UNCHANGED <<delivery, texts>>
    PROVE  Shape' /\ Owners' /\ Texts' /\ op' \in [Workers -> OpType]
<1>. DEFINE o == [IdleOp EXCEPT !.pc = IF w \in Backends THEN "sweep" ELSE "idle",
                               !.queue = op[w].queue]
<1>1. op[w] \in OpType
  BY DEF Inductive, TypeOK
<1>2. o \in OpType /\ o.pc \in {"sweep", "idle"}
  BY <1>1 DEF OpType, IdleOp
<1>3. Continue(w, o)
  BY DEF NextStay
<1>. HIDE DEF o
<1>. QED
  BY <1>2, <1>3, Release DEF OwningSteps

-----------------------------------------------------------------------------
(* The runs *)

LEMMA StartRunStep == ASSUME Inductive, NEW w \in Workers, StartRun(w) PROVE Inductive'
<1>. DEFINE o == [IdleOp EXCEPT !.pc = "release", !.freed = Stale]
<1>1. o \in OpType /\ o.pc = "release"
  BY DEF OpType, IdleOp, Stale
<1>2. Continue(w, o)
  BY DEF StartRun
<1>. HIDE DEF o
<1>3. op'[w] = o /\ \A v \in Workers : v # w => op'[v] = op[v]
  BY <1>2 DEF Continue, Inductive, TypeOK
<1>4. \A v \in Workers, s \in Stays : Owns(v, s)' => v # w /\ Owns(v, s)
  BY <1>1, <1>3 DEF Owns, OwningSteps
<1>5. \A s \in Stays : /\ s \in Stale => delivery'[s].status = "uncertain"
                       /\ s \notin Stale => delivery'[s] = delivery[s]
  BY DEF StartRun, Inductive, TypeOK
<1>6. \A v \in Workers, s \in Stays : Owns(v, s) => s \notin Stale
  BY DEF Inductive, Owners, Stale
<1>7. TypeOK'
  <2>1. op' \in [Workers -> OpType]
    BY <1>1, <1>2 DEF Continue, Inductive, TypeOK
  <2>2. delivery' \in [Stays -> [status : {"none", "sending"} \cup Outcomes,
                                 attempts : 0 .. MaxAttempts, stale : BOOLEAN]]
    BY DEF StartRun, Inductive, TypeOK, Outcomes
  <2>. QED
    BY <2>1, <2>2 DEF StartRun, Inductive, TypeOK
<1>8. Shape'
  BY <1>1, <1>3, <1>5 DEF Inductive, Shape, OwningSteps
<1>9. Owners'
  BY <1>4, <1>5, <1>6 DEF Inductive, Owners
<1>10. Texts'
  <2>. texts' = texts
    BY DEF StartRun
  <2>1. \A s \in Stays : delivery'[s].status \in {"none", "failed"} => texts[s] = 0
    BY <1>5 DEF Inductive, Texts
  <2>. QED
    BY <1>3, <1>4, <2>1 DEF Inductive, Texts
<1>. QED
  BY <1>7, <1>8, <1>9, <1>10 DEF Inductive

LEMMA TellReleasedStep ==
    ASSUME Inductive, NEW w \in Workers, NEW s \in Stays, TellReleased(w, s)
    PROVE  Inductive'
<1>. DEFINE o == [op[w] EXCEPT !.freed = @ \ {s}]
<1>1. op[w] \in OpType /\ op[w].pc = "release"
  BY OpFields DEF Inductive, TellReleased
<1>2. o \in OpType /\ o.pc = "release"
  BY <1>1 DEF OpType
<1>3. Continue(w, o) /\ UNCHANGED <<delivery, texts>>
  BY DEF TellReleased
<1>4. told' \subseteq Stays \X Outcomes
  BY DEF TellReleased, Inductive, TypeOK, Outcomes
<1>5. budget' \in [{"fault", "crash", "request", "change"} -> Nat]
  BY SpendTyped DEF TellReleased, Inductive, TypeOK
<1>. HIDE DEF o
<1>6. Shape' /\ Owners' /\ Texts' /\ op' \in [Workers -> OpType]
  BY <1>2, <1>3, Release DEF OwningSteps
<1>. QED
  BY <1>3, <1>4, <1>5, <1>6 DEF TellReleased, Inductive, TypeOK

LEMMA SelectDueStep == ASSUME Inductive, NEW w \in Workers, SelectDue(w) PROVE Inductive'
<1>. DEFINE o == [op[w] EXCEPT !.pc = "sweep", !.queue = {r \in Reservations : Due(r)}]
<1>1. op[w] \in OpType
  BY OpFields DEF Inductive
<1>2. o \in OpType /\ o.pc = "sweep"
  BY <1>1 DEF OpType
<1>3. Continue(w, o)
  BY DEF SelectDue
<1>. HIDE DEF o
<1>4. Shape' /\ Owners' /\ Texts' /\ op' \in [Workers -> OpType]
  BY <1>2, <1>3, Release DEF OwningSteps, SelectDue
<1>. QED
  BY <1>4 DEF SelectDue, Inductive, TypeOK

LEMMA TakeStep ==
    ASSUME Inductive, NEW w \in Workers, NEW r \in Reservations, Take(w, r)
    PROVE  Inductive'
<1>. DEFINE o == [op[w] EXCEPT !.pc = "load", !.queue = @ \ {r}, !.chosen = {r}]
<1>1. op[w] \in OpType
  BY OpFields DEF Inductive
<1>2. o \in OpType /\ o.pc = "load"
  BY <1>1 DEF OpType
<1>3. Continue(w, o)
  BY DEF Take
<1>. HIDE DEF o
<1>4. Shape' /\ Owners' /\ Texts' /\ op' \in [Workers -> OpType]
  BY <1>2, <1>3, Release DEF OwningSteps, Take
<1>. QED
  BY <1>4 DEF Take, Inductive, TypeOK

LEMMA EndRunStep == ASSUME Inductive, NEW w \in Workers, EndRun(w) PROVE Inductive'
<1>1. IdleOp.pc = "idle"
  BY DEF IdleOp
<1>2. Shape' /\ Owners' /\ Texts' /\ op' \in [Workers -> OpType]
  BY <1>1, IdleTyped, Release DEF OwningSteps, EndRun
<1>. QED
  BY <1>2 DEF EndRun, Inductive, TypeOK

LEMMA SendNowStep ==
    ASSUME Inductive, NEW w \in Workers, NEW r \in Reservations, SendNow(w, r)
    PROVE  Inductive'
<1>. DEFINE o == [IdleOp EXCEPT !.pc = "load", !.chosen = {r}]
<1>1. o \in OpType /\ o.pc = "load"
  BY DEF OpType, IdleOp
<1>2. Continue(w, o)
  BY DEF SendNow
<1>. HIDE DEF o
<1>3. Shape' /\ Owners' /\ Texts' /\ op' \in [Workers -> OpType]
  BY <1>1, <1>2, Release DEF OwningSteps, SendNow
<1>4. budget' \in [{"fault", "crash", "request", "change"} -> Nat]
  BY SpendTyped DEF SendNow, Inductive
<1>. QED
  BY <1>3, <1>4 DEF SendNow, Inductive, TypeOK

-----------------------------------------------------------------------------
(* One stay *)

LEMMA LoadStep == ASSUME Inductive, NEW w \in Workers, Load(w) PROVE Inductive'
<1>1. PICK r \in op[w].chosen :
          IF stay[r].confirmed /\ ~stay[r].marked
          THEN Continue(w, [op[w] EXCEPT !.pc = "claim", !.current = {<<r, stay[r].date>>},
                                         !.chosen = {}])
          ELSE NextStay(w)
  BY DEF Load
<1>. DEFINE o == [op[w] EXCEPT !.pc = "claim", !.current = {<<r, stay[r].date>>}, !.chosen = {}]
<1>2. op[w] \in OpType
  BY OpFields DEF Inductive
<1>3. <<r, stay[r].date>> \in Stays
  BY <1>2 DEF OpType, Stays, Inductive, TypeOK
<1>4. o \in OpType /\ o.pc = "claim" /\ o.current = {<<r, stay[r].date>>}
  BY <1>2, <1>3 DEF OpType
<1>. HIDE DEF o
<1>5. UNCHANGED <<delivery, texts>>
  BY DEF Load
<1>6. Shape' /\ Owners' /\ Texts' /\ op' \in [Workers -> OpType]
  <2>1. CASE NextStay(w)
    BY <1>5, <2>1, NextStayReleases
  <2>2. CASE Continue(w, o)
    BY <1>3, <1>4, <1>5, <2>2, Release DEF OwningSteps
  <2>. QED
    BY <1>1, <2>1, <2>2 DEF o
<1>. QED
  BY <1>6 DEF Load, Inductive, TypeOK

LEMMA ClaimStep == ASSUME Inductive, NEW w \in Workers, Claim(w) PROVE Inductive'
<1>1. PICK s \in Stays : op[w].current = {s}
  BY DEF Claim, Inductive, Shape
<1>2. op[w] \in OpType
  BY OpFields DEF Inductive
<1>3. CASE Claimable(s)
  <2>. DEFINE o == [op[w] EXCEPT !.pc = "render"]
  <2>1. o \in OpType /\ o.pc = "render" /\ o.current = {s}
    BY <1>1, <1>2 DEF OpType
  <2>2. /\ Continue(w, o)
        /\ delivery' = [delivery EXCEPT
               ![s] = [status |-> "sending", attempts |-> @.attempts + 1, stale |-> FALSE]]
        /\ UNCHANGED texts
    BY <1>1, <1>3 DEF Claim
  <2>. HIDE DEF o
  <2>3. op'[w] = o /\ \A v \in Workers : v # w => op'[v] = op[v]
    BY <2>2 DEF Continue, Inductive, TypeOK
  <2>4. /\ delivery'[s].status = "sending" /\ delivery'[s].stale = FALSE
        /\ \A t \in Stays : t # s => delivery'[t] = delivery[t]
    BY <2>2 DEF Inductive, TypeOK
  <2>5. texts[s] = 0 /\ \A v \in Workers : ~Owns(v, s)
    BY <1>3 DEF Claimable, Inductive, Owners, Texts
  <2>6. \A v \in Workers, t \in Stays :
            Owns(v, t)' => (v = w /\ t = s) \/ (v # w /\ t # s /\ Owns(v, t))
    BY <2>1, <2>3, <2>5 DEF Owns
  <2>7. TypeOK'
    <3>1. delivery[s].attempts + 1 \in 0 .. MaxAttempts
      BY <1>3, BoundsAreNaturals DEF Claimable, Inductive, TypeOK, Shape
    <3>2. delivery' \in [Stays -> [status : {"none", "sending"} \cup Outcomes,
                                   attempts : 0 .. MaxAttempts, stale : BOOLEAN]]
      BY <2>2, <3>1 DEF Inductive, TypeOK
    <3>3. op' \in [Workers -> OpType]
      BY <2>1, <2>2 DEF Continue, Inductive, TypeOK
    <3>. QED
      BY <3>2, <3>3 DEF Claim, Inductive, TypeOK
  <2>8. Shape'
    BY <2>1, <2>3, <2>4 DEF Inductive, Shape, OwningSteps
  <2>9. Owners'
    BY <2>4, <2>6 DEF Inductive, Owners
  <2>10. Texts'
    BY <2>1, <2>2, <2>3, <2>4, <2>5, <2>6 DEF Inductive, Texts
  <2>. QED
    BY <2>7, <2>8, <2>9, <2>10 DEF Inductive
<1>4. CASE ~Claimable(s)
  <2>1. NextStay(w) /\ UNCHANGED <<delivery, texts>>
    BY <1>1, <1>4 DEF Claim
  <2>2. Shape' /\ Owners' /\ Texts' /\ op' \in [Workers -> OpType]
    BY <2>1, NextStayReleases
  <2>. QED
    BY <2>1, <2>2 DEF Claim, Inductive, TypeOK
<1>. QED
  BY <1>3, <1>4

LEMMA RenderStep == ASSUME Inductive, NEW w \in Workers, Render(w) PROVE Inductive'
<1>1. PICK s \in Stays : op[w].current = {s}
  BY DEF Render, Inductive, Shape, OwningSteps
<1>2. op[w] \in OpType /\ Owns(w, s) /\ op[w].pc = "render"
  BY <1>1, OpFields DEF Inductive, Owns, OwningSteps, Render
<1>3. texts[s] = 0 /\ UNCHANGED <<delivery, texts>>
  BY <1>2 DEF Inductive, Texts, Render
<1>. DEFINE ready == [op[w] EXCEPT !.pc = "send"]
            over == [op[w] EXCEPT !.pc = "finish", !.outcome = "failed"]
<1>4. /\ ready \in OpType /\ ready.pc = "send" /\ ready.current = {s}
      /\ over \in OpType /\ over.pc = "finish" /\ over.current = {s} /\ over.outcome = "failed"
  BY <1>1, <1>2 DEF OpType, Outcomes
<1>5. Continue(w, ready) \/ Continue(w, over)
  BY <1>1 DEF Render, Conclude
<1>6. budget' \in [{"fault", "crash", "request", "change"} -> Nat]
  BY SpendTyped DEF Render, Inductive, TypeOK
<1>. HIDE DEF ready, over
<1>7. Shape' /\ Owners' /\ Texts' /\ op' \in [Workers -> OpType]
  BY <1>2, <1>3, <1>4, <1>5, Advance DEF OwningSteps
<1>. QED
  BY <1>6, <1>7 DEF Render, Inductive, TypeOK

LEMMA SendStep == ASSUME Inductive, NEW w \in Workers, Send(w) PROVE Inductive'
<1>1. PICK s \in Stays : op[w].current = {s}
  BY DEF Send, Inductive, Shape, OwningSteps
<1>2. op[w] \in OpType /\ Owns(w, s) /\ op[w].pc = "send"
  BY <1>1, OpFields DEF Inductive, Owns, OwningSteps, Send
<1>3. texts[s] = 0 /\ UNCHANGED delivery
  BY <1>2 DEF Inductive, Texts, Send
<1>. DEFINE sent == [op[w] EXCEPT !.pc = "mark"]
            Over(outcome) == [op[w] EXCEPT !.pc = "finish", !.outcome = outcome]
<1>4. /\ sent \in OpType /\ sent.pc = "mark" /\ sent.current = {s}
      /\ \A outcome \in Outcomes :
            /\ Over(outcome) \in OpType /\ Over(outcome).pc = "finish"
            /\ Over(outcome).current = {s} /\ Over(outcome).outcome = outcome
  BY <1>1, <1>2 DEF OpType
<1>5. \/ Continue(w, sent) /\ texts' = [texts EXCEPT ![s] = @ + 1]
      \/ Continue(w, Over("failed")) /\ texts' = texts
      \/ Continue(w, Over("uncertain")) /\ \E n \in {0, 1} : texts' = [texts EXCEPT ![s] = @ + n]
  BY <1>1 DEF Send, Conclude, OutcomeOf
<1>6. budget' \in [{"fault", "crash", "request", "change"} -> Nat]
  BY SpendTyped DEF Send, Inductive, TypeOK
<1>7. /\ texts' \in [Stays -> Nat]
      /\ texts'[s] \in {0, 1}
      /\ \A t \in Stays : t # s => texts'[t] = texts[t]
  BY <1>3, <1>5 DEF Inductive, TypeOK
<1>8. /\ "failed" \in Outcomes /\ "uncertain" \in Outcomes
      /\ "failed" # "none" /\ "uncertain" # "none" /\ "uncertain" # "failed"
  BY DEF Outcomes
<1>. HIDE DEF sent, Over
<1>9. Shape' /\ Owners' /\ Texts' /\ op' \in [Workers -> OpType]
  <2>1. CASE Continue(w, sent)
    BY <1>2, <1>3, <1>4, <1>7, <2>1, Advance DEF OwningSteps
  <2>2. CASE Continue(w, Over("uncertain"))
    BY <1>2, <1>3, <1>4, <1>7, <1>8, <2>2, Advance DEF OwningSteps
  <2>3. CASE Continue(w, Over("failed")) /\ texts' = texts
    BY <1>2, <1>3, <1>4, <1>7, <1>8, <2>3, Advance DEF OwningSteps
  <2>. QED
    BY <1>5, <2>1, <2>2, <2>3
<1>. QED
  BY <1>6, <1>7, <1>9 DEF Send, Inductive, TypeOK

LEMMA MarkStep == ASSUME Inductive, NEW w \in Workers, Mark(w) PROVE Inductive'
<1>1. PICK s \in Stays : op[w].current = {s}
  BY DEF Mark, Inductive, Shape, OwningSteps
<1>2. op[w] \in OpType /\ Owns(w, s) /\ op[w].pc = "mark"
  BY <1>1, OpFields DEF Inductive, Owns, OwningSteps, Mark
<1>3. UNCHANGED <<delivery, texts>> /\ texts[s] \in {0, 1}
  <2>1. texts[s] \in Nat /\ texts[s] <= 1
    BY DEF Inductive, Texts, TypeOK
  <2>. QED
    BY <2>1 DEF Mark
<1>. DEFINE o == [op[w] EXCEPT !.pc = "finish", !.outcome = "sent"]
<1>4. o \in OpType /\ o.pc = "finish" /\ o.current = {s} /\ o.outcome = "sent"
  BY <1>1, <1>2 DEF OpType, Outcomes
<1>5. Continue(w, o)
  BY DEF Mark, Conclude
<1>. HIDE DEF o
<1>6. Shape' /\ Owners' /\ Texts' /\ op' \in [Workers -> OpType]
  BY <1>2, <1>3, <1>4, <1>5, Advance DEF OwningSteps
<1>7. stay' \in [Reservations -> [confirmed : BOOLEAN, date : Days, marked : BOOLEAN]]
  BY DEF Mark, Inductive, TypeOK
<1>. QED
  BY <1>6, <1>7 DEF Mark, Inductive, TypeOK

LEMMA FinishStep == ASSUME Inductive, NEW w \in Workers, Finish(w) PROVE Inductive'
<1>1. PICK s \in Stays : op[w].current = {s}
  BY DEF Finish, Inductive, Shape, OwningSteps
<1>2. op[w] \in OpType /\ Owns(w, s) /\ op[w].pc = "finish" /\ op[w].outcome \in Outcomes
  BY <1>1, OpFields DEF Inductive, Owns, OwningSteps, Finish, OpType, Shape
<1>. DEFINE o == [op[w] EXCEPT !.pc = "notify"]
<1>3. o \in OpType /\ o.pc = "notify" /\ o.current = {s} /\ o.outcome = op[w].outcome
  BY <1>1, <1>2 DEF OpType
<1>4. Continue(w, o) /\ delivery' = [delivery EXCEPT ![s].status = op[w].outcome]
  BY <1>1 DEF Finish
<1>. HIDE DEF o
<1>5. op'[w] = o /\ \A v \in Workers : v # w => op'[v] = op[v]
  BY <1>4 DEF Continue, Inductive, TypeOK
<1>6. /\ delivery'[s].status = op[w].outcome /\ delivery'[s].attempts = delivery[s].attempts
      /\ \A t \in Stays : t # s => delivery'[t] = delivery[t]
  BY <1>4 DEF Inductive, TypeOK
<1>7. \A v \in Workers, t \in Stays : Owns(v, t)' => v # w /\ t # s /\ Owns(v, t)
  BY <1>2, <1>3, <1>5 DEF Owns, OwningSteps, Inductive, Owners
<1>8. TypeOK'
  <2>1. op' \in [Workers -> OpType]
    BY <1>3, <1>4 DEF Continue, Inductive, TypeOK
  <2>2. delivery' \in [Stays -> [status : {"none", "sending"} \cup Outcomes,
                                 attempts : 0 .. MaxAttempts, stale : BOOLEAN]]
    BY <1>2, <1>4 DEF Inductive, TypeOK
  <2>. QED
    BY <2>1, <2>2 DEF Finish, Inductive, TypeOK
<1>9. Shape'
  BY <1>2, <1>3, <1>5, <1>6 DEF Inductive, Shape, OwningSteps, Outcomes
<1>10. Owners'
  BY <1>6, <1>7 DEF Inductive, Owners
<1>11. Texts'
  <2>. texts' = texts
    BY DEF Finish
  <2>1. \A t \in Stays : delivery'[t].status \in {"none", "failed"} => texts[t] = 0
    BY <1>2, <1>6 DEF Inductive, Texts, Outcomes
  <2>. QED
    BY <1>5, <1>7, <2>1 DEF Inductive, Texts
<1>. QED
  BY <1>8, <1>9, <1>10, <1>11 DEF Inductive

LEMMA NotifyStep == ASSUME Inductive, NEW w \in Workers, Notify(w) PROVE Inductive'
<1>1. Shape' /\ Owners' /\ Texts' /\ op' \in [Workers -> OpType]
  BY NextStayReleases DEF Notify
<1>2. op[w] \in OpType /\ op[w].outcome # "none"
  BY OpFields DEF Notify, Inductive, Shape
<1>3. told' \subseteq Stays \X Outcomes
  BY <1>2 DEF Notify, Inductive, TypeOK, OpType
<1>. QED
  BY <1>1, <1>3 DEF Notify, Inductive, TypeOK

LEMMA StatementFailsStep ==
    ASSUME Inductive, NEW w \in Workers, StatementFails(w) PROVE Inductive'
<1>1. Shape' /\ Owners' /\ Texts' /\ op' \in [Workers -> OpType]
  BY NextStayReleases DEF StatementFails
<1>2. budget' \in [{"fault", "crash", "request", "change"} -> Nat]
  BY SpendTyped DEF StatementFails, Inductive
<1>. QED
  BY <1>1, <1>2 DEF StatementFails, Inductive, TypeOK

LEMMA RestartStep == ASSUME Inductive, NEW w \in Workers, Restart(w) PROVE Inductive'
<1>1. IdleOp.pc = "idle"
  BY DEF IdleOp
<1>2. Shape' /\ Owners' /\ Texts' /\ op' \in [Workers -> OpType]
  BY <1>1, IdleTyped, Release DEF OwningSteps, Restart
<1>3. budget' \in [{"fault", "crash", "request", "change"} -> Nat]
  BY SpendTyped DEF Restart, Inductive
<1>. QED
  BY <1>2, <1>3 DEF Restart, Inductive, TypeOK

-----------------------------------------------------------------------------
(* Time and the rest of the backend *)

LEMMA GoesStaleStep == ASSUME Inductive, NEW s \in Stays, GoesStale(s) PROVE Inductive'
<1>1. \A w \in Workers : ~Owns(w, s)
  BY DEF GoesStale, Owns
<1>2. /\ delivery'[s].status = "sending"
      /\ \A t \in Stays : t # s => delivery'[t] = delivery[t]
      /\ delivery' \in [Stays -> [status : {"none", "sending"} \cup Outcomes,
                                  attempts : 0 .. MaxAttempts, stale : BOOLEAN]]
  BY DEF GoesStale, Inductive, TypeOK
<1>3. UNCHANGED <<op, texts>>
  BY DEF GoesStale
<1>4. TypeOK'
  BY <1>2 DEF GoesStale, Inductive, TypeOK
<1>5. Shape'
  BY <1>2, <1>3 DEF Inductive, Shape
<1>6. Owners'
  BY <1>1, <1>2, <1>3 DEF Inductive, Owners, Owns
<1>7. Texts'
  BY <1>2, <1>3 DEF Inductive, Texts, Owns
<1>. QED
  BY <1>4, <1>5, <1>6, <1>7 DEF Inductive

LEMMA EnvironmentStep ==
    ASSUME Inductive,
           \/ NextDay
           \/ \E r \in Reservations : ChangeStay(r) \/ ChangeCode(r)
    PROVE  Inductive'
<1>1. UNCHANGED <<op, delivery, texts>>
  BY DEF NextDay, ChangeStay, ChangeCode
<1>2. Shape' /\ Owners' /\ Texts'
  BY <1>1, Elsewhere
<1>3. TypeOK'
  <2>1. CASE NextDay
    BY <2>1 DEF NextDay, Inductive, TypeOK
  <2>2. ASSUME NEW r \in Reservations, ChangeStay(r) PROVE TypeOK'
    <3>1. budget' \in [{"fault", "crash", "request", "change"} -> Nat]
      BY <2>2, SpendTyped DEF ChangeStay, Inductive
    <3>2. stay' \in [Reservations -> [confirmed : BOOLEAN, date : Days, marked : BOOLEAN]]
      BY <2>2 DEF ChangeStay, Inductive, TypeOK
    <3>. QED
      BY <2>2, <3>1, <3>2 DEF ChangeStay, Inductive, TypeOK
  <2>3. ASSUME NEW r \in Reservations, ChangeCode(r) PROVE TypeOK'
    <3>1. budget' \in [{"fault", "crash", "request", "change"} -> Nat]
      BY <2>3, SpendTyped DEF ChangeCode, Inductive
    <3>. QED
      BY <2>3, <3>1 DEF ChangeCode, Inductive, TypeOK
  <2>. QED
    BY <2>1, <2>2, <2>3
<1>. QED
  BY <1>2, <1>3 DEF Inductive

-----------------------------------------------------------------------------
(* Theorems *)

LEMMA InitInductive == Init => Inductive
<1>. SUFFICES ASSUME Init PROVE Inductive
  OBVIOUS
<1>1. \A w \in Workers : op[w].pc = "idle"
  BY DEF Init, IdleOp
<1>2. TypeOK
  <2>1. /\ today \in Days
        /\ stay \in [Reservations -> [confirmed : BOOLEAN, date : Days, marked : BOOLEAN]]
    BY DEF Init
  <2>2. delivery \in [Stays -> [status : {"none", "sending"} \cup Outcomes,
                                attempts : 0 .. MaxAttempts, stale : BOOLEAN]]
    BY BoundsAreNaturals DEF Init
  <2>3. op \in [Workers -> OpType]
    BY IdleTyped DEF Init
  <2>4. budget \in [{"fault", "crash", "request", "change"} -> Nat]
    BY BoundsAreNaturals DEF Init
  <2>. QED
    BY <2>1, <2>2, <2>3, <2>4 DEF Init, TypeOK
<1>3. Shape /\ Owners /\ Texts
  BY <1>1 DEF Shape, Owners, Texts, Owns, OwningSteps, Init
<1>. QED
  BY <1>2, <1>3 DEF Inductive

LEMMA NextInductive == Inductive /\ [Next]_vars => Inductive'
<1>. SUFFICES ASSUME Inductive, [Next]_vars PROVE Inductive'
  OBVIOUS
<1>1. ASSUME NEW w \in Workers, Step(w) PROVE Inductive'
  BY <1>1, StartRunStep, TellReleasedStep, SelectDueStep, TakeStep, EndRunStep, LoadStep,
     ClaimStep, RenderStep, SendStep, MarkStep, FinishStep, NotifyStep DEF Step
<1>2. ASSUME NEW w \in Workers, StatementFails(w) \/ Restart(w) PROVE Inductive'
  BY <1>2, StatementFailsStep, RestartStep
<1>3. ASSUME NEW w \in Requests, NEW r \in Reservations, SendNow(w, r) PROVE Inductive'
  BY <1>3, SendNowStep DEF Workers
<1>4. ASSUME NEW s \in Stays, GoesStale(s) PROVE Inductive'
  BY <1>4, GoesStaleStep
<1>5. CASE NextDay \/ \E r \in Reservations : ChangeStay(r) \/ ChangeCode(r)
  BY <1>5, EnvironmentStep
<1>6. CASE UNCHANGED vars
  BY <1>6, Elsewhere DEF vars, Inductive, TypeOK
<1>. QED
  BY <1>1, <1>2, <1>3, <1>4, <1>5, <1>6 DEF Next

LEMMA AlwaysInductive == Spec => []Inductive
BY InitInductive, NextInductive, PTL DEF Spec

(* Every variable keeps its type; with it no delivery is written with more *)
(* attempts than MAX_ATTEMPTS or without an outcome (claim, finish).       *)
THEOREM MessagesTypeCorrect == Spec => []TypeOK
<1>1. Inductive => TypeOK
  BY DEF Inductive
<1>. QED
  BY <1>1, AlwaysInductive, PTL

(* Whatever backends, requests, lost answers and restarts there are, a     *)
(* guest gets at most one text for each arrival date (claim, sendViaHostex). *)
THEOREM OneText == Spec => []OneTextPerStay
<1>1. Inductive => OneTextPerStay
  BY DEF Inductive, Texts, OneTextPerStay
<1>. QED
  BY <1>1, AlwaysInductive, PTL

(* A delivery is called failed only if no text of it reached the guest, so *)
(* that the next run may try again (classifyHostexSendError, finish).      *)
THEOREM FailedMeansUnsent == Spec => []FailedWasNotSent
<1>1. Inductive => FailedWasNotSent
  BY DEF Inductive, Texts, FailedWasNotSent
<1>. QED
  BY <1>1, AlwaysInductive, PTL
=============================================================================
