------------------------- MODULE SharedResourcesProofs -------------------------
(***************************************************************************)
(* For any number of writers, apartments, lock users and connections: one  *)
(* token request serves everybody, and requests stop each other in one way *)
(* only, a circle of as many waiting writers as there are connections.     *)
(***************************************************************************)
EXTENDS SharedResources, FiniteSetTheorems, SequenceTheorems, TLAPS

-----------------------------------------------------------------------------
(* The inductive invariant *)

Waiting == {"connect", "nested", "note"}

(* The steps with a connection in hand                                     *)
Connected == {"query", "apartment", "locked", "nested", "linked", "commit", "noted"}

WriterSteps == {"idle", "connect", "query", "apartment", "locked", "nested", "linked",
                "commit", "done"}

LockUserSteps == {"idle", "connect", "query", "get", "refresh", "account", "join", "call",
                  "answered", "note", "noted", "done"}

Kinds ==
    /\ \A w \in Writers : pc[w] \in WriterSteps
    /\ \A u \in LockUsers : pc[u] \in LockUserSteps

(* Whoever waits for a connection is in the queue, once.                   *)
Queued ==
    /\ \A r \in Requests : pc[r] \in Waiting <=> \E i \in 1 .. Len(queue) : queue[i] = r
    /\ \A i, j \in 1 .. Len(queue) : queue[i] = queue[j] => i = j

(* Who has which connection depends on where the request is alone.         *)
Holding ==
    \A r \in Requests :
        /\ <<r, 1>> \in held <=> pc[r] \in Connected
        /\ <<r, 2>> \in held <=> pc[r] = "linked"

(* One token request runs at a time; who joined it is answered by it.      *)
OneRequest ==
    /\ \A u, v \in LockUsers : Acquiring(u) /\ Acquiring(v) => u = v
    /\ Joined # {} => RequestRuns

(* The refresh token in use is the newest TTLock has issued, unless there  *)
(* was trouble.                                                            *)
Newest ==
    /\ \A u \in LockUsers : pc[u] = "refresh" => token[u] = refresh /\ refresh # 0
    /\ lost = 0 /\ ended = 0 => refresh \in {0, current}

(* Tokens are not issued twice, and a refused one is never cached again.   *)
Refusals ==
    /\ session <= issued
    /\ \A u \in LockUsers : token[u] <= issued /\ rejected[u] <= issued
    /\ refresh <= issued
    /\ \A u \in LockUsers : rejected[u] # 0 => session # rejected[u]
    /\ RetryUsesAnotherToken

Inductive == TypeOK /\ Kinds /\ Queued /\ Holding /\ OneRequest /\ Newest /\ Refusals

-----------------------------------------------------------------------------
(* What the actions share *)

LEMMA RequestKinds ==
    /\ \A w \in Writers : w \in Requests /\ w \notin LockUsers
    /\ \A u \in LockUsers : u \in Requests /\ u \notin Writers
    /\ \A r \in Requests : r \in Writers \/ r \in LockUsers
BY KindsDiffer DEF Requests

LEMMA GotoMoves ==
    ASSUME TypeOK, NEW r \in Requests, NEW step \in Steps, Goto(r, step)
    PROVE  /\ pc' \in [Requests -> Steps]
           /\ pc'[r] = step
           /\ \A s \in Requests : s # r => pc'[s] = pc[s]
BY DEF TypeOK, Goto

(* Asking for a connection                                                 *)
LEMMA AskKeepsPool ==
    ASSUME Inductive, NEW r \in Requests, NEW step \in Waiting, Ask(r, step),
           pc[r] \notin Waiting \cup {"linked"},
           step = "nested" <=> pc[r] \in Connected
    PROVE  Queued' /\ Holding' /\ queue' \in Seq(Requests)
<1>1. pc'[r] = step /\ \A s \in Requests : s # r => pc'[s] = pc[s]
  BY GotoMoves DEF Inductive, Ask, Waiting, Steps
<1>2. queue \in Seq(Requests) /\ queue' = Append(queue, r) /\ Len(queue) \in Nat
  BY LenProperties DEF Inductive, TypeOK, Ask
<1>3. /\ queue' \in Seq(Requests)
      /\ Len(queue') = Len(queue) + 1
      /\ queue'[Len(queue) + 1] = r
      /\ \A i \in 1 .. Len(queue) : queue'[i] = queue[i]
  BY <1>2
<1>4. \A i \in 1 .. Len(queue) : queue[i] # r
  BY DEF Inductive, Queued
<1>5. Queued'
  <2>1. \A s \in Requests :
            pc'[s] \in Waiting <=> \E i \in 1 .. Len(queue') : queue'[i] = s
    <3>1. pc'[r] \in Waiting /\ \E i \in 1 .. Len(queue') : queue'[i] = r
      BY <1>1, <1>2, <1>3
    <3>2. ASSUME NEW s \in Requests, s # r
          PROVE  pc'[s] \in Waiting <=> \E i \in 1 .. Len(queue') : queue'[i] = s
      <4>1. pc[s] \in Waiting <=> \E i \in 1 .. Len(queue) : queue[i] = s
        BY DEF Inductive, Queued
      <4>2. \A i \in 1 .. Len(queue') : i \in 1 .. Len(queue) \/ queue'[i] = r
        BY <1>2, <1>3
      <4>3. 1 .. Len(queue) \subseteq 1 .. Len(queue')
        BY <1>2, <1>3
      <4>. QED
        BY <1>1, <1>3, <3>2, <4>1, <4>2, <4>3
    <3>. QED
      BY <3>1, <3>2
  <2>2. \A i, j \in 1 .. Len(queue') : queue'[i] = queue'[j] => i = j
    BY <1>2, <1>3, <1>4 DEF Inductive, Queued
  <2>. QED
    BY <2>1, <2>2 DEF Queued
<1>6. Holding'
  BY <1>1 DEF Inductive, Holding, Ask, Waiting, Connected
<1>. QED
  BY <1>3, <1>5, <1>6

(* A step in which nobody starts or ends to wait, or takes a connection    *)
LEMMA MoveKeepsPool ==
    ASSUME Inductive, UNCHANGED poolVars,
           \A r \in Requests :
               pc'[r] = pc[r] \/ /\ {pc[r], pc'[r]} \cap (Waiting \cup {"linked"}) = {}
                                 /\ pc[r] \in Connected <=> pc'[r] \in Connected
    PROVE  Queued' /\ Holding' /\ queue' \in Seq(Requests)
<1>1. queue' = queue /\ held' = held /\ queue \in Seq(Requests)
  BY DEF poolVars, Inductive, TypeOK
<1>2. Queued'
  BY <1>1 DEF Inductive, Queued
<1>3. Holding'
  BY <1>1 DEF Inductive, Holding
<1>. QED
  BY <1>1, <1>2, <1>3

(* Giving the connection back                                              *)
LEMMA ReleaseKeepsPool ==
    ASSUME Inductive, NEW r \in Requests, NEW step \in {"get", "done"}, Release(r, step),
           pc[r] \in {"query", "commit", "noted"}
    PROVE  Queued' /\ Holding' /\ queue' \in Seq(Requests)
<1>1. pc'[r] = step /\ \A s \in Requests : s # r => pc'[s] = pc[s]
  BY GotoMoves DEF Inductive, Release, Steps
<1>2. queue' = queue /\ queue \in Seq(Requests)
  BY DEF Inductive, TypeOK, Release
<1>3. Queued'
  BY <1>1, <1>2 DEF Inductive, Queued, Waiting
<1>4. Holding'
  <2>1. \A s \in Requests : <<s, 1>> \in held' <=> <<s, 1>> \in held /\ s # r
    BY DEF Release
  <2>2. \A s \in Requests : <<s, 2>> \in held' <=> <<s, 2>> \in held
    BY DEF Release
  <2>. QED
    BY <1>1, <2>1, <2>2 DEF Inductive, Holding, Connected
<1>. QED
  BY <1>2, <1>3, <1>4

(* A step away from the dialogue with TTLock                               *)
LEMMA AsideKeepsTokens ==
    ASSUME Inductive, UNCHANGED tokenVars,
           \A u \in LockUsers :
               pc'[u] = pc[u] \/ /\ pc[u] \notin {"refresh", "account"}
                                 /\ pc'[u] \notin {"refresh", "account", "join", "call"}
    PROVE  OneRequest' /\ Newest' /\ Refusals'
<1>1. \A u \in LockUsers : Acquiring(u)' <=> Acquiring(u)
  BY DEF Acquiring
<1>2. Joined' \subseteq Joined
  BY DEF Joined
<1>3. OneRequest'
  BY <1>1, <1>2 DEF Inductive, OneRequest, RequestRuns
<1>4. Newest'
  BY DEF Inductive, Newest, tokenVars
<1>5. Refusals'
  BY DEF Inductive, Refusals, RetryUsesAnotherToken, tokenVars
<1>. QED
  BY <1>3, <1>4, <1>5

LEMMA TokensKept ==
    ASSUME Inductive, UNCHANGED tokenVars, pc' \in [Requests -> Steps],
           queue' \in Seq(Requests), held' \subseteq Requests \X {1, 2}, Holding'
    PROVE  TypeOK'
BY RequestKinds DEF Inductive, TypeOK, tokenVars, Holding

LEMMA InitInductive == Init => Inductive
<1>. SUFFICES ASSUME Init PROVE Inductive
  OBVIOUS
<1>1. TypeOK
  BY EmptySeq DEF Init, TypeOK, Steps
<1>2. Kinds /\ Queued /\ Holding
  BY RequestKinds, EmptySeq
     DEF Init, Kinds, Queued, Holding, WriterSteps, LockUserSteps, Waiting, Connected
<1>3. OneRequest /\ Newest /\ Refusals
  BY RequestKinds DEF Init, OneRequest, Newest, Refusals, Acquiring, Joined, RetryUsesAnotherToken
<1>. QED
  BY <1>1, <1>2, <1>3 DEF Inductive

-----------------------------------------------------------------------------
(* The pool and the writers *)

LEMMA GrantStep == ASSUME Inductive, Grant PROVE Inductive'
<1>. DEFINE r == Head(queue)
<1>1. queue \in Seq(Requests) /\ queue # <<>> /\ Len(queue) \in Nat /\ Len(queue) >= 1
  BY LenProperties, EmptySeq DEF Inductive, TypeOK, Grant
<1>2. r \in Requests /\ r = queue[1]
  BY <1>1, HeadTailProperties
<1>3. pc[r] \in Waiting
  BY <1>1, <1>2 DEF Inductive, Queued
<1>4. /\ queue' \in Seq(Requests)
      /\ Len(queue') = Len(queue) - 1
      /\ \A i \in 1 .. Len(queue') : queue'[i] = queue[i + 1]
  BY <1>1, HeadTailProperties DEF Grant
<1>5. Granted(pc[r]) \in {"query", "linked", "noted"}
  BY <1>3 DEF Granted, Waiting
<1>6. /\ pc' \in [Requests -> Steps]
      /\ pc'[r] = Granted(pc[r])
      /\ \A s \in Requests : s # r => pc'[s] = pc[s]
  BY <1>2, <1>5, GotoMoves DEF Grant, Inductive, Steps
<1>7. held' = held \cup {Connection(r, pc[r])} /\ UNCHANGED tokenVars
  BY DEF Grant
<1>. HIDE DEF r
<1>8. \A i \in 1 .. Len(queue') : queue'[i] # r
  BY <1>1, <1>2, <1>4 DEF Inductive, Queued
<1>9. Queued'
  <2>1. \A s \in Requests :
            pc'[s] \in Waiting <=> \E i \in 1 .. Len(queue') : queue'[i] = s
    <3>1. pc'[r] \notin Waiting
      BY <1>5, <1>6 DEF Waiting
    <3>2. ASSUME NEW s \in Requests, s # r
          PROVE  pc'[s] \in Waiting <=> \E i \in 1 .. Len(queue') : queue'[i] = s
      <4>1. pc[s] \in Waiting <=> \E i \in 1 .. Len(queue) : queue[i] = s
        BY DEF Inductive, Queued
      <4>2. ASSUME NEW i \in 1 .. Len(queue), queue[i] = s
            PROVE  \E j \in 1 .. Len(queue') : queue'[j] = s
        <5>1. i # 1
          BY <1>2, <3>2, <4>2
        <5>2. i - 1 \in 1 .. Len(queue') /\ queue'[i - 1] = queue[(i - 1) + 1] /\ (i - 1) + 1 = i
          BY <1>1, <1>4, <5>1
        <5>. QED
          BY <4>2, <5>2
      <4>3. \A j \in 1 .. Len(queue') : j + 1 \in 1 .. Len(queue)
        BY <1>1, <1>4
      <4>. QED
        BY <1>4, <1>6, <3>2, <4>1, <4>2, <4>3
    <3>. QED
      BY <1>8, <3>1, <3>2
  <2>2. \A i, j \in 1 .. Len(queue') : queue'[i] = queue'[j] => i = j
    BY <1>1, <1>4 DEF Inductive, Queued
  <2>. QED
    BY <2>1, <2>2 DEF Queued
<1>10. pc[r] = "nested" => r \in Writers
  BY <1>2, RequestKinds DEF Inductive, Kinds, LockUserSteps
<1>11. Holding'
  <2>1. ASSUME NEW s \in Requests, s # r
        PROVE  /\ <<s, 1>> \in held' <=> <<s, 1>> \in held
               /\ <<s, 2>> \in held' <=> <<s, 2>> \in held
    BY <1>7, <2>1 DEF Connection
  <2>2. CASE pc[r] = "nested"
    BY <1>2, <1>6, <1>7, <2>1, <2>2
       DEF Inductive, Holding, Granted, Connection, Connected
  <2>3. CASE pc[r] \in {"connect", "note"}
    <3>1. Granted(pc[r]) \in {"query", "noted"} /\ Connection(r, pc[r]) = <<r, 1>>
      BY <2>3 DEF Granted, Connection
    <3>2. <<r, 1>> \in held' /\ <<r, 2>> \notin held'
      BY <1>2, <1>7, <2>3, <3>1 DEF Inductive, Holding
    <3>3. pc'[r] \in Connected /\ pc'[r] # "linked"
      BY <1>6, <3>1 DEF Connected
    <3>. QED
      BY <1>2, <1>6, <2>1, <3>2, <3>3 DEF Inductive, Holding
  <2>. QED
    BY <1>3, <2>2, <2>3 DEF Waiting
<1>12. Kinds'
  <2>1. CASE r \in Writers
    BY <1>3, <1>6, <2>1, RequestKinds
       DEF Inductive, Kinds, WriterSteps, LockUserSteps, Granted, Waiting
  <2>2. CASE r \in LockUsers
    BY <1>3, <1>6, <2>2, RequestKinds
       DEF Inductive, Kinds, WriterSteps, LockUserSteps, Granted, Waiting
  <2>. QED
    BY <1>2, <2>1, <2>2, RequestKinds
<1>13. OneRequest' /\ Newest' /\ Refusals'
  BY <1>3, <1>5, <1>6, <1>7, AsideKeepsTokens, RequestKinds DEF Waiting
<1>14. held' \subseteq Requests \X {1, 2}
  BY <1>2, <1>7 DEF Connection, Inductive, TypeOK
<1>15. TypeOK'
  BY <1>4, <1>6, <1>7, <1>11, <1>14, TokensKept
<1>. QED
  BY <1>9, <1>11, <1>12, <1>13, <1>15 DEF Inductive

(* A request starts, or notes its result: it waits for a connection.       *)
LEMMA AskStep ==
    ASSUME Inductive, NEW r \in Requests, NEW step \in Waiting, Ask(r, step),
           UNCHANGED tokenVars,
           \/ pc[r] = "idle" /\ step = "connect"
           \/ pc[r] = "locked" /\ step = "nested"
           \/ pc[r] = "answered" /\ step = "note"
    PROVE  Inductive'
<1>1. /\ pc' \in [Requests -> Steps]
      /\ pc'[r] = step
      /\ \A s \in Requests : s # r => pc'[s] = pc[s]
  BY GotoMoves DEF Inductive, Ask, Waiting, Steps
<1>2. Queued' /\ Holding' /\ queue' \in Seq(Requests)
  BY AskKeepsPool DEF Waiting, Connected
<1>3. Kinds'
  BY <1>1, RequestKinds DEF Inductive, Kinds, WriterSteps, LockUserSteps
<1>4. OneRequest' /\ Newest' /\ Refusals'
  BY <1>1, AsideKeepsTokens, RequestKinds DEF Waiting
<1>5. TypeOK'
  BY <1>1, <1>2, TokensKept DEF Ask, Inductive, TypeOK
<1>. QED
  BY <1>2, <1>3, <1>4, <1>5 DEF Inductive

(* A request goes on without the pool and without TTLock.                  *)
LEMMA MoveStep ==
    ASSUME Inductive, NEW r \in Requests, NEW step \in Steps, Goto(r, step),
           UNCHANGED <<poolVars, tokenVars>>,
           \/ pc[r] = "query" /\ step = "apartment" /\ r \in Writers
           \/ pc[r] = "apartment" /\ step = "locked"
           \/ pc[r] = "locked" /\ step = "commit"
           \/ pc[r] = "call" /\ step = "answered"
    PROVE  Inductive'
<1>1. /\ pc' \in [Requests -> Steps]
      /\ pc'[r] = step
      /\ \A s \in Requests : s # r => pc'[s] = pc[s]
  BY GotoMoves DEF Inductive
<1>2. Queued' /\ Holding' /\ queue' \in Seq(Requests)
  BY <1>1, MoveKeepsPool DEF Waiting, Connected
<1>3. Kinds'
  BY <1>1, RequestKinds DEF Inductive, Kinds, WriterSteps, LockUserSteps
<1>4. OneRequest' /\ Newest' /\ Refusals'
  BY <1>1, AsideKeepsTokens, RequestKinds
<1>5. TypeOK'
  BY <1>1, <1>2, TokensKept DEF poolVars, Inductive, TypeOK
<1>. QED
  BY <1>2, <1>3, <1>4, <1>5 DEF Inductive

LEMMA ReleaseStep ==
    ASSUME Inductive, NEW r \in Requests, NEW step \in {"get", "done"}, Release(r, step),
           UNCHANGED tokenVars,
           \/ pc[r] = "query" /\ step = "get" /\ r \in LockUsers
           \/ pc[r] \in {"commit", "noted"} /\ step = "done"
    PROVE  Inductive'
<1>1. /\ pc' \in [Requests -> Steps]
      /\ pc'[r] = step
      /\ \A s \in Requests : s # r => pc'[s] = pc[s]
  BY GotoMoves DEF Inductive, Release, Steps
<1>2. Queued' /\ Holding' /\ queue' \in Seq(Requests)
  BY ReleaseKeepsPool
<1>3. Kinds'
  BY <1>1, RequestKinds DEF Inductive, Kinds, WriterSteps, LockUserSteps
<1>4. OneRequest' /\ Newest' /\ Refusals'
  BY <1>1, AsideKeepsTokens, RequestKinds
<1>5. TypeOK'
  BY <1>1, <1>2, TokensKept DEF Release, Inductive, TypeOK
<1>. QED
  BY <1>2, <1>3, <1>4, <1>5 DEF Inductive

LEMMA LinkedStep ==
    ASSUME Inductive, NEW w \in Writers, Linked(w)
    PROVE  Inductive'
<1>1. w \in Requests
  BY RequestKinds
<1>2. /\ pc' \in [Requests -> Steps]
      /\ pc'[w] = "commit"
      /\ \A s \in Requests : s # w => pc'[s] = pc[s]
  BY <1>1, GotoMoves DEF Inductive, Linked, Steps
<1>3. queue' = queue /\ UNCHANGED tokenVars /\ pc[w] = "linked"
  BY DEF Linked
<1>4. Queued'
  BY <1>2, <1>3 DEF Inductive, Queued, Waiting
<1>5. Holding'
  <2>1. \A s \in Requests : <<s, 2>> \in held' <=> <<s, 2>> \in held /\ s # w
    BY DEF Linked, AfterQuery
  <2>2. \A s \in Requests : <<s, 1>> \in held' <=> <<s, 1>> \in held
    BY DEF Linked, AfterQuery
  <2>. QED
    BY <1>2, <1>3, <2>1, <2>2 DEF Inductive, Holding, Connected
<1>6. Kinds'
  BY <1>2, RequestKinds DEF Inductive, Kinds, WriterSteps
<1>7. OneRequest' /\ Newest' /\ Refusals'
  BY <1>2, <1>3, AsideKeepsTokens, RequestKinds
<1>8. TypeOK'
  BY <1>2, <1>3, <1>5, TokensKept DEF Linked, AfterQuery, Inductive, TypeOK
<1>. QED
  BY <1>4, <1>5, <1>6, <1>7, <1>8 DEF Inductive

LEMMA WriterStep ==
    ASSUME Inductive, NEW w \in Writers, StartWrite(w) \/ Write(w)
    PROVE  Inductive'
<1>1. w \in Requests
  BY RequestKinds
<1>2. CASE StartWrite(w)
  BY <1>1, <1>2, AskStep DEF StartWrite, Waiting
<1>3. CASE Begin(w)
  BY <1>1, <1>3, MoveStep DEF Begin, Steps
<1>4. CASE LockApartment(w)
  BY <1>1, <1>4, MoveStep DEF LockApartment, Steps
<1>5. CASE AskAgain(w)
  BY <1>1, <1>5, AskStep DEF AskAgain, Waiting
<1>6. CASE WriteLocally(w)
  BY <1>1, <1>6, MoveStep DEF WriteLocally, Steps
<1>7. CASE Linked(w)
  BY <1>7, LinkedStep
<1>8. CASE EndWrite(w)
  BY <1>1, <1>8, ReleaseStep DEF EndWrite
<1>. QED
  BY <1>2, <1>3, <1>4, <1>5, <1>6, <1>7, <1>8 DEF Write

-----------------------------------------------------------------------------
(* The dialogue with TTLock *)

Dialogue == {"get", "refresh", "account", "join", "call"}

(* Nobody in the dialogue has a connection or waits for one.               *)
LEMMA DialogueKeepsPool ==
    ASSUME Inductive, UNCHANGED poolVars, pc' \in [Requests -> Steps],
           \A r \in Requests :
               pc'[r] = pc[r] \/ /\ r \in LockUsers
                                 /\ pc[r] \in Dialogue
                                 /\ pc'[r] \in Dialogue \cup {"answered"}
    PROVE  /\ Kinds' /\ Queued' /\ Holding'
           /\ queue' \in Seq(Requests) /\ held' \subseteq Requests \X {1, 2}
           /\ \A w \in Writers : <<w, 2>> \in held' => pc'[w] = "linked"
<1>1. Queued' /\ Holding' /\ queue' \in Seq(Requests)
  BY MoveKeepsPool DEF Dialogue, Waiting, Connected
<1>2. Kinds'
  BY RequestKinds DEF Inductive, Kinds, Dialogue, LockUserSteps
<1>3. held' \subseteq Requests \X {1, 2}
  BY DEF poolVars, Inductive, TypeOK
<1>. QED
  BY <1>1, <1>2, <1>3, RequestKinds DEF Holding

(* One request goes on in the dialogue.                                    *)
LEMMA DialogueMoves ==
    ASSUME Inductive, NEW u \in LockUsers, NEW step \in Dialogue \cup {"answered"}, Goto(u, step),
           pc[u] \in Dialogue, UNCHANGED poolVars
    PROVE  /\ pc' \in [Requests -> Steps]
           /\ pc'[u] = step
           /\ \A v \in LockUsers : v # u => pc'[v] = pc[v]
           /\ Kinds' /\ Queued' /\ Holding'
           /\ queue' \in Seq(Requests) /\ held' \subseteq Requests \X {1, 2}
           /\ \A w \in Writers : <<w, 2>> \in held' => pc'[w] = "linked"
<1>1. u \in Requests /\ step \in Steps
  BY RequestKinds DEF Dialogue, Steps
<1>2. /\ pc' \in [Requests -> Steps]
      /\ pc'[u] = step
      /\ \A s \in Requests : s # u => pc'[s] = pc[s]
  BY <1>1, GotoMoves DEF Inductive
<1>. QED
  BY <1>2, DialogueKeepsPool, RequestKinds

LEMMA UseSessionStep ==
    ASSUME Inductive, NEW u \in LockUsers, UseSession(u)
    PROVE  Inductive'
<1>1. /\ pc' \in [Requests -> Steps]
      /\ pc'[u] = "call"
      /\ \A v \in LockUsers : v # u => pc'[v] = pc[v]
      /\ Kinds' /\ Queued' /\ Holding'
      /\ queue' \in Seq(Requests) /\ held' \subseteq Requests \X {1, 2}
      /\ \A w \in Writers : <<w, 2>> \in held' => pc'[w] = "linked"
  BY DialogueMoves DEF UseSession, Dialogue
<1>2. /\ token'[u] = session
      /\ \A v \in LockUsers : v # u => token'[v] = token[v]
      /\ token' \in [LockUsers -> Nat]
      /\ pc[u] = "get"
  BY DEF UseSession, Inductive, TypeOK
<1>3. UNCHANGED <<account, rejected, session, refresh, issued, valid, current, lost, ended>>
  BY DEF UseSession
<1>4. TypeOK'
  BY <1>1, <1>2, <1>3 DEF Inductive, TypeOK
<1>5. OneRequest'
  BY <1>1, <1>2 DEF Inductive, OneRequest, RequestRuns, Acquiring, Joined
<1>6. Newest'
  BY <1>1, <1>2, <1>3 DEF Inductive, Newest
<1>7. Refusals'
  BY <1>1, <1>2, <1>3 DEF Inductive, Refusals, RetryUsesAnotherToken
<1>. QED
  BY <1>1, <1>4, <1>5, <1>6, <1>7 DEF Inductive

LEMMA JoinRequestStep ==
    ASSUME Inductive, NEW u \in LockUsers, JoinRequest(u)
    PROVE  Inductive'
<1>1. /\ pc' \in [Requests -> Steps]
      /\ pc'[u] = "join"
      /\ \A v \in LockUsers : v # u => pc'[v] = pc[v]
      /\ Kinds' /\ Queued' /\ Holding'
      /\ queue' \in Seq(Requests) /\ held' \subseteq Requests \X {1, 2}
      /\ \A w \in Writers : <<w, 2>> \in held' => pc'[w] = "linked"
  BY DialogueMoves DEF JoinRequest, Dialogue
<1>2. pc[u] = "get" /\ RequestRuns /\ UNCHANGED tokenVars
  BY DEF JoinRequest
<1>3. TypeOK'
  BY <1>1, <1>2, TokensKept DEF poolVars
<1>4. OneRequest'
  BY <1>1, <1>2 DEF Inductive, OneRequest, RequestRuns, Acquiring, Joined
<1>5. Newest'
  BY <1>1, <1>2 DEF Inductive, Newest, tokenVars
<1>6. Refusals'
  BY <1>1, <1>2 DEF Inductive, Refusals, RetryUsesAnotherToken, tokenVars
<1>. QED
  BY <1>1, <1>3, <1>4, <1>5, <1>6 DEF Inductive

LEMMA AcquireTokenStep ==
    ASSUME Inductive, NEW u \in LockUsers, AcquireToken(u)
    PROVE  Inductive'
<1>. DEFINE step == CASE refresh # 0  -> "refresh"
                      [] refresh = 0 /\ account  -> "account"
                      [] refresh = 0 /\ ~account -> "answered"
<1>1. account \in BOOLEAN
  BY AccountsAreBoolean DEF Inductive, TypeOK
<1>2. step \in {"refresh", "account", "answered"} /\ (step = "refresh" => refresh # 0)
  BY <1>1
<1>3. Goto(u, step) /\ UNCHANGED poolVars /\ pc[u] = "get" /\ ~RequestRuns
  BY DEF AcquireToken
<1>. HIDE DEF step
<1>4. /\ pc' \in [Requests -> Steps]
      /\ pc'[u] = step
      /\ \A v \in LockUsers : v # u => pc'[v] = pc[v]
      /\ Kinds' /\ Queued' /\ Holding'
      /\ queue' \in Seq(Requests) /\ held' \subseteq Requests \X {1, 2}
      /\ \A w \in Writers : <<w, 2>> \in held' => pc'[w] = "linked"
  BY <1>2, <1>3, DialogueMoves DEF Dialogue
<1>5. /\ token'[u] = refresh
      /\ \A v \in LockUsers : v # u => token'[v] = token[v]
      /\ token' \in [LockUsers -> Nat]
  BY DEF AcquireToken, Inductive, TypeOK
<1>6. UNCHANGED <<account, rejected, session, refresh, issued, valid, current, lost, ended>>
  BY DEF AcquireToken
<1>7. TypeOK'
  BY <1>4, <1>5, <1>6 DEF Inductive, TypeOK
<1>8. OneRequest'
  <2>1. \A v \in LockUsers : Acquiring(v)' => v = u
    BY <1>3, <1>4 DEF RequestRuns, Acquiring
  <2>2. Joined' = {}
    BY <1>2, <1>3, <1>4 DEF Inductive, OneRequest, Joined
  <2>. QED
    BY <2>1, <2>2 DEF OneRequest
<1>9. Newest'
  BY <1>2, <1>4, <1>5, <1>6 DEF Inductive, Newest
<1>10. Refusals'
  BY <1>2, <1>4, <1>5, <1>6 DEF Inductive, Refusals, RetryUsesAnotherToken
<1>. QED
  BY <1>4, <1>7, <1>8, <1>9, <1>10 DEF Inductive

LEMMA IssueTyped ==
    ASSUME Inductive, Issue \/ UNCHANGED <<issued, valid, current>>
    PROVE  /\ issued \in Nat /\ issued' \in Nat /\ current' \in Nat
           /\ issued' >= issued /\ valid' \subseteq 1 .. issued'
           /\ Issue => issued' = issued + 1 /\ current' = issued + 1
<1>1. issued \in Nat /\ current \in Nat /\ valid \subseteq 1 .. issued
  BY DEF Inductive, TypeOK
<1>2. CASE Issue
  <2>1. issued' = issued + 1 /\ current' = issued + 1
    BY <1>2 DEF Issue
  <2>2. valid' = {issued + 1} \/ valid' = valid \cup {issued + 1}
    BY <1>2 DEF Issue
  <2>3. 1 .. issued \subseteq 1 .. (issued + 1) /\ issued + 1 \in 1 .. (issued + 1)
    BY <1>1
  <2>4. valid' \subseteq 1 .. (issued + 1)
    BY <1>1, <2>2, <2>3
  <2>. QED
    BY <1>1, <2>1, <2>4
<1>3. CASE UNCHANGED <<issued, valid, current>> /\ ~Issue
  BY <1>1, <1>3
<1>. QED
  BY <1>2, <1>3

(* The answer arrives: the new pair is for everyone who waits for it.      *)
LEMMA DeliverStep ==
    ASSUME Inductive, NEW u \in LockUsers, Acquiring(u), Issue, Deliver(u),
           UNCHANGED <<poolVars, account, rejected, lost, ended>>
    PROVE  Inductive'
<1>. DEFINE Settled == Joined \cup {u}
<1>1. /\ Settled \subseteq LockUsers
      /\ \A r \in Settled : pc[r] \in Dialogue
      /\ \A v \in LockUsers \ Settled : pc[v] # "join" /\ ~Acquiring(v)
  BY DEF Joined, Acquiring, Dialogue, Inductive, OneRequest
<1>2. /\ pc' \in [Requests -> Steps]
      /\ \A r \in Requests : pc'[r] = IF r \in Settled THEN "call" ELSE pc[r]
      /\ token' = [v \in LockUsers |-> IF v \in Settled THEN issued + 1 ELSE token[v]]
      /\ session' = issued + 1 /\ refresh' = issued + 1
  BY DEF Deliver, Steps, Inductive, TypeOK
<1>. HIDE DEF Settled
<1>3. /\ Kinds' /\ Queued' /\ Holding'
      /\ queue' \in Seq(Requests) /\ held' \subseteq Requests \X {1, 2}
      /\ \A w \in Writers : <<w, 2>> \in held' => pc'[w] = "linked"
  BY <1>1, <1>2, DialogueKeepsPool DEF Dialogue
<1>4. /\ issued \in Nat /\ issued' = issued + 1 /\ current' = issued + 1
      /\ valid' \subseteq 1 .. issued'
  BY IssueTyped
<1>5. token' \in [LockUsers -> Nat]
  BY <1>2, <1>4 DEF Inductive, TypeOK
<1>6. TypeOK'
  BY <1>2, <1>3, <1>4, <1>5 DEF Inductive, TypeOK
<1>7. OneRequest'
  BY <1>1, <1>2, RequestKinds DEF OneRequest, Joined, Acquiring
<1>8. Newest'
  BY <1>1, <1>2, <1>4, RequestKinds DEF Newest, Acquiring
<1>9. Refusals'
  <2>1. /\ session \in Nat /\ session <= issued /\ refresh' <= issued' /\ session' <= issued'
        /\ \A v \in LockUsers : /\ token[v] \in Nat /\ rejected[v] \in Nat
                                /\ token[v] <= issued /\ rejected[v] <= issued
    BY <1>2, <1>4 DEF Inductive, TypeOK, Refusals
  <2>2. \A v \in LockUsers : token'[v] = IF v \in Settled THEN issued + 1 ELSE token[v]
    BY <1>2
  <2>3. \A v \in LockUsers : token'[v] <= issued' /\ rejected'[v] <= issued' /\ session' # rejected'[v]
    BY <1>2, <1>4, <2>1, <2>2
  <2>4. RetryUsesAnotherToken'
    <3>. SUFFICES ASSUME NEW v \in LockUsers, pc'[v] = "call", rejected'[v] # 0
                  PROVE  token'[v] # rejected'[v]
      BY DEF RetryUsesAnotherToken
    <3>1. CASE v \in Settled
      BY <1>4, <2>1, <2>2, <3>1
    <3>2. CASE v \notin Settled
      BY <1>2, <2>2, <3>2, RequestKinds DEF Inductive, Refusals, RetryUsesAnotherToken
    <3>. QED
      BY <3>1, <3>2
  <2>. QED
    BY <2>1, <2>3, <2>4 DEF Refusals
<1>. QED
  BY <1>3, <1>6, <1>7, <1>8, <1>9 DEF Inductive

(* No pair arrives: the account is tried, or everyone who waits fails.     *)
(* Only if the answer was lost may TTLock have issued one.                 *)
LEMMA NoPairStep ==
    ASSUME Inductive, NEW u \in LockUsers, Acquiring(u),
           \/ pc[u] = "refresh" /\ Fallback(u)
           \/ Fail(u),
           Issue \/ UNCHANGED <<issued, valid, current>>,
           lost' \in Nat, lost' >= lost, Issue => lost' > lost,
           UNCHANGED <<poolVars, account, rejected, ended>>
    PROVE  Inductive'
<1>. DEFINE Dropped ==
      /\ pc' \in [Requests -> Steps]
      /\ Kinds' /\ Queued' /\ Holding'
      /\ queue' \in Seq(Requests) /\ held' \subseteq Requests \X {1, 2}
      /\ \A w \in Writers : <<w, 2>> \in held' => pc'[w] = "linked"
      /\ OneRequest'
      /\ \A v \in LockUsers : pc'[v] # "refresh"
      /\ \A v \in LockUsers : pc'[v] = "call" => pc[v] = "call"
<1>1. /\ issued \in Nat /\ issued' \in Nat /\ current' \in Nat
      /\ issued' >= issued /\ valid' \subseteq 1 .. issued'
  BY IssueTyped
<1>2. UNCHANGED <<token, session>> /\ refresh' \in {refresh, 0}
  BY DEF Fallback, Fail
<1>3. lost' = 0 => lost = 0 /\ current' = current
  BY DEF Inductive, TypeOK
<1>4. Dropped
  <2>1. ASSUME pc[u] = "refresh", account, Goto(u, "account")
        PROVE  Dropped
    <3>1. /\ pc' \in [Requests -> Steps]
          /\ pc'[u] = "account"
          /\ \A v \in LockUsers : v # u => pc'[v] = pc[v]
          /\ Kinds' /\ Queued' /\ Holding'
          /\ queue' \in Seq(Requests) /\ held' \subseteq Requests \X {1, 2}
          /\ \A w \in Writers : <<w, 2>> \in held' => pc'[w] = "linked"
      BY <2>1, DialogueMoves DEF Dialogue
    <3>2. \A v \in LockUsers : v # u => ~Acquiring(v)
      BY DEF Inductive, OneRequest
    <3>3. OneRequest'
      BY <3>1, <3>2 DEF OneRequest, RequestRuns, Acquiring
    <3>. QED
      BY <3>1, <3>2, <3>3 DEF Acquiring
  <2>2. ASSUME Fail(u)
        PROVE  Dropped
    <3>. DEFINE Settled == Joined \cup {u}
    <3>1. /\ Settled \subseteq LockUsers
          /\ \A r \in Settled : pc[r] \in Dialogue
          /\ \A v \in LockUsers \ Settled : pc[v] # "join" /\ ~Acquiring(v)
      BY DEF Joined, Acquiring, Dialogue, Inductive, OneRequest
    <3>2. /\ pc' \in [Requests -> Steps]
          /\ \A r \in Requests : pc'[r] = IF r \in Settled THEN "answered" ELSE pc[r]
      BY <2>2 DEF Fail, Failing, Steps, Inductive, TypeOK
    <3>. HIDE DEF Settled
    <3>3. /\ Kinds' /\ Queued' /\ Holding'
          /\ queue' \in Seq(Requests) /\ held' \subseteq Requests \X {1, 2}
          /\ \A w \in Writers : <<w, 2>> \in held' => pc'[w] = "linked"
      BY <3>1, <3>2, DialogueKeepsPool DEF Dialogue
    <3>4. OneRequest'
      BY <3>1, <3>2, RequestKinds DEF OneRequest, Joined, Acquiring
    <3>. QED
      BY <3>1, <3>2, <3>3, <3>4, RequestKinds DEF Acquiring
  <2>3. CASE Fail(u)
    BY <2>2, <2>3
  <2>4. CASE pc[u] = "refresh" /\ account /\ Goto(u, "account")
    BY <2>1, <2>4
  <2>. QED
    BY <2>3, <2>4 DEF Fallback
<1>5. TypeOK'
  BY <1>1, <1>2, <1>4 DEF Inductive, TypeOK
<1>6. Newest'
  BY <1>2, <1>3, <1>4 DEF Inductive, Newest
<1>7. Refusals'
  <2>1. /\ session \in Nat /\ session <= issued /\ refresh \in Nat /\ refresh <= issued
        /\ \A v \in LockUsers : /\ token[v] \in Nat /\ rejected[v] \in Nat
                                /\ token[v] <= issued /\ rejected[v] <= issued
    BY DEF Inductive, TypeOK, Refusals
  <2>2. session <= issued' /\ refresh' <= issued'
    BY <1>1, <1>2, <2>1
  <2>3. \A v \in LockUsers : token[v] <= issued' /\ rejected[v] <= issued'
    BY <1>1, <2>1
  <2>. QED
    BY <1>2, <1>4, <2>2, <2>3 DEF Inductive, Refusals, RetryUsesAnotherToken
<1>. QED
  BY <1>4, <1>5, <1>6, <1>7 DEF Inductive

LEMMA RefusedStep ==
    ASSUME Inductive, NEW u \in LockUsers, Refused(u)
    PROVE  Inductive'
<1>. DEFINE step == IF rejected[u] = 0 THEN "get" ELSE "answered"
<1>1. Goto(u, step) /\ pc[u] = "call" /\ UNCHANGED poolVars /\ step \in {"get", "answered"}
  BY DEF Refused
<1>2. UNCHANGED <<account, token, refresh, issued, valid, current, lost, ended>>
  BY DEF Refused
<1>3. /\ rejected' \in [LockUsers -> Nat]
      /\ session' \in {session, 0}
      /\ \A v \in LockUsers :
            \/ rejected'[v] = rejected[v]
            \/ v = u /\ rejected'[v] = token[v] /\ session' = 0 /\ step = "get"
  BY DEF Refused, SessionAfterRefusal, Inductive, TypeOK
<1>. HIDE DEF step
<1>4. /\ pc' \in [Requests -> Steps]
      /\ pc'[u] = step
      /\ \A v \in LockUsers : v # u => pc'[v] = pc[v]
      /\ Kinds' /\ Queued' /\ Holding'
      /\ queue' \in Seq(Requests) /\ held' \subseteq Requests \X {1, 2}
      /\ \A w \in Writers : <<w, 2>> \in held' => pc'[w] = "linked"
  BY <1>1, DialogueMoves DEF Dialogue
<1>5. TypeOK'
  BY <1>2, <1>3, <1>4 DEF Inductive, TypeOK
<1>6. OneRequest'
  BY <1>1, <1>4 DEF Inductive, OneRequest, RequestRuns, Acquiring, Joined
<1>7. Newest'
  BY <1>1, <1>2, <1>4 DEF Inductive, Newest
<1>8. Refusals'
  <2>1. /\ session <= issued /\ refresh <= issued /\ issued \in Nat
        /\ \A v \in LockUsers : token[v] <= issued /\ rejected[v] <= issued
        /\ \A v \in LockUsers : rejected[v] # 0 => session # rejected[v]
    BY DEF Inductive, TypeOK, Refusals
  <2>2. session' <= issued'
    BY <1>2, <1>3, <2>1
  <2>3. \A v \in LockUsers : token'[v] <= issued' /\ rejected'[v] <= issued'
    BY <1>2, <1>3, <2>1
  <2>4. \A v \in LockUsers : rejected'[v] # 0 => session' # rejected'[v]
    BY <1>3, <2>1
  <2>5. RetryUsesAnotherToken'
    BY <1>1, <1>2, <1>3, <1>4 DEF Inductive, Refusals, RetryUsesAnotherToken
  <2>. QED
    BY <1>2, <2>1, <2>2, <2>3, <2>4, <2>5 DEF Refusals
<1>. QED
  BY <1>4, <1>5, <1>6, <1>7, <1>8 DEF Inductive

LEMMA LockUserStep ==
    ASSUME Inductive, NEW u \in LockUsers, StartRead(u) \/ UseLock(u) \/ TokenAnswerLost(u)
    PROVE  Inductive'
<1>0. u \in Requests
  BY RequestKinds
<1>1. CASE StartRead(u)
  BY <1>0, <1>1, AskStep DEF StartRead, Waiting
<1>2. CASE Read(u)
  BY <1>0, <1>2, ReleaseStep DEF Read
<1>3. CASE UseSession(u)
  BY <1>3, UseSessionStep
<1>4. CASE JoinRequest(u)
  BY <1>4, JoinRequestStep
<1>5. CASE AcquireToken(u)
  BY <1>5, AcquireTokenStep
<1>6. CASE RefreshToken(u)
  <2>1. Acquiring(u) /\ UNCHANGED <<poolVars, account, rejected, lost, ended>> /\ pc[u] = "refresh"
    BY <1>6 DEF RefreshToken, Acquiring
  <2>2. CASE token[u] = current
    BY <1>6, <2>1, <2>2, DeliverStep DEF RefreshToken
  <2>3. CASE token[u] # current
    <3>1. Fallback(u) /\ UNCHANGED <<issued, valid, current>>
      BY <1>6, <2>3 DEF RefreshToken
    <3>2. ~Issue
      BY <3>1 DEF Issue, Inductive, TypeOK
    <3>3. lost' \in Nat /\ lost' >= lost
      BY <2>1 DEF Inductive, TypeOK
    <3>. QED
      BY <2>1, <3>1, <3>2, <3>3, NoPairStep
  <2>. QED
    BY <2>2, <2>3
<1>7. CASE UseAccount(u)
  BY <1>7, DeliverStep DEF UseAccount, Acquiring
<1>8. CASE Call(u)
  BY <1>0, <1>8, MoveStep DEF Call, Steps
<1>9. CASE Refused(u)
  BY <1>9, RefusedStep
<1>10. CASE Note(u)
  BY <1>0, <1>10, AskStep DEF Note, Waiting
<1>11. CASE EndRead(u)
  BY <1>0, <1>11, ReleaseStep DEF EndRead
<1>12. CASE TokenAnswerLost(u)
  <2>1. lost \in Nat /\ lost' = lost + 1
    BY <1>12 DEF TokenAnswerLost, Inductive, TypeOK
  <2>. QED
    BY <1>12, <2>1, NoPairStep DEF TokenAnswerLost
<1>. QED
  BY <1>1, <1>2, <1>3, <1>4, <1>5, <1>6, <1>7, <1>8, <1>9, <1>10, <1>11, <1>12 DEF UseLock

-----------------------------------------------------------------------------
(* The theorems *)

LEMMA TroubleStep ==
    ASSUME Inductive, TokensEnd \/ SessionExpires
    PROVE  Inductive'
<1>1. /\ UNCHANGED <<pc, poolVars, account, token, rejected, refresh, issued, lost>>
      /\ session' \in {session, 0} /\ current' \in {current, 0}
      /\ valid' \subseteq valid /\ ended' = ended + 1
  BY DEF TokensEnd, SessionExpires
<1>2. ended \in Nat /\ ended' \in Nat /\ ended' # 0
  BY <1>1 DEF Inductive, TypeOK
<1>3. TypeOK'
  BY <1>1, <1>2 DEF Inductive, TypeOK, poolVars
<1>4. Kinds' /\ Queued' /\ Holding' /\ OneRequest'
  BY <1>1 DEF Inductive, Kinds, Queued, Holding, OneRequest, RequestRuns, Acquiring, Joined,
              poolVars
<1>5. Newest'
  BY <1>1, <1>2 DEF Inductive, Newest
<1>6. Refusals'
  BY <1>1 DEF Inductive, TypeOK, Refusals, RetryUsesAnotherToken
<1>. QED
  BY <1>3, <1>4, <1>5, <1>6 DEF Inductive

LEMMA Stutter == Inductive /\ UNCHANGED vars => Inductive'
BY DEF Inductive, TypeOK, Kinds, Queued, Holding, OneRequest, RequestRuns, Acquiring, Joined,
       Newest, Refusals, RetryUsesAnotherToken, vars, poolVars, tokenVars

LEMMA NextInductive == Inductive /\ [Next]_vars => Inductive'
<1>. SUFFICES ASSUME Inductive, [Next]_vars PROVE Inductive'
  OBVIOUS
<1>1. ASSUME NEW w \in Writers, StartWrite(w) \/ Write(w) PROVE Inductive'
  BY <1>1, WriterStep
<1>2. ASSUME NEW u \in LockUsers, StartRead(u) \/ UseLock(u) \/ TokenAnswerLost(u)
      PROVE  Inductive'
  BY <1>2, LockUserStep
<1>3. CASE Grant
  BY <1>3, GrantStep
<1>4. CASE TokensEnd \/ SessionExpires
  BY <1>4, TroubleStep
<1>5. CASE UNCHANGED vars
  BY <1>5, Stutter
<1>. QED
  BY <1>1, <1>2, <1>3, <1>4, <1>5 DEF Next

LEMMA AlwaysInductive == Spec => []Inductive
BY InitInductive, NextInductive, PTL DEF Spec

(* The state of the pool and of the session has the form the code gives    *)
(* it: each connection is checked out by a request that is at a step of    *)
(* its own with one in hand, and TTLock accepts no token it never issued.  *)
THEOREM SharedTypeCorrect == Spec => []TypeOK
<1>1. Inductive => TypeOK
  BY DEF Inductive
<1>. QED
  BY <1>1, AlwaysInductive, PTL

(* tokenRequest: however many requests find the session empty, TTLock sees *)
(* a refresh token it has replaced only after an answer was lost or the    *)
(* tokens were ended from outside.                                         *)
THEOREM OneExchange == Spec => []RefreshTokenIsUsedOnce
<1>1. Inductive => RefreshTokenIsUsedOnce
  BY DEF Inductive, TypeOK, Newest, RefreshTokenIsUsedOnce
<1>. QED
  BY <1>1, AlwaysInductive, PTL

(* authorizedRequest: the one retry is never spent on the token that has   *)
(* just been refused, whatever other requests did to the session.          *)
THEOREM RetryIsAnother == Spec => []RetryUsesAnotherToken
<1>1. Inductive => RetryUsesAnotherToken
  BY DEF Inductive, Refusals
<1>. QED
  BY <1>1, AlwaysInductive, PTL

-----------------------------------------------------------------------------
(* The circle of requests *)

(* What a request does without waiting for anyone                          *)
OnItsOwn == {"query", "locked", "linked", "commit",
             "get", "refresh", "account", "call", "answered", "noted"}

CanGoOn(r) ==
    \/ pc[r] \in OnItsOwn
    \/ r \in Writers /\ pc[r] = "apartment" /\ LockIsFree(Apartment[r])

(* A request that waits for a connection, an apartment or a token waits,   *)
(* in the end, for one that does not wait, or writers hold the whole pool. *)
NobodyElseStuck ==
    (\E r \in Requests : pc[r] \notin {"idle", "done"}) =>
        \/ queue # <<>> /\ Free
        \/ \E r \in Requests : CanGoOn(r)
        \/ Circle

(* Connections that only a few writers hold, one each, leave one free.     *)
LEMMA WritersLeaveOne ==
    ASSUME TypeOK, IsFiniteSet(Writers), Cardinality(Writers) < PoolSize,
           \A c \in held : c[1] \in Writers /\ c[2] = 1
    PROVE  Free
<1>. DEFINE f == [c \in held |-> c[1]]
<1>1. f \in [held -> Writers]
  OBVIOUS
<1>2. ASSUME NEW c \in held, NEW d \in held, f[c] = f[d]
      PROVE  c = d
  <2>1. c = <<c[1], c[2]>> /\ d = <<d[1], d[2]>>
    BY DEF TypeOK
  <2>2. c[1] = d[1] /\ c[2] = 1 /\ d[2] = 1
    BY <1>2
  <2>. QED
    BY <2>1, <2>2
<1>3. f \in Injection(held, Writers)
  BY <1>1, <1>2 DEF Injection, IsInjective
<1>4. IsFiniteSet(held) /\ Cardinality(held) <= Cardinality(Writers)
  BY <1>3, FS_Injection
<1>5. Cardinality(held) \in Nat /\ Cardinality(Writers) \in Nat
  BY <1>4, FS_CardinalityType
<1>. QED
  BY <1>4, <1>5, BoundsAreNaturals DEF Free

LEMMA NotStuck == Inductive => NobodyElseStuck
<1>. SUFFICES ASSUME Inductive,
                     NEW r \in Requests, pc[r] \notin {"idle", "done"},
                     \A s \in Requests : ~CanGoOn(s),
                     ~(queue # <<>> /\ Free)
              PROVE  Circle
  BY DEF NobodyElseStuck
<1>1. \A s \in Requests : pc[s] \notin OnItsOwn
  BY DEF CanGoOn
<1>2. \A u \in LockUsers : pc[u] \in {"idle", "connect", "note", "done"}
  <2>1. Joined = {}
    BY <1>1, RequestKinds DEF Inductive, OneRequest, RequestRuns, Acquiring, OnItsOwn
  <2>. QED
    BY <1>1, <2>1, RequestKinds DEF Inductive, Kinds, LockUserSteps, Joined, OnItsOwn
<1>3. \A w \in Writers : pc[w] \in {"idle", "connect", "apartment", "nested", "done"}
  BY <1>1, RequestKinds DEF Inductive, Kinds, WriterSteps, OnItsOwn
<1>4. \E s \in Requests : pc[s] \in Waiting
  <2>1. CASE pc[r] = "apartment"
    <3>1. r \in Writers /\ ~LockIsFree(Apartment[r])
      BY <1>2, <2>1, RequestKinds DEF CanGoOn
    <3>2. PICK w \in Writers : HoldsLock(w)
      BY <3>1 DEF LockIsFree
    <3>. QED
      BY <1>3, <3>2, RequestKinds DEF HoldsLock, Waiting
  <2>. QED
    BY <1>2, <1>3, <2>1, RequestKinds DEF Waiting
<1>5. queue # <<>>
  BY <1>4, EmptySeq DEF Inductive, Queued
<1>6. \A c \in held : c[1] \in Writers /\ c[2] = 1 /\ WriterWaits(c[1])
  <2>. SUFFICES ASSUME NEW c \in held
                PROVE  c[1] \in Writers /\ c[2] = 1 /\ WriterWaits(c[1])
    OBVIOUS
  <2>1. PICK s \in Requests, k \in {1, 2} : c = <<s, k>>
    BY DEF Inductive, TypeOK
  <2>2. k = 1
    BY <1>1, <2>1 DEF Inductive, Holding, OnItsOwn
  <2>3. pc[s] \in Connected
    BY <2>1, <2>2 DEF Inductive, Holding
  <2>. QED
    <3>1. s \in Writers /\ pc[s] \in {"apartment", "nested"}
      BY <1>2, <1>3, <2>3, RequestKinds DEF Connected
    <3>2. WriterWaits(s)
      BY <3>1 DEF WriterWaits, CanGoOn
    <3>. QED
      BY <2>1, <2>2, <3>1, <3>2
<1>. QED
  BY <1>5, <1>6 DEF Circle

(* What RequestsEnd needs of safety: whatever requests wait for each       *)
(* other, some request can go on, unless every connection is held by a     *)
(* writer that waits for a second one or for the apartment of another.     *)
THEOREM OnlyTheCircleStops == Spec => []NobodyElseStuck
BY NotStuck, AlwaysInductive, PTL

(* The writer an apartment waits for is in the circle, too.                *)
LEMMA CircleStays == Inductive /\ [Next]_vars => (Circle => Circle')
<1>. SUFFICES ASSUME Inductive, [Next]_vars, Circle PROVE Circle'
  OBVIOUS
<1>0. pc \in [Requests -> Steps]
  BY DEF Inductive, TypeOK
<1>1. \A r \in Requests : pc[r] \in Connected =>
          r \in Writers /\ WriterWaits(r) /\ pc[r] \in {"apartment", "nested"}
  BY DEF Inductive, Holding, Circle, WriterWaits
<1>2. /\ held' = held
      /\ \A r \in Requests : pc[r] \in Connected => pc'[r] = pc[r]
  <2>1. ASSUME NEW w \in Writers, StartWrite(w) \/ Write(w)
        PROVE  held' = held /\ \A r \in Requests : pc[r] \in Connected => pc'[r] = pc[r]
    <3>1. pc[w] \notin {"query", "locked", "linked", "commit"} /\ ~LockApartment(w)
      BY <1>1, RequestKinds DEF Connected, LockApartment, WriterWaits
    <3>2. StartWrite(w)
      BY <2>1, <3>1 DEF Write, Begin, AskAgain, WriteLocally, Linked, EndWrite
    <3>. QED
      BY <3>2, <1>0 DEF StartWrite, Ask, Goto, Connected
  <2>2. ASSUME NEW u \in LockUsers, StartRead(u) \/ UseLock(u) \/ TokenAnswerLost(u)
        PROVE  held' = held /\ \A r \in Requests : pc[r] \in Connected => pc'[r] = pc[r]
    <3>1. pc[u] \notin {"query", "noted"}
      BY <1>1, RequestKinds DEF Connected
    <3>2. ~Read(u) /\ ~EndRead(u)
      BY <3>1 DEF Read, EndRead
    <3>3. CASE StartRead(u) \/ Note(u)
      BY <1>0, <3>3 DEF StartRead, Note, Ask, Goto, Connected
    <3>4. CASE UseSession(u) \/ JoinRequest(u) \/ AcquireToken(u) \/ Call(u) \/ Refused(u)
      BY <1>0, <3>4 DEF UseSession, JoinRequest, AcquireToken, Call, Refused, Goto, Connected,
                        poolVars
    <3>5. CASE RefreshToken(u) \/ UseAccount(u) \/ TokenAnswerLost(u)
      <4>1. held' = held /\ pc[u] \in {"refresh", "account"}
        BY <3>5 DEF RefreshToken, UseAccount, TokenAnswerLost, Acquiring, poolVars
      <4>2. Deliver(u) \/ Fail(u) \/ Goto(u, "account")
        BY <3>5 DEF RefreshToken, UseAccount, TokenAnswerLost, Fallback
      <4>3. \A r \in Requests : pc[r] \in Connected => r \notin Joined \cup {u}
        BY <4>1 DEF Connected, Joined
      <4>. QED
        BY <1>0, <4>1, <4>2, <4>3 DEF Deliver, Fail, Failing, Goto, Connected
    <3>. QED
      BY <2>2, <3>2, <3>3, <3>4, <3>5 DEF UseLock
  <2>3. ~Grant
    BY DEF Circle, Grant
  <2>4. CASE TokensEnd \/ SessionExpires \/ UNCHANGED vars
    BY <2>4 DEF TokensEnd, SessionExpires, poolVars, vars
  <2>. QED
    BY <2>1, <2>2, <2>3, <2>4 DEF Next
<1>3. \A w \in Writers : HoldsLock(w) => HoldsLock(w)'
  BY <1>2, RequestKinds DEF HoldsLock, Connected
<1>4. \A w \in Writers : ~LockIsFree(Apartment[w]) => ~LockIsFree(Apartment[w])'
  BY <1>3 DEF LockIsFree
<1>5. \A c \in held : c[1] \in Writers /\ c[2] = 1 /\ WriterWaits(c[1])'
  <2>. SUFFICES ASSUME NEW c \in held
                PROVE  c[1] \in Writers /\ c[2] = 1 /\ WriterWaits(c[1])'
    OBVIOUS
  <2>1. c[1] \in Writers /\ c[2] = 1 /\ WriterWaits(c[1])
    BY DEF Circle
  <2>2. pc'[c[1]] = pc[c[1]]
    BY <1>2, <2>1, RequestKinds DEF WriterWaits, Connected
  <2>. QED
    BY <1>4, <2>1, <2>2 DEF WriterWaits
<1>. QED
  BY <1>2, <1>5 DEF Circle, Free

(* Once the circle is closed nothing opens it: the pool has no timeout for *)
(* those who wait, and neither has the lock of an apartment.               *)
THEOREM CircleIsForEver == Spec => [][Circle => Circle']_vars
<1>1. Inductive /\ [Next]_vars => [Circle => Circle']_vars
  BY CircleStays
<1>. QED
  BY <1>1, AlwaysInductive, PTL DEF Spec

(* The circle takes as many writers at a time as the pool has connections: *)
(* fewer of them never close it, however many other requests there are.    *)
THEOREM CircleTakesWholePool ==
    Spec => [](Circle => ~IsFiniteSet(Writers) \/ ~(Cardinality(Writers) < PoolSize))
<1>1. Inductive => (Circle => ~IsFiniteSet(Writers) \/ ~(Cardinality(Writers) < PoolSize))
  BY WritersLeaveOne DEF Inductive, Circle
<1>. QED
  BY <1>1, AlwaysInductive, PTL

(* The finally blocks give every connection back: a request that has       *)
(* ended, and one that talks to TTLock, holds none.                        *)
THEOREM ConnectionsReturn ==
    Spec => [](\A r \in Requests :
                  pc[r] \in Dialogue \cup {"answered", "done"} =>
                      <<r, 1>> \notin held /\ <<r, 2>> \notin held)
<1>1. Inductive => \A r \in Requests :
                       pc[r] \in Dialogue \cup {"answered", "done"} =>
                           <<r, 1>> \notin held /\ <<r, 2>> \notin held
  BY DEF Inductive, Holding, Connected, Dialogue
<1>. QED
  BY <1>1, AlwaysInductive, PTL

=============================================================================
