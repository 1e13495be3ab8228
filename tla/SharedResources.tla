---------------------------- MODULE SharedResources ----------------------------
(***************************************************************************)
(* What all requests of the process share and may have to wait for: the    *)
(* pool of database connections (src/database/database.module.ts, pg's     *)
(* defaults: a fixed size, first come first served, no timeout) and the    *)
(* session with TTLock (src/ttlock/ttlock.service.ts: a cached access      *)
(* token, one token request for everybody, one retry).                     *)
(*                                                                         *)
(* Two kinds of requests use them.  A writer changes a reservation in a    *)
(* transaction: it holds a connection, waits for the lock of the           *)
(* apartment, and if the booking comes from Hostex asks the pool for a     *)
(* second connection (getLinkedReservation).  A lock user reads rows,      *)
(* gives the connection back, calls TTLock, and notes the result.          *)
(***************************************************************************)
EXTENDS Naturals, Sequences, FiniteSets

CONSTANTS
    Writers,      \* requests that write reservations
    Apartment,    \* Writers -> the apartment whose lock they need
    LockUsers,    \* requests that call TTLock
    PoolSize,     \* connections of the pool
    Accounts,     \* whether TTLOCK_ACCOUNT_USERNAME and _PASSWORD_MD5 are set: TRUE, FALSE, both
    MaxTrouble    \* lost answers and ended tokens together (bound)

ASSUME AccountsAreBoolean == Accounts \subseteq BOOLEAN

ASSUME BoundsAreNaturals == PoolSize \in Nat \ {0} /\ MaxTrouble \in Nat

ASSUME KindsDiffer == Writers \cap LockUsers = {}

VARIABLES
    account,   \* the TTLock account is configured
    pc,        \* Requests -> where the request is
    held,      \* the connections checked out: <<r, 1>> and for a nested one <<r, 2>>
    queue,     \* the requests that wait for a connection
    token,     \* LockUsers -> the token it sends, access or refresh, 0 is none
    rejected,  \* LockUsers -> the access token of attempt 0, once TTLock refused it
    session,   \* tokenSession: the cached access token, 0 is null
    refresh,   \* refreshToken, 0 is ''
    issued,    \* tokens TTLock has issued: pairs of access and refresh token, numbered
    valid,     \* the access tokens TTLock accepts
    current,   \* the refresh token TTLock accepts
    lost,      \* token requests whose answer was lost
    ended      \* times the tokens ended

poolVars == <<held, queue>>
tokenVars == <<account, token, rejected, session, refresh, issued, valid, current, lost, ended>>
vars == <<pc, poolVars, tokenVars>>

-----------------------------------------------------------------------------
(* Types *)

Requests == Writers \cup LockUsers

(* connect, nested and note wait for a connection; apartment waits for the *)
(* lock; get, refresh, account, join and call are the dialogue with TTLock *)
Steps == {"idle", "connect", "query", "apartment", "locked", "nested", "linked", "commit",
          "get", "refresh", "account", "join", "call", "answered", "note", "noted", "done"}

TypeOK ==
    /\ account \in Accounts
    /\ pc \in [Requests -> Steps]
    /\ held \subseteq Requests \X {1, 2}
    /\ \A w \in Writers : <<w, 2>> \in held => pc[w] = "linked"
    /\ queue \in Seq(Requests)
    /\ token \in [LockUsers -> Nat]
    /\ rejected \in [LockUsers -> Nat]
    /\ {session, refresh, issued, current, lost, ended} \subseteq Nat
    /\ valid \subseteq 1 .. issued

Goto(r, step) == pc' = [pc EXCEPT ![r] = step]

-----------------------------------------------------------------------------
(* The pool *)

Free == Cardinality(held) < PoolSize

Connection(r, step) == IF step = "nested" THEN <<r, 2>> ELSE <<r, 1>>

Granted(step) ==
    CASE step = "connect" -> "query"
      [] step = "nested"  -> "linked"
      [] step = "note"    -> "noted"

(* pool.connect() or pool.query(): the request takes its place in the queue *)
(* and is served at once if a connection is free and nobody waits.         *)
Ask(r, step) ==
    /\ Goto(r, step)
    /\ queue' = Append(queue, r)
    /\ UNCHANGED held

Grant ==
    /\ queue # <<>>
    /\ Free
    /\ LET r == Head(queue) IN
        /\ held' = held \cup {Connection(r, pc[r])}
        /\ Goto(r, Granted(pc[r]))
    /\ queue' = Tail(queue)
    /\ UNCHANGED tokenVars

(* client.release(), in the finally of the transaction, or of pool.query   *)
Release(r, step) ==
    /\ Goto(r, step)
    /\ held' = held \ {<<r, 1>>}
    /\ UNCHANGED queue

-----------------------------------------------------------------------------
(* Writers *)

HoldsLock(w) == pc[w] \in {"locked", "nested", "linked", "commit"}

LockIsFree(a) == \A w \in Writers : Apartment[w] = a => ~HoldsLock(w)

StartWrite(w) ==
    /\ pc[w] = "idle"
    /\ Ask(w, "connect")
    /\ UNCHANGED tokenVars

(* BEGIN and the first statements                                          *)
Begin(w) ==
    /\ pc[w] = "query"
    /\ Goto(w, "apartment")
    /\ UNCHANGED <<poolVars, tokenVars>>

(* lockApartment: pg_advisory_xact_lock waits with the connection in hand. *)
LockApartment(w) ==
    /\ pc[w] = "apartment"
    /\ LockIsFree(Apartment[w])
    /\ Goto(w, "locked")
    /\ UNCHANGED <<poolVars, tokenVars>>

(* A booking of Hostex: hostexWritesService.update asks the pool again,    *)
(* inside the transaction.                                                 *)
AskAgain(w) ==
    /\ pc[w] = "locked"
    /\ Ask(w, "nested")
    /\ UNCHANGED tokenVars

(* A manual booking, or a change Hostex does not have to know              *)
WriteLocally(w) ==
    /\ pc[w] = "locked"
    /\ Goto(w, "commit")
    /\ UNCHANGED <<poolVars, tokenVars>>

(* Mutant of AfterQuery: the second connection is not given back.          *)
AfterQueryLeaking(w) == held

(* pool.query gives the second connection back before Hostex is called.    *)
AfterQuery(w) == held \ {<<w, 2>>}

Linked(w) ==
    /\ pc[w] = "linked"
    /\ Goto(w, "commit")
    /\ held' = AfterQuery(w)
    /\ UNCHANGED <<queue, tokenVars>>

(* COMMIT or ROLLBACK                                                      *)
EndWrite(w) ==
    /\ pc[w] = "commit"
    /\ Release(w, "done")
    /\ UNCHANGED tokenVars

-----------------------------------------------------------------------------
(* Lock users *)

StartRead(u) ==
    /\ pc[u] = "idle"
    /\ Ask(u, "connect")
    /\ UNCHANGED tokenVars

(* No connection is held while TTLock is asked.                            *)
Read(u) ==
    /\ pc[u] = "query"
    /\ Release(u, "get")
    /\ UNCHANGED tokenVars

Acquiring(u) == pc[u] \in {"refresh", "account"}

(* Mutant of RequestRuns: every request asks for a token of its own.       *)
NobodyAsks == \E u \in {} : Acquiring(u)

(* tokenRequest is not null                                                *)
RequestRuns == \E u \in LockUsers : Acquiring(u)

(* getAccessToken: the cached token, the request that already runs, or a   *)
(* new one, by refresh token if there is one and else with the account.    *)
UseSession(u) ==
    /\ pc[u] = "get" /\ session # 0
    /\ token' = [token EXCEPT ![u] = session]
    /\ Goto(u, "call")
    /\ UNCHANGED <<poolVars, account, rejected, session, refresh, issued, valid, current, lost, ended>>

JoinRequest(u) ==
    /\ pc[u] = "get" /\ session = 0 /\ RequestRuns
    /\ Goto(u, "join")
    /\ UNCHANGED <<poolVars, tokenVars>>

AcquireToken(u) ==
    /\ pc[u] = "get" /\ session = 0 /\ ~RequestRuns
    /\ token' = [token EXCEPT ![u] = refresh]
    /\ Goto(u, CASE refresh # 0  -> "refresh"
                 [] refresh = 0 /\ account  -> "account"
                 [] refresh = 0 /\ ~account -> "answered")
    /\ UNCHANGED <<poolVars, account, rejected, session, refresh, issued, valid, current, lost, ended>>

(* TTLock issues a new pair.  The refresh token before it is used up; the  *)
(* access tokens before it may be, too.                                    *)
Issue ==
    /\ issued' = issued + 1
    /\ current' = issued + 1
    /\ valid' \in {{issued + 1}, valid \cup {issued + 1}}

Joined == {v \in LockUsers : pc[v] = "join"}

(* The promise settles: whoever awaits it goes on, with the token ...      *)
Deliver(u) ==
    /\ session' = issued + 1
    /\ refresh' = issued + 1
    /\ token' = [v \in LockUsers |-> IF v \in Joined \cup {u} THEN issued + 1 ELSE token[v]]
    /\ pc' = [r \in Requests |-> IF r \in Joined \cup {u} THEN "call" ELSE pc[r]]

(* Mutant of Failing: only the request that asked learns of the failure.   *)
FailingAlone(u) == {u}

(* ... or with the error.                                                  *)
Failing(u) == Joined \cup {u}

Fail(u) ==
    /\ pc' = [r \in Requests |-> IF r \in Failing(u) THEN "answered" ELSE pc[r]]
    /\ UNCHANGED <<token, session, refresh>>

Fallback(u) ==
    IF account
    THEN /\ Goto(u, "account")
         /\ refresh' = 0
         /\ UNCHANGED <<token, session>>
    ELSE Fail(u)

RefreshToken(u) ==
    /\ pc[u] = "refresh"
    /\ IF token[u] = current
       THEN Issue /\ Deliver(u)
       ELSE Fallback(u) /\ UNCHANGED <<issued, valid, current>>
    /\ UNCHANGED <<poolVars, account, rejected, lost, ended>>

UseAccount(u) ==
    /\ pc[u] = "account"
    /\ Issue /\ Deliver(u)
    /\ UNCHANGED <<poolVars, account, rejected, lost, ended>>

(* No answer in time: TTLock may have issued a pair that never arrives.    *)
TokenAnswerLost(u) ==
    /\ Acquiring(u)
    /\ lost + ended < MaxTrouble
    /\ lost' = lost + 1
    /\ Issue \/ UNCHANGED <<issued, valid, current>>
    /\ IF pc[u] = "refresh" THEN Fallback(u) ELSE Fail(u)
    /\ UNCHANGED <<poolVars, account, rejected, ended>>

(* authorizedRequest: the call is carried out, or fails for its own        *)
(* reasons ...                                                             *)
Call(u) ==
    /\ pc[u] = "call"
    /\ token[u] \in valid
    /\ Goto(u, "answered")
    /\ UNCHANGED <<poolVars, tokenVars>>

(* Mutant of SessionAfterRefusal: the cached token survives the refusal.   *)
SessionKept == session

(* ... or TTLock refuses the token.  The first time the session is dropped, *)
(* whatever it holds by then, and the call is made once more.              *)
SessionAfterRefusal == 0

Refused(u) ==
    /\ pc[u] = "call"
    /\ token[u] \notin valid
    /\ IF rejected[u] = 0
       THEN /\ rejected' = [rejected EXCEPT ![u] = token[u]]
            /\ session' = SessionAfterRefusal
            /\ Goto(u, "get")
       ELSE Goto(u, "answered") /\ UNCHANGED <<rejected, session>>
    /\ UNCHANGED <<poolVars, account, token, refresh, issued, valid, current, lost, ended>>

(* The result is written down, by one more query.                          *)
Note(u) ==
    /\ pc[u] = "answered"
    /\ Ask(u, "note")
    /\ UNCHANGED tokenVars

EndRead(u) ==
    /\ pc[u] = "noted"
    /\ Release(u, "done")
    /\ UNCHANGED tokenVars

-----------------------------------------------------------------------------
(* Specification *)

(* TTLock, or the owner in its app, ends the access tokens, or the refresh *)
(* token, too.                                                             *)
TokensEnd ==
    /\ lost + ended < MaxTrouble
    /\ ended' = ended + 1
    /\ valid' = {}
    /\ current' \in {current, 0}
    /\ UNCHANGED <<pc, poolVars, account, token, rejected, session, refresh, issued, lost>>

(* The cached token is used until a minute before it expires.              *)
SessionExpires ==
    /\ session # 0
    /\ lost + ended < MaxTrouble
    /\ ended' = ended + 1
    /\ session' = 0
    /\ UNCHANGED <<pc, poolVars, account, token, rejected, refresh, issued, valid, current, lost>>

(* TTLOCK_ACCESS_TOKEN and TTLOCK_REFRESH_TOKEN may be set, and there is   *)
(* some way to get a token (assertReady).                                  *)
Init ==
    /\ pc = [r \in Requests |-> "idle"]
    /\ held = {} /\ queue = <<>>
    /\ token = [u \in LockUsers |-> 0] /\ rejected = [u \in LockUsers |-> 0]
    /\ session \in {0, 1} /\ refresh \in {0, 1}
    /\ account \in Accounts
    /\ account \/ session # 0 \/ refresh # 0
    /\ issued = 1 /\ valid = {1} /\ current = 1
    /\ lost = 0 /\ ended = 0

Write(w) ==
    \/ Begin(w) \/ LockApartment(w) \/ AskAgain(w) \/ WriteLocally(w)
    \/ Linked(w) \/ EndWrite(w)

UseLock(u) ==
    \/ Read(u) \/ UseSession(u) \/ JoinRequest(u) \/ AcquireToken(u)
    \/ RefreshToken(u) \/ UseAccount(u) \/ Call(u) \/ Refused(u) \/ Note(u) \/ EndRead(u)

Next ==
    \/ \E w \in Writers : StartWrite(w) \/ Write(w)
    \/ \E u \in LockUsers : StartRead(u) \/ UseLock(u) \/ TokenAnswerLost(u)
    \/ Grant
    \/ TokensEnd \/ SessionExpires

(* A request that has begun goes on when it can, and the pool serves its   *)
(* queue: Hostex and TTLock are asked with a time limit.                   *)
Fairness ==
    /\ \A w \in Writers : WF_vars(Write(w))
    /\ \A u \in LockUsers : WF_vars(UseLock(u))
    /\ WF_vars(Grant)

Spec == Init /\ [][Next]_vars /\ Fairness

-----------------------------------------------------------------------------
(* Properties *)

(* A refresh token is exchanged once: requests that find no session share  *)
(* the request under way, so TTLock is never shown a token it has replaced *)
(* unless an answer was lost or the tokens were ended from outside.        *)
RefreshTokenIsUsedOnce ==
    \A u \in LockUsers :
        pc[u] = "refresh" /\ token[u] # current => lost > 0 \/ ended > 0

(* The second attempt is made with another token than the one TTLock       *)
(* refused, whatever the other requests did to the session in between.     *)
RetryUsesAnotherToken ==
    \A u \in LockUsers :
        pc[u] = "call" /\ rejected[u] # 0 => token[u] # rejected[u]

(* A writer that waits for the pool or for another writer, with a          *)
(* connection in hand                                                      *)
WriterWaits(w) ==
    \/ pc[w] = "nested"
    \/ pc[w] = "apartment" /\ ~LockIsFree(Apartment[w])

(* Every connection is held by a writer that waits.                        *)
Circle ==
    /\ ~Free
    /\ \A c \in held : c[1] \in Writers /\ c[2] = 1 /\ WriterWaits(c[1])

(* Every request ends: it gets its connections, the apartment and an       *)
(* answer about the token, its own or the one it waits for with others.    *)
(* One thing alone stops it, the circle a nested pool.query inside a       *)
(* transaction can close (reservations.service.ts,                         *)
(* hostex-reservation-writes.service.ts): nothing in the code prevents it. *)
RequestsEnd ==
    \A r \in Requests : pc[r] = "connect" ~> (pc[r] = "done" \/ Circle)

=============================================================================
