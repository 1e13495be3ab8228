------------------------------ MODULE CodeDrafts ------------------------------
(***************************************************************************)
(* Codes an administrator sees before they reach a door: the drafts of     *)
(* access_code_drafts, prepared, confirmed or cancelled, and applied       *)
(* (src/access-codes/access-codes.service.ts), together with the table     *)
(* that says which lock belongs to which apartment and the request that    *)
(* moves a lock (src/access-codes/lock-mappings.service.ts).               *)
(*                                                                         *)
(* One step is one statement or one transaction.  The dialogue with TTLock *)
(* that follows a reserved code is the subject of AccessCodes; here it is  *)
(* one step that leaves the row active or in error, and every other        *)
(* operation on a code is one step of its own.  Reservations stay          *)
(* confirmed.                                                              *)
(*                                                                         *)
(* As in AccessCodes a version is only compared for equality, so who read  *)
(* it carries a flag `fresh' that the next write of the version clears.    *)
(***************************************************************************)
EXTENDS Naturals, FiniteSets

CONSTANTS
    Reservations,
    Apartments,
    Home,        \* Reservations -> the apartment of the stay
    Locks,       \* TTLock locks of the account
    Nowhere,     \* the place of a lock no apartment has
    Drafts,      \* ids of access_code_drafts
    Codes,       \* ids of reservation_access_codes
    Pins,
    Windows,     \* validity windows; any two of them overlap
    None,        \* NULL
    Admins,      \* concurrent requests
    Budgets      \* requests and disturbances of a behaviour, by kind (bound)

ASSUME HomeIsAnApartment == Home \in [Reservations -> Apartments]

ASSUME NullsAreOutside ==
    /\ Nowhere \notin Apartments
    /\ None \notin Reservations \cup Locks \cup Drafts \cup Codes \cup Pins \cup Windows

(* request: calls of the API; lock: calls of TTLock that fail; statement:  *)
(* statements the database refuses; crash: restarts; edit: other writes of *)
(* a code; time: drafts whose time runs out                                *)
Kinds == {"request", "lock", "statement", "crash", "edit", "time"}

ASSUME BudgetsAreNaturals == Budgets \subseteq [Kinds -> Nat]

VARIABLES
    place,    \* Locks -> apartment the lock is active at, or Nowhere
    code,     \* Codes -> the row of reservation_access_codes
    draft,    \* Drafts -> the row of access_code_drafts
    op,       \* Admins -> the request in progress and its local data
    budget

vars == <<place, code, draft, op, budget>>

-----------------------------------------------------------------------------
(* Types *)

(* apartment_access_devices_active_apartment_unique                        *)
Assignments ==
    {f \in [Locks -> Apartments \cup {Nowhere}] :
        \A k, l \in Locks : f[k] = f[l] /\ k # l => f[k] = Nowhere}

(* late (history): the row was inserted when its lock already belonged to  *)
(* another apartment, or while a move of the lock was under way            *)
CodeRow ==
    [status : {"pending_create", "active", "pending_update", "sync_error", "revoked"},
     res    : Reservations,
     lock   : Locks,
     pin    : Pins,
     win    : Windows,
     late   : BOOLEAN]

NoCode == [status |-> "none"]

(* fresh: source_version is still the code's version; overdue: expires_at  *)
(* has passed; shown (history): the code a replacement was prepared from;  *)
(* uses (history): how often the draft's PIN was written to a code; lost   *)
(* (history): nobody could note how applying it ended                      *)
Shown == [pin : Pins \cup {None}, win : Windows \cup {None}]

DraftRow ==
    [status  : {"draft", "applying", "applied", "cancelled", "sync_error"},
     res     : Reservations,
     lock    : Locks,
     source  : Codes \cup {None},    \* access_code_id, None for 'create'
     fresh   : BOOLEAN,
     pin     : Pins,
     win     : Windows,
     overdue : BOOLEAN,
     result  : Codes \cup {None},    \* applied_access_code_id
     shown   : Shown,
     uses    : 0 .. 2,
     lost    : BOOLEAN]

NoDraft == [status |-> "none"]

OpType ==
    [pc    : {"idle", "expire", "look", "open", "pick", "insert", "claim", "reserve",
              "reload", "prepare", "link", "provision", "finish", "answer", "refuse",
              "move"},
     kind  : {"none", "create", "replace", "ensure", "apply", "move"},
     res   : Reservations \cup {None},
     draft : Drafts \cup {None},
     code  : Codes \cup {None},
     fresh : BOOLEAN,
     lock  : Locks \cup {None},
     pin   : Pins \cup {None},
     win   : Windows \cup {None},
     shown : Shown,
     place : Apartments \cup {None}]

NothingShown == [pin |-> None, win |-> None]

IdleOp == [pc |-> "idle", kind |-> "none", res |-> None, draft |-> None, code |-> None,
           fresh |-> FALSE, lock |-> None, pin |-> None, win |-> None,
           shown |-> NothingShown, place |-> None]

TypeOK ==
    /\ place \in Assignments
    /\ code \in [Codes -> CodeRow \cup {NoCode}]
    /\ draft \in [Drafts -> DraftRow \cup {NoDraft}]
    /\ op \in [Admins -> OpType]
    /\ budget \in [Kinds -> Nat]

-----------------------------------------------------------------------------
(* Rows *)

(* status <> 'revoked'                                                     *)
Live(c) == code[c].status \notin {"none", "revoked"}

(* reservation_access_codes_one_current_per_reservation                    *)
HasCode(r) == \E c \in Codes : Live(c) /\ code[c].res = r

(* Another code in use has the PIN on this lock.                           *)
Taken(l, p, except) ==
    \E c \in Codes \ {except} : Live(c) /\ code[c].lock = l /\ code[c].pin = p

(* access_code_drafts_one_open_per_reservation                             *)
HoldsIndex(d) == draft[d].status \in {"draft", "applying"}

(* What findOpenDraft returns: an expired draft still holds its place in   *)
(* the index and is not found.                                             *)
OpenDraft(r) ==
    {d \in Drafts : HoldsIndex(d) /\ draft[d].res = r
                    /\ (draft[d].status = "draft" => ~draft[d].overdue)}

Spend(kind) ==
    /\ budget[kind] > 0
    /\ budget' = [budget EXCEPT ![kind] = @ - 1]

Become(a, o) == op' = [op EXCEPT ![a] = o]

Goto(a, pc) == Become(a, [op[a] EXCEPT !.pc = pc])

Return(a) == Become(a, IdleOp)

(* version = version + 1 on code c: every version of it that was read      *)
(* before, by request or draft, no longer matches.                         *)
StaleDrafts(c) ==
    [d \in Drafts |-> IF draft[d].status # "none" /\ draft[d].source = c
                      THEN [draft[d] EXCEPT !.fresh = FALSE] ELSE draft[d]]

StaleReaders(c) ==
    [a \in Admins |-> IF op[a].code = c THEN [op[a] EXCEPT !.fresh = FALSE] ELSE op[a]]

-----------------------------------------------------------------------------
(* Preparing a draft, or the automation's code *)

(* loadContext: the lock that is active for the apartment now              *)
StartCreate(a, r, l, w) ==
    /\ op[a].pc = "idle"
    /\ place[l] = Home[r]
    /\ Spend("request")
    /\ Become(a, [IdleOp EXCEPT !.pc = "expire", !.kind = "create", !.res = r,
                                !.lock = l, !.win = w])
    /\ UNCHANGED <<place, code, draft>>

(* ensureForReservation looks for a code first and reads the context then; *)
(* a code that comes between the two is met again by Reserve.              *)
StartEnsure(a, r, l, w) ==
    /\ op[a].pc = "idle"
    /\ ~HasCode(r)
    /\ place[l] = Home[r]
    /\ Spend("request")
    /\ Become(a, [IdleOp EXCEPT !.pc = "pick", !.kind = "ensure", !.res = r,
                                !.lock = l, !.win = w])
    /\ UNCHANGED <<place, code, draft>>

(* The client sends the version it saw: only the current one gets further. *)
StartReplace(a, c, w) ==
    /\ op[a].pc = "idle"
    /\ code[c].status = "active"
    /\ Spend("request")
    /\ Become(a, [IdleOp EXCEPT !.pc = "expire", !.kind = "replace", !.res = code[c].res,
                                !.code = c, !.fresh = TRUE, !.lock = code[c].lock, !.win = w,
                                !.shown = [pin |-> code[c].pin, win |-> code[c].win]])
    /\ UNCHANGED <<place, code, draft>>

ExpireDrafts(a) ==
    /\ op[a].pc = "expire"
    /\ draft' = [d \in Drafts |->
                    IF draft[d].status = "draft" /\ draft[d].res = op[a].res /\ draft[d].overdue
                    THEN [draft[d] EXCEPT !.status = "cancelled"] ELSE draft[d]]
    /\ Goto(a, IF op[a].kind = "create" THEN "look" ELSE "open")
    /\ UNCHANGED <<place, code, budget>>

LookForCode(a) ==
    /\ op[a].pc = "look"
    /\ IF HasCode(op[a].res) THEN Return(a) ELSE Goto(a, "open")
    /\ UNCHANGED <<place, code, draft, budget>>

FindOpenDraft(a) ==
    /\ op[a].pc = "open"
    /\ IF OpenDraft(op[a].res) # {} THEN Return(a) ELSE Goto(a, "pick")
    /\ UNCHANGED <<place, code, draft, budget>>

(* generateAvailableCandidate: free in the table, and on the lock          *)
Pick(a) ==
    /\ op[a].pc = "pick"
    /\ \E p \in Pins :
        /\ ~Taken(op[a].lock, p, op[a].code)
        /\ Become(a, [op[a] EXCEPT !.pc = IF op[a].kind = "ensure" THEN "reserve" ELSE "insert",
                                   !.pin = p])
    /\ UNCHANGED <<place, code, draft, budget>>

(* The row both requests insert; a replacement names the code it is for    *)
(* and the version the client sent, which may be an old one by now.        *)
NewDraft(a) ==
    [status |-> "draft", res |-> op[a].res, lock |-> op[a].lock, source |-> op[a].code,
     fresh |-> op[a].fresh, pin |-> op[a].pin, win |-> op[a].win, overdue |-> FALSE,
     result |-> None, shown |-> op[a].shown, uses |-> 0, lost |-> FALSE]

InsertDraft(a) ==
    /\ op[a].pc = "insert"
    /\ Return(a)
    /\ IF \E d \in Drafts : HoldsIndex(d) /\ draft[d].res = op[a].res
       THEN UNCHANGED draft
       ELSE \E d \in Drafts :
                /\ draft[d].status = "none"
                /\ draft' = [draft EXCEPT ![d] = NewDraft(a)]
    /\ UNCHANGED <<place, code, budget>>

(* draftTtlMinutes have passed.                                            *)
RunsOut(d) ==
    /\ draft[d].status = "draft"
    /\ ~draft[d].overdue
    /\ Spend("time")
    /\ draft' = [draft EXCEPT ![d].overdue = TRUE]
    /\ UNCHANGED <<place, code, op>>

-----------------------------------------------------------------------------
(* Cancelling and confirming *)

(* Mutant of Cancellable: a draft being applied can be cancelled, too.     *)
CancellableAlways(d) == draft[d].status \in {"draft", "applying"}

(* The version of a row in 'draft' is the one it was inserted with: the    *)
(* client's expectedDraftVersion refuses nothing the status does not.      *)
Cancellable(d) == draft[d].status = "draft"

CancelDraft(d) ==
    /\ Cancellable(d)
    /\ Spend("request")
    /\ draft' = [draft EXCEPT ![d].status = "cancelled"]
    /\ UNCHANGED <<place, code, op>>

Claimable(d) == draft[d].status = "draft" /\ ~draft[d].overdue

(* applyDraft loads the draft; an applied one is only shown again, any     *)
(* other is refused.                                                       *)
StartApply(a, d) ==
    /\ op[a].pc = "idle"
    /\ draft[d].status = "draft" /\ ~draft[d].overdue
    /\ Spend("request")
    /\ Become(a, [IdleOp EXCEPT !.pc = "claim", !.kind = "apply", !.res = draft[d].res,
                                !.draft = d, !.code = draft[d].source, !.lock = draft[d].lock,
                                !.pin = draft[d].pin, !.win = draft[d].win])
    /\ UNCHANGED <<place, code, draft>>

ClaimDraft(a) ==
    LET d == op[a].draft IN
    /\ op[a].pc = "claim"
    /\ IF Claimable(d)
       THEN /\ draft' = [draft EXCEPT ![d].status = "applying"]
            /\ Goto(a, IF op[a].code = None THEN "reserve" ELSE "reload")
       ELSE Return(a) /\ UNCHANGED draft
    /\ UNCHANGED <<place, code, budget>>

-----------------------------------------------------------------------------
(* Applying *)

(* reserveCandidate locks the device row and checks the PIN; it does not   *)
(* look at where the lock is now.  A second code of the reservation breaks *)
(* the unique index.                                                       *)
CanReserve(a) == ~HasCode(op[a].res) /\ ~Taken(op[a].lock, op[a].pin, None)

(* A move of the lock is between its check and its commit.                 *)
BeingMoved(l) ==
    \E b \in Admins : op[b].pc = "move" /\ (op[b].lock = l \/ op[b].place = place[l])

Use(d, table) == IF d = None THEN table ELSE [table EXCEPT ![d].uses = @ + 1]

(* Mutant of AfterRefusal: the error goes to the caller and the draft is   *)
(* left as it is.                                                          *)
AfterRefusalUnmarked(a) == IdleOp

AfterRefusal(a) ==
    IF op[a].kind = "apply" THEN [op[a] EXCEPT !.pc = "refuse"] ELSE IdleOp

Reserve(a) ==
    /\ op[a].pc = "reserve"
    /\ IF CanReserve(a)
       THEN \E c \in Codes :
                /\ code[c].status = "none"
                /\ code' = [code EXCEPT ![c] =
                        [status |-> "pending_create", res |-> op[a].res, lock |-> op[a].lock,
                         pin |-> op[a].pin, win |-> op[a].win,
                         late |-> place[op[a].lock] # Home[op[a].res] \/ BeingMoved(op[a].lock)]]
                /\ draft' = Use(op[a].draft, draft)
                /\ Become(a, [op[a] EXCEPT !.pc = IF op[a].kind = "apply" THEN "link"
                                                   ELSE "provision",
                                           !.code = c])
       ELSE Become(a, AfterRefusal(a)) /\ UNCHANGED <<code, draft>>
    /\ UNCHANGED <<place, budget>>

(* applyReplacementDraft compares the version when it loads the code ...   *)
Reload(a) ==
    LET c == op[a].code IN
    /\ op[a].pc = "reload"
    /\ IF code[c].status = "active" /\ draft[op[a].draft].fresh
       THEN Become(a, [op[a] EXCEPT !.pc = "prepare", !.fresh = TRUE])
       ELSE Goto(a, "refuse")
    /\ UNCHANGED <<place, code, draft, budget>>

(* Mutant of StillCurrent: prepareUpdate trusts the version check that was *)
(* made when the code was loaded.                                          *)
StillCurrentUnchecked(a) == op[a].pc = "prepare"

(* ... and prepareUpdate again, WHERE id = $1 AND version = $2             *)
StillCurrent(a) == op[a].fresh

Prepare(a) ==
    LET c == op[a].code IN
    /\ op[a].pc = "prepare"
    /\ IF StillCurrent(a) /\ ~Taken(op[a].lock, op[a].pin, c)
       THEN /\ code' = [code EXCEPT ![c].status = "pending_update", ![c].pin = op[a].pin,
                                    ![c].win = op[a].win]
            /\ draft' = Use(op[a].draft, StaleDrafts(c))
            /\ op' = [StaleReaders(c) EXCEPT ![a].pc = "link"]
       ELSE Goto(a, "refuse") /\ UNCHANGED <<code, draft>>
    /\ UNCHANGED <<place, budget>>

Link(a) ==
    /\ op[a].pc = "link"
    /\ draft' = [draft EXCEPT ![op[a].draft].result = op[a].code]
    /\ Goto(a, "provision")
    /\ UNCHANGED <<place, code, budget>>

(* The row is written by its id alone: active, or sync_error and the       *)
(* exception goes to the caller.                                           *)
Provision(a) ==
    LET c == op[a].code IN
    /\ op[a].pc = "provision"
    /\ \/ /\ code' = [code EXCEPT ![c].status = "active"]
          /\ Become(a, IF op[a].kind = "apply" THEN [op[a] EXCEPT !.pc = "finish"] ELSE IdleOp)
          /\ UNCHANGED budget
       \/ /\ Spend("lock")
          /\ code' = [code EXCEPT ![c].status = "sync_error"]
          /\ Become(a, AfterRefusal(a))
    /\ UNCHANGED <<place, draft>>

Finish(a) ==
    /\ op[a].pc = "finish"
    /\ draft' = [draft EXCEPT ![op[a].draft].status = "applied",
                              ![op[a].draft].result = op[a].code]
    /\ Goto(a, "answer")
    /\ UNCHANGED <<place, code, budget>>

(* The applied draft is read again for the response, inside the try.       *)
ReadBack(a) ==
    /\ op[a].pc = "answer"
    /\ Return(a)
    /\ UNCHANGED <<place, code, draft, budget>>

(* The catch block of applyDraft                                           *)
Refuse(a) ==
    /\ op[a].pc = "refuse"
    /\ draft' = [draft EXCEPT ![op[a].draft].status = "sync_error"]
    /\ Return(a)
    /\ UNCHANGED <<place, code, budget>>

Lose(D) ==
    [d \in Drafts |-> IF d \in D /\ draft[d].status = "applying"
                      THEN [draft[d] EXCEPT !.lost = TRUE] ELSE draft[d]]

(* A statement of applyDraft fails: inside the try the draft is marked, a  *)
(* failure of the marking itself ends the request.  During the dialogue    *)
(* with TTLock it is markSyncError that fails: the code stays pending.     *)
StatementFails(a) ==
    /\ op[a].pc \in {"reserve", "reload", "prepare", "link", "provision", "finish",
                      "answer", "refuse"}
    /\ Spend("statement")
    /\ IF op[a].pc = "refuse"
       THEN Return(a) /\ draft' = Lose({op[a].draft})
       ELSE Become(a, AfterRefusal(a)) /\ UNCHANGED draft
    /\ UNCHANGED <<place, code>>

(* isPasscodeAvailable gets no answer, or no candidate drawn was free.     *)
LockCallFails(a) ==
    /\ op[a].pc = "pick"
    /\ Spend("lock")
    /\ Return(a)
    /\ UNCHANGED <<place, code, draft>>

-----------------------------------------------------------------------------
(* Other writes of a code *)

Held(c) == \E a \in Admins : op[a].code = c /\ op[a].pc \in {"link", "provision"}

(* update and reconcile: the window changes, or the same code is sent      *)
(* again; a row another request works on is left alone until it is stale.  *)
WriteCode(c, w) ==
    /\ Live(c) /\ ~Held(c)
    /\ code[c].status # "active" => w = code[c].win
    /\ Spend("edit")
    /\ code' = [code EXCEPT ![c].status = "active", ![c].win = w]
    /\ draft' = StaleDrafts(c)
    /\ op' = StaleReaders(c)
    /\ UNCHANGED place

Revoke(c) ==
    /\ code[c].status \in {"active", "sync_error"}
    /\ Spend("edit")
    /\ code' = [code EXCEPT ![c].status = "revoked"]
    /\ draft' = StaleDrafts(c)
    /\ op' = StaleReaders(c)
    /\ UNCHANGED place

-----------------------------------------------------------------------------
(* Moving a lock to an apartment *)

(* Mutant of Guarded: a code in error is forgotten.                        *)
GuardedWithoutErrors == {"pending_create", "active", "pending_update", "pending_delete"}

(* LIVE_CODE_STATUSES; a deletion is one step here, so no row of the model *)
(* is ever in pending_delete.                                              *)
Guarded == {"pending_create", "active", "pending_update", "pending_delete", "sync_error"}

HoldsCodes(l) == \E c \in Codes : code[c].status \in Guarded /\ code[c].lock = l

(* Under the advisory lock the transaction reads both locks concerned and  *)
(* counts their codes ...                                                  *)
StartMove(a, l, apartment) ==
    /\ op[a].pc = "idle"
    /\ \A b \in Admins : op[b].pc # "move"
    /\ place[l] # apartment
    /\ place[l] # Nowhere => ~HoldsCodes(l)
    /\ \A k \in Locks : place[k] = apartment => ~HoldsCodes(k)
    /\ Spend("request")
    /\ Become(a, [IdleOp EXCEPT !.pc = "move", !.kind = "move", !.lock = l,
                                !.place = apartment])
    /\ UNCHANGED <<place, code, draft>>

(* Mutant of Moved: the apartment's present lock stays active.             *)
MovedBesides(l, apartment) == [place EXCEPT ![l] = apartment]

Moved(l, apartment) ==
    [k \in Locks |-> IF k = l THEN apartment
                     ELSE IF place[k] = apartment THEN Nowhere ELSE place[k]]

(* ... and then writes them, without looking again.                        *)
CommitMove(a) ==
    /\ op[a].pc = "move"
    /\ place' = Moved(op[a].lock, op[a].place)
    /\ Return(a)
    /\ UNCHANGED <<code, draft, budget>>

-----------------------------------------------------------------------------
(* Specification *)

Crash ==
    /\ \E a \in Admins : op[a].pc # "idle"
    /\ Spend("crash")
    /\ draft' = Lose({op[a].draft : a \in Admins})
    /\ op' = [a \in Admins |-> IdleOp]
    /\ UNCHANGED <<place, code>>

Init ==
    /\ place \in Assignments
    /\ code = [c \in Codes |-> NoCode]
    /\ draft = [d \in Drafts |-> NoDraft]
    /\ op = [a \in Admins |-> IdleOp]
    /\ budget \in Budgets

Request(a) ==
    \/ \E r \in Reservations, l \in Locks, w \in Windows :
            StartCreate(a, r, l, w) \/ StartEnsure(a, r, l, w)
    \/ \E c \in Codes, w \in Windows : StartReplace(a, c, w)
    \/ \E d \in Drafts : StartApply(a, d)
    \/ \E l \in Locks, apartment \in Apartments : StartMove(a, l, apartment)

(* What the request does by itself, once it has begun                      *)
Continue(a) ==
    \/ ExpireDrafts(a) \/ LookForCode(a) \/ FindOpenDraft(a)
    \/ Pick(a) \/ InsertDraft(a)
    \/ ClaimDraft(a) \/ Reserve(a) \/ Reload(a) \/ Prepare(a)
    \/ Link(a) \/ Provision(a) \/ Finish(a) \/ ReadBack(a) \/ Refuse(a)
    \/ CommitMove(a)

Next ==
    \/ \E a \in Admins : Request(a) \/ Continue(a) \/ StatementFails(a) \/ LockCallFails(a)
    \/ \E d \in Drafts : CancelDraft(d) \/ RunsOut(d)
    \/ \E c \in Codes, w \in Windows : WriteCode(c, w)
    \/ \E c \in Codes : Revoke(c)
    \/ Crash

Spec == Init /\ [][Next]_vars

-----------------------------------------------------------------------------
(* Properties *)

(* The PIN of a draft reaches a code at most once, however often and by    *)
(* however many requests the draft is confirmed, and never if the draft    *)
(* was cancelled or has run out: the claim and the cancellation are        *)
(* conditional updates of one row, the rest of applyDraft follows the      *)
(* claim without a transaction.                                            *)
DraftTakesEffectOnce ==
    \A d \in Drafts : draft[d].status # "none" =>
        /\ draft[d].uses <= 1
        /\ draft[d].status \in {"draft", "cancelled"} => draft[d].uses = 0
        /\ draft[d].status = "applied" => draft[d].uses = 1

(* A confirmed replacement changes the code the administrator saw: when    *)
(* the draft's PIN is written over a code, the code still has the PIN and  *)
(* the window it had when the draft was prepared, and it is in force.      *)
ReplacesWhatWasShown ==
    [][\A d \in Drafts : draft[d].status # "none" /\ draft'[d].uses # draft[d].uses
            /\ draft[d].source # None =>
                LET before == code[draft[d].source] IN
                /\ before.status = "active"
                /\ [pin |-> before.pin, win |-> before.win] = draft[d].shown]_vars

(* A lock is not taken from under a code that was in the table before the  *)
(* move was checked, in whatever state the code is: a code reserved        *)
(* neither during a move nor from a context read before one is on the      *)
(* active lock of its apartment until it is revoked (assertNoLiveCodes).   *)
MoveSparesCodes ==
    \A c \in Codes : Live(c) /\ ~code[c].late => place[code[c].lock] = Home[code[c].res]

(* A draft that is being applied is the work of exactly one request: none  *)
(* of the ways in which applying fails leaves it in 'applying', where it   *)
(* could be neither confirmed nor cancelled and would keep its place in    *)
(* the index of open drafts for good -- unless the process was restarted   *)
(* under it or the database refused the note of the error.                 *)
ApplyingHasOneWorker ==
    \A d \in Drafts : draft[d].status = "applying" /\ ~draft[d].lost =>
        Cardinality({a \in Admins : op[a].draft = d /\ op[a].pc # "claim"}) = 1

=============================================================================
