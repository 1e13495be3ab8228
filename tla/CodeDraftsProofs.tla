--------------------------- MODULE CodeDraftsProofs ---------------------------
(***************************************************************************)
(* For any number of administrators, drafts, codes, locks and stays,       *)
(* whatever is refused or restarted: a draft takes effect once, one        *)
(* request works on it, a replacement changes the code that was shown, and *)
(* no lock is moved from under a code.                                     *)
(***************************************************************************)
EXTENDS CodeDrafts, FiniteSetTheorems, TLAPS

-----------------------------------------------------------------------------
(* The inductive invariant *)

(* A request has read what its next steps write.                           *)
Filled(o) ==
    /\ o.pc \notin {"idle", "move"} =>
           o.res \in Reservations /\ o.lock \in Locks /\ o.win \in Windows
    /\ o.pc \notin {"idle", "move", "expire", "look", "open", "pick"} => o.pin \in Pins
    /\ o.pc = "move" => o.lock \in Locks /\ o.place \in Apartments
    /\ o.draft # None <=> o.kind = "apply"
    /\ o.kind = "apply" => o.pc \in {"claim", "reserve", "reload", "prepare", "link",
                                     "provision", "finish", "answer", "refuse"}
    /\ o.pc \in {"claim", "reload", "prepare", "link", "finish", "answer", "refuse"} =>
           o.kind = "apply"
    /\ o.kind = "replace" => o.pc \in {"expire", "look", "open", "pick", "insert"}
    /\ o.pc = "reserve" => o.code = None
    /\ o.pc \in {"reload", "prepare", "link", "provision"} => o.code \in Codes
    /\ o.pc \in {"expire", "look", "open", "insert"} => o.kind \in {"create", "replace"}
    /\ o.pc = "pick" => o.kind \in {"create", "replace", "ensure"}
    /\ o.kind \in {"create", "ensure"} /\ o.pc \in {"expire", "look", "open", "pick", "insert"} =>
           o.code = None

Complete == \A a \in Admins : Filled(op[a])

(* Requests and drafts are about codes that were inserted.                 *)
Known ==
    /\ \A a \in Admins, c \in Codes : op[a].code = c => code[c].status # "none"
    /\ \A d \in Drafts, c \in Codes :
           draft[d].status # "none" /\ draft[d].source = c => code[c].status # "none"

Works(a, d) == op[a].draft = d /\ op[a].pc # "claim"

(* Whoever claimed a draft has it in `applying' until the request notes    *)
(* how it ended, and writes the PIN to a code on the way.                  *)
Work ==
    \A a \in Admins, d \in Drafts : op[a].draft = d =>
        /\ draft[d].status # "none"
        /\ op[a].pc \in {"claim", "reserve", "reload", "prepare"} =>
               op[a].code = draft[d].source
        /\ op[a].pc \in {"reserve", "reload", "prepare"} =>
               draft[d].status = "applying" /\ draft[d].uses = 0
        /\ op[a].pc \in {"link", "provision", "finish"} =>
               draft[d].status = "applying" /\ draft[d].uses = 1
        /\ op[a].pc = "answer" => draft[d].status = "applied"
        /\ op[a].pc = "refuse" => draft[d].status \in {"applying", "applied"}

One ==
    \A d \in Drafts :
        /\ \A a, b \in Admins : Works(a, d) /\ Works(b, d) => a = b
        /\ draft[d].status = "applying" /\ ~draft[d].lost => \E a \in Admins : Works(a, d)

Holds(a, c) == op[a].code = c /\ op[a].pc \in {"link", "provision"}

(* A code that a request is about to provision is pending: no other        *)
(* request provisions it and nobody can revoke it.                         *)
Holders ==
    /\ \A a \in Admins, c \in Codes :
           Holds(a, c) => code[c].status \in {"pending_create", "pending_update"}
    /\ \A a, b \in Admins, c \in Codes : Holds(a, c) /\ Holds(b, c) => a = b

Face(c) == [pin |-> code[c].pin, win |-> code[c].win]

(* As long as the version matches, the code is the one that was seen.      *)
Seen ==
    /\ \A a \in Admins, c \in Codes :
           op[a].code = c /\ op[a].fresh /\ op[a].kind = "replace" => Face(c) = op[a].shown
    /\ \A d \in Drafts, c \in Codes :
           draft[d].status # "none" /\ draft[d].source = c /\ draft[d].fresh =>
               Face(c) = draft[d].shown
    /\ \A a \in Admins, d \in Drafts, c \in Codes :
           op[a].pc = "prepare" /\ op[a].fresh /\ op[a].draft = d /\ op[a].code = c =>
               code[c].status = "active" /\ Face(c) = draft[d].shown

(* One lock is moved at a time, and no code depends on the locks it        *)
(* concerns unless it came after the check.                                *)
Movers ==
    /\ \A a, b \in Admins : op[a].pc = "move" /\ op[b].pc = "move" => a = b
    /\ \A a \in Admins, c \in Codes :
           op[a].pc = "move" /\ Live(c) /\ ~code[c].late =>
               code[c].lock # op[a].lock /\ place[code[c].lock] # op[a].place

Inductive ==
    /\ TypeOK /\ Complete /\ Known
    /\ Work /\ One /\ DraftTakesEffectOnce
    /\ Holders /\ Seen
    /\ Movers /\ MoveSparesCodes

-----------------------------------------------------------------------------
(* What the actions share *)

CodeRows == [Codes -> CodeRow \cup {NoCode}]
DraftRows == [Drafts -> DraftRow \cup {NoDraft}]
Requests == [Admins -> OpType]

(* A request goes on to pc; nothing else of it changes.                    *)
Advances(a, pc) ==
    /\ op'[a].pc = pc /\ op'[a].kind = op[a].kind /\ op'[a].res = op[a].res
    /\ op'[a].draft = op[a].draft /\ op'[a].code = op[a].code /\ op'[a].fresh = op[a].fresh
    /\ op'[a].lock = op[a].lock /\ op'[a].pin = op[a].pin /\ op'[a].win = op[a].win
    /\ op'[a].shown = op[a].shown /\ op'[a].place = op[a].place

(* A request stays where it is; the version it read may have become stale. *)
SameOp(a) ==
    /\ op'[a].pc = op[a].pc /\ op'[a].kind = op[a].kind /\ op'[a].res = op[a].res
    /\ op'[a].draft = op[a].draft /\ op'[a].code = op[a].code
    /\ op'[a].fresh => op[a].fresh
    /\ op'[a].lock = op[a].lock /\ op'[a].pin = op[a].pin /\ op'[a].win = op[a].win
    /\ op'[a].shown = op[a].shown /\ op'[a].place = op[a].place

(* A draft stays what it is, and so does what it replaces.                 *)
Kept(d) ==
    /\ draft'[d].source = draft[d].source /\ draft'[d].shown = draft[d].shown
    /\ draft'[d].fresh => draft[d].fresh

SameDraft(d) ==
    /\ draft'[d].status = draft[d].status /\ draft'[d].uses = draft[d].uses
    /\ draft'[d].lost = draft[d].lost
    /\ Kept(d)

LEMMA RowOrNone ==
    /\ \A c \in Codes : Inductive => /\ code \in CodeRows
                                     /\ code[c].status = "none" <=> code[c] \notin CodeRow
    /\ \A d \in Drafts : Inductive => /\ draft \in DraftRows
                                      /\ draft[d].status = "none" <=> draft[d] \notin DraftRow
    /\ NoCode.status = "none" /\ NoDraft.status = "none"
    /\ \A row \in CodeRow : row.status # "none"
    /\ \A row \in DraftRow : row.status # "none"
<1>1. NoCode.status = "none" /\ NoDraft.status = "none"
  BY DEF NoCode, NoDraft
<1>2. (\A row \in CodeRow : row.status # "none") /\ \A row \in DraftRow : row.status # "none"
  BY DEF CodeRow, DraftRow
<1>3. Inductive => code \in CodeRows /\ draft \in DraftRows
  BY DEF Inductive, TypeOK, CodeRows, DraftRows
<1>. QED
  BY <1>1, <1>2, <1>3 DEF CodeRows, DraftRows

LEMMA RequestsTyped == Inductive => op \in Requests
BY DEF Inductive, TypeOK, Requests

LEMMA Idling ==
    /\ IdleOp \in OpType /\ Filled(IdleOp)
    /\ IdleOp.pc = "idle" /\ IdleOp.kind = "none" /\ IdleOp.draft = None
    /\ IdleOp.code = None /\ IdleOp.fresh = FALSE
BY DEF IdleOp, NothingShown, OpType, Shown, Filled

LEMMA SpendTyped ==
    ASSUME Inductive, NEW kind \in Kinds, Spend(kind)
    PROVE  budget' \in [Kinds -> Nat]
BY DEF Inductive, TypeOK, Spend

LEMMA Becoming ==
    ASSUME Inductive, NEW a \in Admins, NEW o \in OpType, Become(a, o)
    PROVE  /\ op' \in Requests /\ op'[a] = o
           /\ \A b \in Admins : b # a => op'[b] = op[b] /\ SameOp(b)
<1>1. op' \in Requests /\ op'[a] = o /\ \A b \in Admins : b # a => op'[b] = op[b]
  BY RequestsTyped DEF Become, Requests
<1>. QED
  BY <1>1 DEF SameOp

LEMMA Going ==
    ASSUME Inductive, NEW a \in Admins,
           NEW pc \in {"idle", "expire", "look", "open", "pick", "insert", "claim", "reserve",
                       "reload", "prepare", "link", "provision", "finish", "answer", "refuse",
                       "move"},
           Goto(a, pc)
    PROVE  /\ op' \in Requests /\ Advances(a, pc)
           /\ \A b \in Admins : b # a => op'[b] = op[b] /\ SameOp(b)
<1>. DEFINE o == [op[a] EXCEPT !.pc = pc]
<1>1. op[a] \in OpType
  BY RequestsTyped DEF Requests
<1>2. o \in OpType
  BY <1>1 DEF OpType
<1>3. /\ o.pc = pc /\ o.kind = op[a].kind /\ o.res = op[a].res
      /\ o.draft = op[a].draft /\ o.code = op[a].code /\ o.fresh = op[a].fresh
      /\ o.lock = op[a].lock /\ o.pin = op[a].pin /\ o.win = op[a].win
      /\ o.shown = op[a].shown /\ o.place = op[a].place
  BY <1>1 DEF OpType
<1>4. Become(a, o)
  BY DEF Goto
<1>. HIDE DEF o
<1>5. op' \in Requests /\ op'[a] = o /\ \A b \in Admins : b # a => op'[b] = op[b] /\ SameOp(b)
  BY <1>2, <1>4, Becoming
<1>. QED
  BY <1>3, <1>5 DEF Advances

LEMMA StaleTyped ==
    ASSUME Inductive, NEW c \in Codes
    PROVE  /\ StaleReaders(c) \in Requests
           /\ StaleDrafts(c) \in DraftRows
           /\ \A a \in Admins :
                  LET o == StaleReaders(c)[a] IN
                  /\ o.pc = op[a].pc /\ o.kind = op[a].kind /\ o.res = op[a].res
                  /\ o.draft = op[a].draft /\ o.code = op[a].code
                  /\ o.fresh => op[a].fresh /\ op[a].code # c
                  /\ o.lock = op[a].lock /\ o.pin = op[a].pin /\ o.win = op[a].win
                  /\ o.shown = op[a].shown /\ o.place = op[a].place
           /\ \A d \in Drafts :
                  LET r == StaleDrafts(c)[d] IN
                  /\ r.status = draft[d].status /\ r.uses = draft[d].uses
                  /\ r.lost = draft[d].lost /\ r.source = draft[d].source
                  /\ r.shown = draft[d].shown
                  /\ r.fresh => draft[d].fresh
                  /\ draft[d].status # "none" /\ r.fresh => draft[d].source # c
<1>1. ASSUME NEW a \in Admins
      PROVE  LET o == StaleReaders(c)[a] IN
                  /\ o \in OpType
                  /\ o.pc = op[a].pc /\ o.kind = op[a].kind /\ o.res = op[a].res
                  /\ o.draft = op[a].draft /\ o.code = op[a].code
                  /\ o.fresh => op[a].fresh /\ op[a].code # c
                  /\ o.lock = op[a].lock /\ o.pin = op[a].pin /\ o.win = op[a].win
                  /\ o.shown = op[a].shown /\ o.place = op[a].place
  <2>1. op[a] \in OpType
    BY RequestsTyped DEF Requests
  <2>2. StaleReaders(c)[a] = IF op[a].code = c THEN [op[a] EXCEPT !.fresh = FALSE] ELSE op[a]
    BY DEF StaleReaders
  <2>3. CASE op[a].code = c
    <3>. DEFINE o == [op[a] EXCEPT !.fresh = FALSE]
    <3>1. o \in OpType
      BY <2>1 DEF OpType
    <3>2. /\ o.pc = op[a].pc /\ o.kind = op[a].kind /\ o.res = op[a].res
          /\ o.draft = op[a].draft /\ o.code = op[a].code /\ o.fresh = FALSE
          /\ o.lock = op[a].lock /\ o.pin = op[a].pin /\ o.win = op[a].win
          /\ o.shown = op[a].shown /\ o.place = op[a].place
      BY <2>1 DEF OpType
    <3>3. StaleReaders(c)[a] = o
      BY <2>2, <2>3
    <3>. HIDE DEF o
    <3>. QED
      BY <3>1, <3>2, <3>3
  <2>4. CASE op[a].code # c
    BY <2>1, <2>2, <2>4
  <2>. QED
    BY <2>3, <2>4
<1>2. ASSUME NEW d \in Drafts
      PROVE  LET r == StaleDrafts(c)[d] IN
                  /\ r \in DraftRow \cup {NoDraft}
                  /\ r.status = draft[d].status /\ r.uses = draft[d].uses
                  /\ r.lost = draft[d].lost /\ r.source = draft[d].source
                  /\ r.shown = draft[d].shown
                  /\ r.fresh => draft[d].fresh
                  /\ draft[d].status # "none" /\ r.fresh => draft[d].source # c
  <2>1. StaleDrafts(c)[d] = IF draft[d].status # "none" /\ draft[d].source = c
                            THEN [draft[d] EXCEPT !.fresh = FALSE] ELSE draft[d]
    BY DEF StaleDrafts
  <2>2. CASE draft[d].status # "none" /\ draft[d].source = c
    <3>1. draft[d] \in DraftRow
      BY <2>2, RowOrNone
    <3>. DEFINE r == [draft[d] EXCEPT !.fresh = FALSE]
    <3>2. r \in DraftRow
      BY <3>1 DEF DraftRow
    <3>3. /\ r.status = draft[d].status /\ r.uses = draft[d].uses
          /\ r.lost = draft[d].lost /\ r.source = draft[d].source
          /\ r.shown = draft[d].shown /\ r.fresh = FALSE
      BY <3>1 DEF DraftRow
    <3>4. StaleDrafts(c)[d] = r
      BY <2>1, <2>2
    <3>. HIDE DEF r
    <3>. QED
      BY <3>2, <3>3, <3>4
  <2>3. CASE ~(draft[d].status # "none" /\ draft[d].source = c)
    <3>1. draft[d] \in DraftRow \cup {NoDraft}
      BY RowOrNone DEF DraftRows
    <3>. QED
      BY <2>1, <2>3, <3>1
  <2>. QED
    BY <2>2, <2>3
<1>3. StaleReaders(c) \in Requests
  BY <1>1 DEF StaleReaders, Requests
<1>4. StaleDrafts(c) \in DraftRows
  BY <1>2 DEF StaleDrafts, DraftRows
<1>. QED
  BY <1>1, <1>2, <1>3, <1>4

LEMMA FilledSame ==
    ASSUME NEW a \in Admins, Filled(op[a]), SameOp(a)
    PROVE  Filled(op'[a])
BY DEF Filled, SameOp

(* Requests that do not work on a draft, and drafts nobody works on        *)
Apart(a) ==
    /\ op[a].draft = None \/ op[a].pc = "claim"
    /\ \/ op'[a].draft = None
       \/ /\ op'[a].pc = "claim"
          /\ \A d \in Drafts : op'[a].draft = d =>
                 draft[d].status # "none" /\ op'[a].code = draft[d].source

LEMMA BystandersKeep ==
    ASSUME Inductive,
           \A a \in Admins : SameOp(a) \/ Apart(a),
           \A d \in Drafts :
               \/ SameDraft(d)
               \/ /\ draft[d].status \in {"none", "draft"}
                  /\ draft'[d].status \in {"draft", "cancelled"}
                  /\ draft'[d].uses = 0
                  /\ draft[d].status = "draft" => draft'[d].source = draft[d].source
    PROVE  Work' /\ One' /\ DraftTakesEffectOnce'
<1>1. \A d \in Drafts : d # None
  BY NullsAreOutside
<1>2. \A a \in Admins, d \in Drafts : Works(a, d)' <=> Works(a, d)
  BY <1>1 DEF Works, SameOp, Apart
<1>3. \A a \in Admins, d \in Drafts : op'[a].draft = d =>
          /\ draft[d].status # "none"
          /\ op'[a].pc = "claim" => op'[a].code = draft[d].source
          /\ op'[a].pc # "claim" => op'[a].pc = op[a].pc /\ op'[a].code = op[a].code
                                    /\ op[a].draft = d
  BY <1>1 DEF SameOp, Apart, Inductive, Work
<1>4. \A d \in Drafts : /\ draft[d].status # "none" => /\ draft'[d].status # "none"
                                                       /\ draft'[d].source = draft[d].source
                        /\ draft[d].status \in {"applying", "applied"} => SameDraft(d)
  BY DEF SameDraft, Kept
<1>5. Work'
  <2>. SUFFICES ASSUME NEW a \in Admins, NEW d \in Drafts, op'[a].draft = d
                PROVE  /\ draft'[d].status # "none"
                       /\ op'[a].pc \in {"claim", "reserve", "reload", "prepare"} =>
                              op'[a].code = draft'[d].source
                       /\ op'[a].pc \in {"reserve", "reload", "prepare"} =>
                              draft'[d].status = "applying" /\ draft'[d].uses = 0
                       /\ op'[a].pc \in {"link", "provision", "finish"} =>
                              draft'[d].status = "applying" /\ draft'[d].uses = 1
                       /\ op'[a].pc = "answer" => draft'[d].status = "applied"
                       /\ op'[a].pc = "refuse" => draft'[d].status \in {"applying", "applied"}
    BY DEF Work
  <2>1. CASE op'[a].pc = "claim"
    BY <1>3, <1>4, <2>1
  <2>2. CASE op'[a].pc # "claim"
    <3>1. op'[a].pc = op[a].pc /\ op'[a].code = op[a].code /\ op[a].draft = d
      BY <1>3, <2>2
    <3>. QED
      BY <1>4, <2>2, <3>1 DEF Inductive, Work, SameDraft
  <2>. QED
    BY <2>1, <2>2
<1>6. One'
  <2>1. \A d \in Drafts : draft'[d].status = "applying" /\ ~draft'[d].lost =>
                              draft[d].status = "applying" /\ ~draft[d].lost
    BY DEF SameDraft
  <2>. QED
    BY <1>2, <2>1 DEF Inductive, One
<1>7. DraftTakesEffectOnce'
  BY DEF Inductive, DraftTakesEffectOnce, SameDraft
<1>. QED
  BY <1>5, <1>6, <1>7

(* The one request that works on the draft d goes on with it, or leaves it *)
(* when it is settled.                                                     *)
LEMMA WorkerKeeps ==
    ASSUME Inductive, NEW a \in Admins, NEW d \in Drafts, Works(a, d),
           \A b \in Admins : b # a => SameOp(b),
           \A e \in Drafts : e # d => SameDraft(e),
           draft'[d].status # "none", draft'[d].source = draft[d].source,
           draft'[d].uses \in Nat, draft'[d].uses <= 1,
           draft'[d].status \in {"applying", "applied", "sync_error"},
           draft'[d].status = "applied" => draft'[d].uses = 1,
           \/ op'[a].draft = None /\ (draft'[d].status # "applying" \/ draft'[d].lost)
           \/ /\ op'[a].draft = d
              /\ op'[a].pc \in {"reserve", "reload", "prepare"} =>
                     /\ op'[a].code = draft[d].source
                     /\ draft'[d].status = "applying" /\ draft'[d].uses = 0
              /\ op'[a].pc \in {"link", "provision", "finish"} =>
                     draft'[d].status = "applying" /\ draft'[d].uses = 1
              /\ op'[a].pc = "answer" => draft'[d].status = "applied"
              /\ op'[a].pc = "refuse" => draft'[d].status \in {"applying", "applied"}
              /\ op'[a].pc # "claim"
    PROVE  Work' /\ One' /\ DraftTakesEffectOnce'
<1>1. d # None /\ \A e \in Drafts : e # None
  BY NullsAreOutside
<1>2. \A b \in Admins : b # a /\ op[b].draft = d => op[b].pc = "claim"
  BY DEF Inductive, One, Works
<1>3. \A b \in Admins, e \in Drafts : b # a => (Works(b, e)' <=> Works(b, e))
  BY DEF Works, SameOp
<1>4. \A e \in Drafts : e # d => ~Works(a, e) /\ ~Works(a, e)'
  BY <1>1 DEF Works
<1>5. Work'
  <2>1. \A e \in Drafts : op'[a].draft = e => e = d
    BY <1>1
  <2>2. ASSUME NEW b \in Admins, b # a, op'[b].draft = d
        PROVE  op'[b].pc = "claim" /\ op'[b].code = draft'[d].source
    <3>1. op[b].pc = "claim" /\ op[b].draft = d /\ SameOp(b)
      BY <1>2, <2>2 DEF SameOp
    <3>2. op[b].code = draft[d].source
      BY <3>1 DEF Inductive, Work
    <3>. QED
      BY <3>1, <3>2 DEF SameOp
  <2>3. ASSUME NEW b \in Admins, b # a, NEW e \in Drafts, e # d, op'[b].draft = e
        PROVE  /\ draft'[e].status # "none"
               /\ op'[b].pc \in {"claim", "reserve", "reload", "prepare"} =>
                      op'[b].code = draft'[e].source
               /\ op'[b].pc \in {"reserve", "reload", "prepare"} =>
                      draft'[e].status = "applying" /\ draft'[e].uses = 0
               /\ op'[b].pc \in {"link", "provision", "finish"} =>
                      draft'[e].status = "applying" /\ draft'[e].uses = 1
               /\ op'[b].pc = "answer" => draft'[e].status = "applied"
               /\ op'[b].pc = "refuse" => draft'[e].status \in {"applying", "applied"}
    <3>1. op'[b].pc = op[b].pc /\ op'[b].code = op[b].code /\ op[b].draft = e
      BY <2>3 DEF SameOp
    <3>2. SameDraft(e)
      BY <2>3
    <3>. QED
      BY <3>1, <3>2 DEF Inductive, Work, SameDraft, Kept
  <2>4. ASSUME op'[a].draft = d
        PROVE  op'[a].pc \in {"claim", "reserve", "reload", "prepare"} =>
                   op'[a].code = draft'[d].source
    BY <1>1, <2>4
  <2>. QED
    BY <1>1, <2>1, <2>2, <2>3, <2>4 DEF Work
<1>6. One'
  <2>1. \A e \in Drafts : e # d =>
            /\ \A b \in Admins : Works(b, e)' <=> Works(b, e)
            /\ draft'[e].status = draft[e].status /\ draft'[e].lost = draft[e].lost
    BY <1>3, <1>4 DEF SameDraft
  <2>2. \A b \in Admins : Works(b, d)' => b = a
    BY <1>2, <1>3 DEF Works
  <2>3. draft'[d].status = "applying" /\ ~draft'[d].lost => Works(a, d)'
    BY <1>1 DEF Works
  <2>. QED
    BY <2>1, <2>2, <2>3 DEF Inductive, One
<1>7. DraftTakesEffectOnce'
  BY DEF Inductive, DraftTakesEffectOnce, SameDraft
<1>. QED
  BY <1>5, <1>6, <1>7

(* A step of one request that changes neither codes nor locks              *)
LEMMA RequestKeeps ==
    ASSUME Inductive, UNCHANGED <<place, code>>, NEW a \in Admins, op' \in Requests,
           \A b \in Admins : b # a => SameOp(b),
           draft' \in DraftRows, budget' \in [Kinds -> Nat],
           Work' /\ One' /\ DraftTakesEffectOnce',
           Filled(op'[a]),
           \A c \in Codes : op'[a].code = c => code[c].status # "none",
           op'[a].pc \in {"link", "provision"} =>
               op[a].pc \in {"link", "provision"} /\ op'[a].code = op[a].code,
           \A c \in Codes : op'[a].code = c /\ op'[a].fresh /\ op'[a].kind = "replace" =>
               Face(c) = op'[a].shown,
           \A c \in Codes, d \in Drafts :
               op'[a].pc = "prepare" /\ op'[a].fresh /\ op'[a].draft = d /\ op'[a].code = c =>
                   /\ draft[d].status # "none"
                   /\ code[c].status = "active" /\ Face(c) = draft[d].shown,
           op'[a].pc = "move" =>
               /\ \A b \in Admins : b # a => op[b].pc # "move"
               /\ \A c \in Codes : Live(c) /\ ~code[c].late =>
                      code[c].lock # op'[a].lock /\ place[code[c].lock] # op'[a].place,
           \A d \in Drafts :
               \/ Kept(d) /\ (draft[d].status # "none" <=> draft'[d].status # "none")
               \/ /\ draft[d].status = "none"
                  /\ \A c \in Codes : draft'[d].source = c =>
                         /\ code[c].status # "none"
                         /\ draft'[d].fresh => Face(c) = draft'[d].shown
    PROVE  Inductive'
<1>1. TypeOK'
  BY DEF Inductive, TypeOK, Requests, DraftRows
<1>2. Complete'
  <2>1. \A b \in Admins : b # a => Filled(op'[b])
    BY FilledSame DEF Inductive, Complete
  <2>. QED
    BY <2>1 DEF Complete
<1>3. Known'
  BY DEF Inductive, Known, SameOp, Kept
<1>4. Holders'
  <2>1. \A b \in Admins, c \in Codes : Holds(b, c)' => Holds(b, c)
    BY DEF Holds, SameOp
  <2>. QED
    BY <2>1 DEF Inductive, Holders
<1>5. Seen'
  <2>1. \A c \in Codes : Face(c)' = Face(c)
    BY DEF Face
  <2>2. \A b \in Admins, c \in Codes :
            op'[b].code = c /\ op'[b].fresh /\ op'[b].kind = "replace" => Face(c) = op'[b].shown
    BY DEF Inductive, Seen, SameOp
  <2>3. \A d \in Drafts, c \in Codes :
            draft'[d].status # "none" /\ draft'[d].source = c /\ draft'[d].fresh =>
                Face(c) = draft'[d].shown
    BY DEF Inductive, Seen, Kept
  <2>4. ASSUME NEW b \in Admins, NEW d \in Drafts, NEW c \in Codes,
               op'[b].pc = "prepare", op'[b].fresh, op'[b].draft = d, op'[b].code = c
        PROVE  code'[c].status = "active" /\ Face(c) = draft'[d].shown
    <3>1. code[c].status = "active" /\ Face(c) = draft[d].shown
      BY <2>4 DEF Inductive, Seen, SameOp
    <3>2. draft[d].status # "none"
      BY <2>4 DEF Inductive, Work, SameOp
    <3>. QED
      BY <3>1, <3>2 DEF Kept
  <2>. QED
    BY <2>1, <2>2, <2>3, <2>4 DEF Seen
<1>6. Movers'
  <2>1. \A c \in Codes : Live(c)' <=> Live(c)
    BY DEF Live
  <2>2. \A b, e \in Admins : op'[b].pc = "move" /\ op'[e].pc = "move" => b = e
    BY DEF Inductive, Movers, SameOp
  <2>. QED
    BY <2>1, <2>2 DEF Inductive, Movers, SameOp
<1>7. MoveSparesCodes'
  BY DEF Inductive, MoveSparesCodes, Live
<1>. QED
  BY <1>1, <1>2, <1>3, <1>4, <1>5, <1>6, <1>7 DEF Inductive

LEMMA FilledNow ==
    ASSUME Inductive, NEW a \in Admins
    PROVE  Filled(op[a]) /\ op[a] \in OpType
BY RequestsTyped DEF Inductive, Complete, Requests

LEMMA NothingChanges ==
    UNCHANGED <<place, code, draft>> =>
        \A d \in Drafts : SameDraft(d) /\ Kept(d)
                          /\ (draft[d].status # "none" <=> draft'[d].status # "none")
BY DEF SameDraft, Kept

(* A step of a request that has no draft yet                               *)
LEMMA PlainKeeps ==
    ASSUME Inductive, UNCHANGED <<place, code, draft>>, NEW a \in Admins, op' \in Requests,
           \A b \in Admins : b # a => SameOp(b),
           budget' \in [Kinds -> Nat], Apart(a), Filled(op'[a]),
           op'[a].pc \notin {"link", "provision", "prepare"},
           \A c \in Codes : op'[a].code = c => code[c].status # "none",
           \A c \in Codes : op'[a].code = c /\ op'[a].fresh /\ op'[a].kind = "replace" =>
               Face(c) = op'[a].shown,
           op'[a].pc = "move" =>
               /\ \A b \in Admins : b # a => op[b].pc # "move"
               /\ \A c \in Codes : Live(c) /\ ~code[c].late =>
                      code[c].lock # op'[a].lock /\ place[code[c].lock] # op'[a].place
    PROVE  Inductive'
<1>1. Work' /\ One' /\ DraftTakesEffectOnce'
  BY NothingChanges, BystandersKeep
<1>2. draft' \in DraftRows
  BY DEF Inductive, TypeOK, DraftRows
<1>. QED
  BY <1>1, <1>2, NothingChanges, RequestKeeps

(* A step of the request that works on d, after which d is the same        *)
LEMMA WorkerMoves ==
    ASSUME Inductive, UNCHANGED <<place, code, draft>>,
           NEW a \in Admins, NEW d \in Drafts, Works(a, d), op' \in Requests,
           \A b \in Admins : b # a => SameOp(b),
           budget' \in [Kinds -> Nat], Filled(op'[a]),
           op'[a].pc \notin {"claim", "link", "provision", "move"},
           op'[a].code \in {op[a].code, None}, op'[a].kind \in {op[a].kind, "none"},
           \/ op'[a].draft = None /\ draft[d].status # "applying"
           \/ /\ op'[a].draft = d
              /\ op'[a].pc = "finish" => draft[d].status = "applying" /\ draft[d].uses = 1
              /\ op'[a].pc = "answer" => draft[d].status = "applied"
              /\ op'[a].pc \in {"reserve", "reload", "prepare"} =>
                     op'[a].code = draft[d].source
                     /\ draft[d].status = "applying" /\ draft[d].uses = 0,
           \A c \in Codes : op'[a].pc = "prepare" /\ op'[a].fresh /\ op'[a].code = c =>
               code[c].status = "active" /\ Face(c) = draft[d].shown
    PROVE  Inductive'
<1>1. /\ draft[d].status \in {"applying", "applied"} /\ draft[d].uses \in Nat
      /\ draft[d].uses <= 1 /\ (draft[d].status = "applied" => draft[d].uses = 1)
      /\ draft[d] \in DraftRow /\ op[a].kind = "apply"
  <2>1. op[a].draft = d /\ d # None /\ op[a].pc # "claim"
    BY NullsAreOutside DEF Works
  <2>2. /\ op[a].kind = "apply"
        /\ op[a].pc \in {"reserve", "reload", "prepare", "link", "provision", "finish",
                         "answer", "refuse"}
    BY <2>1, FilledNow DEF Filled
  <2>3. draft[d].status \in {"applying", "applied"}
    BY <2>1, <2>2 DEF Inductive, Work
  <2>4. draft[d] \in DraftRow
    BY <2>3, RowOrNone
  <2>. QED
    BY <2>2, <2>3, <2>4 DEF DraftRow, Inductive, DraftTakesEffectOnce
<1>2. Work' /\ One' /\ DraftTakesEffectOnce'
  <2>1. op'[a].draft = d /\ op'[a].pc = "refuse" => draft[d].status \in {"applying", "applied"}
    BY <1>1
  <2>. QED
    BY <1>1, <2>1, NothingChanges, WorkerKeeps
<1>3. draft' \in DraftRows
  BY DEF Inductive, TypeOK, DraftRows
<1>4. \A c \in Codes : op'[a].code = c => code[c].status # "none"
  BY NullsAreOutside DEF Inductive, Known
<1>5. \A c \in Codes, e \in Drafts :
          op'[a].pc = "prepare" /\ op'[a].fresh /\ op'[a].draft = e /\ op'[a].code = c =>
              e = d
  BY NullsAreOutside
<1>. QED
  BY <1>1, <1>2, <1>3, <1>4, <1>5, NothingChanges, RequestKeeps

-----------------------------------------------------------------------------
(* Preparing a draft *)

LEMMA StartCreateStep ==
    ASSUME Inductive, NEW a \in Admins, NEW r \in Reservations, NEW l \in Locks,
           NEW w \in Windows, StartCreate(a, r, l, w)
    PROVE  Inductive'
<1>. DEFINE o == [IdleOp EXCEPT !.pc = "expire", !.kind = "create", !.res = r,
                                !.lock = l, !.win = w]
<1>1. o \in OpType
  BY DEF IdleOp, NothingShown, OpType, Shown
<1>2. /\ o.pc = "expire" /\ o.kind = "create" /\ o.res = r /\ o.lock = l /\ o.win = w
      /\ o.draft = None /\ o.code = None
  BY DEF IdleOp
<1>3. Become(a, o) /\ op[a].pc = "idle" /\ UNCHANGED <<place, code, draft>>
  BY DEF StartCreate
<1>. HIDE DEF o
<1>4. Filled(o)
  BY <1>2 DEF Filled
<1>5. op' \in Requests /\ op'[a] = o /\ \A b \in Admins : b # a => SameOp(b)
  BY <1>1, <1>3, Becoming
<1>6. Apart(a)
  BY <1>2, <1>3, <1>5, FilledNow DEF Apart, Filled
<1>7. budget' \in [Kinds -> Nat]
  BY SpendTyped DEF StartCreate, Kinds
<1>. QED
  BY <1>2, <1>3, <1>4, <1>5, <1>6, <1>7, PlainKeeps, NullsAreOutside

LEMMA StartEnsureStep ==
    ASSUME Inductive, NEW a \in Admins, NEW r \in Reservations, NEW l \in Locks,
           NEW w \in Windows, StartEnsure(a, r, l, w)
    PROVE  Inductive'
<1>. DEFINE o == [IdleOp EXCEPT !.pc = "pick", !.kind = "ensure", !.res = r,
                                !.lock = l, !.win = w]
<1>1. o \in OpType
  BY DEF IdleOp, NothingShown, OpType, Shown
<1>2. /\ o.pc = "pick" /\ o.kind = "ensure" /\ o.res = r /\ o.lock = l /\ o.win = w
      /\ o.draft = None /\ o.code = None
  BY DEF IdleOp
<1>3. Become(a, o) /\ op[a].pc = "idle" /\ UNCHANGED <<place, code, draft>>
  BY DEF StartEnsure
<1>. HIDE DEF o
<1>4. Filled(o)
  BY <1>2 DEF Filled
<1>5. op' \in Requests /\ op'[a] = o /\ \A b \in Admins : b # a => SameOp(b)
  BY <1>1, <1>3, Becoming
<1>6. Apart(a)
  BY <1>2, <1>3, <1>5, FilledNow DEF Apart, Filled
<1>7. budget' \in [Kinds -> Nat]
  BY SpendTyped DEF StartEnsure, Kinds
<1>. QED
  BY <1>2, <1>3, <1>4, <1>5, <1>6, <1>7, PlainKeeps, NullsAreOutside

LEMMA StartReplaceStep ==
    ASSUME Inductive, NEW a \in Admins, NEW c \in Codes, NEW w \in Windows,
           StartReplace(a, c, w)
    PROVE  Inductive'
<1>1. code[c].status = "active" /\ code[c] \in CodeRow
  BY RowOrNone DEF StartReplace
<1>. DEFINE o == [IdleOp EXCEPT !.pc = "expire", !.kind = "replace", !.res = code[c].res,
                                !.code = c, !.fresh = TRUE, !.lock = code[c].lock, !.win = w,
                                !.shown = [pin |-> code[c].pin, win |-> code[c].win]]
<1>2. /\ code[c].res \in Reservations /\ code[c].lock \in Locks
      /\ [pin |-> code[c].pin, win |-> code[c].win] \in Shown
  BY <1>1 DEF CodeRow, Shown
<1>3. o \in OpType
  BY <1>2 DEF IdleOp, OpType
<1>4. /\ o.pc = "expire" /\ o.kind = "replace" /\ o.res = code[c].res /\ o.lock = code[c].lock
      /\ o.win = w /\ o.draft = None /\ o.code = c /\ o.shown = Face(c)
  BY DEF IdleOp, Face
<1>5. Become(a, o) /\ op[a].pc = "idle" /\ UNCHANGED <<place, code, draft>>
  BY DEF StartReplace
<1>. HIDE DEF o
<1>6. Filled(o)
  BY <1>2, <1>4 DEF Filled
<1>7. op' \in Requests /\ op'[a] = o /\ \A b \in Admins : b # a => SameOp(b)
  BY <1>3, <1>5, Becoming
<1>8. Apart(a)
  BY <1>4, <1>5, <1>7, FilledNow DEF Apart, Filled
<1>9. budget' \in [Kinds -> Nat]
  BY SpendTyped DEF StartReplace, Kinds
<1>. QED
  BY <1>1, <1>4, <1>5, <1>6, <1>7, <1>8, <1>9, PlainKeeps

LEMMA DraftsUnused == \A d \in Drafts : d # None
BY NullsAreOutside

(* A request that prepares a draft goes on.                                *)
LEMMA PreparingKeeps ==
    ASSUME Inductive, UNCHANGED <<place, code, draft, budget>>, NEW a \in Admins,
           op' \in Requests, \A b \in Admins : b # a => SameOp(b),
           op[a].kind \in {"create", "replace"},
           \/ Advances(a, "look") \/ Advances(a, "open") \/ Advances(a, "pick")
           \/ op'[a] = IdleOp,
           op[a].pc \in {"expire", "look", "open"}
    PROVE  Inductive'
<1>1. Filled(op[a])
  BY FilledNow
<1>2. Filled(op'[a])
  BY <1>1, Idling DEF Filled, Advances
<1>3. Apart(a)
  BY <1>1, Idling DEF Filled, Advances, Apart
<1>4. /\ op'[a].pc \in {"look", "open", "pick", "idle"}
      /\ \A c \in Codes : op'[a].code = c => op[a].code = c
      /\ op'[a].fresh /\ op'[a].kind = "replace" =>
             op[a].fresh /\ op[a].kind = "replace" /\ op'[a].shown = op[a].shown
  BY Idling, NullsAreOutside DEF Advances
<1>5. /\ \A c \in Codes : op'[a].code = c => code[c].status # "none"
      /\ \A c \in Codes : op'[a].code = c /\ op'[a].fresh /\ op'[a].kind = "replace" =>
             Face(c) = op'[a].shown
  BY <1>4 DEF Inductive, Known, Seen
<1>6. budget' \in [Kinds -> Nat]
  BY DEF Inductive, TypeOK
<1>. QED
  BY <1>2, <1>3, <1>4, <1>5, <1>6, PlainKeeps

LEMMA LookForCodeStep ==
    ASSUME Inductive, NEW a \in Admins, LookForCode(a)
    PROVE  Inductive'
<1>1. op[a].pc = "look" /\ UNCHANGED <<place, code, draft, budget>>
  BY DEF LookForCode
<1>2. op[a].kind \in {"create", "replace"}
  BY <1>1, FilledNow DEF Filled
<1>3. CASE Return(a)
  BY <1>1, <1>2, <1>3, Becoming, Idling, PreparingKeeps DEF Return
<1>4. CASE Goto(a, "open")
  BY <1>1, <1>2, <1>4, Going, PreparingKeeps
<1>. QED
  BY <1>3, <1>4 DEF LookForCode

LEMMA FindOpenDraftStep ==
    ASSUME Inductive, NEW a \in Admins, FindOpenDraft(a)
    PROVE  Inductive'
<1>1. op[a].pc = "open" /\ UNCHANGED <<place, code, draft, budget>>
  BY DEF FindOpenDraft
<1>2. op[a].kind \in {"create", "replace"}
  BY <1>1, FilledNow DEF Filled
<1>3. CASE Return(a)
  BY <1>1, <1>2, <1>3, Becoming, Idling, PreparingKeeps DEF Return
<1>4. CASE Goto(a, "pick")
  BY <1>1, <1>2, <1>4, Going, PreparingKeeps
<1>. QED
  BY <1>3, <1>4 DEF FindOpenDraft

(* The request ends.                                                       *)
LEMMA ReturnKeeps ==
    ASSUME Inductive, UNCHANGED <<place, code, draft>>, NEW a \in Admins, Return(a),
           budget' \in [Kinds -> Nat], op[a].draft = None \/ op[a].pc = "claim"
    PROVE  Inductive'
<1>1. op' \in Requests /\ op'[a] = IdleOp /\ \A b \in Admins : b # a => SameOp(b)
  BY Becoming, Idling DEF Return
<1>2. Apart(a)
  BY <1>1, Idling DEF Apart
<1>. QED
  BY <1>1, <1>2, Idling, NullsAreOutside, PlainKeeps

LEMMA PickStep ==
    ASSUME Inductive, NEW a \in Admins, Pick(a)
    PROVE  Inductive'
<1>1. PICK p \in Pins :
          Become(a, [op[a] EXCEPT !.pc = IF op[a].kind = "ensure" THEN "reserve" ELSE "insert",
                                  !.pin = p])
  BY DEF Pick
<1>. DEFINE pc == IF op[a].kind = "ensure" THEN "reserve" ELSE "insert"
            o == [op[a] EXCEPT !.pc = pc, !.pin = p]
<1>2. op[a].pc = "pick" /\ UNCHANGED <<place, code, draft, budget>>
  BY DEF Pick
<1>3. Filled(op[a]) /\ op[a] \in OpType
  BY FilledNow
<1>4. o \in OpType
  <2>1. pc \in {"reserve", "insert"}
    OBVIOUS
  <2>. HIDE DEF pc
  <2>. QED
    BY <1>3, <2>1 DEF OpType
<1>5. /\ o.pc = pc /\ o.kind = op[a].kind /\ o.res = op[a].res
      /\ o.draft = op[a].draft /\ o.code = op[a].code /\ o.fresh = op[a].fresh
      /\ o.lock = op[a].lock /\ o.pin = p /\ o.win = op[a].win
      /\ o.shown = op[a].shown
  BY <1>3 DEF OpType
<1>6. Become(a, o)
  BY <1>1
<1>7. pc \in {"reserve", "insert"} /\ (pc = "reserve" <=> op[a].kind = "ensure")
  OBVIOUS
<1>. HIDE DEF o, pc
<1>8. op' \in Requests /\ op'[a] = o /\ \A b \in Admins : b # a => SameOp(b)
  BY <1>4, <1>6, Becoming
<1>9. Filled(o)
  BY <1>2, <1>3, <1>5, <1>7 DEF Filled
<1>10. Apart(a)
  BY <1>2, <1>3, <1>5, <1>8 DEF Filled, Apart
<1>11. /\ \A c \in Codes : o.code = c => code[c].status # "none"
       /\ \A c \in Codes : o.code = c /\ o.fresh /\ o.kind = "replace" => Face(c) = o.shown
  BY <1>5 DEF Inductive, Known, Seen
<1>12. budget' \in [Kinds -> Nat]
  BY <1>2 DEF Inductive, TypeOK
<1>. QED
  BY <1>2, <1>5, <1>7, <1>8, <1>9, <1>10, <1>11, <1>12, PlainKeeps

LEMMA LockCallFailsStep ==
    ASSUME Inductive, NEW a \in Admins, LockCallFails(a)
    PROVE  Inductive'
<1>1. op[a].pc = "pick" /\ Return(a) /\ UNCHANGED <<place, code, draft>>
  BY DEF LockCallFails
<1>2. budget' \in [Kinds -> Nat]
  BY SpendTyped DEF LockCallFails, Kinds
<1>3. op[a].draft = None
  BY <1>1, FilledNow DEF Filled
<1>. QED
  BY <1>1, <1>2, <1>3, ReturnKeeps

LEMMA ExpireDraftsStep ==
    ASSUME Inductive, NEW a \in Admins, ExpireDrafts(a)
    PROVE  Inductive'
<1>1. op[a].pc = "expire" /\ UNCHANGED <<place, code, budget>>
  BY DEF ExpireDrafts
<1>2. Filled(op[a]) /\ op[a].draft = None /\ op[a].kind \in {"create", "replace"}
  BY <1>1, FilledNow DEF Filled
<1>3. /\ op' \in Requests /\ (Advances(a, "look") \/ Advances(a, "open"))
      /\ \A b \in Admins : b # a => SameOp(b)
  BY Going DEF ExpireDrafts
<1>4. ASSUME NEW d \in Drafts
      PROVE  /\ draft'[d] \in DraftRow \cup {NoDraft}
             /\ Kept(d) /\ (draft[d].status # "none" <=> draft'[d].status # "none")
             /\ \/ SameDraft(d)
                \/ /\ draft[d].status = "draft" /\ draft'[d].status = "cancelled"
                   /\ draft'[d].uses = 0
  <2>1. draft'[d] = IF draft[d].status = "draft" /\ draft[d].res = op[a].res /\ draft[d].overdue
                    THEN [draft[d] EXCEPT !.status = "cancelled"] ELSE draft[d]
    BY DEF ExpireDrafts
  <2>2. CASE draft[d].status = "draft" /\ draft[d].res = op[a].res /\ draft[d].overdue
    <3>1. draft[d] \in DraftRow /\ draft[d].uses = 0
      BY <2>2, RowOrNone DEF Inductive, DraftTakesEffectOnce
    <3>. DEFINE r == [draft[d] EXCEPT !.status = "cancelled"]
    <3>2. r \in DraftRow
      BY <3>1 DEF DraftRow
    <3>3. /\ r.status = "cancelled" /\ r.uses = draft[d].uses /\ r.fresh = draft[d].fresh
          /\ r.source = draft[d].source /\ r.shown = draft[d].shown
      BY <3>1 DEF DraftRow
    <3>4. draft'[d] = r
      BY <2>1, <2>2
    <3>. HIDE DEF r
    <3>. QED
      BY <2>2, <3>1, <3>2, <3>3, <3>4 DEF Kept
  <2>3. CASE ~(draft[d].status = "draft" /\ draft[d].res = op[a].res /\ draft[d].overdue)
    <3>1. draft'[d] = draft[d] /\ draft[d] \in DraftRow \cup {NoDraft}
      BY <2>1, <2>3, RowOrNone DEF DraftRows
    <3>. QED
      BY <3>1 DEF SameDraft, Kept
  <2>. QED
    BY <2>2, <2>3
<1>5. draft' \in DraftRows
  <2>1. draft' = [d \in Drafts |-> draft'[d]]
    BY DEF ExpireDrafts
  <2>. QED
    BY <1>4, <2>1 DEF DraftRows
<1>6. Apart(a)
  BY <1>2, <1>3 DEF Apart, Advances
<1>7. Work' /\ One' /\ DraftTakesEffectOnce'
  <2>1. \A b \in Admins : SameOp(b) \/ Apart(b)
    BY <1>3, <1>6
  <2>2. \A d \in Drafts :
            \/ SameDraft(d)
            \/ /\ draft[d].status \in {"none", "draft"}
               /\ draft'[d].status \in {"draft", "cancelled"}
               /\ draft'[d].uses = 0
               /\ draft[d].status = "draft" => draft'[d].source = draft[d].source
    BY <1>4 DEF Kept
  <2>. QED
    BY <2>1, <2>2, BystandersKeep
<1>8. Filled(op'[a])
  BY <1>1, <1>2, <1>3 DEF Filled, Advances
<1>9. /\ op'[a].pc \in {"look", "open"} /\ op'[a].code = op[a].code
      /\ op'[a].fresh = op[a].fresh /\ op'[a].kind = op[a].kind /\ op'[a].shown = op[a].shown
  BY <1>3 DEF Advances
<1>10. /\ \A c \in Codes : op'[a].code = c => code[c].status # "none"
       /\ \A c \in Codes : op'[a].code = c /\ op'[a].fresh /\ op'[a].kind = "replace" =>
              Face(c) = op'[a].shown
  BY <1>9 DEF Inductive, Known, Seen
<1>11. budget' \in [Kinds -> Nat]
  BY <1>1 DEF Inductive, TypeOK
<1>. QED
  BY <1>1, <1>3, <1>4, <1>5, <1>7, <1>8, <1>9, <1>10, <1>11, RequestKeeps

LEMMA InsertDraftStep ==
    ASSUME Inductive, NEW a \in Admins, InsertDraft(a)
    PROVE  Inductive'
<1>1. op[a].pc = "insert" /\ Return(a) /\ UNCHANGED <<place, code, budget>>
  BY DEF InsertDraft
<1>2. Filled(op[a]) /\ op[a] \in OpType /\ op[a].draft = None
  BY <1>1, FilledNow DEF Filled
<1>3. budget' \in [Kinds -> Nat]
  BY <1>1 DEF Inductive, TypeOK
<1>4. CASE UNCHANGED draft
  BY <1>1, <1>2, <1>3, <1>4, ReturnKeeps
<1>5. ASSUME NEW d \in Drafts, draft[d].status = "none",
             draft' = [draft EXCEPT ![d] = NewDraft(a)]
      PROVE  Inductive'
  <2>1. NewDraft(a) \in DraftRow
    BY <1>1, <1>2 DEF Filled, NewDraft, DraftRow, OpType
  <2>2. /\ NewDraft(a).status = "draft" /\ NewDraft(a).uses = 0
        /\ NewDraft(a).source = op[a].code /\ NewDraft(a).fresh = op[a].fresh
        /\ NewDraft(a).shown = op[a].shown
    BY DEF NewDraft
  <2>3. /\ draft' \in DraftRows /\ draft'[d] = NewDraft(a)
        /\ \A e \in Drafts : e # d => draft'[e] = draft[e]
    BY <1>5, <2>1, RowOrNone DEF DraftRows
  <2>4. op' \in Requests /\ op'[a] = IdleOp /\ \A b \in Admins : b # a => SameOp(b)
    BY <1>1, Becoming, Idling DEF Return
  <2>5. Apart(a)
    BY <1>2, <2>4, Idling DEF Apart
  <2>6. \A e \in Drafts : e # d =>
            SameDraft(e) /\ Kept(e) /\ (draft[e].status # "none" <=> draft'[e].status # "none")
    BY <2>3 DEF SameDraft, Kept
  <2>7. Work' /\ One' /\ DraftTakesEffectOnce'
    BY <1>5, <2>2, <2>3, <2>4, <2>5, <2>6, BystandersKeep
  <2>8. \A c \in Codes : draft'[d].source = c =>
            /\ code[c].status # "none"
            /\ draft'[d].fresh => Face(c) = draft'[d].shown
    <3>1. ASSUME NEW c \in Codes, op[a].code = c
          PROVE  code[c].status # "none" /\ (op[a].fresh => Face(c) = op[a].shown)
      <4>1. op[a].kind = "replace"
        BY <1>1, <1>2, <3>1, NullsAreOutside DEF Filled
      <4>. QED
        BY <3>1, <4>1 DEF Inductive, Known, Seen
    <3>. QED
      BY <2>2, <2>3, <3>1
  <2>. QED
    BY <1>1, <1>3, <1>5, <2>3, <2>4, <2>6, <2>7, <2>8, Idling, NullsAreOutside, RequestKeeps
<1>. QED
  BY <1>4, <1>5 DEF InsertDraft

-----------------------------------------------------------------------------
(* Cancelling and confirming *)

(* Requests stay where they are or are gone, drafts change.                *)
LEMMA DraftsKeep ==
    ASSUME Inductive, UNCHANGED <<place, code>>, op' \in Requests,
           \A a \in Admins : SameOp(a) \/ op'[a] = IdleOp,
           draft' \in DraftRows, budget' \in [Kinds -> Nat],
           Work' /\ One' /\ DraftTakesEffectOnce',
           \A d \in Drafts :
               Kept(d) /\ (draft[d].status # "none" <=> draft'[d].status # "none")
    PROVE  Inductive'
<1>1. TypeOK'
  BY DEF Inductive, TypeOK, Requests, DraftRows
<1>2. Complete'
  BY FilledSame, Idling DEF Inductive, Complete
<1>3. \A a \in Admins : op'[a] = IdleOp =>
          /\ \A c \in Codes : op'[a].code # c
          /\ op'[a].pc \notin {"move", "prepare", "link", "provision"}
  BY Idling, NullsAreOutside
<1>4. Known'
  BY <1>3 DEF Inductive, Known, SameOp, Kept
<1>5. Holders'
  <2>1. \A a \in Admins, c \in Codes : Holds(a, c)' => Holds(a, c)
    BY <1>3 DEF Holds, SameOp
  <2>. QED
    BY <2>1 DEF Inductive, Holders
<1>6. Seen'
  <2>1. \A c \in Codes : Face(c)' = Face(c)
    BY DEF Face
  <2>2. \A a \in Admins, c \in Codes :
            op'[a].code = c /\ op'[a].fresh /\ op'[a].kind = "replace" => Face(c) = op'[a].shown
    BY <1>3 DEF Inductive, Seen, SameOp
  <2>3. \A d \in Drafts, c \in Codes :
            draft'[d].status # "none" /\ draft'[d].source = c /\ draft'[d].fresh =>
                Face(c) = draft'[d].shown
    BY DEF Inductive, Seen, Kept
  <2>4. \A a \in Admins, d \in Drafts, c \in Codes :
            op'[a].pc = "prepare" /\ op'[a].fresh /\ op'[a].draft = d /\ op'[a].code = c =>
                code'[c].status = "active" /\ Face(c) = draft'[d].shown
    BY <1>3 DEF Inductive, Seen, SameOp, Kept
  <2>. QED
    BY <2>1, <2>2, <2>3, <2>4 DEF Seen
<1>7. Movers'
  <2>1. \A c \in Codes : Live(c)' <=> Live(c)
    BY DEF Live
  <2>2. \A a \in Admins : op'[a].pc = "move" => SameOp(a)
    BY <1>3
  <2>. QED
    BY <2>1, <2>2 DEF Inductive, Movers, SameOp
<1>8. MoveSparesCodes'
  BY DEF Inductive, MoveSparesCodes, Live
<1>. QED
  BY <1>1, <1>2, <1>4, <1>5, <1>6, <1>7, <1>8 DEF Inductive

LEMMA SameRequests ==
    UNCHANGED op => \A a \in Admins : SameOp(a)
BY DEF SameOp

(* The fields of a draft, one of which changes                             *)
LEMMA RowFields ==
    ASSUME NEW r \in DraftRow
    PROVE  /\ \A s \in {"draft", "applying", "applied", "cancelled", "sync_error"} :
                  LET n == [r EXCEPT !.status = s] IN
                  /\ n \in DraftRow /\ n.status = s /\ n.uses = r.uses /\ n.lost = r.lost
                  /\ n.source = r.source /\ n.shown = r.shown /\ n.fresh = r.fresh
           /\ LET n == [r EXCEPT !.overdue = TRUE] IN
              /\ n \in DraftRow /\ n.status = r.status /\ n.uses = r.uses /\ n.lost = r.lost
              /\ n.source = r.source /\ n.shown = r.shown /\ n.fresh = r.fresh
           /\ LET n == [r EXCEPT !.lost = TRUE] IN
              /\ n \in DraftRow /\ n.status = r.status /\ n.uses = r.uses /\ n.lost
              /\ n.source = r.source /\ n.shown = r.shown /\ n.fresh = r.fresh
           /\ r.uses <= 1 =>
                  LET n == [r EXCEPT !.uses = @ + 1] IN
                  /\ n \in DraftRow /\ n.status = r.status /\ n.uses = r.uses + 1
                  /\ n.lost = r.lost
                  /\ n.source = r.source /\ n.shown = r.shown /\ n.fresh = r.fresh
           /\ \A c \in Codes \cup {None} :
                  LET n == [r EXCEPT !.result = c] IN
                  /\ n \in DraftRow /\ n.status = r.status /\ n.uses = r.uses
                  /\ n.lost = r.lost
                  /\ n.source = r.source /\ n.shown = r.shown /\ n.fresh = r.fresh
<1>1. ASSUME NEW s \in {"draft", "applying", "applied", "cancelled", "sync_error"}
      PROVE  LET n == [r EXCEPT !.status = s] IN
             /\ n \in DraftRow /\ n.status = s /\ n.uses = r.uses /\ n.lost = r.lost
             /\ n.source = r.source /\ n.shown = r.shown /\ n.fresh = r.fresh
  <2>. DEFINE n == [r EXCEPT !.status = s]
  <2>1. n \in DraftRow
    BY DEF DraftRow
  <2>2. /\ n.status = s /\ n.uses = r.uses /\ n.lost = r.lost
        /\ n.source = r.source /\ n.shown = r.shown /\ n.fresh = r.fresh
    BY DEF DraftRow
  <2>. QED
    BY <2>1, <2>2
<1>2. LET n == [r EXCEPT !.overdue = TRUE] IN
      /\ n \in DraftRow /\ n.status = r.status /\ n.uses = r.uses /\ n.lost = r.lost
      /\ n.source = r.source /\ n.shown = r.shown /\ n.fresh = r.fresh
  <2>. DEFINE n == [r EXCEPT !.overdue = TRUE]
  <2>1. n \in DraftRow
    BY DEF DraftRow
  <2>2. /\ n.status = r.status /\ n.uses = r.uses /\ n.lost = r.lost
        /\ n.source = r.source /\ n.shown = r.shown /\ n.fresh = r.fresh
    BY DEF DraftRow
  <2>. QED
    BY <2>1, <2>2
<1>3. LET n == [r EXCEPT !.lost = TRUE] IN
      /\ n \in DraftRow /\ n.status = r.status /\ n.uses = r.uses /\ n.lost
      /\ n.source = r.source /\ n.shown = r.shown /\ n.fresh = r.fresh
  <2>. DEFINE n == [r EXCEPT !.lost = TRUE]
  <2>1. n \in DraftRow
    BY DEF DraftRow
  <2>2. /\ n.status = r.status /\ n.uses = r.uses /\ n.lost = TRUE
        /\ n.source = r.source /\ n.shown = r.shown /\ n.fresh = r.fresh
    BY DEF DraftRow
  <2>. QED
    BY <2>1, <2>2
<1>4. ASSUME r.uses <= 1
      PROVE  LET n == [r EXCEPT !.uses = @ + 1] IN
             /\ n \in DraftRow /\ n.status = r.status /\ n.uses = r.uses + 1
             /\ n.lost = r.lost
             /\ n.source = r.source /\ n.shown = r.shown /\ n.fresh = r.fresh
  <2>. DEFINE n == [r EXCEPT !.uses = @ + 1]
  <2>1. r.uses + 1 \in 0 .. 2
    BY <1>4 DEF DraftRow
  <2>2. n \in DraftRow
    BY <2>1 DEF DraftRow
  <2>3. /\ n.status = r.status /\ n.uses = r.uses + 1 /\ n.lost = r.lost
        /\ n.source = r.source /\ n.shown = r.shown /\ n.fresh = r.fresh
    BY DEF DraftRow
  <2>. QED
    BY <2>2, <2>3
<1>5. ASSUME NEW c \in Codes \cup {None}
      PROVE  LET n == [r EXCEPT !.result = c] IN
             /\ n \in DraftRow /\ n.status = r.status /\ n.uses = r.uses
             /\ n.lost = r.lost
             /\ n.source = r.source /\ n.shown = r.shown /\ n.fresh = r.fresh
  <2>. DEFINE n == [r EXCEPT !.result = c]
  <2>1. n \in DraftRow
    BY DEF DraftRow
  <2>2. /\ n.status = r.status /\ n.uses = r.uses /\ n.lost = r.lost
        /\ n.source = r.source /\ n.shown = r.shown /\ n.fresh = r.fresh
    BY DEF DraftRow
  <2>. QED
    BY <2>1, <2>2
<1>. QED
  BY <1>1, <1>2, <1>3, <1>4, <1>5

(* One row is written.                                                     *)
LEMMA Written ==
    ASSUME Inductive, NEW d \in Drafts, NEW r \in DraftRow, draft' = [draft EXCEPT ![d] = r]
    PROVE  /\ draft' \in DraftRows /\ draft'[d] = r
           /\ \A e \in Drafts : e # d =>
                  SameDraft(e) /\ Kept(e)
                  /\ (draft[e].status # "none" <=> draft'[e].status # "none")
<1>1. /\ draft' \in DraftRows /\ draft'[d] = r
      /\ \A e \in Drafts : e # d => draft'[e] = draft[e]
  BY RowOrNone DEF DraftRows
<1>. QED
  BY <1>1 DEF SameDraft, Kept

LEMMA RunsOutStep ==
    ASSUME Inductive, NEW d \in Drafts, RunsOut(d)
    PROVE  Inductive'
<1>1. /\ draft[d].status = "draft" /\ draft' = [draft EXCEPT ![d].overdue = TRUE]
      /\ UNCHANGED <<place, code, op>>
  BY DEF RunsOut
<1>2. draft[d] \in DraftRow /\ draft \in DraftRows
  BY <1>1, RowOrNone
<1>. DEFINE r == [draft[d] EXCEPT !.overdue = TRUE]
<1>3. draft' = [draft EXCEPT ![d] = r]
  BY <1>1, <1>2 DEF DraftRows
<1>4. /\ r \in DraftRow /\ r.status = draft[d].status /\ r.uses = draft[d].uses
      /\ r.lost = draft[d].lost
      /\ r.source = draft[d].source /\ r.shown = draft[d].shown /\ r.fresh = draft[d].fresh
  BY <1>2, RowFields
<1>. HIDE DEF r
<1>5. /\ draft' \in DraftRows /\ draft'[d] = r
      /\ \A e \in Drafts : e # d =>
             SameDraft(e) /\ Kept(e) /\ (draft[e].status # "none" <=> draft'[e].status # "none")
  BY <1>3, <1>4, Written
<1>6. SameDraft(d) /\ Kept(d) /\ (draft[d].status # "none" <=> draft'[d].status # "none")
  BY <1>4, <1>5 DEF SameDraft, Kept
<1>7. Work' /\ One' /\ DraftTakesEffectOnce'
  BY <1>1, <1>5, <1>6, SameRequests, BystandersKeep
<1>8. budget' \in [Kinds -> Nat] /\ op' \in Requests
  BY <1>1, RequestsTyped, SpendTyped DEF RunsOut, Kinds
<1>. QED
  BY <1>1, <1>5, <1>6, <1>7, <1>8, SameRequests, DraftsKeep

LEMMA CancelDraftStep ==
    ASSUME Inductive, NEW d \in Drafts, CancelDraft(d)
    PROVE  Inductive'
<1>1. /\ draft[d].status = "draft" /\ draft' = [draft EXCEPT ![d].status = "cancelled"]
      /\ UNCHANGED <<place, code, op>>
  BY DEF CancelDraft, Cancellable
<1>2. draft[d] \in DraftRow /\ draft \in DraftRows /\ draft[d].uses = 0
  BY <1>1, RowOrNone DEF Inductive, DraftTakesEffectOnce
<1>. DEFINE r == [draft[d] EXCEPT !.status = "cancelled"]
<1>3. draft' = [draft EXCEPT ![d] = r]
  BY <1>1, <1>2 DEF DraftRows
<1>4. /\ r \in DraftRow /\ r.status = "cancelled" /\ r.uses = 0
      /\ r.source = draft[d].source /\ r.shown = draft[d].shown /\ r.fresh = draft[d].fresh
  BY <1>2, RowFields
<1>. HIDE DEF r
<1>5. /\ draft' \in DraftRows /\ draft'[d] = r
      /\ \A e \in Drafts : e # d =>
             SameDraft(e) /\ Kept(e) /\ (draft[e].status # "none" <=> draft'[e].status # "none")
  BY <1>3, <1>4, Written
<1>6. Kept(d) /\ (draft[d].status # "none" <=> draft'[d].status # "none")
  BY <1>1, <1>4, <1>5 DEF Kept
<1>7. Work' /\ One' /\ DraftTakesEffectOnce'
  BY <1>1, <1>4, <1>5, SameRequests, BystandersKeep
<1>8. budget' \in [Kinds -> Nat] /\ op' \in Requests
  BY <1>1, RequestsTyped, SpendTyped DEF CancelDraft, Kinds
<1>. QED
  BY <1>1, <1>5, <1>6, <1>7, <1>8, SameRequests, DraftsKeep

LEMMA StartApplyStep ==
    ASSUME Inductive, NEW a \in Admins, NEW d \in Drafts, StartApply(a, d)
    PROVE  Inductive'
<1>1. draft[d].status = "draft" /\ draft[d] \in DraftRow
  BY RowOrNone DEF StartApply
<1>. DEFINE o == [IdleOp EXCEPT !.pc = "claim", !.kind = "apply", !.res = draft[d].res,
                                !.draft = d, !.code = draft[d].source, !.lock = draft[d].lock,
                                !.pin = draft[d].pin, !.win = draft[d].win]
<1>2. /\ draft[d].res \in Reservations /\ draft[d].lock \in Locks /\ draft[d].pin \in Pins
      /\ draft[d].win \in Windows /\ draft[d].source \in Codes \cup {None}
  BY <1>1 DEF DraftRow
<1>3. o \in OpType
  BY <1>2 DEF IdleOp, NothingShown, Shown, OpType
<1>4. /\ o.pc = "claim" /\ o.kind = "apply" /\ o.res = draft[d].res /\ o.lock = draft[d].lock
      /\ o.win = draft[d].win /\ o.pin = draft[d].pin /\ o.draft = d
      /\ o.code = draft[d].source
  BY DEF IdleOp
<1>5. Become(a, o) /\ op[a].pc = "idle" /\ UNCHANGED <<place, code, draft>>
  BY DEF StartApply
<1>. HIDE DEF o
<1>6. Filled(o)
  BY <1>2, <1>4, DraftsUnused DEF Filled
<1>7. op' \in Requests /\ op'[a] = o /\ \A b \in Admins : b # a => SameOp(b)
  BY <1>3, <1>5, Becoming
<1>8. Apart(a)
  <2>1. op[a].draft = None
    BY <1>5, FilledNow DEF Filled
  <2>2. \A e \in Drafts : o.draft = e => draft[e].status # "none" /\ o.code = draft[e].source
    BY <1>1, <1>4
  <2>. QED
    BY <1>4, <1>7, <2>1, <2>2 DEF Apart
<1>9. budget' \in [Kinds -> Nat]
  BY SpendTyped DEF StartApply, Kinds
<1>10. \A c \in Codes : o.code = c => code[c].status # "none"
  BY <1>1, <1>4 DEF Inductive, Known
<1>. QED
  BY <1>4, <1>5, <1>6, <1>7, <1>8, <1>9, <1>10, PlainKeeps

LEMMA ClaimDraftStep ==
    ASSUME Inductive, NEW a \in Admins, ClaimDraft(a)
    PROVE  Inductive'
<1>1. op[a].pc = "claim" /\ UNCHANGED <<place, code, budget>>
  BY DEF ClaimDraft
<1>2. Filled(op[a]) /\ op[a].kind = "apply" /\ op[a] \in OpType /\ op[a].draft # None
  BY <1>1, FilledNow DEF Filled
<1>3. PICK d \in Drafts : op[a].draft = d
  BY <1>2 DEF OpType
<1>4. budget' \in [Kinds -> Nat]
  BY <1>1 DEF Inductive, TypeOK
<1>5. CASE ~Claimable(d)
  BY <1>1, <1>3, <1>4, <1>5, ReturnKeeps DEF ClaimDraft
<1>6. CASE Claimable(d)
  <2>. DEFINE pc == IF op[a].code = None THEN "reserve" ELSE "reload"
              r == [draft[d] EXCEPT !.status = "applying"]
  <2>1. /\ draft' = [draft EXCEPT ![d].status = "applying"] /\ Goto(a, pc)
        /\ draft[d].status = "draft"
    BY <1>3, <1>6 DEF ClaimDraft, Claimable
  <2>2. draft[d] \in DraftRow /\ draft \in DraftRows /\ draft[d].uses = 0
    BY <2>1, RowOrNone DEF Inductive, DraftTakesEffectOnce
  <2>3. draft' = [draft EXCEPT ![d] = r]
    BY <2>1, <2>2 DEF DraftRows
  <2>4. /\ r \in DraftRow /\ r.status = "applying" /\ r.uses = 0
        /\ r.source = draft[d].source /\ r.shown = draft[d].shown /\ r.fresh = draft[d].fresh
    BY <2>2, RowFields
  <2>5. pc \in {"reserve", "reload"} /\ (pc = "reserve" <=> op[a].code = None)
    OBVIOUS
  <2>. HIDE DEF r, pc
  <2>6. /\ draft' \in DraftRows /\ draft'[d] = r
        /\ \A e \in Drafts : e # d =>
               SameDraft(e) /\ Kept(e)
               /\ (draft[e].status # "none" <=> draft'[e].status # "none")
    BY <2>3, <2>4, Written
  <2>7. op' \in Requests /\ Advances(a, pc) /\ \A b \in Admins : b # a => SameOp(b)
    BY <2>1, <2>5, Going
  <2>8. Kept(d) /\ (draft[d].status # "none" <=> draft'[d].status # "none")
    BY <2>1, <2>4, <2>6 DEF Kept
  <2>9. \A b \in Admins : ~Works(b, d)
    <3>1. ASSUME NEW b \in Admins, Works(b, d) PROVE FALSE
      <4>1. op[b].draft = d /\ op[b].pc # "claim" /\ op[b].kind = "apply"
        BY <3>1, FilledNow, DraftsUnused DEF Works, Filled
      <4>2. draft[d].status \in {"applying", "applied"}
        BY <4>1, FilledNow DEF Filled, Inductive, Work
      <4>. QED
        BY <2>1, <4>2
    <3>. QED
      BY <3>1
  <2>10. op[a].code = draft[d].source
    BY <1>1, <1>3 DEF Inductive, Work
  <2>11. Work'
    <3>1. \A e \in Drafts : op'[a].draft = e => e = d
      BY <1>3, <2>7 DEF Advances
    <3>2. ASSUME NEW b \in Admins, b # a, NEW e \in Drafts, op'[b].draft = e
          PROVE  /\ draft'[e].status # "none"
                 /\ op'[b].pc \in {"claim", "reserve", "reload", "prepare"} =>
                        op'[b].code = draft'[e].source
                 /\ op'[b].pc \in {"reserve", "reload", "prepare"} =>
                        draft'[e].status = "applying" /\ draft'[e].uses = 0
                 /\ op'[b].pc \in {"link", "provision", "finish"} =>
                        draft'[e].status = "applying" /\ draft'[e].uses = 1
                 /\ op'[b].pc = "answer" => draft'[e].status = "applied"
                 /\ op'[b].pc = "refuse" => draft'[e].status \in {"applying", "applied"}
      <4>1. op'[b].pc = op[b].pc /\ op'[b].code = op[b].code /\ op[b].draft = e
        BY <2>7, <3>2 DEF SameOp
      <4>2. CASE e = d
        <5>1. op[b].pc = "claim"
          BY <2>9, <4>1, <4>2 DEF Works
        <5>. QED
          BY <2>4, <2>6, <4>1, <4>2, <5>1 DEF Inductive, Work
      <4>3. CASE e # d
        BY <2>6, <4>1, <4>3 DEF Inductive, Work, SameDraft, Kept
      <4>. QED
        BY <4>2, <4>3
    <3>3. op'[a].pc \in {"reserve", "reload"} /\ op'[a].code = draft'[d].source
      BY <2>4, <2>5, <2>6, <2>7, <2>10 DEF Advances
    <3>. QED
      BY <2>4, <2>6, <3>1, <3>2, <3>3 DEF Work
  <2>12. One'
    <3>1. \A b \in Admins, e \in Drafts : b # a => (Works(b, e)' <=> Works(b, e))
      BY <2>7 DEF Works, SameOp
    <3>2. Works(a, d)' /\ \A e \in Drafts : e # d => ~Works(a, e) /\ ~Works(a, e)'
      BY <1>3, <2>5, <2>7 DEF Works, Advances
    <3>3. \A b \in Admins : Works(b, d)' => b = a
      BY <2>9, <3>1
    <3>. QED
      BY <2>6, <3>1, <3>2, <3>3 DEF Inductive, One, SameDraft
  <2>13. DraftTakesEffectOnce'
    BY <2>4, <2>6 DEF Inductive, DraftTakesEffectOnce, SameDraft
  <2>14. Filled(op'[a])
    BY <1>1, <1>2, <2>5, <2>7 DEF Filled, OpType, Advances
  <2>15. \A c \in Codes : op'[a].code = c => code[c].status # "none"
    BY <2>7 DEF Inductive, Known, Advances
  <2>16. op'[a].pc \in {"reserve", "reload"} /\ op'[a].kind = "apply"
    BY <1>2, <2>5, <2>7 DEF Advances
  <2>. QED
    BY <1>1, <1>4, <2>6, <2>7, <2>8, <2>11, <2>12, <2>13, <2>14, <2>15, <2>16, RequestKeeps
<1>. QED
  BY <1>5, <1>6

-----------------------------------------------------------------------------
(* Applying *)

(* The request past its claim has a draft all its own.                     *)
LEMMA WorkerHasDraft ==
    ASSUME Inductive, NEW a \in Admins, op[a].kind = "apply", op[a].pc # "claim"
    PROVE  \E d \in Drafts :
               /\ op[a].draft = d /\ Works(a, d)
               /\ draft[d] \in DraftRow /\ draft \in DraftRows
               /\ draft[d].status \in {"applying", "applied"}
               /\ draft[d].uses \in Nat /\ draft[d].uses <= 1
               /\ draft[d].status = "applied" => draft[d].uses = 1
<1>1. Filled(op[a]) /\ op[a] \in OpType
  BY FilledNow
<1>2. PICK d \in Drafts : op[a].draft = d
  BY <1>1 DEF Filled, OpType
<1>3. draft[d].status \in {"applying", "applied"}
  BY <1>1, <1>2 DEF Filled, Inductive, Work
<1>4. draft[d] \in DraftRow /\ draft \in DraftRows
  BY <1>3, RowOrNone
<1>5. draft[d].uses \in Nat
  BY <1>4 DEF DraftRow
<1>. QED
  BY <1>2, <1>3, <1>4, <1>5 DEF Works, Inductive, DraftTakesEffectOnce

(* Something is refused or fails: the request turns to the catch block.    *)
LEMMA RefusalKeeps ==
    ASSUME Inductive, UNCHANGED <<place, code, draft>>, NEW a \in Admins,
           op[a].kind = "apply", op[a].pc # "claim", Goto(a, "refuse"),
           budget' \in [Kinds -> Nat]
    PROVE  Inductive'
<1>1. PICK d \in Drafts : op[a].draft = d /\ Works(a, d)
  BY WorkerHasDraft
<1>2. op' \in Requests /\ Advances(a, "refuse") /\ \A b \in Admins : b # a => SameOp(b)
  BY Going
<1>3. Filled(op[a])
  BY FilledNow
<1>4. Filled(op'[a])
  BY <1>2, <1>3 DEF Filled, Advances
<1>5. /\ op'[a].draft = d /\ op'[a].pc = "refuse" /\ op'[a].code = op[a].code
      /\ op'[a].kind = op[a].kind
  BY <1>1, <1>2 DEF Advances
<1>. QED
  BY <1>1, <1>2, <1>4, <1>5, WorkerMoves

LEMMA ReloadStep ==
    ASSUME Inductive, NEW a \in Admins, Reload(a)
    PROVE  Inductive'
<1>1. op[a].pc = "reload" /\ UNCHANGED <<place, code, draft, budget>>
  BY DEF Reload
<1>2. Filled(op[a]) /\ op[a] \in OpType /\ op[a].kind = "apply" /\ op[a].code \in Codes
  BY <1>1, FilledNow DEF Filled
<1>3. budget' \in [Kinds -> Nat]
  BY <1>1 DEF Inductive, TypeOK
<1>4. PICK d \in Drafts : op[a].draft = d /\ Works(a, d) /\ draft[d] \in DraftRow
  BY <1>1, <1>2, WorkerHasDraft
<1>5. CASE Goto(a, "refuse")
  BY <1>1, <1>2, <1>3, <1>5, RefusalKeeps
<1>6. ASSUME code[op[a].code].status = "active", draft[op[a].draft].fresh,
             Become(a, [op[a] EXCEPT !.pc = "prepare", !.fresh = TRUE])
      PROVE  Inductive'
  <2>. DEFINE o == [op[a] EXCEPT !.pc = "prepare", !.fresh = TRUE]
  <2>1. o \in OpType
    BY <1>2 DEF OpType
  <2>2. /\ o.pc = "prepare" /\ o.kind = op[a].kind /\ o.res = op[a].res
        /\ o.draft = op[a].draft /\ o.code = op[a].code
        /\ o.lock = op[a].lock /\ o.pin = op[a].pin /\ o.win = op[a].win
    BY <1>2 DEF OpType
  <2>3. Become(a, o)
    BY <1>6
  <2>. HIDE DEF o
  <2>4. op' \in Requests /\ op'[a] = o /\ \A b \in Admins : b # a => SameOp(b)
    BY <2>1, <2>3, Becoming
  <2>5. Filled(o)
    BY <1>1, <1>2, <2>2 DEF Filled
  <2>6. op[a].code = draft[d].source /\ draft[d].status = "applying" /\ draft[d].uses = 0
    BY <1>1, <1>4 DEF Inductive, Work
  <2>7. \A c \in Codes : o.code = c => code[c].status = "active" /\ Face(c) = draft[d].shown
    BY <1>4, <1>6, <2>2, <2>6 DEF Inductive, Seen
  <2>. QED
    BY <1>1, <1>3, <1>4, <2>2, <2>4, <2>5, <2>6, <2>7, WorkerMoves
<1>. QED
  BY <1>5, <1>6 DEF Reload

LEMMA ReadBackStep ==
    ASSUME Inductive, NEW a \in Admins, ReadBack(a)
    PROVE  Inductive'
<1>1. op[a].pc = "answer" /\ Return(a) /\ UNCHANGED <<place, code, draft, budget>>
  BY DEF ReadBack
<1>2. op[a].kind = "apply"
  BY <1>1, FilledNow DEF Filled
<1>3. PICK d \in Drafts : op[a].draft = d /\ Works(a, d)
  BY <1>1, <1>2, WorkerHasDraft
<1>4. draft[d].status = "applied"
  BY <1>1, <1>3 DEF Inductive, Work
<1>5. op' \in Requests /\ op'[a] = IdleOp /\ \A b \in Admins : b # a => SameOp(b)
  BY <1>1, Becoming, Idling DEF Return
<1>6. budget' \in [Kinds -> Nat]
  BY <1>1 DEF Inductive, TypeOK
<1>. QED
  BY <1>1, <1>3, <1>4, <1>5, <1>6, Idling, WorkerMoves

(* A step of the request that works on d, which it writes                  *)
LEMMA WorkerWrites ==
    ASSUME Inductive, UNCHANGED <<place, code>>,
           NEW a \in Admins, NEW d \in Drafts, Works(a, d),
           NEW r \in DraftRow, draft' = [draft EXCEPT ![d] = r],
           r.source = draft[d].source, r.shown = draft[d].shown, r.fresh = draft[d].fresh,
           r.uses = draft[d].uses,
           r.status \in {"applying", "applied", "sync_error"},
           r.status = "applied" => r.uses = 1,
           op' \in Requests, \A b \in Admins : b # a => SameOp(b), budget' \in [Kinds -> Nat],
           \/ op'[a] = IdleOp /\ (r.status # "applying" \/ r.lost)
           \/ /\ Advances(a, "provision") /\ op[a].pc = "link"
              /\ r.status = "applying" /\ r.uses = 1
           \/ Advances(a, "answer") /\ op[a].pc = "finish" /\ r.status = "applied"
    PROVE  Inductive'
<1>1. op[a].draft = d /\ d # None /\ op[a].pc # "claim" /\ Filled(op[a])
  BY FilledNow, DraftsUnused DEF Works
<1>2. op[a].kind = "apply"
  BY <1>1 DEF Filled
<1>3. /\ draft[d].status \in {"applying", "applied"} /\ r.uses \in Nat /\ r.uses <= 1
  BY <1>1, <1>2, WorkerHasDraft
<1>4. /\ draft' \in DraftRows /\ draft'[d] = r
      /\ \A e \in Drafts : e # d =>
             SameDraft(e) /\ Kept(e) /\ (draft[e].status # "none" <=> draft'[e].status # "none")
  BY Written
<1>5. Kept(d) /\ (draft[d].status # "none" <=> draft'[d].status # "none")
  BY <1>3, <1>4 DEF Kept
<1>6. \/ op'[a].draft = None /\ (r.status # "applying" \/ r.lost)
      \/ op'[a].draft = d /\ op'[a].pc = "provision" /\ r.status = "applying" /\ r.uses = 1
      \/ op'[a].draft = d /\ op'[a].pc = "answer" /\ r.status = "applied"
  BY <1>1, Idling DEF Advances
<1>7. Work' /\ One' /\ DraftTakesEffectOnce'
  <2>1. draft'[d].status # "none"
    BY <1>4
  <2>. QED
    BY <1>3, <1>4, <1>6, <2>1, WorkerKeeps
<1>8. Filled(op'[a])
  BY <1>1, <1>2, Idling DEF Filled, Advances
<1>9. /\ \A c \in Codes : op'[a].code = c => op[a].code = c
      /\ op'[a].kind # "replace" /\ op'[a].pc \notin {"link", "prepare", "move"}
      /\ op'[a].pc = "provision" => op[a].pc = "link" /\ op'[a].code = op[a].code
  BY <1>2, Idling, NullsAreOutside DEF Advances
<1>10. \A c \in Codes : op'[a].code = c => code[c].status # "none"
  BY <1>9 DEF Inductive, Known
<1>. QED
  BY <1>4, <1>5, <1>7, <1>8, <1>9, <1>10, RequestKeeps

LEMMA LinkStep ==
    ASSUME Inductive, NEW a \in Admins, Link(a)
    PROVE  Inductive'
<1>1. /\ op[a].pc = "link" /\ Goto(a, "provision") /\ UNCHANGED <<place, code, budget>>
      /\ draft' = [draft EXCEPT ![op[a].draft].result = op[a].code]
  BY DEF Link
<1>2. op[a].kind = "apply" /\ op[a].code \in Codes \cup {None}
  BY <1>1, FilledNow DEF Filled
<1>3. PICK d \in Drafts : /\ op[a].draft = d /\ Works(a, d) /\ draft[d] \in DraftRow
                          /\ draft \in DraftRows
  BY <1>1, <1>2, WorkerHasDraft
<1>9. PICK q \in DraftRow : q = draft[d]
  BY <1>3
<1>10. PICK c \in Codes \cup {None} : c = op[a].code
  BY <1>2
<1>. DEFINE r == [q EXCEPT !.result = c]
<1>4. draft' = [draft EXCEPT ![d] = r]
  BY <1>1, <1>3, <1>9, <1>10 DEF DraftRows
<1>5. /\ r \in DraftRow /\ r.status = q.status /\ r.uses = q.uses
      /\ r.source = q.source /\ r.shown = q.shown /\ r.fresh = q.fresh
  <2>1. r \in DraftRow
    BY <1>9, <1>10 DEF DraftRow
  <2>2. /\ r.status = q.status /\ r.uses = q.uses
        /\ r.source = q.source /\ r.shown = q.shown /\ r.fresh = q.fresh
    BY <1>9 DEF DraftRow
  <2>. QED
    BY <2>1, <2>2
<1>6. draft[d].status = "applying" /\ draft[d].uses = 1
  BY <1>1, <1>3 DEF Inductive, Work
<1>7. op' \in Requests /\ Advances(a, "provision") /\ \A b \in Admins : b # a => SameOp(b)
  BY <1>1, Going
<1>8. budget' \in [Kinds -> Nat]
  BY <1>1 DEF Inductive, TypeOK
<1>. HIDE DEF r
<1>. QED
  BY <1>1, <1>3, <1>4, <1>5, <1>6, <1>7, <1>8, <1>9, WorkerWrites

LEMMA FinishStep ==
    ASSUME Inductive, NEW a \in Admins, Finish(a)
    PROVE  Inductive'
<1>1. /\ op[a].pc = "finish" /\ Goto(a, "answer") /\ UNCHANGED <<place, code, budget>>
      /\ draft' = [draft EXCEPT ![op[a].draft].status = "applied",
                                ![op[a].draft].result = op[a].code]
  BY DEF Finish
<1>2. op[a].kind = "apply" /\ op[a].code \in Codes \cup {None}
  BY <1>1, FilledNow DEF Filled, OpType
<1>3. PICK d \in Drafts : /\ op[a].draft = d /\ Works(a, d) /\ draft[d] \in DraftRow
                          /\ draft \in DraftRows
  BY <1>1, <1>2, WorkerHasDraft
<1>. DEFINE q == [draft[d] EXCEPT !.status = "applied"]
            r == [q EXCEPT !.result = op[a].code]
<1>4. draft' = [draft EXCEPT ![d] = r]
  BY <1>1, <1>3 DEF DraftRows
<1>5. /\ q \in DraftRow /\ q.status = "applied" /\ q.uses = draft[d].uses
      /\ q.source = draft[d].source /\ q.shown = draft[d].shown /\ q.fresh = draft[d].fresh
  BY <1>3, RowFields
<1>. HIDE DEF q
<1>6. /\ r \in DraftRow /\ r.status = q.status /\ r.uses = q.uses
      /\ r.source = q.source /\ r.shown = q.shown /\ r.fresh = q.fresh
  BY <1>2, <1>5, RowFields
<1>. HIDE DEF r
<1>10. /\ r.status = "applied" /\ r.uses = draft[d].uses
       /\ r.source = draft[d].source /\ r.shown = draft[d].shown /\ r.fresh = draft[d].fresh
  BY <1>5, <1>6
<1>7. draft[d].uses = 1
  BY <1>1, <1>3 DEF Inductive, Work
<1>8. op' \in Requests /\ Advances(a, "answer") /\ \A b \in Admins : b # a => SameOp(b)
  BY <1>1, Going
<1>9. budget' \in [Kinds -> Nat]
  BY <1>1 DEF Inductive, TypeOK
<1>. QED
  BY <1>1, <1>3, <1>4, <1>5, <1>6, <1>7, <1>8, <1>9, <1>10, WorkerWrites

LEMMA RefuseStep ==
    ASSUME Inductive, NEW a \in Admins, Refuse(a)
    PROVE  Inductive'
<1>1. /\ op[a].pc = "refuse" /\ Return(a) /\ UNCHANGED <<place, code, budget>>
      /\ draft' = [draft EXCEPT ![op[a].draft].status = "sync_error"]
  BY DEF Refuse
<1>2. op[a].kind = "apply"
  BY <1>1, FilledNow DEF Filled
<1>3. PICK d \in Drafts : /\ op[a].draft = d /\ Works(a, d) /\ draft[d] \in DraftRow
                          /\ draft \in DraftRows
  BY <1>1, <1>2, WorkerHasDraft
<1>. DEFINE r == [draft[d] EXCEPT !.status = "sync_error"]
<1>4. draft' = [draft EXCEPT ![d] = r]
  BY <1>1, <1>3 DEF DraftRows
<1>5. /\ r \in DraftRow /\ r.status = "sync_error" /\ r.uses = draft[d].uses
      /\ r.source = draft[d].source /\ r.shown = draft[d].shown /\ r.fresh = draft[d].fresh
  BY <1>3, RowFields
<1>. HIDE DEF r
<1>6. op' \in Requests /\ op'[a] = IdleOp /\ \A b \in Admins : b # a => SameOp(b)
  BY <1>1, Becoming, Idling DEF Return
<1>7. budget' \in [Kinds -> Nat]
  BY <1>1 DEF Inductive, TypeOK
<1>. QED
  BY <1>1, <1>3, <1>4, <1>5, <1>6, <1>7, WorkerWrites

(* The note of how applying ended is lost.                                 *)
LEMMA LoseRows ==
    ASSUME Inductive, NEW D, draft' = Lose(D)
    PROVE  /\ draft' \in DraftRows
           /\ \A d \in Drafts :
                  /\ Kept(d) /\ draft'[d].status = draft[d].status
                  /\ draft'[d].uses = draft[d].uses
                  /\ IF d \in D /\ draft[d].status = "applying" THEN draft'[d].lost
                     ELSE SameDraft(d)
<1>1. ASSUME NEW d \in Drafts
      PROVE  /\ draft'[d] \in DraftRow \cup {NoDraft}
             /\ Kept(d) /\ draft'[d].status = draft[d].status
             /\ draft'[d].uses = draft[d].uses
             /\ IF d \in D /\ draft[d].status = "applying" THEN draft'[d].lost
                ELSE SameDraft(d)
  <2>1. draft'[d] = IF d \in D /\ draft[d].status = "applying"
                    THEN [draft[d] EXCEPT !.lost = TRUE] ELSE draft[d]
    BY DEF Lose
  <2>2. CASE d \in D /\ draft[d].status = "applying"
    <3>1. draft[d] \in DraftRow
      BY <2>2, RowOrNone
    <3>. DEFINE r == [draft[d] EXCEPT !.lost = TRUE]
    <3>2. /\ r \in DraftRow /\ r.status = draft[d].status /\ r.uses = draft[d].uses /\ r.lost
          /\ r.source = draft[d].source /\ r.shown = draft[d].shown /\ r.fresh = draft[d].fresh
      BY <3>1, RowFields
    <3>3. draft'[d] = r
      BY <2>1, <2>2
    <3>. HIDE DEF r
    <3>. QED
      BY <2>2, <3>2, <3>3 DEF Kept
  <2>3. CASE ~(d \in D /\ draft[d].status = "applying")
    <3>1. draft'[d] = draft[d] /\ draft[d] \in DraftRow \cup {NoDraft}
      BY <2>1, <2>3, RowOrNone DEF DraftRows
    <3>. QED
      BY <2>3, <3>1 DEF SameDraft, Kept
  <2>. QED
    BY <2>2, <2>3
<1>2. draft' = [d \in Drafts |-> draft'[d]]
  BY DEF Lose
<1>. QED
  BY <1>1, <1>2 DEF DraftRows

LEMMA StatementFailsStep ==
    ASSUME Inductive, NEW a \in Admins, StatementFails(a)
    PROVE  Inductive'
<1>1. /\ op[a].pc \in {"reserve", "reload", "prepare", "link", "provision", "finish",
                       "answer", "refuse"}
      /\ UNCHANGED <<place, code>>
  BY DEF StatementFails
<1>2. budget' \in [Kinds -> Nat]
  BY SpendTyped DEF StatementFails, Kinds
<1>3. CASE op[a].pc = "refuse"
  <2>1. Return(a) /\ draft' = Lose({op[a].draft})
    BY <1>3 DEF StatementFails
  <2>2. op[a].kind = "apply"
    BY <1>3, FilledNow DEF Filled
  <2>3. PICK d \in Drafts : /\ op[a].draft = d /\ Works(a, d)
                            /\ draft[d].status \in {"applying", "applied"}
                            /\ draft[d].uses \in Nat /\ draft[d].uses <= 1
                            /\ draft[d].status = "applied" => draft[d].uses = 1
    BY <1>3, <2>2, WorkerHasDraft
  <2>4. /\ draft' \in DraftRows
        /\ \A e \in Drafts : Kept(e) /\ draft'[e].status = draft[e].status
        /\ \A e \in Drafts : e # d => SameDraft(e)
        /\ draft'[d].uses = draft[d].uses
        /\ draft[d].status = "applying" => draft'[d].lost
    <3>. DEFINE D == {op[a].draft}
    <3>1. \A e \in Drafts : e \in D <=> e = d
      BY <2>3
    <3>2. draft' = Lose(D)
      BY <2>1
    <3>. HIDE DEF D
    <3>. QED
      BY <3>1, <3>2, LoseRows
  <2>5. op' \in Requests /\ op'[a] = IdleOp /\ \A b \in Admins : b # a => SameOp(b)
    BY <2>1, Becoming, Idling DEF Return
  <2>6. draft'[d].source = draft[d].source
    BY <2>4 DEF Kept
  <2>7. Work' /\ One' /\ DraftTakesEffectOnce'
    BY <2>3, <2>4, <2>5, <2>6, Idling, WorkerKeeps
  <2>8. \A b \in Admins : SameOp(b) \/ op'[b] = IdleOp
    BY <2>5
  <2>. QED
    BY <1>1, <1>2, <2>4, <2>5, <2>7, <2>8, DraftsKeep
<1>4. CASE op[a].pc # "refuse"
  <2>1. Become(a, AfterRefusal(a)) /\ UNCHANGED draft
    BY <1>4 DEF StatementFails
  <2>2. CASE op[a].kind = "apply"
    <3>1. Goto(a, "refuse")
      BY <2>1, <2>2 DEF AfterRefusal, Goto
    <3>. QED
      BY <1>1, <1>2, <2>1, <2>2, <3>1, RefusalKeeps
  <2>3. CASE op[a].kind # "apply"
    <3>1. Return(a)
      BY <2>1, <2>3 DEF AfterRefusal, Return
    <3>2. op[a].draft = None
      BY <2>3, FilledNow DEF Filled
    <3>. QED
      BY <1>1, <1>2, <2>1, <3>1, <3>2, ReturnKeeps
  <2>. QED
    BY <2>2, <2>3
<1>. QED
  BY <1>3, <1>4

LEMMA CrashStep ==
    ASSUME Inductive, Crash
    PROVE  Inductive'
<1>. DEFINE D == {op[a].draft : a \in Admins}
<1>1. draft' = Lose(D) /\ op' = [a \in Admins |-> IdleOp] /\ UNCHANGED <<place, code>>
  BY DEF Crash
<1>2. budget' \in [Kinds -> Nat]
  BY SpendTyped DEF Crash, Kinds
<1>3. op' \in Requests /\ \A a \in Admins : op'[a] = IdleOp
  BY <1>1, Idling DEF Requests
<1>4. \A a \in Admins : op[a].draft \in D
  OBVIOUS
<1>. HIDE DEF D
<1>5. /\ draft' \in DraftRows
      /\ \A d \in Drafts : /\ Kept(d) /\ draft'[d].status = draft[d].status
                           /\ draft'[d].uses = draft[d].uses
                           /\ IF d \in D /\ draft[d].status = "applying" THEN draft'[d].lost
                              ELSE SameDraft(d)
  BY <1>1, LoseRows
<1>6. \A a \in Admins, d \in Drafts : op'[a].draft # d
  BY <1>3, Idling, DraftsUnused
<1>7. Work'
  BY <1>6 DEF Work
<1>8. One'
  <2>1. ASSUME NEW d \in Drafts, draft'[d].status = "applying", ~draft'[d].lost PROVE FALSE
    <3>1. draft[d].status = "applying" /\ d \notin D /\ ~draft[d].lost
      BY <1>5, <2>1 DEF SameDraft
    <3>2. PICK a \in Admins : Works(a, d)
      BY <3>1 DEF Inductive, One
    <3>. QED
      BY <1>4, <3>1, <3>2 DEF Works
  <2>. QED
    BY <1>6, <2>1 DEF One, Works
<1>9. DraftTakesEffectOnce'
  BY <1>5 DEF Inductive, DraftTakesEffectOnce
<1>. QED
  BY <1>1, <1>2, <1>3, <1>5, <1>7, <1>8, <1>9, DraftsKeep

-----------------------------------------------------------------------------
(* Codes *)

(* A request that leaves the code c, or begins with it                     *)
Aside(a, c) ==
    /\ op'[a].kind # "replace" /\ op'[a].pc \notin {"prepare", "move"}
    /\ op'[a].pc \in {"link", "provision"} => op'[a].code = c
    /\ \A e \in Codes : op'[a].code = e => e = c \/ op[a].code = e

(* One code is written.                                                    *)
LEMMA CodeKeeps ==
    ASSUME Inductive, UNCHANGED place, NEW c \in Codes, NEW row \in CodeRow,
           code' = [code EXCEPT ![c] = row],
           op' \in Requests, draft' \in DraftRows, budget' \in [Kinds -> Nat],
           Complete', Work', One', DraftTakesEffectOnce',
           \A d \in Drafts :
               Kept(d) /\ (draft[d].status # "none" <=> draft'[d].status # "none"),
           ~row.late /\ row.status # "revoked" =>
               /\ place[row.lock] = Home[row.res]
               /\ \A a \in Admins : op[a].pc = "move" =>
                      row.lock # op[a].lock /\ place[row.lock] # op[a].place,
           \A a \in Admins : SameOp(a) \/ Aside(a, c),
           \A a \in Admins : Holds(a, c)' => row.status \in {"pending_create", "pending_update"},
           \A a, b \in Admins : Holds(a, c)' /\ Holds(b, c)' => a = b,
           \/ row.pin = code[c].pin /\ row.win = code[c].win
           \/ /\ \A a \in Admins : SameOp(a) /\ op'[a].code = c => ~op'[a].fresh
              /\ \A d \in Drafts : draft'[d].status # "none" /\ draft'[d].source = c =>
                     ~draft'[d].fresh,
           \A a \in Admins : SameOp(a) /\ op'[a].pc = "prepare" /\ op'[a].fresh =>
               op'[a].code # c
    PROVE  Inductive'
<1>1. code \in CodeRows
  BY RowOrNone
<1>2. code' \in CodeRows /\ code'[c] = row /\ \A e \in Codes : e # c => code'[e] = code[e]
  BY <1>1 DEF CodeRows
<1>3. row.status # "none"
  BY RowOrNone
<1>4. TypeOK'
  BY <1>2 DEF Inductive, TypeOK, Requests, DraftRows, CodeRows
<1>5. \A e \in Codes : code[e].status # "none" => code'[e].status # "none"
  BY <1>2, <1>3
<1>6. Known'
  <2>1. \A a \in Admins, e \in Codes : op'[a].code = e => code'[e].status # "none"
    BY <1>2, <1>3, <1>5 DEF Inductive, Known, SameOp, Aside
  <2>2. \A d \in Drafts, e \in Codes :
            draft'[d].status # "none" /\ draft'[d].source = e => code'[e].status # "none"
    BY <1>5 DEF Inductive, Known, Kept
  <2>. QED
    BY <2>1, <2>2 DEF Known
<1>7. Holders'
  <2>1. \A a \in Admins, e \in Codes : e # c /\ Holds(a, e)' => Holds(a, e)
    BY DEF Holds, SameOp, Aside
  <2>2. \A a \in Admins, e \in Codes :
            Holds(a, e)' => code'[e].status \in {"pending_create", "pending_update"}
    BY <1>2, <2>1 DEF Inductive, Holders
  <2>3. \A a, b \in Admins, e \in Codes : Holds(a, e)' /\ Holds(b, e)' => a = b
    BY <2>1 DEF Inductive, Holders
  <2>. QED
    BY <2>2, <2>3 DEF Holders
<1>8. Seen'
  <2>1. \A e \in Codes : e # c => Face(e)' = Face(e)
    BY <1>2 DEF Face
  <2>2. \/ Face(c)' = Face(c)
        \/ /\ \A a \in Admins : SameOp(a) /\ op'[a].code = c => ~op'[a].fresh
           /\ \A d \in Drafts : draft'[d].status # "none" /\ draft'[d].source = c =>
                  ~draft'[d].fresh
    BY <1>2 DEF Face
  <2>3. ASSUME NEW a \in Admins, NEW e \in Codes, op'[a].code = e, op'[a].fresh,
               op'[a].kind = "replace"
        PROVE  Face(e)' = op'[a].shown
    <3>1. SameOp(a)
      BY <2>3 DEF Aside
    <3>2. Face(e)' = Face(e)
      BY <2>1, <2>2, <2>3, <3>1
    <3>3. Face(e) = op[a].shown
      BY <2>3, <3>1 DEF Inductive, Seen, SameOp
    <3>. QED
      BY <3>1, <3>2, <3>3 DEF SameOp
  <2>4. ASSUME NEW d \in Drafts, NEW e \in Codes, draft'[d].status # "none",
               draft'[d].source = e, draft'[d].fresh
        PROVE  Face(e)' = draft'[d].shown
    <3>1. Face(e)' = Face(e)
      BY <2>1, <2>2, <2>4
    <3>2. Face(e) = draft[d].shown
      BY <2>4 DEF Inductive, Seen, Kept
    <3>. QED
      BY <3>1, <3>2 DEF Kept
  <2>5. ASSUME NEW a \in Admins, NEW d \in Drafts, NEW e \in Codes,
               op'[a].pc = "prepare", op'[a].fresh, op'[a].draft = d, op'[a].code = e
        PROVE  code'[e].status = "active" /\ Face(e)' = draft'[d].shown
    <3>1. SameOp(a)
      BY <2>5 DEF Aside
    <3>2. e # c
      BY <2>5, <3>1
    <3>3. code[e].status = "active" /\ Face(e) = draft[d].shown
      BY <2>5, <3>1 DEF Inductive, Seen, SameOp
    <3>. QED
      BY <1>2, <2>1, <3>2, <3>3 DEF Kept
  <2>. QED
    BY <2>3, <2>4, <2>5 DEF Seen
<1>9. Movers'
  <2>1. \A a \in Admins : op'[a].pc = "move" =>
            /\ op[a].pc = "move" /\ op'[a].lock = op[a].lock /\ op'[a].place = op[a].place
    BY DEF SameOp, Aside
  <2>2. \A a, b \in Admins : op'[a].pc = "move" /\ op'[b].pc = "move" => a = b
    BY <2>1 DEF Inductive, Movers
  <2>3. ASSUME NEW a \in Admins, NEW e \in Codes, op'[a].pc = "move", Live(e)',
               ~code'[e].late
        PROVE  code'[e].lock # op'[a].lock /\ place'[code'[e].lock] # op'[a].place
    <3>1. CASE e = c
      <4>1. row.status # "revoked" /\ ~row.late
        BY <1>2, <2>3, <3>1 DEF Live
      <4>. QED
        BY <1>2, <2>1, <2>3, <3>1, <4>1
    <3>2. CASE e # c
      <4>1. code'[e] = code[e]
        BY <1>2, <3>2
      <4>2. Live(e) /\ ~code[e].late
        BY <2>3, <4>1 DEF Live
      <4>. QED
        BY <2>1, <2>3, <4>1, <4>2 DEF Inductive, Movers
    <3>. QED
      BY <3>1, <3>2
  <2>. QED
    BY <2>2, <2>3 DEF Movers
<1>10. MoveSparesCodes'
  <2>1. ASSUME NEW e \in Codes, Live(e)', ~code'[e].late
        PROVE  place'[code'[e].lock] = Home[code'[e].res]
    <3>1. CASE e = c
      <4>1. row.status # "revoked" /\ ~row.late
        BY <1>2, <2>1, <3>1 DEF Live
      <4>. QED
        BY <1>2, <3>1, <4>1
    <3>2. CASE e # c
      <4>1. code'[e] = code[e]
        BY <1>2, <3>2
      <4>2. Live(e) /\ ~code[e].late
        BY <2>1, <4>1 DEF Live
      <4>. QED
        BY <4>1, <4>2 DEF Inductive, MoveSparesCodes
    <3>. QED
      BY <3>1, <3>2
  <2>. QED
    BY <2>1 DEF MoveSparesCodes
<1>. QED
  BY <1>4, <1>6, <1>7, <1>8, <1>9, <1>10 DEF Inductive

(* A code in use that is not late stands where it did.                     *)
LEMMA Stands ==
    ASSUME Inductive, NEW c \in Codes, Live(c), ~code[c].late
    PROVE  /\ place[code[c].lock] = Home[code[c].res]
           /\ \A a \in Admins : op[a].pc = "move" =>
                  code[c].lock # op[a].lock /\ place[code[c].lock] # op[a].place
BY DEF Inductive, MoveSparesCodes, Movers

(* update, reconcile and revoke: the version is new for everybody.         *)
LEMMA VersionKeeps ==
    ASSUME Inductive, UNCHANGED place, NEW c \in Codes, Live(c),
           NEW row \in CodeRow, code' = [code EXCEPT ![c] = row],
           row.lock = code[c].lock, row.res = code[c].res, row.late = code[c].late,
           draft' = StaleDrafts(c), op' = StaleReaders(c), budget' \in [Kinds -> Nat],
           \A a \in Admins : ~Holds(a, c)
    PROVE  Inductive'
<1>1. /\ op' \in Requests /\ draft' \in DraftRows
      /\ \A a \in Admins : SameOp(a) /\ (op'[a].code = c => ~op'[a].fresh)
      /\ \A d \in Drafts :
             /\ SameDraft(d) /\ Kept(d)
             /\ draft[d].status # "none" <=> draft'[d].status # "none"
             /\ draft'[d].status # "none" /\ draft'[d].source = c => ~draft'[d].fresh
  BY StaleTyped DEF SameOp, SameDraft, Kept
<1>2. Work' /\ One' /\ DraftTakesEffectOnce'
  BY <1>1, BystandersKeep
<1>3. Complete'
  BY <1>1, FilledSame DEF Inductive, Complete
<1>4. \A a \in Admins : ~Holds(a, c)'
  BY <1>1 DEF Holds, SameOp
<1>5. ~row.late /\ row.status # "revoked" =>
          /\ place[row.lock] = Home[row.res]
          /\ \A a \in Admins : op[a].pc = "move" =>
                 row.lock # op[a].lock /\ place[row.lock] # op[a].place
  BY Stands
<1>. QED
  BY <1>1, <1>2, <1>3, <1>4, <1>5, CodeKeeps

LEMMA WriteCodeStep ==
    ASSUME Inductive, NEW c \in Codes, NEW w \in Windows, WriteCode(c, w)
    PROVE  Inductive'
<1>1. /\ Live(c) /\ ~Held(c) /\ draft' = StaleDrafts(c) /\ op' = StaleReaders(c)
      /\ code' = [code EXCEPT ![c].status = "active", ![c].win = w] /\ UNCHANGED place
  BY DEF WriteCode
<1>2. code[c] \in CodeRow /\ code \in CodeRows
  BY <1>1, RowOrNone DEF Live
<1>. DEFINE row == [code[c] EXCEPT !.status = "active", !.win = w]
<1>3. code' = [code EXCEPT ![c] = row]
  BY <1>1, <1>2 DEF CodeRows
<1>4. row \in CodeRow
  BY <1>2 DEF CodeRow
<1>5. row.lock = code[c].lock /\ row.res = code[c].res /\ row.late = code[c].late
  BY <1>2 DEF CodeRow
<1>6. \A a \in Admins : ~Holds(a, c)
  BY <1>1 DEF Held, Holds
<1>7. budget' \in [Kinds -> Nat]
  BY SpendTyped DEF WriteCode, Kinds
<1>. HIDE DEF row
<1>. QED
  BY <1>1, <1>3, <1>4, <1>5, <1>6, <1>7, VersionKeeps

LEMMA RevokeStep ==
    ASSUME Inductive, NEW c \in Codes, Revoke(c)
    PROVE  Inductive'
<1>1. /\ code[c].status \in {"active", "sync_error"}
      /\ draft' = StaleDrafts(c) /\ op' = StaleReaders(c)
      /\ code' = [code EXCEPT ![c].status = "revoked"] /\ UNCHANGED place
  BY DEF Revoke
<1>2. code[c] \in CodeRow /\ code \in CodeRows /\ Live(c)
  BY <1>1, RowOrNone DEF Live
<1>. DEFINE row == [code[c] EXCEPT !.status = "revoked"]
<1>3. code' = [code EXCEPT ![c] = row]
  BY <1>1, <1>2 DEF CodeRows
<1>4. row \in CodeRow
  BY <1>2 DEF CodeRow
<1>5. row.lock = code[c].lock /\ row.res = code[c].res /\ row.late = code[c].late
  BY <1>2 DEF CodeRow
<1>6. \A a \in Admins : ~Holds(a, c)
  BY <1>1 DEF Inductive, Holders
<1>7. budget' \in [Kinds -> Nat]
  BY SpendTyped DEF Revoke, Kinds
<1>. HIDE DEF row
<1>. QED
  BY <1>1, <1>2, <1>3, <1>4, <1>5, <1>6, <1>7, VersionKeeps

LEMMA UnchangedDraft ==
    UNCHANGED draft =>
        \A d \in Drafts : SameDraft(d) /\ Kept(d)
                          /\ (draft[d].status # "none" <=> draft'[d].status # "none")
BY DEF SameDraft, Kept

LEMMA ProvisionStep ==
    ASSUME Inductive, NEW a \in Admins, Provision(a)
    PROVE  Inductive'
<1>1. op[a].pc = "provision" /\ UNCHANGED <<place, draft>>
  BY DEF Provision
<1>2. Filled(op[a]) /\ op[a] \in OpType
  BY FilledNow
<1>3. PICK c \in Codes : op[a].code = c
  BY <1>1, <1>2 DEF Filled
<1>4. PICK s \in {"active", "sync_error"} : code' = [code EXCEPT ![c].status = s]
  BY <1>3 DEF Provision
<1>5. budget' \in [Kinds -> Nat]
  <2>1. UNCHANGED budget \/ Spend("lock")
    BY DEF Provision
  <2>. QED
    BY <2>1, SpendTyped DEF Kinds, Inductive, TypeOK
<1>6. IF op[a].kind = "apply" THEN Goto(a, "finish") \/ Goto(a, "refuse") ELSE Return(a)
  BY DEF Provision, AfterRefusal, Goto, Return
<1>7. /\ op' \in Requests /\ \A b \in Admins : b # a => SameOp(b)
      /\ IF op[a].kind = "apply" THEN Advances(a, "finish") \/ Advances(a, "refuse")
         ELSE op'[a] = IdleOp
  <2>1. CASE op[a].kind = "apply"
    BY <1>6, <2>1, Going
  <2>2. CASE op[a].kind # "apply"
    BY <1>6, <2>2, Becoming, Idling DEF Return
  <2>. QED
    BY <2>1, <2>2
<1>8. code[c].status \in {"pending_create", "pending_update"} /\ Holds(a, c)
  BY <1>1, <1>3 DEF Holds, Inductive, Holders
<1>9. code[c] \in CodeRow /\ code \in CodeRows /\ Live(c)
  BY <1>8, RowOrNone DEF Live
<1>. DEFINE row == [code[c] EXCEPT !.status = s]
<1>10. code' = [code EXCEPT ![c] = row]
  BY <1>4, <1>9 DEF CodeRows
<1>11. row \in CodeRow
  BY <1>9 DEF CodeRow
<1>12. /\ row.lock = code[c].lock /\ row.res = code[c].res /\ row.late = code[c].late
       /\ row.pin = code[c].pin /\ row.win = code[c].win
  BY <1>9 DEF CodeRow
<1>. HIDE DEF row
<1>13. Work' /\ One' /\ DraftTakesEffectOnce'
  <2>1. CASE op[a].kind = "apply"
    <3>1. PICK d \in Drafts : op[a].draft = d /\ Works(a, d)
      BY <1>1, <2>1, WorkerHasDraft
    <3>2. draft[d].status = "applying" /\ draft[d].uses = 1
      BY <1>1, <3>1 DEF Inductive, Work
    <3>3. op'[a].draft = d /\ op'[a].pc \in {"finish", "refuse"}
      BY <1>7, <2>1, <3>1 DEF Advances
    <3>. QED
      BY <1>1, <1>7, <3>1, <3>2, <3>3, NothingChanges, UnchangedDraft, WorkerKeeps
  <2>2. CASE op[a].kind # "apply"
    <3>1. Apart(a)
      BY <1>2, <1>7, <2>2, Idling DEF Apart, Filled
    <3>. QED
      BY <1>1, <1>7, <3>1, UnchangedDraft, BystandersKeep
  <2>. QED
    BY <2>1, <2>2
<1>14. Complete'
  <2>1. Filled(op'[a])
    BY <1>1, <1>2, <1>7, Idling DEF Filled, Advances
  <2>. QED
    BY <1>7, <2>1, FilledSame DEF Inductive, Complete
<1>15. Aside(a, c)
  <2>1. op[a].kind = "apply" => op'[a].kind = "apply" /\ op'[a].pc \in {"finish", "refuse"}
                                /\ op'[a].code = op[a].code
    BY <1>7 DEF Advances
  <2>. QED
    BY <1>7, <2>1, Idling, NullsAreOutside DEF Aside
<1>16. \A b \in Admins : ~Holds(b, c)'
  <2>1. ~Holds(a, c)'
    BY <1>7, Idling DEF Holds, Advances
  <2>2. \A b \in Admins : b # a => ~Holds(b, c)
    BY <1>8 DEF Inductive, Holders
  <2>. QED
    BY <1>7, <2>1, <2>2 DEF Holds, SameOp
<1>17. \A b \in Admins : SameOp(b) /\ op'[b].pc = "prepare" /\ op'[b].fresh => op'[b].code # c
  <2>1. ASSUME NEW b \in Admins, SameOp(b), op'[b].pc = "prepare", op'[b].fresh, op'[b].code = c
        PROVE  FALSE
    <3>1. op[b].pc = "prepare" /\ op[b].fresh /\ op[b].code = c
      BY <2>1 DEF SameOp
    <3>2. PICK d \in Drafts : op[b].draft = d
      BY <3>1, FilledNow DEF Filled, OpType
    <3>. QED
      BY <1>8, <3>1, <3>2 DEF Inductive, Seen
  <2>. QED
    BY <2>1
<1>18. ~row.late /\ row.status # "revoked" =>
          /\ place[row.lock] = Home[row.res]
          /\ \A b \in Admins : op[b].pc = "move" =>
                 row.lock # op[b].lock /\ place[row.lock] # op[b].place
  BY <1>9, <1>12, Stands
<1>19. draft' \in DraftRows /\ \A b \in Admins : SameOp(b) \/ Aside(b, c)
  BY <1>1, <1>7, <1>15 DEF Inductive, TypeOK, DraftRows
<1>. QED
  BY <1>1, <1>5, <1>7, <1>10, <1>11, <1>12, <1>13, <1>14, <1>16, <1>17, <1>18, <1>19,
     UnchangedDraft, CodeKeeps

LEMMA ReserveStep ==
    ASSUME Inductive, NEW a \in Admins, Reserve(a)
    PROVE  Inductive'
<1>1. op[a].pc = "reserve" /\ UNCHANGED <<place, budget>>
  BY DEF Reserve
<1>2. Filled(op[a]) /\ op[a] \in OpType /\ op[a].code = None
  BY <1>1, FilledNow DEF Filled
<1>3. budget' \in [Kinds -> Nat]
  BY <1>1 DEF Inductive, TypeOK
<1>4. CASE ~CanReserve(a)
  <2>1. Become(a, AfterRefusal(a)) /\ UNCHANGED <<code, draft>>
    BY <1>4 DEF Reserve
  <2>2. CASE op[a].kind = "apply"
    <3>1. Goto(a, "refuse")
      BY <2>1, <2>2 DEF AfterRefusal, Goto
    <3>. QED
      BY <1>1, <1>3, <2>1, <2>2, <3>1, RefusalKeeps
  <2>3. CASE op[a].kind # "apply"
    <3>1. Return(a)
      BY <2>1, <2>3 DEF AfterRefusal, Return
    <3>. QED
      BY <1>1, <1>2, <1>3, <2>1, <2>3, <3>1, ReturnKeeps DEF Filled
  <2>. QED
    BY <2>2, <2>3
<1>5. CASE CanReserve(a)
  <2>. DEFINE row == [status |-> "pending_create", res |-> op[a].res, lock |-> op[a].lock,
                      pin |-> op[a].pin, win |-> op[a].win,
                      late |-> place[op[a].lock] # Home[op[a].res] \/ BeingMoved(op[a].lock)]
              pc == IF op[a].kind = "apply" THEN "link" ELSE "provision"
  <2>1. PICK c \in Codes :
            /\ code[c].status = "none"
            /\ code' = [code EXCEPT ![c] = row]
            /\ draft' = Use(op[a].draft, draft)
            /\ Become(a, [op[a] EXCEPT !.pc = pc, !.code = c])
    BY <1>5 DEF Reserve
  <2>2. /\ op[a].res \in Reservations /\ op[a].lock \in Locks /\ op[a].pin \in Pins
        /\ op[a].win \in Windows
    BY <1>1, <1>2 DEF Filled
  <2>3. row \in CodeRow
    <3>1. (place[op[a].lock] # Home[op[a].res] \/ BeingMoved(op[a].lock)) \in BOOLEAN
      BY DEF BeingMoved
    <3>. QED
      BY <2>2, <3>1 DEF CodeRow
  <2>4. ~row.late =>
            /\ place[row.lock] = Home[row.res]
            /\ \A b \in Admins : op[b].pc = "move" =>
                   row.lock # op[b].lock /\ place[row.lock] # op[b].place
    BY DEF BeingMoved
  <2>5. row.status = "pending_create"
    OBVIOUS
  <2>. HIDE DEF row
  <2>. DEFINE o == [op[a] EXCEPT !.pc = pc, !.code = c]
  <2>6. pc \in {"link", "provision"} /\ (pc = "link" <=> op[a].kind = "apply")
    OBVIOUS
  <2>. HIDE DEF pc
  <2>7. o \in OpType
    BY <1>2, <2>6 DEF OpType
  <2>8. /\ o.pc = pc /\ o.kind = op[a].kind /\ o.res = op[a].res
        /\ o.draft = op[a].draft /\ o.code = c
        /\ o.lock = op[a].lock /\ o.pin = op[a].pin /\ o.win = op[a].win
    BY <1>2 DEF OpType
  <2>9. Become(a, o)
    BY <2>1
  <2>. HIDE DEF o
  <2>10. op' \in Requests /\ op'[a] = o /\ \A b \in Admins : b # a => SameOp(b)
    BY <2>7, <2>9, Becoming
  <2>11. Complete'
    <3>1. Filled(o)
      BY <1>1, <1>2, <2>6, <2>8 DEF Filled
    <3>. QED
      BY <2>10, <3>1, FilledSame DEF Inductive, Complete
  <2>12. /\ draft' \in DraftRows /\ Work' /\ One' /\ DraftTakesEffectOnce'
         /\ \A d \in Drafts :
                Kept(d) /\ (draft[d].status # "none" <=> draft'[d].status # "none")
    <3>1. CASE op[a].kind = "apply"
      <4>1. PICK d \in Drafts : /\ op[a].draft = d /\ Works(a, d) /\ draft[d] \in DraftRow
                                /\ draft \in DraftRows
        BY <1>1, <3>1, WorkerHasDraft
      <4>2. draft[d].status = "applying" /\ draft[d].uses = 0
        BY <1>1, <4>1 DEF Inductive, Work
      <4>. DEFINE r == [draft[d] EXCEPT !.uses = @ + 1]
      <4>3. draft' = [draft EXCEPT ![d] = r]
        BY <2>1, <4>1, DraftsUnused DEF Use, DraftRows
      <4>4. /\ r \in DraftRow /\ r.status = draft[d].status /\ r.uses = 1
            /\ r.source = draft[d].source /\ r.shown = draft[d].shown
            /\ r.fresh = draft[d].fresh
        <5>1. r \in DraftRow
          BY <4>1, <4>2 DEF DraftRow
        <5>2. /\ r.status = draft[d].status /\ r.uses = 1
              /\ r.source = draft[d].source /\ r.shown = draft[d].shown
              /\ r.fresh = draft[d].fresh
          BY <4>1, <4>2 DEF DraftRow
        <5>. QED
          BY <5>1, <5>2
      <4>. HIDE DEF r
      <4>5. /\ draft' \in DraftRows /\ draft'[d] = r
            /\ \A e \in Drafts : e # d =>
                   SameDraft(e) /\ Kept(e)
                   /\ (draft[e].status # "none" <=> draft'[e].status # "none")
        BY <4>3, <4>4, Written
      <4>6. op'[a].draft = d /\ op'[a].pc = "link"
        BY <2>6, <2>8, <2>10, <3>1, <4>1
      <4>7. Work' /\ One' /\ DraftTakesEffectOnce'
        BY <2>10, <4>1, <4>2, <4>4, <4>5, <4>6, WorkerKeeps
      <4>8. Kept(d) /\ (draft[d].status # "none" <=> draft'[d].status # "none")
        BY <4>2, <4>4, <4>5 DEF Kept
      <4>. QED
        BY <4>5, <4>7, <4>8
    <3>2. CASE op[a].kind # "apply"
      <4>1. op[a].draft = None
        BY <1>2, <3>2 DEF Filled
      <4>2. UNCHANGED draft
        BY <2>1, <4>1 DEF Use
      <4>3. Apart(a)
        BY <2>8, <2>10, <4>1 DEF Apart
      <4>4. draft' \in DraftRows
        BY <4>2 DEF Inductive, TypeOK, DraftRows
      <4>. QED
        BY <2>10, <4>2, <4>3, <4>4, UnchangedDraft, BystandersKeep
    <3>. QED
      BY <3>1, <3>2
  <2>13. Aside(a, c)
    <3>1. op[a].kind # "replace"
      BY <1>1, <1>2 DEF Filled
    <3>. QED
      BY <2>6, <2>8, <2>10, <3>1 DEF Aside
  <2>14. \A b \in Admins : b # a => op'[b].code # c
    BY <2>1, <2>10 DEF SameOp, Inductive, Known
  <2>15. \A b, e \in Admins : Holds(b, c)' /\ Holds(e, c)' => b = e
    BY <2>14 DEF Holds
  <2>16. \A d \in Drafts : draft'[d].status # "none" /\ draft'[d].source = c => ~draft'[d].fresh
    BY <2>1, <2>12 DEF Kept, Inductive, Known
  <2>17. /\ ~SameOp(a)
         /\ \A b \in Admins : SameOp(b) \/ Aside(b, c)
         /\ \A b \in Admins : SameOp(b) => op'[b].code # c
    <3>1. ~SameOp(a)
      BY <1>1, <2>6, <2>8, <2>10 DEF SameOp
    <3>. QED
      BY <2>10, <2>13, <2>14, <3>1
  <2>. QED
    BY <1>1, <1>3, <2>1, <2>3, <2>4, <2>5, <2>10, <2>11, <2>12, <2>15, <2>16, <2>17, CodeKeeps
<1>. QED
  BY <1>4, <1>5

LEMMA PrepareStep ==
    ASSUME Inductive, NEW a \in Admins, Prepare(a)
    PROVE  Inductive'
<1>1. op[a].pc = "prepare" /\ UNCHANGED <<place, budget>>
  BY DEF Prepare
<1>2. Filled(op[a]) /\ op[a] \in OpType /\ op[a].kind = "apply"
  BY <1>1, FilledNow DEF Filled
<1>3. budget' \in [Kinds -> Nat]
  BY <1>1 DEF Inductive, TypeOK
<1>4. PICK c \in Codes : op[a].code = c
  BY <1>1, <1>2 DEF Filled
<1>5. CASE ~(StillCurrent(a) /\ ~Taken(op[a].lock, op[a].pin, c))
  <2>1. Goto(a, "refuse") /\ UNCHANGED <<code, draft>>
    BY <1>4, <1>5 DEF Prepare
  <2>. QED
    BY <1>1, <1>2, <1>3, <2>1, RefusalKeeps
<1>6. CASE StillCurrent(a) /\ ~Taken(op[a].lock, op[a].pin, c)
  <2>1. /\ code' = [code EXCEPT ![c].status = "pending_update", ![c].pin = op[a].pin,
                                ![c].win = op[a].win]
        /\ draft' = Use(op[a].draft, StaleDrafts(c))
        /\ op' = [StaleReaders(c) EXCEPT ![a].pc = "link"]
        /\ op[a].fresh
    BY <1>4, <1>6 DEF Prepare, StillCurrent
  <2>2. PICK d \in Drafts : op[a].draft = d /\ Works(a, d) /\ draft[d] \in DraftRow
    BY <1>1, <1>2, WorkerHasDraft
  <2>3. /\ draft[d].status = "applying" /\ draft[d].uses = 0
        /\ code[c].status = "active"
    BY <1>1, <1>4, <2>1, <2>2 DEF Inductive, Work, Seen
  <2>4. code[c] \in CodeRow /\ code \in CodeRows /\ Live(c)
    BY <2>3, RowOrNone DEF Live
  <2>. DEFINE row == [code[c] EXCEPT !.status = "pending_update", !.pin = op[a].pin,
                                     !.win = op[a].win]
  <2>5. code' = [code EXCEPT ![c] = row]
    BY <2>1, <2>4 DEF CodeRows
  <2>6. op[a].pin \in Pins /\ op[a].win \in Windows
    BY <1>1, <1>2 DEF Filled
  <2>7. row \in CodeRow
    BY <2>4, <2>6 DEF CodeRow
  <2>8. /\ row.lock = code[c].lock /\ row.res = code[c].res /\ row.late = code[c].late
        /\ row.status = "pending_update"
    BY <2>4 DEF CodeRow
  <2>. HIDE DEF row
  <2>9. /\ op' \in Requests
        /\ \A b \in Admins : b # a => SameOp(b) /\ (op'[b].code = c => ~op'[b].fresh)
        /\ op'[a].pc = "link" /\ op'[a].kind = "apply" /\ op'[a].draft = d
        /\ op'[a].code = c /\ op'[a].res = op[a].res /\ op'[a].lock = op[a].lock
        /\ op'[a].pin = op[a].pin /\ op'[a].win = op[a].win
    <3>. DEFINE readers == StaleReaders(c)
    <3>1. /\ readers \in Requests
          /\ \A b \in Admins :
                 /\ readers[b].pc = op[b].pc /\ readers[b].kind = op[b].kind
                 /\ readers[b].res = op[b].res /\ readers[b].draft = op[b].draft
                 /\ readers[b].code = op[b].code
                 /\ readers[b].fresh => op[b].fresh /\ op[b].code # c
                 /\ readers[b].lock = op[b].lock /\ readers[b].pin = op[b].pin
                 /\ readers[b].win = op[b].win /\ readers[b].shown = op[b].shown
                 /\ readers[b].place = op[b].place
      BY StaleTyped
    <3>. HIDE DEF readers
    <3>2. op' = [readers EXCEPT ![a].pc = "link"]
      BY <2>1 DEF readers
    <3>3. readers[a] \in OpType
      BY <3>1 DEF Requests
    <3>. DEFINE o == [readers[a] EXCEPT !.pc = "link"]
    <3>4. o \in OpType
      BY <3>3 DEF OpType
    <3>5. /\ o.pc = "link" /\ o.kind = readers[a].kind /\ o.draft = readers[a].draft
          /\ o.code = readers[a].code /\ o.res = readers[a].res /\ o.lock = readers[a].lock
          /\ o.pin = readers[a].pin /\ o.win = readers[a].win
      BY <3>3 DEF OpType
    <3>6. op' = [readers EXCEPT ![a] = o]
      BY <3>1, <3>2 DEF Requests
    <3>. HIDE DEF o
    <3>7. op' \in Requests /\ op'[a] = o /\ \A b \in Admins : b # a => op'[b] = readers[b]
      BY <3>1, <3>4, <3>6 DEF Requests
    <3>8. \A b \in Admins : b # a => SameOp(b) /\ (op'[b].code = c => ~op'[b].fresh)
      BY <3>1, <3>7 DEF SameOp
    <3>. QED
      BY <1>2, <1>4, <2>2, <3>1, <3>5, <3>7, <3>8
  <2>10. /\ draft' \in DraftRows
         /\ draft'[d].status = "applying" /\ draft'[d].uses = 1
         /\ \A e \in Drafts : e # d => SameDraft(e)
         /\ \A e \in Drafts :
                /\ Kept(e) /\ (draft[e].status # "none" <=> draft'[e].status # "none")
                /\ draft'[e].status # "none" /\ draft'[e].source = c => ~draft'[e].fresh
    <3>. DEFINE table == StaleDrafts(c)
    <3>1. /\ table \in DraftRows
          /\ \A e \in Drafts :
                 /\ table[e].status = draft[e].status /\ table[e].uses = draft[e].uses
                 /\ table[e].lost = draft[e].lost /\ table[e].source = draft[e].source
                 /\ table[e].shown = draft[e].shown
                 /\ table[e].fresh => draft[e].fresh
                 /\ draft[e].status # "none" /\ table[e].fresh => draft[e].source # c
      BY StaleTyped
    <3>. HIDE DEF table
    <3>2. draft' = [table EXCEPT ![d].uses = @ + 1]
      BY <2>1, <2>2, DraftsUnused DEF Use, table
    <3>3. table[d] \in DraftRow
      BY <2>3, <3>1, RowOrNone DEF DraftRows
    <3>. DEFINE r == [table[d] EXCEPT !.uses = @ + 1]
    <3>4. r \in DraftRow
      BY <2>3, <3>1, <3>3 DEF DraftRow
    <3>5. /\ r.status = table[d].status /\ r.uses = 1
          /\ r.source = table[d].source /\ r.shown = table[d].shown
          /\ r.fresh = table[d].fresh
      BY <2>3, <3>1, <3>3 DEF DraftRow
    <3>6. draft' = [table EXCEPT ![d] = r]
      BY <3>1, <3>2 DEF DraftRows
    <3>. HIDE DEF r
    <3>7. /\ draft' \in DraftRows /\ draft'[d] = r
          /\ \A e \in Drafts : e # d => draft'[e] = table[e]
      BY <3>1, <3>4, <3>6 DEF DraftRows
    <3>8. ASSUME NEW e \in Drafts
          PROVE  /\ Kept(e) /\ (draft[e].status # "none" <=> draft'[e].status # "none")
                 /\ draft'[e].status # "none" /\ draft'[e].source = c => ~draft'[e].fresh
                 /\ e # d => SameDraft(e)
      <4>1. CASE e = d
        BY <2>3, <3>1, <3>5, <3>7, <4>1 DEF Kept
      <4>2. CASE e # d
        BY <3>1, <3>7, <4>2 DEF Kept, SameDraft
      <4>. QED
        BY <4>1, <4>2
    <3>. QED
      BY <2>3, <3>1, <3>5, <3>7, <3>8
  <2>11. Work' /\ One' /\ DraftTakesEffectOnce'
    <3>1. draft'[d].source = draft[d].source
      BY <2>10 DEF Kept
    <3>. QED
      BY <2>2, <2>9, <2>10, <3>1, WorkerKeeps
  <2>12. Complete'
    <3>1. Filled(op'[a])
      BY <1>1, <1>2, <1>4, <2>2, <2>9, DraftsUnused DEF Filled
    <3>. QED
      BY <2>9, <3>1, FilledSame DEF Inductive, Complete
  <2>13. Aside(a, c) /\ ~SameOp(a)
    BY <1>1, <2>9 DEF Aside, SameOp
  <2>14. \A b \in Admins : Holds(b, c)' => b = a
    <3>1. \A b \in Admins : ~Holds(b, c)
      BY <2>3 DEF Inductive, Holders
    <3>. QED
      BY <2>9, <3>1 DEF Holds, SameOp
  <2>15. \A b \in Admins : SameOp(b) /\ op'[b].code = c => ~op'[b].fresh
    BY <2>9, <2>13
  <2>16. /\ place[row.lock] = Home[row.res] \/ row.late
         /\ row.late \/ \A b \in Admins : op[b].pc = "move" =>
                            row.lock # op[b].lock /\ place[row.lock] # op[b].place
    BY <2>4, <2>8, Stands
  <2>17. \A b, e \in Admins : Holds(b, c)' /\ Holds(e, c)' => b = e
    BY <2>14
  <2>18. \A b \in Admins : SameOp(b) \/ Aside(b, c)
    BY <2>9, <2>13
  <2>19. \A b \in Admins : SameOp(b) /\ op'[b].pc = "prepare" /\ op'[b].fresh =>
             op'[b].code # c
    BY <2>15
  <2>. QED
    BY <1>1, <1>3, <2>5, <2>7, <2>8, <2>9, <2>10, <2>11, <2>12, <2>15, <2>16, <2>17,
       <2>18, <2>19, CodeKeeps
<1>. QED
  BY <1>5, <1>6

-----------------------------------------------------------------------------
(* Moving a lock *)

LEMMA StartMoveStep ==
    ASSUME Inductive, NEW a \in Admins, NEW l \in Locks, NEW apartment \in Apartments,
           StartMove(a, l, apartment)
    PROVE  Inductive'
<1>. DEFINE o == [IdleOp EXCEPT !.pc = "move", !.kind = "move", !.lock = l,
                                !.place = apartment]
<1>1. o \in OpType
  BY DEF IdleOp, NothingShown, OpType, Shown
<1>2. /\ o.pc = "move" /\ o.kind = "move" /\ o.lock = l /\ o.place = apartment
      /\ o.draft = None /\ o.code = None
  BY DEF IdleOp
<1>3. Become(a, o) /\ op[a].pc = "idle" /\ UNCHANGED <<place, code, draft>>
  BY DEF StartMove
<1>. HIDE DEF o
<1>4. Filled(o)
  BY <1>2 DEF Filled
<1>5. op' \in Requests /\ op'[a] = o /\ \A b \in Admins : b # a => SameOp(b)
  BY <1>1, <1>3, Becoming
<1>6. Apart(a)
  BY <1>2, <1>3, <1>5, FilledNow DEF Apart, Filled
<1>7. budget' \in [Kinds -> Nat]
  BY SpendTyped DEF StartMove, Kinds
<1>8. \A b \in Admins : op[b].pc # "move"
  BY DEF StartMove
<1>9. ASSUME NEW c \in Codes, Live(c), ~code[c].late
      PROVE  code[c].lock # l /\ place[code[c].lock] # apartment
  <2>1. code[c] \in CodeRow
    BY <1>9, RowOrNone DEF Live
  <2>2. HoldsCodes(code[c].lock)
    BY <1>9, <2>1 DEF HoldsCodes, Guarded, Live, CodeRow
  <2>3. code[c].lock \in Locks /\ place[code[c].lock] \in Apartments
    BY <1>9, <2>1, Stands, HomeIsAnApartment DEF CodeRow
  <2>. QED
    BY <2>2, <2>3, NullsAreOutside DEF StartMove
<1>. QED
  BY <1>2, <1>3, <1>4, <1>5, <1>6, <1>7, <1>8, <1>9, NullsAreOutside, PlainKeeps

LEMMA CommitMoveStep ==
    ASSUME Inductive, NEW a \in Admins, CommitMove(a)
    PROVE  Inductive'
<1>1. /\ op[a].pc = "move" /\ Return(a) /\ UNCHANGED <<code, draft, budget>>
      /\ place' = Moved(op[a].lock, op[a].place)
  BY DEF CommitMove
<1>2. /\ Filled(op[a]) /\ op[a].lock \in Locks /\ op[a].place \in Apartments
      /\ op[a].draft = None
  BY <1>1, FilledNow DEF Filled
<1>3. op' \in Requests /\ op'[a] = IdleOp /\ \A b \in Admins : b # a => SameOp(b)
  BY <1>1, Becoming, Idling DEF Return
<1>4. Apart(a)
  BY <1>2, <1>3, Idling DEF Apart
<1>5. Work' /\ One' /\ DraftTakesEffectOnce'
  BY <1>1, <1>3, <1>4, UnchangedDraft, BystandersKeep
<1>6. place' \in Assignments
  BY <1>1, <1>2, NullsAreOutside DEF Moved, Assignments, Inductive, TypeOK
<1>7. TypeOK'
  BY <1>1, <1>3, <1>6 DEF Inductive, TypeOK, Requests
<1>8. Complete'
  BY <1>3, FilledSame, Idling DEF Inductive, Complete
<1>9. /\ \A c \in Codes : op'[a].code # c
      /\ op'[a].pc \notin {"move", "prepare", "link", "provision"}
  BY <1>3, Idling, NullsAreOutside
<1>10. Known'
  BY <1>1, <1>3, <1>9 DEF Inductive, Known, SameOp
<1>11. Holders'
  <2>1. \A b \in Admins, c \in Codes : Holds(b, c)' => Holds(b, c)
    BY <1>3, <1>9 DEF Holds, SameOp
  <2>. QED
    BY <1>1, <2>1 DEF Inductive, Holders
<1>12. Seen'
  <2>1. \A c \in Codes : Face(c)' = Face(c)
    BY <1>1 DEF Face
  <2>. QED
    BY <1>1, <1>3, <1>9, <2>1 DEF Inductive, Seen, SameOp
<1>13. Movers'
  <2>1. \A b \in Admins : op'[b].pc # "move"
    BY <1>1, <1>3, <1>9 DEF Inductive, Movers, SameOp
  <2>. QED
    BY <2>1 DEF Movers
<1>14. MoveSparesCodes'
  <2>1. ASSUME NEW c \in Codes, Live(c)', ~code'[c].late
        PROVE  place'[code'[c].lock] = Home[code'[c].res]
    <3>1. Live(c) /\ ~code[c].late /\ code[c] \in CodeRow
      BY <1>1, <2>1, RowOrNone DEF Live
    <3>2. code[c].lock # op[a].lock /\ place[code[c].lock] # op[a].place
      BY <1>1, <3>1, Stands
    <3>3. place'[code[c].lock] = place[code[c].lock]
      BY <1>1, <3>1, <3>2 DEF Moved, CodeRow
    <3>. QED
      BY <1>1, <3>1, <3>3, Stands
  <2>. QED
    BY <2>1 DEF MoveSparesCodes
<1>. QED
  BY <1>5, <1>7, <1>8, <1>10, <1>11, <1>12, <1>13, <1>14 DEF Inductive

-----------------------------------------------------------------------------
(* The theorems *)

LEMMA InitInductive == Init => Inductive
<1>. SUFFICES ASSUME Init PROVE Inductive
  OBVIOUS
<1>1. \A a \in Admins : op[a] = IdleOp
  BY DEF Init
<1>2. (\A c \in Codes : code[c] = NoCode) /\ \A d \in Drafts : draft[d] = NoDraft
  BY DEF Init
<1>3. TypeOK
  BY Idling, BudgetsAreNaturals DEF Init, TypeOK
<1>4. Complete /\ Known /\ Work
  BY <1>1, <1>2, RowOrNone, Idling, NullsAreOutside DEF Complete, Known, Work, NoDraft
<1>5. One
  BY <1>1, <1>2, RowOrNone, Idling, NullsAreOutside DEF One, Works, NoDraft
<1>6. DraftTakesEffectOnce
  BY <1>2 DEF DraftTakesEffectOnce, NoDraft
<1>7. Holders /\ Seen
  BY <1>1, <1>2, Idling, NullsAreOutside DEF Holders, Holds, Seen, NoDraft
<1>8. Movers /\ MoveSparesCodes
  BY <1>1, <1>2, Idling DEF Movers, MoveSparesCodes, Live, NoCode
<1>. QED
  BY <1>3, <1>4, <1>5, <1>6, <1>7, <1>8 DEF Inductive

LEMMA NextInductive == Inductive /\ [Next]_vars => Inductive'
<1>. SUFFICES ASSUME Inductive, [Next]_vars PROVE Inductive'
  OBVIOUS
<1>1. ASSUME NEW a \in Admins, Request(a) PROVE Inductive'
  BY <1>1, StartCreateStep, StartEnsureStep, StartReplaceStep, StartApplyStep, StartMoveStep
     DEF Request
<1>2. ASSUME NEW a \in Admins, Continue(a) PROVE Inductive'
  BY <1>2, ExpireDraftsStep, LookForCodeStep, FindOpenDraftStep, PickStep, InsertDraftStep,
     ClaimDraftStep, ReserveStep, ReloadStep, PrepareStep, LinkStep, ProvisionStep,
     FinishStep, ReadBackStep, RefuseStep, CommitMoveStep
     DEF Continue
<1>3. ASSUME NEW a \in Admins, StatementFails(a) \/ LockCallFails(a) PROVE Inductive'
  BY <1>3, StatementFailsStep, LockCallFailsStep
<1>4. ASSUME NEW d \in Drafts, CancelDraft(d) \/ RunsOut(d) PROVE Inductive'
  BY <1>4, CancelDraftStep, RunsOutStep
<1>5. ASSUME NEW c \in Codes, NEW w \in Windows, WriteCode(c, w) PROVE Inductive'
  BY <1>5, WriteCodeStep
<1>6. ASSUME NEW c \in Codes, Revoke(c) PROVE Inductive'
  BY <1>6, RevokeStep
<1>7. ASSUME Crash PROVE Inductive'
  BY <1>7, CrashStep
<1>8. CASE UNCHANGED vars
  BY <1>8 DEF vars, Inductive, TypeOK, Complete, Known, Work, One, Works,
              DraftTakesEffectOnce, Holders, Holds, Seen, Face, Movers, MoveSparesCodes, Live
<1>. QED
  BY <1>1, <1>2, <1>3, <1>4, <1>5, <1>6, <1>7, <1>8 DEF Next

LEMMA AlwaysInductive == Spec => []Inductive
BY InitInductive, NextInductive, PTL DEF Spec

(* Whatever is prepared, confirmed, cancelled, moved or interrupted, each  *)
(* row and each request keeps its type, and no two locks are active at one *)
(* apartment (apartment_access_devices_active_apartment_unique, which      *)
(* moving a lock keeps by itself).                                         *)
THEOREM DraftsTypeCorrect == Spec => []TypeOK
<1>1. Inductive => TypeOK
  BY DEF Inductive
<1>. QED
  BY <1>1, AlwaysInductive, PTL

(* However many requests confirm a draft, and whatever is cancelled, runs  *)
(* out or fails meanwhile, its PIN reaches a code once at most and never   *)
(* from a cancelled draft (applyDraft, cancelDraft).                       *)
THEOREM DraftUsedOnce == Spec => []DraftTakesEffectOnce
<1>1. Inductive => DraftTakesEffectOnce
  BY DEF Inductive
<1>. QED
  BY <1>1, AlwaysInductive, PTL

(* The count of live codes and the move of the lock are apart, and yet no  *)
(* code that was there at the count loses its lock (assertNoLiveCodes).    *)
THEOREM LocksStayUnderCodes == Spec => []MoveSparesCodes
<1>1. Inductive => MoveSparesCodes
  BY DEF Inductive
<1>. QED
  BY <1>1, AlwaysInductive, PTL

(* Nothing but a restart or a refused note leaves a draft in `applying'    *)
(* without a request that works on it, and two requests never work on one  *)
(* (applyDraft).                                                           *)
THEOREM OneWorkerApplies == Spec => []ApplyingHasOneWorker
<1>1. ASSUME Inductive PROVE ApplyingHasOneWorker
  <2>. SUFFICES ASSUME NEW d \in Drafts, draft[d].status = "applying", ~draft[d].lost
                PROVE  Cardinality({a \in Admins : op[a].draft = d /\ op[a].pc # "claim"}) = 1
    BY DEF ApplyingHasOneWorker
  <2>1. PICK a \in Admins : Works(a, d)
    BY <1>1 DEF Inductive, One
  <2>2. \A b \in Admins : Works(b, d) => b = a
    BY <1>1, <2>1 DEF Inductive, One
  <2>3. {b \in Admins : op[b].draft = d /\ op[b].pc # "claim"} = {a}
    BY <2>1, <2>2 DEF Works
  <2>. QED
    BY <2>3, FS_Singleton
<1>. QED
  BY <1>1, AlwaysInductive, PTL

(* Only the two statements that write a code count a use of the draft.     *)
LEMMA UsesAreCounted ==
    ASSUME Inductive, Next, NEW d \in Drafts, draft[d].status # "none",
           draft'[d].uses # draft[d].uses
    PROVE  \E a \in Admins : (Reserve(a) \/ Prepare(a)) /\ op[a].draft = d
<1>1. draft[d] \in DraftRow /\ draft \in DraftRows
  BY RowOrNone
<1>2. \A e \in Drafts, s \in STRING : draft' = [draft EXCEPT ![e].status = s] =>
          draft'[d].uses = draft[d].uses
  BY <1>1 DEF DraftRows, DraftRow
<1>3. UNCHANGED draft => draft'[d].uses = draft[d].uses
  OBVIOUS
<1>4. \A c \in Codes : draft' = StaleDrafts(c) => draft'[d].uses = draft[d].uses
  BY StaleTyped
<1>5. ASSUME NEW a \in Admins, NEW pc \in {"claim", "link", "finish", "refuse"}, op[a].pc = pc
      PROVE  op[a].draft \in Drafts
  BY <1>5, FilledNow DEF Filled, OpType
<1>6. ASSUME NEW a \in Admins, Request(a) PROVE FALSE
  BY <1>3, <1>6 DEF Request, StartCreate, StartEnsure, StartReplace, StartApply, StartMove
<1>7. ASSUME NEW a \in Admins, ExpireDrafts(a) PROVE FALSE
  <2>1. draft'[d] = draft[d] \/ draft'[d] = [draft[d] EXCEPT !.status = "cancelled"]
    BY <1>7 DEF ExpireDrafts
  <2>. QED
    BY <1>1, <2>1 DEF DraftRow
<1>8. ASSUME NEW a \in Admins, LookForCode(a) \/ FindOpenDraft(a) \/ Pick(a) \/ Reload(a)
                               \/ Provision(a) \/ ReadBack(a) \/ CommitMove(a)
      PROVE  FALSE
  BY <1>3, <1>8 DEF LookForCode, FindOpenDraft, Pick, Reload, Provision, ReadBack, CommitMove
<1>9. ASSUME NEW a \in Admins, InsertDraft(a) PROVE FALSE
  <2>1. draft'[d] = draft[d]
    BY <1>1, <1>9 DEF InsertDraft, DraftRows
  <2>. QED
    BY <2>1
<1>10. ASSUME NEW a \in Admins, ClaimDraft(a) PROVE FALSE
  <2>2. UNCHANGED draft \/ draft' = [draft EXCEPT ![op[a].draft].status = "applying"]
    BY <1>10 DEF ClaimDraft
  <2>3. CASE draft' = [draft EXCEPT ![op[a].draft].status = "applying"]
    BY <1>1, <2>3 DEF DraftRows, DraftRow
  <2>. QED
    BY <1>3, <2>2, <2>3
<1>11. ASSUME NEW a \in Admins, Link(a) PROVE FALSE
  <2>1. draft' = [draft EXCEPT ![op[a].draft].result = op[a].code]
    BY <1>11 DEF Link
  <2>. QED
    BY <1>1, <2>1 DEF DraftRows, DraftRow
<1>12. ASSUME NEW a \in Admins, Finish(a) PROVE FALSE
  <2>1. draft' = [draft EXCEPT ![op[a].draft].status = "applied",
                               ![op[a].draft].result = op[a].code]
    BY <1>12 DEF Finish
  <2>. QED
    BY <1>1, <2>1 DEF DraftRows, DraftRow
<1>13. ASSUME NEW a \in Admins, Refuse(a) PROVE FALSE
  BY <1>2, <1>5, <1>13 DEF Refuse
<1>14. \A D : draft' = Lose(D) => draft'[d].uses = draft[d].uses
  BY LoseRows
<1>15. ASSUME NEW a \in Admins, StatementFails(a) PROVE FALSE
  BY <1>3, <1>14, <1>15 DEF StatementFails
<1>16. ASSUME NEW a \in Admins, LockCallFails(a) PROVE FALSE
  BY <1>3, <1>16 DEF LockCallFails
<1>17. ASSUME NEW e \in Drafts, CancelDraft(e) PROVE FALSE
  BY <1>2, <1>17 DEF CancelDraft
<1>18. ASSUME NEW e \in Drafts, RunsOut(e) PROVE FALSE
  <2>1. draft' = [draft EXCEPT ![e].overdue = TRUE]
    BY <1>18 DEF RunsOut
  <2>. QED
    BY <1>1, <2>1 DEF DraftRows, DraftRow
<1>19. ASSUME NEW c \in Codes, NEW w \in Windows, WriteCode(c, w) PROVE FALSE
  BY <1>4, <1>19 DEF WriteCode
<1>20. ASSUME NEW c \in Codes, Revoke(c) PROVE FALSE
  BY <1>4, <1>20 DEF Revoke
<1>21. ASSUME Crash PROVE FALSE
  BY <1>14, <1>21 DEF Crash
<1>22. PICK a \in Admins : Reserve(a) \/ Prepare(a)
  BY <1>6, <1>7, <1>8, <1>9, <1>10, <1>11, <1>12, <1>13, <1>15, <1>16, <1>17, <1>18, <1>19,
     <1>20, <1>21 DEF Next, Continue
<1>23. op[a].draft = d
  <2>1. \A table \in DraftRows :
            op[a].draft # d => Use(op[a].draft, table)[d].uses = table[d].uses
    BY DEF Use, DraftRows
  <2>2. CASE Reserve(a)
    <3>1. UNCHANGED draft \/ draft' = Use(op[a].draft, draft)
      BY <2>2 DEF Reserve
    <3>. QED
      BY <1>1, <1>3, <2>1, <3>1
  <2>3. CASE Prepare(a)
    <3>1. op[a].code \in Codes
      BY <2>3, FilledNow DEF Prepare, Filled
    <3>2. UNCHANGED draft \/ draft' = Use(op[a].draft, StaleDrafts(op[a].code))
      BY <2>3 DEF Prepare
    <3>3. /\ StaleDrafts(op[a].code) \in DraftRows
          /\ StaleDrafts(op[a].code)[d].uses = draft[d].uses
      BY <3>1, StaleTyped
    <3>. QED
      BY <1>3, <2>1, <3>2, <3>3
  <2>. QED
    BY <1>22, <2>2, <2>3
<1>. QED
  BY <1>22, <1>23

(* A replacement is written over the code the administrator saw, although  *)
(* the version is read in one statement and compared again in another      *)
(* (applyReplacementDraft, prepareUpdate).                                 *)
THEOREM ReplacementIsOfWhatWasSeen == Spec => ReplacesWhatWasShown
<1>1. ASSUME Inductive, Next, NEW d \in Drafts, draft[d].status # "none",
             draft'[d].uses # draft[d].uses, draft[d].source # None
      PROVE  /\ code[draft[d].source].status = "active"
             /\ [pin |-> code[draft[d].source].pin, win |-> code[draft[d].source].win]
                    = draft[d].shown
  <2>1. PICK a \in Admins : (Reserve(a) \/ Prepare(a)) /\ op[a].draft = d
    BY <1>1, UsesAreCounted
  <2>2. op[a].pc \in {"reserve", "prepare"} /\ op[a].code = draft[d].source
    BY <1>1, <2>1 DEF Reserve, Prepare, Inductive, Work
  <2>3. Prepare(a) /\ op[a].pc = "prepare" /\ op[a].code \in Codes
    BY <1>1, <2>1, <2>2, FilledNow DEF Filled, Reserve, Prepare
  <2>4. op[a].fresh
    BY <1>1, <2>3 DEF Prepare, StillCurrent
  <2>. QED
    BY <1>1, <2>1, <2>2, <2>3, <2>4 DEF Inductive, Seen, Face
<1>2. Inductive /\ [Next]_vars =>
          [\A d \in Drafts : draft[d].status # "none" /\ draft'[d].uses # draft[d].uses
               /\ draft[d].source # None =>
                   LET before == code[draft[d].source] IN
                   /\ before.status = "active"
                   /\ [pin |-> before.pin, win |-> before.win] = draft[d].shown]_vars
  BY <1>1
<1>. QED
  BY <1>2, AlwaysInductive, PTL DEF Spec, ReplacesWhatWasShown

===============================================================================
