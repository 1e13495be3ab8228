------------------------------ MODULE GuestAccess ------------------------------
(***************************************************************************)
(* What an administrator may rely on about a guest's access code, without  *)
(* requests, failures and retries: what the panel shows of a code, and the *)
(* passcode that opens the door for it.  A code shown as active has its    *)
(* passcode on the lock, a code shown as revoked never opens the door      *)
(* again, and the passcode changes only while the panel shows that the     *)
(* code is being worked on.  AccessCodes implements it.                    *)
(***************************************************************************)
CONSTANTS
    Codes,
    Passcodes   \* records with a field id, the lock's own number

VARIABLES
    shown,   \* Codes -> what the panel shows
    onLock   \* Codes -> the passcode it has on the lock, in a set of one at most

vars == <<shown, onLock>>

Init ==
    /\ shown = [c \in Codes |-> "none"]
    /\ onLock = [c \in Codes |-> {}]

Show(c, from, to) ==
    /\ shown[c] = from
    /\ shown' = [shown EXCEPT ![c] = to]
    /\ UNCHANGED onLock

(* The passcode of a code is put on the lock, replaced or taken off.       *)
Set(c, passcodes) ==
    /\ shown[c] = "pending"
    /\ onLock' = [onLock EXCEPT ![c] = passcodes]
    /\ UNCHANGED shown

Order(c) == Show(c, "none", "pending")

Rework(c) == Show(c, "active", "pending")

Activate(c) == Show(c, "pending", "active") /\ onLock[c] # {}

Revoke(c) == Show(c, "pending", "revoked") /\ onLock[c] = {}

(* The lock numbers its passcodes: none is another code's.                 *)
Put(c, k) ==
    /\ Set(c, {k})
    /\ onLock[c] = {}
    /\ \A d \in Codes : \A j \in onLock[d] : j.id # k.id

Replace(c, k) ==
    /\ Set(c, {k})
    /\ \E j \in onLock[c] : j.id = k.id

Remove(c) == Set(c, {}) /\ onLock[c] # {}

Next ==
    \E c \in Codes :
        \/ Order(c) \/ Rework(c) \/ Activate(c) \/ Revoke(c) \/ Remove(c)
        \/ \E k \in Passcodes : Put(c, k) \/ Replace(c, k)

Spec == Init /\ [][Next]_vars

=============================================================================
