----------------------------- MODULE MCHostexInbox -----------------------------
(* HostexInbox on small instances. *)
EXTENDS HostexInbox, TLC

CONSTANTS e1, e2, e3

\* notifications only: the timer is off
EmptyTable ==
    {[hostex |-> [s \in HostexStays |-> NoStay],
      rows |-> [r \in Rows |-> NoBooking],
      ref |-> [s \in HostexStays |-> NoRow],
      sync |-> FALSE,
      budget |-> [fault |-> 1, crash |-> 1, request |-> 0, webhook |-> 2, change |-> 2]]}

OneRange == {<<0, 2>>}

OneOfEach ==
    [e \in Events |-> CASE e = e1 -> "reservation" [] e = e2 -> "message" [] OTHER -> "other"]
=============================================================================
