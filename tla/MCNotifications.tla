---------------------------- MODULE MCNotifications ----------------------------
(* Notifications on small instances. *)
EXTENDS Notifications, TLC

CONSTANTS e1, e2

\* one critical event and one of the lowest rank
Ranks == [e \in Events |-> IF e = e1 THEN 0 ELSE 3]

Budget(fault, statement, crash, change, slow) ==
    [fault |-> fault, statement |-> statement, crash |-> crash, change |-> change, slow |-> slow]

\* two disturbances, of different kinds or both a device's or an event's
\* change, or one run that is too slow and another disturbance
Two == {Budget(1, 0, 1, 0, 0), Budget(0, 1, 0, 1, 0), Budget(1, 0, 0, 1, 0), Budget(0, 0, 0, 2, 0),
        Budget(1, 0, 0, 0, 1), Budget(0, 0, 1, 0, 1)}
================================================================================
