--------------------------- MODULE MCArrivalMessages ---------------------------
(* ArrivalMessages on small instances. *)
EXTENDS ArrivalMessages, TLC

CONSTANTS g1, g2, b1, b2, q1
=============================================================================
