----------------------------- MODULE MCEmailOutbox -----------------------------
(* EmailOutbox on small instances. *)
EXTENDS EmailOutbox, TLC

Budget(change, provider, crash, time) ==
    [change |-> change, provider |-> provider, crash |-> crash, time |-> time]

\* many changes, or fewer of them and more trouble
Mixed == {Budget(4, 1, 0, 0), Budget(3, 1, 1, 0), Budget(2, 2, 1, 0), Budget(1, 2, 1, 2), Budget(2, 1, 1, 2)}
=============================================================================
