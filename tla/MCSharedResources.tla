-------------------------- MODULE MCSharedResources --------------------------
(* SharedResources on small instances. *)
EXTENDS SharedResources, TLC

OneApartment == [w \in Writers |-> "flat"]

=============================================================================
