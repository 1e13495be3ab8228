----------------------------- MODULE MCCodeDrafts -----------------------------
(* CodeDrafts on small instances. *)
EXTENDS CodeDrafts, TLC

OneHome == [r \in Reservations |-> CHOOSE a \in Apartments : TRUE]

Budget(request, lock, statement, crash, edit, time) ==
    [request |-> request, lock |-> lock, statement |-> statement, crash |-> crash,
     edit |-> edit, time |-> time]

\* four requests and one kind of trouble, or three and two kinds
Mixed ==
    {Budget(4, 1, 0, 0, 0, 0), Budget(4, 0, 0, 0, 1, 0), Budget(3, 1, 1, 0, 0, 0),
     Budget(3, 0, 1, 0, 1, 0), Budget(3, 0, 0, 1, 1, 0), Budget(3, 0, 0, 0, 1, 1)}

Interchangeable ==
    Permutations(Drafts) \cup Permutations(Codes) \cup Permutations(Pins)
        \cup Permutations(Windows) \cup Permutations(Admins) \cup Permutations(Locks)
        \cup Permutations(Reservations)

=============================================================================
