---------------------------- MODULE MCAccessCodes ----------------------------
(* Small instances of AccessCodes for TLC. *)
EXTENDS AccessCodes, TLC

Interchangeable == Permutations(Codes) \cup Permutations(Pins)

FirstStay == <<0, 1>>
LongWindow == <<0, 2>>

\* one stay, whose dates do not change
OneStay == {LongWindow}

\* one stay that begins tomorrow, so that the due sweep leaves it alone today
TomorrowsStay == {<<1, 2>>}

\* a stay that may be shortened or prolonged
TwoLengths == {FirstStay, LongWindow}

Budget(fault, crash, request, change) ==
    [fault |-> fault, crash |-> crash, request |-> request, change |-> change]

\* the automation alone, or one request of an administrator
AloneOrAsked == {Budget(2, 1, 0, 1), Budget(1, 1, 0, 2), Budget(1, 0, 1, 1)}

\* three requests of an administrator, a failure and a restart
AskedThrice == {Budget(1, 1, 3, 0)}

Troubled == {Budget(1, 1, 1, 1), Budget(2, 0, 1, 0), Budget(0, 0, 2, 1)}

=============================================================================
