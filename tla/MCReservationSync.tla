--------------------------- MODULE MCReservationSync ---------------------------
(* ReservationSync, with the statistics page, on small instances. *)
EXTENDS StatisticsReport, TLC

CONSTANTS s1, s2, r1, r2

(* Three nights: two stays that follow each other and one over both *)
ThreeRanges == {<<0, 2>>, <<2, 4>>, <<1, 3>>}
TwoRanges == {<<0, 2>>, <<1, 3>>}

\* every period that begins and ends in these four days
AllPeriods == {p \in (0 .. 4) \X (0 .. 4) : p[1] < p[2]}

Block(nights) == [origin |-> "booking_ical", status |-> "confirmed", nights |-> nights, ver |-> 0]
Manual(nights) == [origin |-> "manual", status |-> "confirmed", nights |-> nights, ver |-> 0]

Budget(fault, crash, request, webhook, change) ==
    [fault |-> fault, crash |-> crash, request |-> request, webhook |-> webhook,
     change |-> change]

\* nothing in Hostex and in the table
Nothing(sync, bounds) ==
    [hostex |-> [s \in HostexStays |-> NoStay],
     rows |-> [r \in Rows |-> NoBooking],
     ref |-> [s \in HostexStays |-> NoRow],
     sync |-> sync, budget |-> bounds]

With(row, b) == [b EXCEPT !.rows[r1] = row]

\* a booking made by hand and, after it, one made from the app
Direct == [status |-> "accepted", nights |-> <<2, 4>>, direct |-> TRUE, ver |-> 1]
Booked(b) ==
    [With(Manual(<<0, 2>>), b) EXCEPT
         !.hostex[s1] = Direct, !.ref[s1] = r2,
         !.rows[r2] = [origin |-> "hostex", status |-> "confirmed",
                       nights |-> <<2, 4>>, ver |-> 1]]

\* imports alone, by the timer and by a notification, into an empty table,
\* beside a booking made by hand, an old iCal block, or two of the same dates
Imported ==
    LET troubled == Nothing(TRUE, Budget(1, 1, 0, 1, 2))
        calm == Nothing(TRUE, Budget(0, 0, 0, 1, 2))
    IN  {troubled, With(Manual(<<0, 2>>), calm), With(Block(<<0, 2>>), calm),
         [With(Block(<<0, 2>>), calm) EXCEPT !.rows[r2] = Block(<<0, 2>>)]}

\* administrators alone
Updated == {Booked(Nothing(FALSE, Budget(1, 1, 3, 0, 2)))}

ImportedOrUpdated == Imported \cup Updated

\* the timer beside one administrator, or beside one notification
Together ==
    {Nothing(TRUE, Budget(0, 1, 1, 0, 2)), Nothing(TRUE, Budget(0, 1, 0, 1, 2)),
     With(Manual(<<0, 2>>), Nothing(TRUE, Budget(0, 1, 1, 0, 2)))}

\* one update beside the timer
Crossing ==
    LET b == Nothing(TRUE, Budget(0, 0, 1, 0, 2))
    IN  {b, With(Block(<<0, 2>>), b), With(Manual(<<0, 2>>), b)}
=============================================================================
