--------------------------- MODULE StatisticsReport ---------------------------
(***************************************************************************)
(* The statistics page opened at any moment of ReservationSync: what it    *)
(* would say of the bookings Hostex has then.                              *)
(***************************************************************************)
EXTENDS ReservationSync, Statistics

CONSTANT Periods   \* periods [from, to) the page is opened for

ASSUME PeriodsAreRanges == \A p \in Periods : p \in Nat \X Nat /\ p[1] < p[2]

(* The bookings of Hostex; all are of the one apartment the model has.     *)
Bookings ==
    {[apartment |-> "apartment", stay |-> s, status |-> hostex[s].status,
      checkIn |-> hostex[s].nights[1], checkOut |-> hostex[s].nights[2]] :
        s \in {t \in HostexStays : hostex[t].status # "absent"}}

-----------------------------------------------------------------------------
(* Properties *)

(* The page shows no night as occupied that is not, and misses only nights *)
(* of bookings that begin before the period and end on its last day's      *)
(* morning after or later: with one filter by check-in and one by          *)
(* check-out those match neither, although the comment on loadStays has    *)
(* "every stay overlapping the period".                                    *)
OnlyLongStaysAreMissed ==
    \A p \in Periods :
        LET shown == OccupiedDates(LoadStays(Bookings, p[1], p[2]), "apartment", p[1], p[2])
            real == OccupiedDates(Bookings, "apartment", p[1], p[2])
        IN  /\ shown \subseteq real
            /\ \A d \in real \ shown :
                   \E s \in Confirmed(Bookings) : s.checkIn < p[1] /\ s.checkOut >= p[2]
=============================================================================
