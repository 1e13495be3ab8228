------------------------------ MODULE Statistics ------------------------------
(***************************************************************************)
(* What the statistics page counts (src/statistics): which bookings it     *)
(* reads from Hostex, and the nights, occupancy and revenue it makes of    *)
(* them, by apartment and by day.                                          *)
(*                                                                         *)
(* Dates are integers, a period holds its first day `from' and not the day *)
(* `to', and a night has the date of its evening.  A booking is a record   *)
(* with apartment, status, checkIn and checkOut.  Hostex is read at one    *)
(* moment; rounding, currencies, the ledger, reviews and tasks are left    *)
(* out.                                                                    *)
(***************************************************************************)
EXTENDS Integers, FiniteSets

-----------------------------------------------------------------------------
(* Dates *)

ListDays(from, to) == from .. to - 1

InRange(date, from, to) == from <= date /\ date < to

Overlaps(s, from, to) == s.checkIn < to /\ s.checkOut > from

NightsInRange(s, from, to) ==
    LET start == IF s.checkIn > from THEN s.checkIn ELSE from
        end == IF s.checkOut < to THEN s.checkOut ELSE to
    IN  IF start < end THEN ListDays(start, end) ELSE {}

-----------------------------------------------------------------------------
(* Reading *)

(* Hostex's two date filters, up to previousDate(to)                       *)
FilteredByCheckIn(stays, from, to) ==
    {s \in stays : s.checkIn \in from .. to - 1}

FilteredByCheckOut(stays, from, to) ==
    {s \in stays : s.checkOut \in from .. to - 1}

(* Mutant of LoadStays: only the bookings that arrive in the period.       *)
LoadArrivingStays(stays, from, to) ==
    {s \in FilteredByCheckIn(stays, from, to) : Overlaps(s, from, to)}

(* Both sets, each stay once, without those that only touch the period     *)
LoadStays(stays, from, to) ==
    {s \in FilteredByCheckIn(stays, from, to) \cup FilteredByCheckOut(stays, from, to) :
        Overlaps(s, from, to)}

(* Hostex knows the availability of a year back and three years ahead.     *)
IsAvailabilityRangeSupported(from, to, today, ahead) ==
    from >= today - 365 /\ to - 1 <= today + ahead

(* answer: <<apartment, date>> -> available, of the pairs Hostex sent; an  *)
(* answer that did not come is empty.                                      *)
LoadAvailability(answer, from, to, today, ahead) ==
    IF IsAvailabilityRangeSupported(from, to, today, ahead) THEN answer ELSE <<>>

AvailabilityComplete(answer, apartments, from, to) ==
    apartments \X ListDays(from, to) \subseteq DOMAIN answer

Closed(answer) == {p \in DOMAIN answer : ~answer[p]}

-----------------------------------------------------------------------------
(* Counting, from the bookings that were read *)

Confirmed(stays) == {s \in stays : s.status = "accepted"}

Arrivals(stays, from, to) == {s \in Confirmed(stays) : InRange(s.checkIn, from, to)}

Departures(stays, from, to) == {s \in Confirmed(stays) : InRange(s.checkOut, from, to)}

OccupiedDates(stays, a, from, to) ==
    UNION {NightsInRange(s, from, to) : s \in {t \in Confirmed(stays) : t.apartment = a}}

BlockedNights(stays, closed, a, from, to) ==
    {d \in ListDays(from, to) : <<a, d>> \in closed /\ d \notin OccupiedDates(stays, a, from, to)}

SellableNights(stays, closed, a, from, to) ==
    ListDays(from, to) \ BlockedNights(stays, closed, a, from, to)

(* byDate: who sleeps where on the night of d                              *)
StayingOn(stays, d) == {s \in Confirmed(stays) : s.checkIn <= d /\ s.checkOut > d}

OccupiedOn(stays, apartments, d) ==
    {a \in apartments : \E s \in StayingOn(stays, d) : s.apartment = a}

SellableOn(stays, closed, apartments, d) ==
    {a \in apartments : a \in OccupiedOn(stays, apartments, d) \/ <<a, d>> \notin closed}

(* calculateStayRevenue allocates the amount evenly: this many of the      *)
(* stay's nights, out of RatedNights.                                      *)
IncludedNights(s, from, to) == Cardinality(NightsInRange(s, from, to))

RatedNights(s) == s.checkOut - s.checkIn
=============================================================================
