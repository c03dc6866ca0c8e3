-------------------------- MODULE MCBookingSettle --------------------------
EXTENDS BookingSettle

CONSTANTS h1, r1, s1, s2, a1, b1, A, B, w1, w2, p1, p2

\* Two times of one stylist that do not meet.
MCOverlap == {<<s, s>> : s \in Slots}
MCCalendarOf == [s \in Slots |-> "stylist"]
\* The same times with a stylist each.
MCTwoCalendars == [s \in Slots |-> s]
MCCustomerOf == [se \in Sessions |-> IF se = a1 THEN A ELSE B]
=============================================================================
