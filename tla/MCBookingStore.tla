--------------------------- MODULE MCBookingStore ---------------------------
EXTENDS BookingStore, TLC

CONSTANTS h1, h2, s1, s2, a1, a2, b1, A, B, p1, p2

\* Two slots clear of each other, so that a customer can ask for a second time that is
\* free. Times that meet without being equal are left to NeverHeldTwice, which is proved
\* for every overlap relation.
MCOverlap == {<<s1, s1>>, <<s2, s2>>}
\* Customer A has two chats open, customer B one.
MCCustomerOf == [se \in {a1, a2, b1} |-> IF se = b1 THEN B ELSE A]

\* Which row, which payment id and which of the two slots comes first is all the same.
MCSymmetry == Permutations(Holds) \cup Permutations(Payments) \cup Permutations(Slots)
=============================================================================
