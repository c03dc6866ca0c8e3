------------------------- MODULE MCBillingPayments -------------------------
(* Small instances of BillingPayments.                                       *)
EXTENDS BillingPayments, TLC

CONSTANTS w1, w2, p1, p2, typo

\* The payments are alike, and so are the workers.
Alike == Permutations(Payments) \cup Permutations(Workers)

=============================================================================
