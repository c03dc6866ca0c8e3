-------------------------- MODULE MCBillingOutbox --------------------------
(* Small instances of BillingOutbox.                                         *)
EXTENDS BillingOutbox, TLC

CONSTANTS w1, w2

\* The runs are alike.
Alike == Permutations(Workers)

=============================================================================
