-------------------------- MODULE MCThreadControl --------------------------
(* Small instances of ThreadControl.                                         *)
EXTENDS ThreadControl

CONSTANTS w1, w2, s1, s2, o1

=============================================================================
