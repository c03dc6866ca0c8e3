--------------------------- MODULE MCInboundEvents ---------------------------
(* Small instances of InboundEvents.  Handlers are interchangeable, and so are  *)
(* the jobs of the queue; the safety runs take that symmetry.                   *)
EXTENDS InboundEvents, TLC

CONSTANTS r1, r2, s1, s2

Alike == Permutations({r1, r2}) \cup Permutations({s1, s2})
=============================================================================
