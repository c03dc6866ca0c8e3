------------------------- MODULE MCOutboundDelivery -------------------------
(* Small instances of OutboundDelivery.                                       *)
EXTENDS OutboundDelivery

CONSTANTS m1, m2
=============================================================================
