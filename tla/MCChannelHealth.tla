-------------------------- MODULE MCChannelHealth --------------------------
(* Small instances of ChannelHealth.                                         *)
EXTENDS ChannelHealth, TLC

CONSTANTS c1, c2

\* The channels are alike.
Alike == Permutations(Channels)

=============================================================================
