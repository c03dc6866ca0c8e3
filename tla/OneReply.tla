------------------------------ MODULE OneReply ------------------------------
(***************************************************************************)
(* What the outbound layer promises of one customer message.               *)
(*                                                                         *)
(* A message has a few dedup keys (its reply, its hand-off line).  The     *)
(* text of a key is stored once and never replaced, and over all the keys  *)
(* the customer is sent one message at most, and only a stored one.  What  *)
(* is heard is kept as the set of sends, each with the delivery of the job *)
(* that made it: the same text heard twice is two of them.                 *)
(***************************************************************************)
CONSTANTS Keys, Texts, NoText

VARIABLES
    stored,   \* the text stored under each key
    heard     \* the sends that reached the customer: of what key, what text, by whom

Init ==
    /\ stored = [k \in Keys |-> NoText]
    /\ heard = {}

\* The first draft of a key stores its text; later drafts find it.
Store(k, t) ==
    /\ stored[k] = NoText
    /\ stored' = [stored EXCEPT ![k] = t]
    /\ UNCHANGED heard

\* The one send, by whichever delivery.
Hear(k) ==
    /\ heard = {}
    /\ stored[k] # NoText
    /\ \E send \in heard' :
          heard' = {send} /\ send.key = k /\ send.text = stored[k]
    /\ UNCHANGED stored

Next ==
    \/ \E k \in Keys, t \in Texts : Store(k, t)
    \/ \E k \in Keys : Hear(k)

Spec == Init /\ [][Next]_<<stored, heard>>
=============================================================================
