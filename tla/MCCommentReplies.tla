-------------------------- MODULE MCCommentReplies --------------------------
(* Small instances of CommentReplies: what threads, authors and rules there are. *)
EXTENDS CommentReplies

CONSTANTS c1, c2, c3, x, y

OneThread == [c \in Comments |-> c1]
OwnThreads == [c \in Comments |-> c]
TwoPeople == [c \in Comments |-> IF c = c1 THEN x ELSE y]
TwoThreads == [c \in Comments |-> IF c = c3 THEN c3 ELSE c1]
OnePerson == [c \in Comments |-> x]

=============================================================================
