---------------------------- MODULE MCChatServer ----------------------------
(* Instances of ChatServer for TLC. *)
EXTENDS ChatServer, TLC

CONSTANTS ann, ben, cas

\* Cas registers under Ann's nickname, the others under their own.
MCNick == [c \in Clients |-> IF c = cas THEN ann ELSE c]
OwnNick == [c \in Clients |-> c]

WorkerSymmetry == Permutations(Workers)
=============================================================================
