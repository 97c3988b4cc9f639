---------------------------- MODULE MCChatBridge ----------------------------
(* A chat account with one conversation that may idle out, for TLC. *)
EXTENDS ChatBridge, TLC

CONSTANT c1

TwoMessages == 1..2
OneChat == {c1}

\* All in one conversation.
SameChat == [m \in Messages |-> c1]

Nothing == {}
=============================================================================
