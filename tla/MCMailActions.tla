--------------------------- MODULE MCMailActions ---------------------------
(* One send for TLC. *)
EXTENDS MailActions, TLC

CONSTANTS a1, r1, p1, m1

SendKind == [a \in Actions |-> "send"]
NoGroup == [a \in Actions |-> None]
FromNobody == [a \in Actions |-> None]
Limit1 == [k \in Kinds |-> 1]
Together == {[new |-> Actions, revises |-> {}]}
On == [allows |-> Kinds, possible |-> Kinds, routes |-> <<r1>>, window |-> 1]
Steady == {On}
=============================================================================
