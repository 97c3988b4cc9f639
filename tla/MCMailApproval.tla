--------------------------- MODULE MCMailApproval ---------------------------
(***************************************************************************)
(* One send for TLC, as far as its approval, two people in one chat:       *)
(* previews refused, lost, stored twice, offered again under a new code;   *)
(* commands late, repeated, undated or written by someone else; a chat     *)
(* that stops, or changes owner.                                           *)
(***************************************************************************)
EXTENDS MailActions, TLC

CONSTANTS a1, r1, p1, p2, m1

SendKind == [a \in Actions |-> "send"]
NoGroup == [a \in Actions |-> None]
FromFirst == [a \in Actions |-> r1]
Limit1 == [k \in Kinds |-> 1]
Together == {[new |-> Actions, revises |-> {}]}
On == [allows |-> Kinds, possible |-> Kinds, routes |-> <<r1>>, window |-> 1]
Steady == {On}

\* The people are interchangeable.
PeerSymmetry == Permutations(Peers)

\* Only as far as the first approval or other end.
UpToApproval ==
  \A a \in Actions : waiting(Entry(a)) \/ Entry(a).state = "absent"
=============================================================================
