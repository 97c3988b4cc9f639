---------------------------- MODULE MCMailOwner ----------------------------
(***************************************************************************)
(* What the owner decides, in seven scenes for TLC; a behaviour plays one  *)
(* of them.                                                                *)
(***************************************************************************)
EXTENDS Naturals, TLC

CONSTANTS a1, a2, a3, \* actions
          s1, s2,     \* two sends that can be exchanged
          r1, r2,     \* chats
          p1,         \* a person
          m1,         \* the message of the scenes with one
          n1, n2,     \* those of the scenes with two
          None

VARIABLES scene, ledger, policy, phase, now, hub, drawn, owner, running, seen, said,
          draft, again, exec, counted, draining, effect, inflight, intact,
          answered401, crashes
vars == <<scene, ledger, policy, phase, now, hub, drawn, owner, running, seen, said,
          draft, again, exec, counted, draining, effect, inflight, intact,
          answered401, crashes>>

\* What the scenes have in common.
HardSpan == 2
ExecuteSpan == 1
RetryDelay == 1
ProbeDelay == 1
ProbeGrace == 1
Day == 1
ApprovalKeep == 3
UnknownKeep == 1
Peers == {p1}
OneMessage == {m1}
TwoMessages == {n1, n2}
Copied == {}
Restarts == {}
Unsteady == {}
Lossy == {}
Undated == FALSE
Kinds == {"send", "draft", "move"}
DailyLimit == [k \in Kinds |-> 1]

Alone(a) == [new |-> {a}, revises |-> {}]
On == [allows |-> Kinds, possible |-> Kinds, routes |-> <<r1>>, window |-> 1]

OnlyA1 == {a1}
SendA1 == [a \in OnlyA1 |-> "send"]
MoveA1 == [a \in OnlyA1 |-> "move"]
NoneA1 == [a \in OnlyA1 |-> None]
FromR1 == [a \in OnlyA1 |-> r1]
AloneA1 == {Alone(a1)}

\* A send, as far as its approval, and two chats: a preview stored in both,
\* settings that name the other after a restart, content that stops being
\* readable.
BothChats == {r1, r2}
Rerouted == {[On EXCEPT !.routes = <<r1, r2>>], [On EXCEPT !.routes = <<r2>>]}
Chats == INSTANCE MailActions WITH
  Messages <- OneMessage, Actions <- OnlyA1, Kind <- SendA1, Group <- NoneA1, Origin <- FromR1,
  Routes <- BothChats, BatchKeys <- {1, 2}, MaxAttempts <- 1, MaxReissues <- 1,
  MaxOpen <- 1, Proposals <- AloneA1, Suggestions <- {}, Policies <- Rerouted,
  Removable <- OnlyA1, MaxCodes <- 1, MaxTime <- 1, MaxCrashes <- 1

\* A send, and its revision with two alternatives, a send and a draft.
Three == {a1, a2, a3}
ReviseKind == (a1 :> "send") @@ (a2 :> "send") @@ (a3 :> "draft")
ReviseGroup == (a1 :> None) @@ (a2 :> a2) @@ (a3 :> a2)
FromNobody == [a \in Three |-> None]
Redraft == {Alone(a1), [new |-> {a2, a3}, revises |-> {a1}]}
Revise == INSTANCE MailActions WITH
  Messages <- OneMessage, Actions <- Three, Kind <- ReviseKind,
  Group <- ReviseGroup, Origin <- FromNobody,
  Routes <- {r1}, BatchKeys <- {1}, MaxAttempts <- 1, MaxReissues <- 0,
  MaxOpen <- 2, Proposals <- Redraft, Suggestions <- {}, Policies <- {On},
  Removable <- {}, MaxCodes <- 1, MaxTime <- 0, MaxCrashes <- 0

\* Two sends, one a day allowed, and a message that may name both codes and is
\* handed over again and again.
TwoSends == {s1, s2}
BothSend == [a \in TwoSends |-> "send"]
NoneEach == [a \in TwoSends |-> None]
OneByOne == {Alone(s1), Alone(s2)}
ForTwoDays == [On EXCEPT !.window = 2]
Replay == INSTANCE MailActions WITH
  Messages <- OneMessage, Actions <- TwoSends, Kind <- BothSend,
  Group <- NoneEach, Origin <- NoneEach,
  Routes <- {r1}, BatchKeys <- {1}, MaxAttempts <- 1, MaxReissues <- 0,
  MaxOpen <- 2, Proposals <- OneByOne, Suggestions <- {}, Policies <- {ForTwoDays},
  Removable <- {}, MaxCodes <- 2, MaxTime <- 1, MaxCrashes <- 0

\* Two alternatives for one mail, a send and a draft: approved by one message
\* that may name both, or by two messages, so that an approval of the second may
\* come while the first is under way or after it ended.
Either == {a2, a3}
EitherKind == (a2 :> "send") @@ (a3 :> "draft")
EitherGroup == [a \in Either |-> a2]
EitherFrom == [a \in Either |-> None]
Both == {[new |-> Either, revises |-> {}]}
Together == INSTANCE MailActions WITH
  Messages <- OneMessage, Actions <- Either, Kind <- EitherKind,
  Group <- EitherGroup, Origin <- EitherFrom,
  Routes <- {r1}, BatchKeys <- {1}, MaxAttempts <- 1, MaxReissues <- 0,
  MaxOpen <- 2, Proposals <- Both, Suggestions <- {}, Policies <- {On},
  Removable <- {}, MaxCodes <- 2, MaxTime <- 0, MaxCrashes <- 0
InTurn == INSTANCE MailActions WITH
  Messages <- TwoMessages, Actions <- Either, Kind <- EitherKind,
  Group <- EitherGroup, Origin <- EitherFrom,
  Routes <- {r1}, BatchKeys <- {1}, MaxAttempts <- 1, MaxReissues <- 0,
  MaxOpen <- 2, Proposals <- Both, Suggestions <- {}, Policies <- {On},
  Removable <- {}, MaxCodes <- 1, MaxTime <- 0, MaxCrashes <- 0

\* Two sends, one a day allowed, each with a message of its own: the second
\* may be approved when the first has been carried out, refused, or ended with
\* nobody knowing whether it went out, that day or the next.
Limited == INSTANCE MailActions WITH
  Messages <- TwoMessages, Actions <- TwoSends, Kind <- BothSend,
  Group <- NoneEach, Origin <- NoneEach,
  Routes <- {r1}, BatchKeys <- {1}, MaxAttempts <- 1, MaxReissues <- 0,
  MaxOpen <- 2, Proposals <- OneByOne, Suggestions <- {}, Policies <- {ForTwoDays},
  Removable <- {}, MaxCodes <- 1, MaxTime <- 1, MaxCrashes <- 0

\* A move: settings that change at a restart, capabilities that change while
\* it waits, content that stops matching, half-done moves taken up.
Changing == {On, [On EXCEPT !.allows = {"send", "draft"}], [On EXCEPT !.possible = {}]}
Settings == INSTANCE MailActions WITH
  Messages <- OneMessage, Actions <- OnlyA1, Kind <- MoveA1, Group <- NoneA1, Origin <- NoneA1,
  Routes <- {r1}, BatchKeys <- {1}, MaxAttempts <- 2, MaxReissues <- 0,
  MaxOpen <- 1, Proposals <- AloneA1, Suggestions <- OnlyA1, Policies <- Changing,
  Removable <- OnlyA1, MaxCodes <- 1, MaxTime <- 1, MaxCrashes <- 1

Init == \/ scene = "chats" /\ Chats!Init
        \/ scene = "revise" /\ Revise!Init
        \/ scene = "replay" /\ Replay!Init
        \/ scene = "together" /\ Together!Init
        \/ scene = "in turn" /\ InTurn!Init
        \/ scene = "limited" /\ Limited!Init
        \/ scene = "settings" /\ Settings!Init
Next == \/ scene = "chats" /\ Chats!Next /\ UNCHANGED scene
        \/ scene = "revise" /\ Revise!Next /\ UNCHANGED scene
        \/ scene = "replay" /\ Replay!Next /\ UNCHANGED scene
        \/ scene = "together" /\ Together!Next /\ UNCHANGED scene
        \/ scene = "in turn" /\ InTurn!Next /\ UNCHANGED scene
        \/ scene = "limited" /\ Limited!Next /\ UNCHANGED scene
        \/ scene = "settings" /\ Settings!Next /\ UNCHANGED scene
Spec == Init /\ [][Next]_vars

\* The two sends are interchangeable, and the two messages.
Symmetry == Permutations(TwoSends) \cup Permutations(TwoMessages)

\* The first scene goes as far as the approval.  A send that ended without one
\* neither takes from a limit nor is approved by a replay: those scenes go no
\* further then.
OfInterest ==
  /\ scene = "chats" =>
       ledger.actions[a1].state \in {"absent", "proposed", "previewing", "open"}
  /\ scene \in {"replay", "limited"} =>
       \A s \in TwoSends : ledger.actions[s].terminalAt # Replay!NoTime =>
                            ledger.actions[s].approval # None

-----------------------------------------------------------------------------
(* Properties of MailActions, each in the scene that can break it.         *)

\* An approval counts for what its writer read: it was given by a message sent
\* after the code it used reached that same person in that same chat, and the
\* same message handed over again approves nothing more (approve,
\* previews_delivered, the approvals ring).
ApprovalsAreRead ==
  /\ scene = "chats" => Chats!ApprovalIsInformed
  /\ scene = "together" => Together!ApprovalIsInformed
  /\ scene = "replay" => Replay!ReplayAddsNothing

\* One reply per mail: of its alternatives at most one is ever approved,
\* whether one message names both, a second names the other while the first is
\* carried out, or after it failed or ended with nobody knowing; and a draft
\* and its revision are never both live, though drafting the revision takes
\* minutes in which the first may be approved (approve, propose, revise).
OneReply ==
  /\ scene = "together" => Together!OneOfAGroup
  /\ scene = "in turn" => InTurn!OneOfAGroup
  /\ scene = "revise" => Revise!RevisedNotLive

\* No more mails go out on one day's approvals than max_sends_per_day, though
\* the second is approved after the first ended, maybe without anybody knowing
\* whether it went out; and no more than max_open actions wait or are under
\* way, though a revision frees places and brings alternatives (finish,
\* Ledger::propose, Preparer::full).
LimitsHold ==
  /\ scene = "replay" => Replay!DailyLimitHolds
  /\ scene = "limited" => Limited!DailyLimitHolds
  /\ scene = "revise" => Revise!OpenBounded

\* The owner is told of every approved action that ended without them, and
\* what they are told is what the ledger says, also when the settings forbid
\* it or its content changed (finish, recover).
EndsAreTold == scene = "settings" => Settings!EndsAreTold
=============================================================================
