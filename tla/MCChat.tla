-------------------- MODULE MCChat --------------------
(***************************************************************************)
(* What the owner writes, for TLC: the bridge of a chat account, the       *)
(* questions it carries to him, and the prompts a client queues. A         *)
(* behaviour plays one scene.                                              *)
(***************************************************************************)
EXTENDS OwnerQuestion, TLC

CONSTANTS
    c1, c2, j1, q1, q2

\* The scene a behaviour plays, and the state of the bridge and of the prompt
\* queue. In the scenes of one component the others' state is not in use: that
\* of the questions stays as at their start.
VARIABLES
    scene,
    disk, phase, poll, open, conv, leaving, work, offers, clock, crashes, taken, seen,
    unanswered, watched, repeated, dropped, ranTurns, written,
    daemon, stage, from, old, queue, active, paused, claims, failed, accepted, cut,
    ran

bridgeVars ==
    <<phase, poll, open, conv, leaving, work, watched, offers, clock, crashes, taken,
      unanswered, seen, repeated, dropped, ranTurns, written>>

queueVars == <<daemon, stage, from, old, queue, active, paused, claims, failed,
               accepted, cut, ran>>

mcVars == <<vars, scene, disk, bridgeVars, queueVars>>

\* All messages in one conversation; the odd ones in one, the even in another.
SameChat(n) == [m \in 1..n |-> c1]
Alternating(n) == [m \in 1..n |-> IF m % 2 = 1 THEN c1 ELSE c2]

\* The same in every scene.
Dismissed == {}
MaxClaims == 2
MaxTurns == 2
MaxSeen == 9
MaxReply == 2
MaxHeld == 1
HeldAge == 1
HeldPerChat == 2
HeldUnits == 2
HeldTotal == 3
Prompts == {"p1", "p2"}

\* Four messages of two conversations, one kept open, polled in batches, one
\* of them a voice message without a transcript; conversations idle out, the
\* bridge crashes.
Once == INSTANCE ChatBridge WITH
    Messages <- 1..4, Chats <- {c1, c2}, Chat <- Alternating(4), Unheard <- {3},
    Offered <- {}, Returned <- {}, Jobs <- {}, BatchMax <- 2, Checkpoints <- TRUE,
    MaxQueued <- 1, MaxSessions <- 1, AnswerUnits <- {1}, MaxFiles <- 0, Idles <- TRUE,
    Keyed <- TRUE, MaxTime <- 0, MaxCrashes <- 1,
    now <- clock, shown <- seen, turns <- ranTurns

\* Three messages of one conversation, whose answers take up to two messages
\* and a file, refused, held, carried by the next reply and given up; the
\* bridge crashes.
Held == INSTANCE ChatBridge WITH
    Messages <- 1..3, Chats <- {c1}, Chat <- SameChat(3), Unheard <- {}, Offered <- {},
    Returned <- {}, Jobs <- {}, BatchMax <- 1, Checkpoints <- TRUE, MaxQueued <- 2,
    MaxSessions <- 2, AnswerUnits <- {1, 3}, MaxFiles <- 1, Idles <- FALSE,
    Keyed <- TRUE, MaxTime <- 1, MaxCrashes <- 1,
    now <- clock, shown <- seen, turns <- ranTurns

\* The same of two messages, on a platform without client IDs.
Slack == INSTANCE ChatBridge WITH
    Messages <- 1..2, Chats <- {c1}, Chat <- SameChat(2), Unheard <- {}, Offered <- {},
    Returned <- {}, Jobs <- {}, BatchMax <- 1, Checkpoints <- TRUE, MaxQueued <- 2,
    MaxSessions <- 2, AnswerUnits <- {1, 3}, MaxFiles <- 0, Idles <- FALSE,
    Keyed <- FALSE, MaxTime <- 1, MaxCrashes <- 1,
    now <- clock, shown <- seen, turns <- ranTurns

\* A message a task subscription may take, one a worker hands back, and a job
\* whose report is due; a transport without a cursor.
Tasks == INSTANCE ChatBridge WITH
    Messages <- 1..3, Chats <- {c1}, Chat <- SameChat(3), Unheard <- {},
    Offered <- {1}, Returned <- {3}, Jobs <- {j1}, BatchMax <- 2, Checkpoints <- FALSE,
    MaxQueued <- 2, MaxSessions <- 2, AnswerUnits <- {1}, MaxFiles <- 0,
    Idles <- FALSE, Keyed <- TRUE, MaxTime <- 0, MaxCrashes <- 1,
    now <- clock, shown <- seen, turns <- ranTurns

\* Three messages of two conversations, one kept open, none of which idles
\* out, and a job either may start.
Settles == INSTANCE ChatBridge WITH
    Messages <- 1..3, Chats <- {c1, c2}, Chat <- Alternating(3), Unheard <- {},
    Offered <- {}, Returned <- {}, Jobs <- {j1}, BatchMax <- 2, Checkpoints <- TRUE,
    MaxQueued <- 2, MaxSessions <- 1, AnswerUnits <- {1}, MaxFiles <- 0,
    Idles <- FALSE, Keyed <- TRUE, MaxTime <- 0, MaxCrashes <- 1,
    now <- clock, shown <- seen, turns <- ranTurns

\* Two prompts, both of them queued at a time, three connections, of a daemon
\* that stops twice.
Queued == INSTANCE PromptQueue WITH
    Sessions <- 1..3, MaxItems <- 2, MaxCrashes <- 2, MaxFailed <- 0

\* Two prompts, one queued at a time, and a fourth connection, which can restore
\* what a stop left in two records.
Halved == INSTANCE PromptQueue WITH
    Sessions <- 1..4, MaxItems <- 1, MaxCrashes <- 2, MaxFailed <- 0

\* Two prompts, one queued at a time, a crash, and a save that fails.
Unsaved == INSTANCE PromptQueue WITH
    Sessions <- 1..3, MaxItems <- 1, MaxCrashes <- 1, MaxFailed <- 1

ASSUME ScenesAssumption ==
    /\ Once!BridgeConstants
    /\ Held!BridgeConstants
    /\ Slack!BridgeConstants
    /\ Tasks!BridgeConstants
    /\ Settles!BridgeConstants
    /\ QuestionConstants
    /\ Queued!QueueConstants
    /\ Halved!QueueConstants
    /\ Unsaved!QueueConstants

NoBridge ==
    /\ phase = "unused" /\ poll = "unused" /\ open = "unused" /\ conv = "unused"
    /\ leaving = "unused" /\ work = "unused" /\ offers = "unused"
    /\ watched = "unused" /\ unanswered = "unused"
    /\ clock = "unused" /\ crashes = "unused" /\ taken = "unused" /\ seen = "unused"
    /\ repeated = "unused" /\ dropped = "unused" /\ ranTurns = "unused"
    /\ written = "unused"

NoQueue ==
    /\ daemon = "unused" /\ stage = "unused" /\ from = "unused" /\ old = "unused"
    /\ queue = "unused" /\ active = "unused" /\ paused = "unused"
    /\ claims = "unused" /\ failed = "unused" /\ accepted = "unused"
    /\ cut = "unused" /\ ran = "unused"

MCInit ==
    /\ Init
    /\ \/ /\ NoQueue
          /\ \/ scene = "once" /\ Once!Init
             \/ scene = "held" /\ Held!Init
             \/ scene = "slack" /\ Slack!Init
             \/ scene = "tasks" /\ Tasks!Init
             \/ scene = "settles" /\ Settles!Init
       \/ scene \in {"asked", "stopped"} /\ disk = "unused" /\ NoBridge /\ NoQueue
       \/ /\ NoBridge
          /\ \/ scene = "queued" /\ Queued!Init
             \/ scene = "halved" /\ Halved!Init
             \/ scene = "unsaved" /\ Unsaved!Init

\* Two questions, one after the other, and a reply that may be replayed; or
\* one question, and the daemon or the bridge stops.
OneQuestion == Cardinality({q \in Questions : entry'[q] # "none"}) <= 1

\* Connections are numbered as they start: they are interchangeable.
InTurn ==
    \A s \in DOMAIN stage' : s > 1 /\ stage'[s] # "none" => stage'[s - 1] # "none"

MCNext ==
    /\ UNCHANGED scene
    /\ \/ /\ UNCHANGED <<vars, queueVars>>
          /\ \/ scene = "once" /\ Once!Next
             \/ scene = "held" /\ Held!Next
             \/ scene = "slack" /\ Slack!Next
             \/ scene = "tasks" /\ Tasks!Next
             \/ scene = "settles" /\ Settles!Next
       \/ /\ UNCHANGED <<disk, bridgeVars, queueVars>>
          /\ \/ scene = "asked" /\ Next /\ UNCHANGED stops
             \/ scene = "stopped" /\ Next /\ OneQuestion
       \/ /\ UNCHANGED <<vars, bridgeVars>>
          /\ \/ scene = "queued" /\ Queued!Next
             \/ scene = "halved" /\ Halved!Next
             \/ scene = "unsaved" /\ Unsaved!Next
          /\ InTurn

MCSpec == MCInit /\ [][MCNext]_mcVars

\* The questions are interchangeable.
Symmetry == Permutations({q1, q2})

-----------------------------------------------------------------------------
(* Properties, beside YesIsTheOwners.                                      *)

\* Nothing the owner writes runs a second turn, and nothing he is answered is
\* shown twice: whatever the platform presents again and wherever the bridge
\* crashes, a message claimed or awaiting delivery never starts a second
\* turn, and no piece of a reply is repeated by a crash in its middle or a
\* refusal of one that carried it, but for what a platform without client IDs
\* took with its answer lost; and a queued prompt runs once, whoever restores
\* its queue and however often, and again only for each stop between the two
\* writes of a restore and each save that failed (lib.rs accept, hold_refused,
\* persist.rs claim, connection.rs session_start, leave).
NothingTwice ==
    /\ scene = "tasks" => Tasks!NoSecondTurn
    /\ scene = "once" => Once!NoSecondTurn
    /\ scene = "held" => Held!TypeOK /\ Held!NothingTwice
    /\ scene = "slack" => Slack!NothingTwice
    /\ scene = "queued" => Queued!RunOnce
    /\ scene = "halved" => Halved!RunOnce
    /\ scene = "unsaved" => Unsaved!TypeOK /\ Unsaved!RunOnce
    /\ scene = "stopped" => TypeOK

\* Nothing is lost between two files or two owners: the cursor never passes a
\* message nobody has; every piece of every answer is shown, waits in a
\* pending or a held reply, or fell to a limit; and a prompt announced as
\* queued ran, waits in a session or can be restored, as its clients were
\* shown (lib.rs hold_refused, connection.rs session_start, leave,
\* save_queue).
NothingLost ==
    /\ scene = "once" => Once!PassedIsSettled
    /\ scene = "held" => Held!NothingLost
    /\ scene = "slack" => Slack!NothingLost
    /\ scene = "tasks" => Tasks!NothingLost
    /\ scene = "queued" => Queued!NoneLost /\ Queued!ShownIsKept
    /\ scene = "halved" => Halved!NoneLost

\* A conversation runs its messages in the order it claimed them, and no more
\* are claimed, queued or running than the limits say, although conversations
\* are closed and opened side by side (intake.rs).
TurnsInOrder ==
    /\ scene = "once" => Once!WithinLimits
    /\ scene = "settles" => Settles!TurnsInOrder
=============================================================================
