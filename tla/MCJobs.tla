------------------------------- MODULE MCJobs -------------------------------
(***************************************************************************)
(* Background jobs for TLC: the records they leave on disk, and the        *)
(* subscriptions by which a chat's messages become a task's follow-ups. A  *)
(* behaviour plays one scene.                                              *)
(***************************************************************************)
EXTENDS JobRecords

CONSTANTS
    m1, m2, r1, r2

\* The scene a behaviour plays, and the state of the subscriptions; that of
\* the records stays as at its start in the subscriptions' scenes.
VARIABLES
    scene,
    book, unrec, started, proc, sending, seen, claimed, subFails, subCrashes, forgets,
    turns, handed

subVars ==
    <<book, unrec, started, proc, sending, seen, claimed, subFails, subCrashes, forgets,
      turns, handed>>

mcVars == <<vars, scene, subVars>>

\* The same in every scene.
Msgs == {m1, m2}
Reviewed == {}
MaxDecisions == 1
MaxOffers == 1
MaxReturns == 1

AtMostOneRuns == \A m, n \in Numbers : Running(m)' /\ Running(n)' => m = n
OwnersJobs == \A n \in Numbers : Running(n)' => table'[n].owners /\ ~table'[n].queued

\* Two jobs of any kind, one of them resumed; a write fails, the session ends,
\* a week passes.
Kept == starts' <= 2 /\ crashes' = 0 /\ req'[r2] = Idle

\* The owner's jobs, two at once, resumed by two requests through two
\* crashes; every write succeeds.
Resumed == OwnersJobs /\ fails' = 0 /\ weeks' = 0

\* The owner's jobs, one at a time, through a crash and a week.
Numbered == OwnersJobs /\ AtMostOneRuns /\ fails' = 0 /\ crashes' <= 1 /\ req'[r2] = Idle

\* Two messages, one presented twice, a worker that hands one back, a retry
\* beside the bridge; one failure and one crash.
Offered == INSTANCE TaskSubscriptions WITH
    up <- started, fails <- subFails, crashes <- subCrashes,
    ExtraMsgs <- {m2}, Procs <- {"bridge", "retry"}, Ops <- {"handback"}, MaxJobs <- 3,
    MaxFails <- 1, MaxCrashes <- 1, MaxForgets <- 0

\* The same without the retry, a job forgotten.
Crashed == INSTANCE TaskSubscriptions WITH
    up <- started, fails <- subFails, crashes <- subCrashes,
    ExtraMsgs <- {m2}, Procs <- {"bridge"}, Ops <- {"handback"}, MaxJobs <- 4,
    MaxFails <- 1, MaxCrashes <- 1, MaxForgets <- 1

\* A worker whose answer cannot be read, two failures, no crash.
Unreadable == INSTANCE TaskSubscriptions WITH
    up <- started, fails <- subFails, crashes <- subCrashes,
    ExtraMsgs <- {}, Procs <- {"bridge"}, Ops <- {"handback", "unreadable"},
    MaxJobs <- 4, MaxFails <- 2, MaxCrashes <- 0, MaxForgets <- 1

\* One message that both callers may have in hand at once, and whose first job
\* is not in the way of a second; one failure, one crash, presented twice.
Raced == INSTANCE TaskSubscriptions WITH
    up <- started, fails <- subFails, crashes <- subCrashes, Msgs <- {m1}, ExtraMsgs <- {},
    Procs <- {"bridge", "retry"}, Ops <- {"handback", "finish", "stop"}, MaxJobs <- 5,
    MaxFails <- 1, MaxCrashes <- 1, MaxForgets <- 1

\* What the owner may do with the task meanwhile.
Owners == INSTANCE TaskSubscriptions WITH
    up <- started, fails <- subFails, crashes <- subCrashes,
    ExtraMsgs <- {}, Procs <- {"bridge"},
    Ops <- {"finish", "stop", "dismiss", "rebind"}, MaxJobs <- 3,
    MaxFails <- 0, MaxCrashes <- 0, MaxForgets <- 1

ASSUME ScenesAssumption ==
    /\ RecordsAssumption
    /\ Offered!SubsAssumption
    /\ Crashed!SubsAssumption
    /\ Unreadable!SubsAssumption
    /\ Owners!SubsAssumption
    /\ Raced!SubsAssumption

NoSubscriptions ==
    /\ book = "unused" /\ unrec = "unused" /\ started = "unused" /\ proc = "unused"
    /\ sending = "unused" /\ seen = "unused" /\ claimed = "unused"
    /\ subFails = "unused" /\ subCrashes = "unused" /\ forgets = "unused"
    /\ turns = "unused" /\ handed = "unused"

MCInit ==
    /\ Init
    /\ \/ scene \in {"kept", "resumed", "numbers"} /\ NoSubscriptions
       \/ scene = "offered" /\ Offered!Init
       \/ scene = "crashed" /\ Crashed!Init
       \/ scene = "unreadable" /\ Unreadable!Init
       \/ scene = "owners" /\ Owners!Init
       \/ scene = "raced" /\ Raced!Init

MCNext ==
    /\ UNCHANGED scene
    /\ \/ /\ UNCHANGED subVars
          /\ \/ scene = "kept" /\ Next /\ Kept
             \/ scene = "resumed" /\ Next /\ Resumed
             \/ scene = "numbers" /\ Next /\ Numbered
       \/ /\ UNCHANGED vars
          /\ \/ scene = "offered" /\ Offered!Next
             \/ scene = "raced" /\ Raced!Next
             \/ scene = "crashed" /\ Crashed!Next
             \/ scene = "unreadable" /\ Unreadable!Next
             \/ scene = "owners" /\ Owners!Next

MCSpec == MCInit /\ [][MCNext]_mcVars

-----------------------------------------------------------------------------
(* Properties of the subscriptions; those of the records are JobRecords'.  *)

\* A message the bridge marked seen was run as a turn, or a file still holds
\* it, or a job took it and nothing on disk says it went back; one waiting to
\* be returned still has its text and its reply handles, after its offer
\* rolled off and after a crash between the record and the sidecar (job_took,
\* store_decision, load_history).
NoneLost ==
    /\ scene = "offered" => Offered!TypeOK /\ Offered!NoneLost
    /\ scene = "owners" => Owners!NoneLost
    /\ scene = "crashed" => Crashed!ReturnsKnown

\* A follow-up is given to a job at most once, runs at most one ordinary
\* turn, and both only if the worker handed it back: over retries, failed
\* writes, crashes between any two writes, unreadable histories, everything the
\* owner does to the task, and the bridge and the retry holding one message at
\* once (FollowUps::sending, settle_if_accepted, withhold, hand_back).  What a
\* caller does that made its plan before the other one was done with the
\* message, and carries it out afterwards, is the exception: nothing in
\* follow_up_in looks again.
FollowedUpOnce ==
    /\ scene = "crashed" => Crashed!GivenOnce /\ Crashed!NotBoth
    /\ scene = "unreadable" => Unreadable!GivenOnce /\ Unreadable!OneTurn
    /\ scene = "owners" => Owners!OneTurn
    /\ scene = "raced" => Raced!GivenOnce /\ Raced!NotBoth /\ Raced!OneTurn
=============================================================================
