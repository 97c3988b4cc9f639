-------------------- MODULE MCDaemon --------------------
(***************************************************************************)
(* The daemon for TLC: its planned restart, and the processes of its runs. *)
(* A behaviour plays one scene.                                            *)
(***************************************************************************)
EXTENDS Naturals

\* The scene a behaviour plays, and the state of the component it is about:
\* a variable of another component is unused.
VARIABLES
    scene,
    file, bin, prev, marker, asking, daemon, waiter, ann, dog, work, told, cut, late,
    undone, mixed, replaced, dropped, retold, armed, crashes, fails, begins, unitFails,
    proc, born, scv, run, rec, job, tracked, hit, crashed

vars ==
    <<scene,
      file, bin, prev, marker, asking, daemon, waiter, ann, dog, work, told, cut, late,
      undone, mixed, replaced, dropped, retold, armed, crashes, fails, begins, unitFails,
      proc, born, scv, run, rec, job, tracked, hit, crashed>>

\* The same in every scene.
Runs == {"r1"}
Pids == {1, 2}
Births == 3
Crashes == 1
Kills == TRUE

\* One plan, work of every kind beginning twice, before or after the wait; a
\* crash; two writes and one unit command fail.
Draining == INSTANCE PlannedRestart WITH
    MaxPlans <- 1, Releases <- 2, MaxCrashes <- 1, MaxFails <- 2, MaxBegins <- 2, UnitFails <- 1,
    Kinds <- {"turn", "job", "mail"}, SlowDog <- FALSE

\* One plan and two more releases, installed at any time; two crashes, a
\* failed write or copy, a failed unit command, a watchdog that is slow.
Crashing == INSTANCE PlannedRestart WITH
    MaxPlans <- 1, Releases <- 3, MaxCrashes <- 2, MaxFails <- 1, MaxBegins <- 0,
    UnitFails <- 1, Kinds <- {"mail"}, SlowDog <- TRUE

\* Two plans, one after the other or at once; a crash.
Two == INSTANCE PlannedRestart WITH
    MaxPlans <- 2, Releases <- 2, MaxCrashes <- 1, MaxFails <- 0, MaxBegins <- 0,
    UnitFails <- 0, Kinds <- {"mail"}, SlowDog <- FALSE

\* A run whose record may not be writable, strangers who get its number,
\* children forked late.
Recorded == INSTANCE Delegations WITH
    Live <- {}, Writable <- FALSE, Strangers <- TRUE, LateForks <- TRUE

\* A run that is alive when its record is read.
Telling == INSTANCE Delegations WITH
    Live <- {"r1"}, Writable <- TRUE, Strangers <- FALSE, LateForks <- FALSE

ASSUME ScenesAssumption ==
    /\ Draining!BoundsAssumption
    /\ Draining!KindsAssumption
    /\ Crashing!BoundsAssumption
    /\ Crashing!KindsAssumption
    /\ Two!BoundsAssumption
    /\ Two!KindsAssumption

OnlyPlannedRestart ==
    /\ proc = "unused" /\ born = "unused" /\ scv = "unused" /\ run = "unused"
    /\ rec = "unused" /\ job = "unused" /\ tracked = "unused" /\ hit = "unused"
    /\ crashed = "unused"

OnlyDelegations ==
    /\ file = "unused" /\ bin = "unused" /\ prev = "unused" /\ marker = "unused"
    /\ daemon = "unused" /\ waiter = "unused" /\ ann = "unused" /\ dog = "unused"
    /\ work = "unused" /\ told = "unused" /\ cut = "unused" /\ undone = "unused"
    /\ asking = "unused" /\ late = "unused" /\ mixed = "unused" /\ replaced = "unused"
    /\ dropped = "unused" /\ retold = "unused"
    /\ armed = "unused" /\ crashes = "unused" /\ fails = "unused" /\ begins = "unused"
    /\ unitFails = "unused"

Init ==
    \/ scene = "draining" /\ Draining!Init /\ OnlyPlannedRestart
    \/ scene = "crashing" /\ Crashing!Init /\ OnlyPlannedRestart
    \/ scene = "two" /\ Two!Init /\ OnlyPlannedRestart
    \/ scene = "recorded" /\ Recorded!Init /\ OnlyDelegations
    \/ scene = "telling" /\ Telling!Init /\ OnlyDelegations

restPlannedRestart ==
    <<scene,
      proc, born, scv, run, rec, job, tracked, hit, crashed>>

restDelegations ==
    <<scene,
      file, bin, prev, marker, asking, daemon, waiter, ann, dog, work, told, cut, late,
      undone, mixed, replaced, dropped, retold, armed, crashes, fails, begins, unitFails>>

Next ==
    \/ scene = "draining" /\ Draining!Next /\ UNCHANGED restPlannedRestart
    \/ scene = "crashing" /\ Crashing!Next /\ UNCHANGED restPlannedRestart
    \/ scene = "two" /\ Two!Next /\ UNCHANGED restPlannedRestart
    \/ scene = "recorded" /\ Recorded!Next /\ UNCHANGED restDelegations
    \/ scene = "telling" /\ Telling!Next /\ UNCHANGED restDelegations

Spec == Init /\ [][Next]_vars

\* Nothing runs in "crashing" and "two", so no deadline passes there.
OfInterest ==
    scene \in {"crashing", "two"} =>
        \A p \in DOMAIN waiter : waiter[p].plan.id = 0 \/ ~waiter[p].plan.out

-----------------------------------------------------------------------------
(* Properties.                                                             *)

\* Nothing that a restart waits for is stopped by one that did not say so,
\* but what began after its wait; and the owner hears of a plan once, but for a
\* daemon that stopped between saying it and removing the file, or a watchdog
\* that was overdue (wait_and_restart, waiting_for, announce).
NothingCut ==
    /\ scene = "draining" => Draining!TypeOK /\ Draining!NothingCut /\ Draining!ToldOnce
    /\ scene = "crashing" => Crashing!ToldOnce
    /\ scene = "two" => Two!ToldOnce

\* A plan that was armed is on disk, in the hands of a task or a watchdog
\* that will write or say it, or was told, whenever the daemon stops and
\* whatever fails, and a watchdog that was started finds its plan, as long as
\* no other plan was alive; a watchdog puts back only over its own plan's
\* release and one that says rolled back did, as long as no other was
\* installed (arm, hand_over, watchdog, announce).
PlanNotLost ==
    /\ scene = "crashing" =>
         /\ Crashing!PlanNotLost /\ Crashing!DogFindsPlan
         /\ Crashing!OwnRollback /\ Crashing!RolledBackIsBack
    /\ scene = "two" =>
         /\ Two!TypeOK /\ Two!PlanNotLost /\ Two!DogFindsPlan
         /\ Two!OwnRollback /\ Two!RolledBackIsBack

\* What the owner is told is so when it is said: "updated" by the new release
\* itself, unless another was installed or another plan was alive, and no
\* update is reported as without effect by it (decide, announcement).
SaidIsSo ==
    [][/\ scene = "crashing" => Crashing!SaidIsSoStep
       /\ scene = "two" => Two!SaidIsSoStep]_vars

\* SCV signals no process it did not start, however its runs' process IDs
\* were reused, but in a group whose leader is gone, and never collects a child
\* its own waiter waits for; while an owner keeps a run, its record is there
\* and says what the child does, and a run that ended has none (records.rs,
\* live.rs).
RunsAreKnown ==
    /\ scene = "recorded" =>
         /\ Recorded!TypeOK /\ Recorded!NoStranger /\ Recorded!NoStolenExit
         /\ Recorded!NoGhost /\ Recorded!ActiveIsRecorded
    /\ scene = "telling" => Telling!RecordTells /\ Telling!NoGhost
=============================================================================
