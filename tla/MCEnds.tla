-------------------- MODULE MCEnds --------------------
(***************************************************************************)
(* What the daemon's own work comes to in the end, for TLC, under the      *)
(* fairness each component's own specification states and the README       *)
(* justifies. A behaviour plays one scene.                                 *)
(***************************************************************************)
EXTENDS Naturals

\* The scene a behaviour plays, and the state of the component it is about:
\* a variable of another component is unused.
VARIABLES
    scene,
    file, bin, prev, marker, asking, daemon, waiter, ann, dog, work, told,
    cut, late, undone, mixed, replaced, dropped, retold, armed, crashes,
    fails, begins, unitFails, plan, pc, token, live, run, turn, convs,
    journal, seen, result, turns, jfails, epoch, up, next, table, disk, runs,
    pend, written, req, claims, agents, starts, succ, ends, weeks, proc, born,
    scv, rec, job, tracked, hit, crashed

vars ==
    <<scene,
      file, bin, prev, marker, asking, daemon, waiter, ann, dog, work, told,
      cut, late, undone, mixed, replaced, dropped, retold, armed, crashes,
      fails, begins, unitFails, plan, pc, token, live, run, turn, convs,
      journal, seen, result, turns, jfails, epoch, up, next, table, disk,
      runs, pend, written, req, claims, agents, starts, succ, ends, weeks,
      proc, born, scv, rec, job, tracked, hit, crashed>>

\* The same in every scene.
Crashes == 1

\* One plan, during which work begins once; a crash, a failed write, a failed unit
\* command.
Restarts == INSTANCE PlannedRestart WITH
    MaxPlans <- 1, Releases <- 2, MaxCrashes <- 1, MaxFails <- 1, MaxBegins <- 1, UnitFails <- 1,
    Kinds <- {"job", "mail"}, SlowDog <- FALSE

\* One round, cancelled at any point.
Reviews == INSTANCE ReviewedJob WITH
    Builders <- {"codex"}, Offered <- {{"codex"}}, Lands <- {"after_approval"},
    Reports <- {"landed"}, MaxRounds <- 1, JournalFails <- 0, Cancels <- TRUE

\* Jobs the owner started, queued or not; a failed write and a crash.
Orphans == INSTANCE JobRecords WITH
    Limit <- 2, Behind <- BOOLEAN, ByOwner <- {TRUE}, Requests <- {"r1"},
    MaxStarts <- 2, Fails <- 1, MaxEnds <- 1, Weeks <- 0

\* A run of three processes whose owner crashes.
Leftovers == INSTANCE Delegations WITH
    Runs <- {"r1"}, Pids <- {1, 2, 3}, Births <- 3, Live <- {}, Writable <- TRUE,
    Strangers <- FALSE, Kills <- FALSE, LateForks <- FALSE

ASSUME ScenesAssumption ==
    /\ Restarts!BoundsAssumption
    /\ Restarts!KindsAssumption
    /\ Reviews!ReviewAssumption
    /\ Orphans!RecordsAssumption

OnlyPlannedRestart ==
    /\ plan = "unused" /\ pc = "unused" /\ token = "unused" /\ live = "unused"
    /\ run = "unused" /\ turn = "unused" /\ convs = "unused" /\ journal = "unused"
    /\ seen = "unused" /\ result = "unused" /\ turns = "unused" /\ jfails = "unused"
    /\ epoch = "unused" /\ up = "unused" /\ next = "unused" /\ table = "unused"
    /\ disk = "unused" /\ runs = "unused" /\ pend = "unused" /\ written = "unused"
    /\ req = "unused" /\ claims = "unused" /\ agents = "unused" /\ starts = "unused"
    /\ succ = "unused" /\ ends = "unused" /\ weeks = "unused" /\ proc = "unused"
    /\ born = "unused" /\ scv = "unused" /\ rec = "unused" /\ job = "unused"
    /\ tracked = "unused" /\ hit = "unused" /\ crashed = "unused"

OnlyReviewedJob ==
    /\ file = "unused" /\ bin = "unused" /\ prev = "unused" /\ marker = "unused"
    /\ daemon = "unused" /\ waiter = "unused" /\ ann = "unused" /\ dog = "unused"
    /\ work = "unused" /\ told = "unused" /\ cut = "unused" /\ undone = "unused"
    /\ asking = "unused" /\ late = "unused" /\ mixed = "unused" /\ replaced = "unused"
    /\ dropped = "unused" /\ retold = "unused"
    /\ armed = "unused" /\ crashes = "unused" /\ fails = "unused" /\ begins = "unused"
    /\ unitFails = "unused" /\ epoch = "unused" /\ up = "unused" /\ next = "unused"
    /\ table = "unused" /\ disk = "unused" /\ runs = "unused" /\ pend = "unused"
    /\ written = "unused" /\ req = "unused" /\ claims = "unused" /\ agents = "unused"
    /\ starts = "unused" /\ succ = "unused" /\ ends = "unused" /\ weeks = "unused"
    /\ proc = "unused" /\ born = "unused" /\ scv = "unused" /\ rec = "unused"
    /\ job = "unused" /\ tracked = "unused" /\ hit = "unused" /\ crashed = "unused"

OnlyJobRecords ==
    /\ file = "unused" /\ bin = "unused" /\ prev = "unused" /\ marker = "unused"
    /\ daemon = "unused" /\ waiter = "unused" /\ ann = "unused" /\ dog = "unused"
    /\ work = "unused" /\ told = "unused" /\ cut = "unused" /\ undone = "unused"
    /\ asking = "unused" /\ late = "unused" /\ mixed = "unused" /\ replaced = "unused"
    /\ dropped = "unused" /\ retold = "unused"
    /\ armed = "unused" /\ begins = "unused" /\ unitFails = "unused" /\ plan = "unused"
    /\ pc = "unused" /\ token = "unused" /\ run = "unused" /\ turn = "unused"
    /\ convs = "unused" /\ journal = "unused" /\ seen = "unused" /\ result = "unused"
    /\ turns = "unused" /\ jfails = "unused" /\ proc = "unused" /\ born = "unused"
    /\ scv = "unused" /\ rec = "unused" /\ job = "unused" /\ tracked = "unused"
    /\ hit = "unused" /\ crashed = "unused"

OnlyDelegations ==
    /\ file = "unused" /\ bin = "unused" /\ prev = "unused" /\ marker = "unused"
    /\ daemon = "unused" /\ waiter = "unused" /\ ann = "unused" /\ dog = "unused"
    /\ work = "unused" /\ told = "unused" /\ cut = "unused" /\ undone = "unused"
    /\ asking = "unused" /\ late = "unused" /\ mixed = "unused" /\ replaced = "unused"
    /\ dropped = "unused" /\ retold = "unused"
    /\ armed = "unused" /\ crashes = "unused" /\ fails = "unused" /\ begins = "unused"
    /\ unitFails = "unused" /\ plan = "unused" /\ pc = "unused" /\ token = "unused"
    /\ live = "unused" /\ turn = "unused" /\ convs = "unused" /\ journal = "unused"
    /\ seen = "unused" /\ result = "unused" /\ turns = "unused" /\ jfails = "unused"
    /\ epoch = "unused" /\ up = "unused" /\ next = "unused" /\ table = "unused"
    /\ disk = "unused" /\ runs = "unused" /\ pend = "unused" /\ written = "unused"
    /\ req = "unused" /\ claims = "unused" /\ agents = "unused" /\ starts = "unused"
    /\ succ = "unused" /\ ends = "unused" /\ weeks = "unused"

Init ==
    \/ scene = "restarts" /\ Restarts!Init /\ OnlyPlannedRestart
    \/ scene = "reviews" /\ Reviews!Init /\ OnlyReviewedJob
    \/ scene = "orphans" /\ Orphans!Init /\ OnlyJobRecords
    \/ scene = "leftovers" /\ Leftovers!Init /\ OnlyDelegations

restPlannedRestart ==
    <<scene,
      plan, pc, token, live, run, turn, convs, journal, seen, result, turns, jfails,
      epoch, up, next, table, disk, runs, pend, written, req, claims, agents, starts,
      succ, ends, weeks, proc, born, scv, rec, job, tracked, hit, crashed>>

restReviewedJob ==
    <<scene,
      file, bin, prev, marker, asking, daemon, waiter, ann, dog, work, told,
      cut, late, undone, mixed, replaced, dropped, retold, armed, crashes,
      fails, begins, unitFails, epoch, up, next, table, disk, runs, pend,
      written, req, claims, agents, starts, succ, ends, weeks, proc, born,
      scv, rec, job, tracked, hit, crashed>>

restJobRecords ==
    <<scene,
      file, bin, prev, marker, asking, daemon, waiter, ann, dog, work, told,
      cut, late, undone, mixed, replaced, dropped, retold, armed, begins,
      unitFails, plan, pc, token, run, turn, convs, journal, seen, result,
      turns, jfails, proc, born, scv, rec, job, tracked, hit, crashed>>

restDelegations ==
    <<scene,
      file, bin, prev, marker, asking, daemon, waiter, ann, dog, work, told,
      cut, late, undone, mixed, replaced, dropped, retold, armed, crashes,
      fails, begins, unitFails, plan, pc, token, live, turn, convs, journal,
      seen, result, turns, jfails, epoch, up, next, table, disk, runs, pend,
      written, req, claims, agents, starts, succ, ends, weeks>>

Next ==
    \/ scene = "restarts" /\ Restarts!Next /\ UNCHANGED restPlannedRestart
    \/ scene = "reviews" /\ Reviews!Next /\ UNCHANGED restReviewedJob
    \/ scene = "orphans" /\ Orphans!Next /\ UNCHANGED restJobRecords
    \/ scene = "leftovers" /\ Leftovers!Next /\ UNCHANGED restDelegations

\* What each component's own specification assumes fair. A behaviour plays one
\* scene, so one condition serves an action of every scene.
Weak1 ==
    \/ scene = "restarts" /\ Restarts!WaiterStep(1) /\ waiter[1].pc # "wait"
       /\ UNCHANGED restPlannedRestart
    \/ scene = "reviews" /\ Reviews!Loop /\ UNCHANGED restReviewedJob
    \/ scene = "orphans" /\ Orphans!Boot /\ UNCHANGED restJobRecords
    \/ scene = "leftovers" /\ Leftovers!OwnerStep("r1") /\ UNCHANGED restDelegations

Weak2 ==
    \/ scene = "restarts" /\ Restarts!DogStep(1) /\ UNCHANGED restPlannedRestart
    \/ scene = "orphans" /\ Orphans!Maintain /\ UNCHANGED restJobRecords
    \/ scene = "leftovers" /\ Leftovers!StopBegins("reconcile", "r1")
       /\ UNCHANGED restDelegations

Weak3 ==
    \/ scene = "restarts" /\ Restarts!AnnStep /\ UNCHANGED restPlannedRestart
    \/ scene = "leftovers" /\ Leftovers!JobStep("reconcile") /\ UNCHANGED restDelegations

Weak4 ==
    \/ scene = "restarts" /\ Restarts!ComesUp /\ UNCHANGED restPlannedRestart
    \/ scene = "leftovers" /\ Leftovers!JobStep("kill") /\ UNCHANGED restDelegations

Weak5 ==
    \/ scene = "leftovers" /\ Leftovers!Collected(1) /\ UNCHANGED restDelegations

Weak6 ==
    \/ scene = "leftovers" /\ Leftovers!Collected(2) /\ UNCHANGED restDelegations

Weak7 ==
    \/ scene = "leftovers" /\ Leftovers!Collected(3) /\ UNCHANGED restDelegations

Weak8 ==
    \/ scene = "leftovers" /\ Leftovers!Restart /\ UNCHANGED restDelegations

Strong1 ==
    \/ scene = "restarts" /\ Restarts!Check(1) /\ waiter'[1].pc = "drain"
       /\ UNCHANGED restPlannedRestart

Fairness ==
    /\ WF_vars(Weak1) /\ WF_vars(Weak2) /\ WF_vars(Weak3) /\ WF_vars(Weak4)
    /\ WF_vars(Weak5) /\ WF_vars(Weak6) /\ WF_vars(Weak7) /\ WF_vars(Weak8)
    /\ SF_vars(Strong1)

Spec == Init /\ [][Next]_vars /\ Fairness

-----------------------------------------------------------------------------
(* Properties.                                                             *)

\* The daemon's work comes to an end: every reviewed job ends
\* (ReviewedJob!EveryJobEnds), what a dead process left unfinished is settled
\* (JobRecords!EveryOrphanSettles, for the first record), a planned restart
\* is told to the owner, dropped by a release installed since, or restarts
\* nothing as its unit commands failed (PlannedRestart!EveryPlanTold), and the
\* processes a dead owner left of a recorded run go (Delegations!OrphansGo).
WorkEnds ==
    (\/ scene = "reviews" /\ pc # "done"
     \/ scene = "orphans" /\ disk[1] # Orphans!NoRec /\ disk[1].state \notin Orphans!Final
        /\ disk[1].owner # epoch
     \/ scene = "restarts" /\ armed >= 1
     \/ scene = "leftovers" /\ run["r1"].ph = "lost" /\ rec["r1"].on) ~>
    (\/ scene = "reviews" /\ pc = "done"
     \/ scene = "orphans" /\ (disk[1] = Orphans!NoRec \/ disk[1].state \in Orphans!Final)
     \/ scene = "restarts" /\ (\/ Restarts!Told(1) \/ Restarts!Unrestarted(1)
                               \/ 1 \in replaced \cap dropped)
     \/ scene = "leftovers" /\ Leftovers!Tagged("r1") = {} /\ ~rec["r1"].on)
=============================================================================
