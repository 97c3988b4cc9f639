--------------------------- MODULE PlannedRestart ---------------------------
(***************************************************************************)
(* Planned restarts of the daemon (scv-server/src/restart.rs): a request   *)
(* arms a plan, the plan is saved in state/update.json and waits for the   *)
(* work that the restart would stop, the daemon hands it to a watchdog     *)
(* outside its own unit, the watchdog restarts the unit, checks the new    *)
(* release and rolls back, and the next daemon announces the outcome and   *)
(* removes the file.                                                       *)
(*                                                                         *)
(* Three kinds of process share one file: the daemon's waiting tasks, the  *)
(* watchdogs and the announcing task of whichever daemon runs. None of     *)
(* them locks it, and only the announcer compares plan identifiers.        *)
(***************************************************************************)
EXTENDS Naturals, Sequences, FiniteSets

CONSTANTS
    MaxPlans,       \* bound: requests that arm a plan
    Releases,       \* bound: releases ever installed
    MaxCrashes,     \* bound: daemons that stop without shutting down
    MaxFails,       \* bound: writes, copies and launches that fail
    MaxBegins,      \* bound: pieces of work that begin
    UnitFails,      \* bound: calls of systemctl that restart nothing
    Kinds,          \* the kinds of work the instance has
    SlowDog         \* a watchdog may take longer than the announcer waits

BoundsAssumption ==
    /\ {MaxPlans, Releases} \subseteq Nat \ {0}
    /\ {MaxCrashes, MaxFails, MaxBegins, UnitFails} \subseteq Nat
    /\ SlowDog \in BOOLEAN

\* What a restart may wait for, in the order waiting_for asks.
WorkKinds == {"run", "turn", "job", "report", "claim", "mail"}

KindsAssumption == Kinds \subseteq WorkKinds

Ids      == 1 .. MaxPlans
Versions == 1 .. Releases

PlanState == {"waiting", "restarting", "verified", "rolled_back", "failed"}

\* What of a plan decides how it goes on; "kept" is `previous`, "req" that a
\* delegation of this daemon asked, "layout" that both releases declare the
\* same CONFIG_LAYOUT, "uncopied" that `detail` says the previous binary could
\* not be put back.
Plan == [id : Ids, st : PlanState, from : Versions, to : Versions,
         req : BOOLEAN, layout : BOOLEAN, kept : BOOLEAN, out : BOOLEAN,
         uncopied : BOOLEAN]

NoPlan == [id |-> 0]

VARIABLES
    file,       \* state/update.json
    bin,        \* the version installed at the daemon's executable path
    prev,       \* the version copied to <binary>.prev, 0 for none
    marker,     \* state/daemon.json names a daemon that did not shut down
    daemon,     \* the running daemon: up, its version, scheduled plan, drain
    waiter,     \* the daemon's wait_and_restart tasks, by plan
    ann,        \* the daemon's announcing task
    dog,        \* the watchdog units, by plan
    work,       \* the work that runs in the daemon
    asking,     \* the versions that requests not yet armed found installed
    told,       \* what the owner was told: plan (0 for a crash), what, version,
                \* and whether a watchdog of that plan was still at work
    cut,        \* plan, kind, waited out: work a watchdog's first restart stopped
    late,       \* plan, kind: work under way that began after the plan's wait
    undone,     \* plan, version: releases a watchdog replaced by a rollback
    mixed,      \* plans alive together with another one
    replaced,   \* plans since whose request another release was installed
    dropped,    \* plans that a daemon of a third version dropped unsaid
    retold,     \* plans told in a daemon that stopped before it removed the file
    armed,      \* plans armed so far
    crashes, fails, begins, unitFails

disk    == <<file, bin, prev, marker>>
ghosts  == <<told, cut, late, undone, mixed, replaced, dropped, retold>>
budgets == <<armed, crashes, fails, begins, unitFails>>
vars    == <<disk, asking, daemon, waiter, ann, dog, work, ghosts, budgets>>

\* A task or a watchdog: where it is, its plan, clear checks in a row, and
\* whether it went on with a mail action under way.
IdleTask == [pc |-> "none", plan |-> NoPlan, clear |-> 0, over |-> FALSE]

\* The announcing task: its plan and what it decided to say.
NoAnn == [pc |-> "none", plan |-> NoPlan, what |-> "none"]

DogLive(p) == dog[p].pc \notin {"none", "done", "bailed"}

\* The plans that the file, a task or a watchdog holds.
Alive ==
    {p \in Ids : \/ file.id = p \/ waiter[p].pc # "none"
                 \/ ann.pc # "none" /\ ann.plan.id = p
                 \/ \E q \in Ids : DogLive(q) /\ p \in {q, dog[q].plan.id}}

Init ==
    /\ file = NoPlan /\ bin = 1 /\ prev = 0 /\ marker = TRUE
    /\ daemon = [up |-> TRUE, ver |-> 1, cur |-> 0, drain |-> FALSE]
    /\ asking = {}
    /\ waiter = [p \in Ids |-> IdleTask]
    /\ ann = NoAnn
    /\ dog = [p \in Ids |-> IdleTask]
    /\ work = {}
    /\ told = <<>> /\ cut = {} /\ late = {} /\ undone = {}
    /\ mixed = {} /\ replaced = {} /\ dropped = {} /\ retold = {}
    /\ armed = 0 /\ crashes = 0 /\ fails = 0 /\ begins = 0 /\ unitFails = 0

Fail == fails < MaxFails /\ fails' = fails + 1

-----------------------------------------------------------------------------
(* Work: turns, jobs, reports, owner messages and mail actions.            *)

\* Plans whose wait is over and whose watchdog has yet to restart the unit:
\* work that begins now is not waited for. A mail action cannot begin in the
\* daemon that drains, only in one started since.
Unawaited(k) ==
    {p \in Ids : \/ k # "mail" /\ waiter[p].pc \in {"drain", "hand", "launch", "handed"}
                 \/ waiter[p].pc = "none" /\ dog[p].pc \in {"start", "restart"}}

Beginning(k) ==
    /\ daemon.up /\ k \in Kinds \ work /\ begins < MaxBegins
    /\ work' = work \cup {k}
    /\ late' = late \cup (Unawaited(k) \X {k})
    /\ begins' = begins + 1
    /\ UNCHANGED <<disk, asking, daemon, waiter, ann, dog, told, cut, undone, mixed, replaced,
                   dropped, retold, armed, crashes, fails, unitFails>>

\* Mutant: a mail action begins while the restart drains mail.
BeginUndrained(k) == Beginning(k)

\* Work begins. A mail action is refused while the drain flag is up
\* (Hub::begin_execution); nothing refuses the other kinds.
Begin(k) ==
    /\ k = "mail" => ~daemon.drain
    /\ Beginning(k)

End(k) ==
    /\ k \in work
    /\ work' = work \ {k}
    /\ late' = late \ (Ids \X {k})
    /\ UNCHANGED <<disk, asking, daemon, waiter, ann, dog, told, cut, undone, mixed, replaced,
                   dropped, retold, budgets>>

\* The requester's run and its session's turn hold only the restart that the
\* requester asked for; every session's jobs, unstored reports, unanswered
\* owner messages and mail actions hold any.
WaitingFor(plan) ==
    {k \in work : k \in {"run", "turn"} => plan.req}

-----------------------------------------------------------------------------
(* The daemon: requests, waiting and the hand-over.                        *)

\* A release is installed over the binary (cargo install), whatever goes on.
Deploy ==
    /\ bin < Releases
    /\ bin' = bin + 1
    /\ replaced' = replaced \cup Alive
    /\ UNCHANGED <<file, prev, marker, asking, daemon, waiter, ann, dog, work, told, cut, late,
                   undone, mixed, dropped, retold, budgets>>

\* restart_when_idle with nothing scheduled: the installed binary is asked for
\* its build-info. A request while one is scheduled, from outside the unit or
\* for another version changes nothing.
Ask ==
    /\ daemon.up /\ daemon.cur = 0 /\ armed < MaxPlans
    /\ asking' = asking \cup {bin}
    /\ asking' # asking
    /\ UNCHANGED <<disk, daemon, waiter, ann, dog, work, ghosts, budgets>>

\* What the new plan p takes from a request that found v installed.
Armed(p, v, req, layout) ==
    [id |-> p, st |-> "waiting", from |-> daemon.ver, to |-> v, req |-> req,
     layout |-> layout, kept |-> FALSE, out |-> FALSE, uncopied |-> FALSE]

\* The plan waits in a task of its own; other requests that found the same
\* version may be under way (after the last plan of the bound none matters).
Arming(p, v, plan) ==
    /\ daemon.up /\ v \in asking /\ armed < MaxPlans
    /\ plan.req => Kinds \cap {"run", "turn"} # {}
    /\ asking' \in IF p = MaxPlans THEN {{}} ELSE {asking, asking \ {v}}
    /\ daemon' = [daemon EXCEPT !.cur = p]
    /\ waiter' = [waiter EXCEPT ![p] = [IdleTask EXCEPT !.pc = "wait", !.plan = plan]]
    /\ armed' = p
    /\ mixed' = IF Alive = {} THEN mixed ELSE mixed \cup Alive \cup {p}
    /\ replaced' = IF bin = v THEN replaced ELSE replaced \cup {p}
    /\ UNCHANGED <<bin, prev, marker, ann, dog, work, told, cut, late, undone, dropped, retold,
                   crashes, fails, begins, unitFails>>

\* Mutant: the plan is armed without being saved.
RequestUnsaved(v, req, layout) ==
    /\ Arming(armed + 1, v, Armed(armed + 1, v, req, layout))
    /\ UNCHANGED file

\* The answer is in: the plan is saved over whatever the file holds and
\* armed, whether or not another request was armed meanwhile.
Request(v, req, layout) ==
    /\ Arming(armed + 1, v, Armed(armed + 1, v, req, layout))
    /\ file' = Armed(armed + 1, v, req, layout)

CLEAR_CHECKS == 2

\* One check of wait_and_restart. Two clear ones in a row end the wait; so
\* does the deadline, which the plan then says. The end of the wait raises
\* the mail drain.
Check(p) ==
    LET clear == IF WaitingFor(waiter[p].plan) = {} THEN waiter[p].clear + 1 ELSE 0
    IN
    /\ waiter[p].pc = "wait"
    /\ \/ /\ clear < CLEAR_CHECKS
          /\ waiter' = [waiter EXCEPT ![p].clear = clear]
          /\ UNCHANGED daemon
       \/ /\ clear = CLEAR_CHECKS
          /\ waiter' = [waiter EXCEPT ![p].pc = "drain", ![p].clear = clear]
          /\ daemon' = [daemon EXCEPT !.drain = TRUE]
       \/ /\ clear < CLEAR_CHECKS
          /\ waiter' = [waiter EXCEPT ![p].pc = "drain", ![p].clear = clear, ![p].plan.out = TRUE]
          /\ daemon' = [daemon EXCEPT !.drain = TRUE]
    /\ UNCHANGED <<disk, asking, ann, dog, work, ghosts, budgets>>

\* Mail actions under way finish, or the minute is over: then the plan goes
\* on with one of them still running.
Drained(p) ==
    /\ waiter[p].pc = "drain"
    /\ waiter' = [waiter EXCEPT ![p].pc = "hand", ![p].over = "mail" \in work]
    /\ UNCHANGED <<disk, asking, daemon, ann, dog, work, ghosts, budgets>>

\* hand_over up to the saved plan: the accounts connected now are expected
\* of the new release, this release's image is kept, best effort, and the
\* plan is saved as restarting.
HandOver(p, keep) ==
    LET plan == [waiter[p].plan EXCEPT !.st = "restarting", !.kept = keep]
    IN
    /\ waiter[p].pc = "hand"
    /\ prev' = IF keep THEN daemon.ver ELSE prev
    /\ file' = plan
    /\ waiter' = [waiter EXCEPT ![p].pc = "launch", ![p].plan = plan]
    /\ IF keep THEN UNCHANGED fails ELSE Fail
    /\ UNCHANGED <<bin, marker, asking, daemon, ann, dog, work, ghosts, armed, crashes, begins,
                   unitFails>>

\* systemd-run starts the watchdog; the daemon keeps the plan as scheduled.
Launch(p) ==
    /\ waiter[p].pc = "launch"
    /\ waiter' = [waiter EXCEPT ![p].pc = "handed"]
    /\ dog' = [dog EXCEPT ![p].pc = "start"]
    /\ UNCHANGED <<disk, asking, daemon, ann, work, ghosts, budgets>>

\* The plan could not be saved or the watchdog not started: the drain ends,
\* the plan is saved as failed, best effort, and nothing is scheduled any
\* more.
HandOverFails(p) ==
    LET plan == [waiter[p].plan EXCEPT !.st = "failed"]
    IN
    /\ waiter[p].pc \in {"hand", "launch"}
    /\ Fail
    /\ file' \in {file, plan}
    /\ waiter' = [waiter EXCEPT ![p].pc = "failing", ![p].plan = plan]
    /\ daemon' = [daemon EXCEPT !.cur = 0, !.drain = FALSE]
    /\ prev' \in IF waiter[p].pc = "hand" THEN {prev, daemon.ver} ELSE {prev}
    /\ UNCHANGED <<bin, marker, asking, ann, dog, work, ghosts, armed, crashes, begins, unitFails>>

Tell(plan, what) ==
    told' = Append(told, [id |-> plan.id, what |-> what, ver |-> daemon.ver,
                          dog |-> plan # NoPlan /\ DogLive(plan.id)])

\* The announcement of a plan that is over.
Announcement(plan) ==
    CASE plan.st = "verified"    -> "updated"
      [] plan.st = "rolled_back" -> "rolled back"
      [] OTHER                   -> "failed"

\* The same daemon says so, and removes the file.
SayFailed(p) ==
    /\ waiter[p].pc = "failing"
    /\ Tell(waiter[p].plan, Announcement(waiter[p].plan))
    /\ waiter' = [waiter EXCEPT ![p].pc = "failed"]
    /\ UNCHANGED <<disk, asking, daemon, ann, dog, work, cut, late, undone, mixed, replaced,
                   dropped, retold, budgets>>

RemoveFailed(p) ==
    /\ waiter[p].pc = "failed"
    /\ file' = NoPlan
    /\ waiter' = [waiter EXCEPT ![p] = IdleTask]
    /\ UNCHANGED <<bin, prev, marker, asking, daemon, ann, dog, work, ghosts, budgets>>

-----------------------------------------------------------------------------
(* Daemons stop and start.                                                 *)

\* Whether the owner was told of the plan.
Told(p) == \E i \in DOMAIN told : told[i].id = p

\* The plans told whose file was yet to be removed when the daemon stopped.
ToldNotRemoved ==
    {p \in Ids : \/ waiter[p].pc = "failed"
                 \/ ann.pc = "remove" /\ ann.plan.id = p /\ Told(p)}

\* The tasks of a daemon, its requests and its work end with it.
Stopped ==
    /\ asking' = {}
    /\ waiter' = [p \in Ids |-> IdleTask]
    /\ work' = {} /\ late' = {}
    /\ retold' = retold \cup ToldNotRemoved

\* The next daemon runs the installed binary, reads the plan and the marker
\* (startup) and starts its announcing task. A plan that is on disk is
\* explained instead of the stop.
StartUp(unclean) ==
    /\ Stopped
    /\ daemon' = [up |-> TRUE, ver |-> bin, cur |-> 0, drain |-> FALSE]
    /\ ann' = [pc   |-> IF file # NoPlan THEN "decide" ELSE IF unclean THEN "unclean" ELSE "none",
               plan |-> file, what |-> "none"]
    /\ marker' = TRUE

kept == <<told, cut, undone, mixed, replaced, dropped>>

\* A crash, or the host's restart: the unit starts again.
Crash ==
    /\ daemon.up /\ crashes < MaxCrashes
    /\ crashes' = crashes + 1
    /\ StartUp(marker)
    /\ UNCHANGED <<file, bin, prev, dog, kept, armed, fails, begins, unitFails>>

\* The owner stops the daemon and starts it again: the daemon shuts down,
\* which removes the marker (clean_shutdown), so nothing was unclean.
StopAndStart ==
    /\ daemon.up /\ crashes < MaxCrashes
    /\ crashes' = crashes + 1
    /\ StartUp(FALSE)
    /\ UNCHANGED <<file, bin, prev, dog, kept, armed, fails, begins, unitFails>>

\* A release that did not come up is started later, by systemd or the owner.
ComesUp ==
    /\ ~daemon.up
    /\ StartUp(FALSE)
    /\ UNCHANGED <<file, bin, prev, dog, kept, budgets>>

\* systemctl restart by a watchdog. It shuts the daemon down; the release
\* at the binary path comes up, or does not.
UnitRestart(up) ==
    IF up THEN StartUp(FALSE)
    ELSE /\ Stopped
         /\ daemon' = [up |-> FALSE, ver |-> bin, cur |-> 0, drain |-> FALSE]
         /\ ann' = NoAnn
         /\ marker' = FALSE

-----------------------------------------------------------------------------
(* The watchdog.                                                           *)

\* It carries out the plan it finds in the file, if that one is restarting.
DogReads(p) ==
    /\ dog[p].pc = "start"
    /\ dog' = [dog EXCEPT ![p].pc   = IF file # NoPlan /\ file.st = "restarting"
                                     THEN "restart" ELSE "bailed",
                          ![p].plan = file]
    /\ UNCHANGED <<disk, asking, daemon, waiter, ann, work, ghosts, budgets>>

DogRestarts(p, up) ==
    LET plan == dog[p].plan
    IN
    /\ dog[p].pc \in {"restart", "again"}
    /\ cut' = IF dog[p].pc = "restart"
              THEN cut \cup {[id |-> plan.id, kind |-> k, out |-> plan.out,
                              over |-> waiter[plan.id].over, late |-> <<plan.id, k>> \in late] :
                             k \in WaitingFor(plan)}
              ELSE cut
    /\ UnitRestart(up)
    /\ dog' = [dog EXCEPT ![p].pc = IF @ = "restart" THEN "verify" ELSE "verify2"]
    /\ UNCHANGED <<file, bin, prev, told, undone, mixed, replaced, dropped, budgets>>

\* systemctl fails; the watchdog goes on to check all the same.
DogCannotRestart(p) ==
    /\ dog[p].pc \in {"restart", "again"}
    /\ unitFails < UnitFails
    /\ unitFails' = unitFails + 1
    /\ dog' = [dog EXCEPT ![p].pc = IF @ = "restart" THEN "verify" ELSE "verify2"]
    /\ UNCHANGED <<disk, asking, daemon, waiter, ann, work, ghosts, armed, crashes, fails, begins>>

Outcome(p, st) == dog' = [dog EXCEPT ![p].pc = "save", ![p].plan.st = st]

\* The daemon reports the new version with every expected account connected.
Verified(p) ==
    /\ dog[p].pc = "verify"
    /\ daemon.up /\ daemon.ver = dog[p].plan.to
    /\ Outcome(p, "verified")
    /\ UNCHANGED <<disk, asking, daemon, waiter, ann, work, ghosts, budgets>>

\* Why the previous binary may not be put back.
RollbackRefused(plan) == ~plan.layout \/ ~plan.kept \/ prev = 0

\* The time is over: another version, no daemon, or an account is missing.
NotVerified(p) ==
    /\ dog[p].pc = "verify"
    /\ IF RollbackRefused(dog[p].plan) THEN Outcome(p, "failed")
       ELSE dog' = [dog EXCEPT ![p].pc = "rollback"]
    /\ UNCHANGED <<disk, asking, daemon, waiter, ann, work, ghosts, budgets>>

\* The kept copy is installed over the binary and the unit restarted again.
Rollback(p) ==
    /\ dog[p].pc = "rollback"
    /\ undone' = undone \cup {[id |-> dog[p].plan.id, ver |-> bin, to |-> dog[p].plan.to]}
    /\ bin' = prev
    /\ dog' = [dog EXCEPT ![p].pc = "again"]
    /\ UNCHANGED <<file, prev, marker, asking, daemon, waiter, ann, work, told, cut,
                   late, mixed, replaced, dropped, retold, budgets>>

\* The copy could not be installed: only the detail of the outcome says so.
RollbackFails(p) ==
    /\ dog[p].pc = "rollback"
    /\ Fail
    /\ dog' = [dog EXCEPT ![p].pc = "save", ![p].plan.st = "rolled_back", ![p].plan.uncopied = TRUE]
    /\ UNCHANGED <<disk, asking, daemon, waiter, ann, work, ghosts, armed, crashes, begins, unitFails>>

\* The previous release answered, or did not: only the detail says which.
RolledBack(p) ==
    /\ dog[p].pc = "verify2"
    /\ Outcome(p, "rolled_back")
    /\ UNCHANGED <<disk, asking, daemon, waiter, ann, work, ghosts, budgets>>

\* The outcome is saved in the plan, whatever the file holds by now.
DogSaves(p) ==
    /\ dog[p].pc = "save"
    /\ file' = dog[p].plan
    /\ dog' = [dog EXCEPT ![p] = [IdleTask EXCEPT !.pc = "done"]]
    /\ UNCHANGED <<bin, prev, marker, asking, daemon, waiter, ann, work, ghosts, budgets>>

\* The outcome could not be saved: the plan stays restarting.
DogCannotSave(p) ==
    /\ dog[p].pc = "save"
    /\ Fail
    /\ dog' = [dog EXCEPT ![p] = [IdleTask EXCEPT !.pc = "done"]]
    /\ UNCHANGED <<disk, asking, daemon, waiter, ann, work, ghosts, armed, crashes, begins, unitFails>>

-----------------------------------------------------------------------------
(* The next daemon's announcement.                                         *)

\* The watchdog is overdue: verify, rollback and a minute more have passed
\* since the hand-over. One that works may be, when the unit is slow to stop.
Overdue(plan) == ~DogLive(plan.id) \/ (SlowDog /\ dog[plan.id].pc # "start")

\* Mutant: a restart under way is announced at once.
DecideAtOnce(plan, overdue) ==
    IF plan.st = "restarting" THEN "no report" ELSE Announcement(plan)

\* What to say about a plan: "wait" while the watchdog is still deciding,
\* "drop" when a third version runs.
Decide(plan, overdue) ==
    CASE plan.st = "waiting" ->
            IF daemon.ver = plan.to THEN "stopped before" ELSE "not restarted"
      [] plan.st = "restarting" /\ ~overdue -> "wait"
      [] plan.st = "restarting" /\ overdue ->
            CASE daemon.ver = plan.to   -> "no report"
              [] daemon.ver = plan.from -> "no effect"
              [] OTHER                  -> "drop"
      [] OTHER -> Announcement(plan)

AnnDecide(overdue) ==
    LET what == Decide(ann.plan, overdue)
    IN
    /\ daemon.up /\ ann.pc = "decide"
    /\ overdue => Overdue(ann.plan)
    /\ what # "wait"
    /\ ann' = IF what = "drop" THEN [ann EXCEPT !.pc = "remove"]
              ELSE [ann EXCEPT !.pc = "deliver", !.what = what]
    /\ dropped' = IF what = "drop" THEN dropped \cup {ann.plan.id} ELSE dropped
    /\ UNCHANGED <<disk, asking, daemon, waiter, dog, work, told, cut, late, undone, mixed, replaced,
                   retold, budgets>>

\* Stored for the chat that asked or for a notify target, or written to the
\* log alone when no account can take it: either way the file goes next.
AnnDeliver ==
    /\ daemon.up /\ ann.pc = "deliver"
    /\ Tell(ann.plan, ann.what)
    /\ ann' = [ann EXCEPT !.pc = "remove"]
    /\ UNCHANGED <<disk, asking, daemon, waiter, dog, work, cut, late, undone, mixed,
                   replaced, dropped, retold, budgets>>

\* While the watchdog decides, the file is read again; another plan in it,
\* or none, ends the announcement.
AnnReload ==
    /\ daemon.up /\ ann.pc = "decide" /\ Decide(ann.plan, FALSE) = "wait"
    /\ ann' = IF file # NoPlan /\ file.id = ann.plan.id
              THEN [ann EXCEPT !.plan = file]
              ELSE [ann EXCEPT !.pc = "remove"]
    /\ ann' # ann
    /\ UNCHANGED <<disk, asking, daemon, waiter, dog, work, ghosts, budgets>>

AnnRemove ==
    /\ daemon.up /\ ann.pc = "remove"
    /\ file' = NoPlan
    /\ ann' = NoAnn
    /\ UNCHANGED <<bin, prev, marker, asking, daemon, waiter, dog, work, ghosts, budgets>>

\* No plan explains the stop: the notify targets hear of a crash.
AnnUnclean ==
    /\ daemon.up /\ ann.pc = "unclean"
    /\ Tell(NoPlan, "unexpected stop")
    /\ ann' = NoAnn
    /\ UNCHANGED <<disk, asking, daemon, waiter, dog, work, cut, late, undone, mixed,
                   replaced, dropped, retold, budgets>>

-----------------------------------------------------------------------------
DogStep(p) ==
    \/ DogReads(p) \/ \E up \in BOOLEAN : DogRestarts(p, up)
    \/ DogCannotRestart(p) \/ Verified(p) \/ NotVerified(p)
    \/ Rollback(p) \/ RollbackFails(p) \/ RolledBack(p) \/ DogSaves(p) \/ DogCannotSave(p)

WaiterStep(p) ==
    \/ Check(p) \/ Drained(p) \/ \E keep \in BOOLEAN : HandOver(p, keep)
    \/ Launch(p) \/ HandOverFails(p) \/ SayFailed(p) \/ RemoveFailed(p)

AnnStep ==
    \/ \E overdue \in BOOLEAN : AnnDecide(overdue)
    \/ AnnDeliver \/ AnnReload \/ AnnRemove \/ AnnUnclean

Next ==
    \/ \E k \in WorkKinds : Begin(k) \/ End(k)
    \/ Deploy
    \/ Ask
    \/ \E v \in Versions, req, layout \in BOOLEAN : Request(v, req, layout)
    \/ \E p \in Ids : WaiterStep(p) \/ DogStep(p)
    \/ AnnStep
    \/ Crash \/ StopAndStart \/ ComesUp

Spec == Init /\ [][Next]_vars

\* The daemon's tasks and the watchdog are polled until they end, and the
\* deadline ends every wait; a unit that is down is started again some day.
\* Work need not end.
Fairness ==
    /\ \A p \in Ids : /\ SF_vars(Check(p) /\ waiter'[p].pc = "drain")
                      /\ WF_vars(WaiterStep(p) /\ waiter[p].pc # "wait")
                      /\ WF_vars(DogStep(p))
    /\ WF_vars(AnnStep) /\ WF_vars(ComesUp)

LiveSpec == Spec /\ Fairness

-----------------------------------------------------------------------------
(* Properties.                                                             *)

TypeOK ==
    /\ file \in Plan \cup {NoPlan}
    /\ bin \in Versions /\ prev \in {0} \cup Versions /\ marker \in BOOLEAN
    /\ daemon \in [up : BOOLEAN, ver : Versions, cur : {0} \cup Ids, drain : BOOLEAN]
    /\ asking \subseteq Versions
    /\ \A p \in Ids : /\ waiter[p].pc \in {"none", "wait", "drain", "hand", "launch",
                                            "handed", "failing", "failed"}
                      /\ waiter[p].plan \in Plan \cup {NoPlan}
                      /\ dog[p].plan \in Plan \cup {NoPlan}
                      /\ dog[p].pc \in {"none", "start", "restart", "verify", "rollback",
                                        "again", "verify2", "save", "done", "bailed"}
    /\ work \subseteq Kinds

\* Nothing that a restart waits for is stopped by one that did not say so:
\* what runs when the watchdog restarts the unit began after the wait was over,
\* or is a mail action that outlasted its minute, or the plan says the deadline
\* passed. A mail action begins after the wait only in a daemon started since
\* (wait_and_restart, waiting_for and the drain of Hub::begin_execution).
NothingCut ==
    \A c \in cut : c.out \/ c.late \/ (c.kind = "mail" /\ c.over)

\* A plan that was armed is on disk, in the hands of a task or a watchdog
\* that will write or say it, or was told, whenever the daemon stops. Two
\* exceptions: another plan was alive at the same time, and the one file was
\* overwritten or removed by either; and a release installed since the request
\* runs, which drops the plan (arm, hand_over, watchdog, announce, decide).
PlanNotLost ==
    \A p \in (1 .. armed) \ mixed :
        \/ Told(p)
        \/ file.id = p
        \/ waiter[p].pc \notin {"none", "handed"}
        \/ \E q \in Ids : DogLive(q) /\ dog[q].plan.id = p
        \/ ann.pc \in {"decide", "deliver"} /\ ann.plan.id = p
        \/ p \in replaced \cap dropped

\* A watchdog puts the previous binary back only over the release of its own
\* plan, unless another was installed since or another plan was alive
\* (watchdog, install_copy).
OwnRollback == \A u \in undone : u.ver = u.to \/ u.id \in replaced \cup mixed

\* A watchdog that was started finds its plan (hand_over saves before it
\* launches; watchdog gives up otherwise, and nothing would restart).
DogFindsPlan ==
    \A p \in Ids \ mixed :
        /\ dog[p].pc # "bailed"
        /\ DogLive(p) /\ dog[p].pc # "start" => dog[p].plan.id = p

\* The owner hears of a plan a second time only when the daemon that said it
\* stopped before it removed the file, or when a watchdog was overdue and is
\* at work still (announce, and the daemon that could not hand over).
ToldOnce ==
    \A i, j \in DOMAIN told :
        i < j /\ told[i].id = told[j].id
          => told[i].dog \/ told[i].id \in {0} \cup mixed \cup retold

\* The previous binary is at the daemon's path again when a plan says rolled
\* back and not that the copy failed (PlanState::RolledBack, install_copy).
RolledBackIsBack ==
    file # NoPlan /\ file.st = "rolled_back" /\ ~file.uncopied
      /\ file.id \notin mixed \cup replaced => bin = file.from

\* What the owner is told is so when it is said: "updated" by the new
\* release itself, unless yet another release was installed since the request
\* or another plan was alive, and no update is reported as without effect by
\* it (decide, announcement).
SaidIsSoStep ==
    \A i \in DOMAIN told' \ DOMAIN told :
           LET n == told'[i] IN
           /\ n.what = "updated" => n.ver = ann.plan.to \/ n.id \in replaced \cup mixed
           /\ n.what \in {"stopped before", "no report"} => n.ver = ann.plan.to
           /\ n.what \in {"no effect", "not restarted"} /\ ann.plan.from # ann.plan.to
                => n.ver # ann.plan.to
SaidIsSo == [][SaidIsSoStep]_vars

\* A watchdog is done with the plan of a daemon that no unit command stopped:
\* the daemon keeps the plan scheduled and mail drained, and announces nothing.
Unrestarted(p) == dog[p].pc = "done" /\ waiter[p].pc = "handed"

\* Every planned restart is told to the owner in the end, but one that met
\* another plan, that a release installed since dropped, or whose unit
\* commands all failed.
EveryPlanTold ==
    \A p \in Ids : armed >= p ~> \/ Told(p) \/ Unrestarted(p)
                                \/ p \in mixed \/ p \in replaced \cap dropped

=============================================================================
