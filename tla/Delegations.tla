----------------------------- MODULE Delegations -----------------------------
(***************************************************************************)
(* The processes SCV starts for its delegated agents, and the bookkeeping  *)
(* that stops them again: DelegationRegistry and DelegationGuard of        *)
(* delegate/records.rs, the reaper of a live child in delegate/live.rs and *)
(* the daemon's reconcile pass.                                            *)
(*                                                                         *)
(* The kernel is external: a process has a PID, a birth time, a group, the *)
(* tag it inherited from its run (SCV_PARENT) and a parent.  A PID is not  *)
(* reused while a process or a group has it, nor while SCV is between two  *)
(* steps of stopping it (PIDs are handed out in turn, and the graces are   *)
(* seconds).  TERM may be ignored, KILL may not.                           *)
(*                                                                         *)
(* A delegation belongs to the daemon or to a short-lived `scv exec`, each *)
(* of which may die at any step.  Agents that clear their environment and  *)
(* leave their group escape by design and are not modelled.                *)
(***************************************************************************)
EXTENDS Naturals, FiniteSets

CONSTANTS
    Runs,           \* delegations
    Pids,           \* process IDs
    Births,         \* bound: processes ever started
    Crashes,        \* bound: deaths of SCV processes
    Live,           \* runs kept between turns (the others run one turn)
    Writable,       \* whether every record can be written
    Strangers,      \* whether other programs start processes
    Kills,          \* whether the owner uses `scv agents kill`
    LateForks       \* whether processes still fork while they are stopped

Owners == {"daemon", "exec"}
Stoppers == {"reconcile", "kill"}

VARIABLES
    proc,       \* the process table
    born,       \* processes started so far
    scv,        \* owner -> its birth while it runs, 0 when it does not
    run,        \* what each run's owner has in memory
    rec,        \* the record on disk of each run
    job,        \* a stop in progress, of the reconcile pass or `agents kill`
    tracked,    \* SPAWNED: PIDs the daemon waits for itself
    hit,        \* strangers signalled, and whether their group's leader was there
    crashed

vars == <<proc, born, scv, run, rec, job, tracked, hit, crashed>>

(* Who may collect a process: SCV, init, or its own parent. *)
By(who) == <<who, 0, 0>>

Free == [st |-> "free", birth |-> 0, group |-> 0, kin |-> "", parent |-> By(""), old |-> FALSE]
NoRec == [on |-> FALSE, owner |-> <<"", 0>>, pid |-> 0, birth |-> 0, idle |-> FALSE, jobs |-> 0]
NoJob == [pc |-> "off", r |-> "", rec |-> NoRec, ours |-> FALSE, tagged |-> {}]
NewRun == [ph |-> "none", own |-> "", pid |-> 0, birth |-> 0, guard |-> FALSE,
           active |-> FALSE, killed |-> FALSE, upd |-> NoRec, turn |-> FALSE,
           jobs |-> 0, tagged |-> {}]

Init ==
    /\ proc = [p \in Pids |-> Free]
    /\ born = 0
    /\ scv = [o \in Owners |-> 1]
    /\ run = [r \in Runs |-> NewRun]
    /\ rec = [r \in Runs |-> NoRec]
    /\ job = [a \in Stoppers |-> NoJob]
    /\ tracked = {} /\ hit = {} /\ crashed = 0

(* ---- the kernel ---- *)

Alive(p) == proc[p].st = "run"
Identity(p) == <<p, proc[p].birth>>
Group(g) == {p \in Pids : Alive(p) /\ proc[p].group = g}
Tagged(r) == {p \in Pids : Alive(p) /\ proc[p].kin = r}

(* No process or group has the ID. *)
Unused(p) == proc[p].st = "free" /\ \A q \in Pids : proc[q].st # "free" => proc[q].group # p

(* SCV is in the middle of stopping what had this PID. *)
BeingStopped(p) ==
    \/ \E a \in Stoppers : job[a].pc # "off" /\ job[a].rec.pid = p
    \/ \E r \in Runs : run[r].pid = p /\ run[r].ph \in {"exited", "sweep", "tag", "end"}

(* The kernel hands out a PID.  Which of the free ones does not matter: the
   lowest is the one reused soonest. *)
Available(p) == Unused(p) /\ ~BeingStopped(p)
NewPid(p) == Available(p) /\ \A q \in Pids : Available(q) => p <= q

Lead(p, kin, parent) ==
    [st |-> "run", birth |-> born + 1, group |-> p, kin |-> kin, parent |-> parent, old |-> FALSE]

(* Processes of S exit.  Children of one that exits go to the daemon when it
   is their subreaper, else to init, which collects them. *)
After(S) ==
    [p \in Pids |->
        IF p \in S THEN [proc[p] EXCEPT !.st = "zombie"]
        ELSE IF proc[p].parent \in {<<"child", q, proc[q].birth>> : q \in S}
        THEN [proc[p] EXCEPT !.parent =
                IF proc[p].kin \in Runs /\ run[proc[p].kin].own = "daemon" /\ scv["daemon"] # 0
                THEN By("daemon") ELSE By("init")]
        ELSE proc[p]]

Strange(S) ==
    {[who |-> Identity(p), led |-> proc[proc[p].group].st # "free"] :
        p \in {q \in S : proc[q].kin = "stranger"}}

Signalled(S) ==
    /\ proc' = After(S)
    /\ hit' = hit \cup Strange(S)

(* TERM: some of them exit now, the others later or never. *)
Term(S) ==
    /\ \E gone \in SUBSET S : proc' = After(gone)
    /\ hit' = hit \cup Strange(S)

Exit(p) ==
    /\ Alive(p)
    /\ proc' = After({p})
    /\ UNCHANGED <<born, scv, run, rec, job, tracked, hit, crashed>>

(* The tagged processes of r have been counted and are being stopped. *)
Counted(r) ==
    \/ \E a \in Stoppers : job[a].pc = "tkill" /\ job[a].r = r
    \/ \E k \in Runs : k = r /\ run[k].ph \in {"end", "loose"}

(* A child of p: in its group, or in one of its own. *)
Fork(p, q, stays) ==
    /\ Alive(p) /\ NewPid(q) /\ born < Births
    /\ LateForks \/ ~Counted(proc[p].kin)
    /\ proc[p].kin = "stranger" => stays
    /\ born' = born + 1
    /\ proc' = [proc EXCEPT ![q] =
                   [Lead(q, proc[p].kin, <<"child", p, proc[p].birth>>) EXCEPT
                       !.group = IF stays THEN proc[p].group ELSE q]]
    /\ UNCHANGED <<scv, run, rec, job, tracked, hit, crashed>>

Stranger(p) ==
    /\ Strangers /\ NewPid(p) /\ born < Births
    /\ born' = born + 1
    /\ proc' = [proc EXCEPT ![p] = Lead(p, "stranger", By("init"))]
    /\ UNCHANGED <<scv, run, rec, job, tracked, hit, crashed>>

(* init, or a parent that still runs, collects an exited child. *)
Collected(p) ==
    /\ proc[p].st = "zombie" /\ proc[p].parent[1] \notin Owners
    /\ proc' = [proc EXCEPT ![p] = Free]
    /\ UNCHANGED <<born, scv, run, rec, job, tracked, hit, crashed>>

(* ZOMBIE_MIN_AGE passes; starting and noting a child takes less. *)
Ages(p) ==
    /\ proc[p].st = "zombie" /\ ~proc[p].old
    /\ \A r \in Runs : run[r].ph = "spawned" => run[r].pid # p
    /\ proc' = [proc EXCEPT ![p].old = TRUE]
    /\ UNCHANGED <<born, scv, run, rec, job, tracked, hit, crashed>>

(* ---- a run at its owner ---- *)

Up(r) == run[r].own \in Owners /\ scv[run[r].own] # 0

Spawn(r, o, p) ==
    /\ run[r].ph = "none" /\ scv[o] # 0
    /\ NewPid(p) /\ born < Births
    /\ born' = born + 1
    /\ proc' = [proc EXCEPT ![p] = Lead(p, r, By(o))]
    /\ run' = [run EXCEPT ![r] = [@ EXCEPT !.ph = "spawned", !.own = o, !.pid = p,
                                           !.birth = born + 1]]
    /\ UNCHANGED <<scv, rec, job, tracked, hit, crashed>>

TrackSpawned(r) ==
    /\ Up(r) /\ run[r].ph = "spawned"
    /\ run' = [run EXCEPT ![r].ph = "tracked"]
    /\ tracked' = IF run[r].own = "daemon" THEN tracked \cup {run[r].pid} ELSE tracked
    /\ UNCHANGED <<proc, born, scv, rec, job, hit, crashed>>

(* register: active first, then the record; a failed write leaves the run
   unrecorded and running. *)
Activate(r) ==
    /\ Up(r) /\ run[r].ph = "tracked"
    /\ run' = [run EXCEPT ![r].ph = "register", ![r].active = TRUE]
    /\ UNCHANGED <<proc, born, scv, rec, job, tracked, hit, crashed>>

Register(r) ==
    /\ Up(r) /\ run[r].ph = "register"
    /\ \/ /\ rec' = [rec EXCEPT ![r] =
                [on |-> TRUE, owner |-> <<run[r].own, scv[run[r].own]>>, pid |-> run[r].pid,
                 birth |-> run[r].birth, idle |-> FALSE, jobs |-> 0]]
          /\ run' = [run EXCEPT ![r].ph = "up", ![r].guard = TRUE,
                                ![r].turn = r \in Live]
       \/ /\ ~Writable
          /\ run' = [run EXCEPT ![r].ph = "up", ![r].active = FALSE]
          /\ UNCHANGED rec
    /\ UNCHANGED <<proc, born, scv, job, tracked, hit, crashed>>

(* DelegationGuard::update: the record is read, changed and written back
   under the child's lock on its guard. *)
Unlocked(r) == ~run[r].upd.on

Update(r, turn, jobs, changed) ==
    /\ Up(r) /\ run[r].ph = "up" /\ r \in Live /\ Unlocked(r)
    /\ run' = [run EXCEPT ![r] =
                  [@ EXCEPT !.turn = turn, !.jobs = jobs,
                            !.upd = IF run[r].guard /\ rec[r].on THEN changed ELSE NoRec]]
    /\ UNCHANGED <<proc, born, scv, rec, job, tracked, hit, crashed>>

(* begin_turn, or the turn's end. *)
SetTurn(r) ==
    Update(r, ~run[r].turn, run[r].jobs, [rec[r] EXCEPT !.idle = run[r].turn])

SetBackgroundJobs(r) ==
    Update(r, run[r].turn, 1 - run[r].jobs, [rec[r] EXCEPT !.jobs = 1 - run[r].jobs])

WriteBack(r) ==
    /\ Up(r) /\ run[r].upd.on
    /\ rec' = [rec EXCEPT ![r] = run[r].upd]
    /\ run' = [run EXCEPT ![r].upd = NoRec]
    /\ UNCHANGED <<proc, born, scv, job, tracked, hit, crashed>>

(* The owner ends the run: cancelled, timed out or closed. *)
StopRun(r) ==
    /\ Up(r) /\ run[r].ph = "up" /\ proc[run[r].pid].birth = run[r].birth
    /\ Alive(run[r].pid)
    /\ Signalled(Group(run[r].pid))
    /\ UNCHANGED <<born, scv, run, rec, job, tracked, crashed>>

(* The waiter collects the leader. *)
Waited(r) ==
    /\ Up(r) /\ run[r].ph = "up"
    /\ LET p == run[r].pid
       IN  /\ proc[p].birth = run[r].birth /\ proc[p].st = "zombie"
           /\ proc' = [proc EXCEPT ![p] = Free]
    /\ run' = [run EXCEPT ![r].ph = "exited"]
    /\ UNCHANGED <<born, scv, rec, job, tracked, hit, crashed>>

(* What is left of its group goes; the PID is no longer the owner's to wait
   for. *)
KillLeftovers(r) ==
    /\ Up(r) /\ run[r].ph = "exited"
    /\ Signalled(Group(run[r].pid))
    /\ tracked' = tracked \ {run[r].pid}
    /\ run' = [run EXCEPT ![r].ph = "sweep"]
    /\ UNCHANGED <<born, scv, rec, job, crashed>>

TakeGuard(r) ==
    /\ Up(r) /\ run[r].ph = "sweep" /\ Unlocked(r)
    /\ run' = [run EXCEPT ![r].guard = FALSE, ![r].turn = FALSE,
                          ![r].ph = IF run[r].guard THEN "tag" ELSE "done"]
    /\ UNCHANGED <<proc, born, scv, rec, job, tracked, hit, crashed>>

(* DelegationGuard::finish: TERM to what is tagged, KILL to what of it is
   still there, then the run and its record are forgotten. *)
FinishTerm(r) ==
    /\ Up(r) /\ run[r].ph = "tag"
    /\ Term(Tagged(r))
    /\ run' = [run EXCEPT ![r].ph = "end", ![r].tagged = {Identity(p) : p \in Tagged(r)}]
    /\ UNCHANGED <<born, scv, rec, job, tracked, crashed>>

FinishKill(r) ==
    /\ Up(r) /\ run[r].ph = "end"
    /\ Signalled({p \in Pids : Alive(p) /\ Identity(p) \in run[r].tagged})
    /\ run' = [run EXCEPT ![r].ph = "forget", ![r].tagged = {}]
    /\ UNCHANGED <<born, scv, rec, job, tracked, crashed>>

FinishLocal(r) ==
    /\ Up(r) /\ run[r].ph = "forget"
    /\ \/ run[r].active /\ run' = [run EXCEPT ![r].active = FALSE] /\ UNCHANGED rec
       \/ /\ ~run[r].active
          /\ run' = [run EXCEPT ![r].ph = "done"]
          /\ rec' = [rec EXCEPT ![r] = NoRec]
    /\ UNCHANGED <<proc, born, scv, job, tracked, hit, crashed>>

(* DelegationGuard dropped unfinished: the group is killed, the run
   forgotten, and the tagged are swept in the background. *)
Abandon(r) ==
    /\ Up(r) /\ run[r].ph = "up" /\ run[r].guard /\ Unlocked(r) /\ r \notin Live
    /\ Signalled(Group(run[r].pid))
    /\ rec' = [rec EXCEPT ![r] = NoRec]
    /\ run' = [run EXCEPT ![r] = [@ EXCEPT !.guard = FALSE, !.active = FALSE, !.ph = "loose",
                    !.tagged = {Identity(p) : p \in Tagged(r) \ Group(run[r].pid)}]]
    /\ UNCHANGED <<born, scv, job, tracked, crashed>>

(* The abandoned child is collected by the runtime, which dropped it. *)
SweepLoose(r) ==
    /\ Up(r) /\ run[r].ph = "loose"
    /\ LET late == {p \in Pids : Alive(p) /\ Identity(p) \in run[r].tagged}
       IN  /\ proc' = [After(late) EXCEPT ![run[r].pid] =
                          IF proc[run[r].pid].birth = run[r].birth THEN Free ELSE @]
           /\ hit' = hit
    /\ run' = [run EXCEPT ![r].ph = "done", ![r].tagged = {}]
    /\ UNCHANGED <<born, scv, rec, job, tracked, crashed>>

(* ---- the daemon's passes ---- *)

(* owner_alive, as the daemon sees it: a record of its own counts only
   while the run is active. *)
OwnerAlive(r) ==
    LET o == rec[r].owner[1]
    IN  /\ scv[o] = rec[r].owner[2]
        /\ o = "daemon" => run[r].active

(* stop_delegation, for an orphan or at `scv agents kill`. *)
StopBegins(a, r) ==
    /\ scv["daemon"] # 0 /\ job[a].pc = "off" /\ rec[r].on
    /\ IF a = "kill" THEN Kills ELSE ~OwnerAlive(r)
    /\ job' = [job EXCEPT ![a] = [NoJob EXCEPT !.pc = "group", !.r = r, !.rec = rec[r]]]
    /\ run' = IF a = "kill" /\ run[r].own = "daemon" /\ run[r].active
              THEN [run EXCEPT ![r].killed = TRUE] ELSE run
    /\ UNCHANGED <<proc, born, scv, rec, tracked, hit, crashed>>

GroupIsOurs_ByPid(d) == Group(d.pid) # {}

(* The group is SCV's when its leader is the process recorded, or has gone
   and left members.  /proc shows a zombie too. *)
GroupIsOurs(d) ==
    IF proc[d.pid].st # "free" THEN proc[d.pid].birth = d.birth ELSE Group(d.pid) # {}

StopGroup(a) ==
    /\ scv["daemon"] # 0 /\ job[a].pc = "group"
    /\ LET ours == GroupIsOurs(job[a].rec)
       IN  /\ Term(IF ours THEN Group(job[a].rec.pid) ELSE {})
           /\ job' = [job EXCEPT ![a].pc = "kill", ![a].ours = ours]
    /\ UNCHANGED <<born, scv, run, rec, tracked, crashed>>

KillGroup(a) ==
    /\ scv["daemon"] # 0 /\ job[a].pc = "kill"
    /\ Signalled(IF job[a].ours THEN Group(job[a].rec.pid) ELSE {})
    /\ job' = [job EXCEPT ![a].pc = "tag"]
    /\ UNCHANGED <<born, scv, run, rec, tracked, crashed>>

StopTagged(a) ==
    /\ scv["daemon"] # 0 /\ job[a].pc = "tag"
    /\ Term(Tagged(job[a].r))
    /\ job' = [job EXCEPT ![a].pc = "tkill",
                          ![a].tagged = {Identity(p) : p \in Tagged(job[a].r)}]
    /\ UNCHANGED <<born, scv, run, rec, tracked, crashed>>

KillTagged(a) ==
    /\ scv["daemon"] # 0 /\ job[a].pc = "tkill"
    /\ Signalled({p \in Pids : Alive(p) /\ Identity(p) \in job[a].tagged})
    /\ job' = [job EXCEPT ![a].pc = "end"]
    /\ UNCHANGED <<born, scv, run, rec, tracked, crashed>>

StopEnds(a) ==
    LET r == job[a].r
    IN  /\ scv["daemon"] # 0 /\ job[a].pc = "end"
        /\ rec' = IF rec[r].on /\ (a = "reconcile" \/ ~OwnerAlive(r))
                  THEN [rec EXCEPT ![r] = NoRec] ELSE rec
        /\ job' = [job EXCEPT ![a] = NoJob]
        /\ UNCHANGED <<proc, born, scv, run, tracked, hit, crashed>>

(* reap_orphaned_zombies: exited orphans the daemon is the subreaper of,
   never a child it waits for itself. *)
ReapOrphanedZombies(p) ==
    /\ scv["daemon"] # 0
    /\ proc[p].st = "zombie" /\ proc[p].parent = By("daemon") /\ proc[p].old
    /\ p \notin tracked
    /\ proc' = [proc EXCEPT ![p] = Free]
    /\ UNCHANGED <<born, scv, run, rec, job, tracked, hit, crashed>>

(* An SCV process dies: what it had in memory is gone, its children are
   init's. *)
Crash(o) ==
    /\ crashed < Crashes /\ scv[o] # 0
    /\ crashed' = crashed + 1
    /\ scv' = [scv EXCEPT ![o] = 0]
    /\ run' = [r \in Runs |-> IF run[r].own = o /\ run[r].ph # "done"
                              THEN [run[r] EXCEPT !.ph = "lost", !.active = FALSE,
                                                  !.guard = FALSE, !.upd = NoRec,
                                                  !.turn = FALSE, !.tagged = {}]
                              ELSE run[r]]
    /\ proc' = [p \in Pids |-> IF proc[p].parent = By(o)
                               THEN [proc[p] EXCEPT !.parent = By("init")] ELSE proc[p]]
    /\ IF o = "daemon" THEN tracked' = {} /\ job' = [a \in Stoppers |-> NoJob]
                       ELSE UNCHANGED <<tracked, job>>
    /\ UNCHANGED <<born, rec, hit>>

(* The daemon starts again, as a new process. *)
Restart ==
    /\ scv["daemon"] = 0
    /\ scv' = [scv EXCEPT !["daemon"] = crashed + 1]
    /\ UNCHANGED <<proc, born, run, rec, job, tracked, hit, crashed>>

OwnerStep(r) ==
    \/ TrackSpawned(r) \/ Activate(r) \/ Register(r) \/ WriteBack(r) \/ Waited(r)
    \/ KillLeftovers(r) \/ TakeGuard(r) \/ FinishTerm(r) \/ FinishKill(r)
    \/ FinishLocal(r) \/ SweepLoose(r)

JobStep(a) ==
    StopGroup(a) \/ KillGroup(a) \/ StopTagged(a) \/ KillTagged(a) \/ StopEnds(a)

Next ==
    \/ \E r \in Runs, o \in Owners, p \in Pids : Spawn(r, o, p)
    \/ \E r \in Runs : OwnerStep(r) \/ SetTurn(r) \/ SetBackgroundJobs(r)
                       \/ StopRun(r) \/ Abandon(r)
    \/ \E a \in Stoppers : JobStep(a) \/ \E r \in Runs : StopBegins(a, r)
    \/ \E p \in Pids : Exit(p) \/ Stranger(p) \/ Collected(p) \/ Ages(p)
                       \/ ReapOrphanedZombies(p)
                       \/ \E q \in Pids, stays \in BOOLEAN : Fork(p, q, stays)
    \/ \E o \in Owners : Crash(o)
    \/ Restart

Spec == Init /\ [][Next]_vars

(* Tasks the runtime schedules run; the daemon's service restarts it; its
   reconcile pass comes round every minute; init collects what exited. *)
LiveSpec ==
    /\ Spec
    /\ \A r \in Runs : WF_vars(OwnerStep(r))
    /\ \A a \in Stoppers : WF_vars(JobStep(a))
    /\ \A r \in Runs : WF_vars(StopBegins("reconcile", r))
    /\ \A p \in Pids : WF_vars(Collected(p))
    /\ WF_vars(Restart)

(* ---- properties ---- *)

TypeOK ==
    /\ \A p \in Pids : proc[p].st \in {"free", "run", "zombie"}
    /\ \A r \in Runs : rec[r].on => rec[r].pid \in Pids /\ rec[r].owner[1] \in Owners
    /\ tracked \subseteq Pids
    /\ \A r \in Runs : run[r].guard => run[r].active

(* SCV signals no process it did not start, however its runs' PIDs were
   reused since they were recorded, but the members of a stranger's group that
   has a recorded PID and outlived its leader: nothing tells such a group from
   what a run's own leader left. *)
NoStranger == \A h \in hit : ~h.led

(* The subreaper's pass never collects a child its own waiter waits for:
   the waiter would never learn how it ended. *)
NoStolenExit ==
    \A r \in Runs : Up(r) /\ run[r].ph \in {"tracked", "register", "up"} =>
        proc[run[r].pid].birth = run[r].birth

(* A run that ended has no record: no rewrite of a record brings one back
   that the reaper, a reconcile pass or a kill removed. *)
NoGhost == \A r \in Runs : run[r].ph = "done" => ~rec[r].on

(* While an owner keeps a run, nobody else removes its record, so `agents
   ps` and a planned restart see it. *)
ActiveIsRecorded ==
    \A r \in Runs : run[r].guard => rec[r].on /\ rec[r].birth = run[r].birth

(* A planned restart reads from the record whether the child works: between
   two rewrites the record says what the child does. *)
RecordTells ==
    \A r \in Live : run[r].ph = "up" /\ run[r].guard /\ ~run[r].upd.on =>
        rec[r].idle = ~run[r].turn /\ rec[r].jobs = run[r].jobs

(* Whatever a dead owner left of a recorded run (processes in its group,
   tagged processes outside it) is stopped in the end. *)
OrphansGo ==
    \A r \in Runs :
        (run[r].ph = "lost" /\ rec[r].on) ~> (Tagged(r) = {} /\ ~rec[r].on)

(* The same of every run: the comments rely on its tag, recorded or not. *)
TaggedGo == \A r \in Runs : run[r].ph = "lost" ~> Tagged(r) = {}
=============================================================================
