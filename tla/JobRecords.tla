----------------------------- MODULE JobRecords -----------------------------
(***************************************************************************)
(* The durable records of one session's background jobs                    *)
(* (scv-tools/src/delegate/background/ledger.rs, the record writes of      *)
(* background.rs, and resume, dismiss and maintain of workbench.rs).       *)
(*                                                                         *)
(* A job's record is changed in memory under the job table's lock and      *)
(* written after it is let go, so writes of one job arrive in any order.   *)
(* Beside them the workbench dismisses records and links resumed jobs, and *)
(* the daemon's maintenance settles what dead processes left and prunes    *)
(* old records. Writes may fail; the process may crash; the session may    *)
(* end and come back under its ID.                                         *)
(***************************************************************************)
EXTENDS Naturals, FiniteSets

CONSTANTS
    Limit,      \* agent.max_background
    Behind,     \* whether jobs start queued behind a lane: some of TRUE, FALSE
    ByOwner,    \* whether they are the owner's own: some of TRUE, FALSE
    Requests,   \* resume requests in flight at once
    MaxStarts,  \* bound: jobs started
    Fails,      \* bound: record writes that fail
    Crashes,    \* bound: crashes of the process
    MaxEnds,    \* bound: times the session ends or comes back
    Weeks       \* bound: times KEEP passes

RecordsAssumption ==
    /\ {Limit, MaxStarts, Fails, Crashes, MaxEnds, Weeks} \subseteq Nat
    /\ IsFiniteSet(Requests) /\ {Behind, ByOwner} \subseteq SUBSET BOOLEAN

Numbers == 1 .. MaxStarts
NoLink == <<0, 0>>      \* a link names a job's number; the second is which job that was
Final == {"ended", "interrupted"}

NoRec == [uid |-> 0, state |-> "none", owner |-> 0, reported |-> FALSE, dismissed |-> FALSE,
          text |-> FALSE, from |-> NoLink, as |-> NoLink, old |-> FALSE]
NoJob == [rec |-> NoRec, rev |-> 0, done |-> FALSE, reported |-> FALSE, owners |-> FALSE,
          queued |-> FALSE]
Idle == [pc |-> "idle", job |-> 0, uid |-> 0, new |-> 0]

VARIABLES
    epoch,      \* the process identity
    up,         \* the process runs
    live,       \* the session is registered and its store alive
    next,       \* the last job number given
    table,      \* the store's jobs
    disk,       \* the record files
    runs,       \* job numbers that the recorded runs name
    pend,       \* record revisions to write: job, rec, rev
    written,    \* the newest revision written of each job
    req,        \* resume requests
    claims,     \* Workbench::resuming
    agents,     \* jobs whose agent processes run
    starts,     \* jobs started ever
    succ,       \* the jobs that resumed each job
    fails, crashes, ends, weeks

vars == <<epoch, up, live, next, table, disk, runs, pend, written, req, claims, agents, starts,
          succ, fails, crashes, ends, weeks>>
bounds == <<crashes, ends, weeks>>

Running(n) == table[n] # NoJob /\ ~table[n].done

Init ==
    /\ epoch = 1 /\ up = TRUE /\ live = TRUE /\ next = 0
    /\ table = [n \in Numbers |-> NoJob] /\ disk = [n \in Numbers |-> NoRec]
    /\ runs = {} /\ pend = {} /\ written = [n \in Numbers |-> 0]
    /\ req = [r \in Requests |-> Idle] /\ claims = {} /\ agents = {}
    /\ starts = 0 /\ succ = [u \in Numbers |-> {}]
    /\ fails = 0 /\ crashes = 0 /\ ends = 0 /\ weeks = 0

MayFail(ok) == (ok \/ fails < Fails) /\ fails' = IF ok THEN fails ELSE fails + 1

-----------------------------------------------------------------------------
(* Writing a record.                                                       *)

\* Mutant: a snapshot replaces whatever is there.
MergedBlind(old, r) == [r EXCEPT !.old = FALSE]

\* ledger::write: a dismissal stays, and so do links the snapshot was copied
\* without.
Merged(old, r) ==
    IF old.dismissed /\ ~r.dismissed THEN old
    ELSE [r EXCEPT !.old = FALSE,
                   !.from = IF @ = NoLink THEN old.from ELSE @,
                   !.as   = IF @ = NoLink THEN old.as ELSE @]

Written(n, r) == [disk EXCEPT ![n] = Merged(@, r)]

\* The job's task starts once its first revision was written, or failed.
Spawned(w) ==
    IF w.rev = 1
    THEN /\ agents' = IF table[w.job].queued THEN agents ELSE agents \cup {w.rec.uid}
         /\ runs' = IF table[w.job].queued THEN runs ELSE runs \cup {w.job}
         /\ succ' = IF w.rec.from = NoLink THEN succ
                    ELSE [succ EXCEPT ![w.rec.from[2]] = @ \cup {w.rec.uid}]
    ELSE UNCHANGED <<agents, runs, succ>>

\* Mutant: revisions are written as they come.
PersistAsTheyCome(w, ok) ==
    /\ up /\ w \in pend
    /\ pend' = pend \ {w}
    /\ MayFail(ok)
    /\ disk' = IF ok THEN Written(w.job, w.rec) ELSE disk
    /\ written' = [written EXCEPT ![w.job] = w.rev]
    /\ Spawned(w)
    /\ UNCHANGED <<epoch, up, live, next, table, req, claims, starts, bounds>>

\* BackgroundJobs::persist and JobLedger::save_revision: an older revision
\* is passed over; one that fails is logged and counts as written.
Persist(w, ok) ==
    LET stale == written[w.job] >= w.rev
    IN
    /\ up /\ w \in pend
    /\ pend' = pend \ {w}
    /\ IF stale THEN ok /\ UNCHANGED <<disk, written, fails>>
       ELSE /\ MayFail(ok)
            /\ disk' = IF ok THEN Written(w.job, w.rec) ELSE disk
            /\ written' = [written EXCEPT ![w.job] = w.rev]
    /\ Spawned(w)
    /\ UNCHANGED <<epoch, up, live, next, table, req, claims, starts, bounds>>

Unspawned(n) == \E w \in pend : w.job = n /\ w.rev = 1

\* Job::record_changed: the record under a new revision, to write.
Changed(n, job) ==
    /\ table' = [table EXCEPT ![n] = [job EXCEPT !.rev = @ + 1]]
    /\ pend' = pend \cup {[job |-> n, rec |-> job.rec, rev |-> job.rev + 1]}

-----------------------------------------------------------------------------
(* The job store.                                                          *)

\* BackgroundJobs::room: a queued prompt is bounded by its lane instead.
Room(queued) == queued \/ Cardinality({n \in Numbers : Running(n) /\ ~table[n].queued}) < Limit

\* BackgroundJobs::start: the number, the table's entry, the first revision.
Started(n, queued, owners, from) ==
    LET rec == [NoRec EXCEPT !.uid = starts + 1, !.owner = epoch, !.text = TRUE, !.from = from,
                             !.state = IF queued THEN "queued" ELSE "working"]
    IN
    /\ up /\ live /\ starts < MaxStarts /\ Room(queued)
    /\ next' = n
    /\ starts' = starts + 1
    /\ table' = [table EXCEPT ![n] = [NoJob EXCEPT !.rec = rec, !.rev = 1, !.owners = owners,
                                                   !.queued = queued]]
    /\ pend' = pend \cup {[job |-> n, rec |-> rec, rev |-> 1]}
    /\ UNCHANGED <<agents, runs, succ>>

Start(queued, owners) ==
    /\ Started(next + 1, queued, owners, NoLink)
    /\ UNCHANGED <<epoch, up, live, disk, written, req, claims, fails, bounds>>

\* A queued job's turn has come.
Began(n) ==
    /\ up /\ live /\ Running(n) /\ ~Unspawned(n) /\ table[n].rec.state = "queued"
    /\ Changed(n, [table[n] EXCEPT !.rec.state = "working"])
    /\ agents' = agents \cup {table[n].rec.uid}
    /\ runs' = runs \cup {n}
    /\ UNCHANGED <<epoch, up, live, next, disk, written, req, claims, starts, succ, fails, bounds>>

\* finish: the owner's own job is reported as it ends.
FinishJob(n) ==
    LET job == table[n]
        rep == job.reported \/ job.owners
    IN
    /\ up /\ live /\ Running(n) /\ ~Unspawned(n)
    /\ Changed(n, [job EXCEPT !.done = TRUE, !.reported = rep, !.rec.state = "ended",
                              !.rec.reported = @ \/ rep])
    /\ agents' = agents \ {job.rec.uid}
    /\ UNCHANGED <<epoch, up, live, next, disk, runs, written, req, claims, starts, succ, fails,
                   bounds>>

\* The result reached the model or the client.
MarkReported(n) ==
    /\ up /\ live /\ table[n] # NoJob /\ table[n].done /\ ~table[n].reported
    /\ Changed(n, [table[n] EXCEPT !.reported = TRUE, !.rec.reported = TRUE])
    /\ UNCHANGED <<epoch, up, live, next, disk, runs, written, req, claims, agents, starts, succ,
                   fails, bounds>>

\* The session ends: a call that still writes or resumes keeps it until it has,
\* and the drop records unfinished jobs as interrupted, each write of its own.
EndSession(lost) ==
    LET open == {n \in Numbers : Running(n)}
    IN
    /\ up /\ live /\ pend = {} /\ ends < MaxEnds
    /\ claims = {}
    /\ lost \subseteq open /\ fails + Cardinality(lost) <= Fails
    /\ fails' = fails + Cardinality(lost)
    /\ disk' = [n \in Numbers |->
                  IF n \in open \ lost
                  THEN Merged(disk[n], [table[n].rec EXCEPT !.state = "interrupted"])
                  ELSE disk[n]]
    /\ agents' = agents \ {table[n].rec.uid : n \in open}
    /\ live' = FALSE /\ ends' = ends + 1
    /\ table' = [n \in Numbers |-> NoJob]
    /\ UNCHANGED <<epoch, up, next, runs, pend, written, req, claims, starts, succ, crashes, weeks>>

Recorded == runs \cup {n \in Numbers : disk[n] # NoRec}

\* JobLedger::last_number, and BackgroundJobs::continue_after the runs.
LastNumber(n) == n \in {0} \cup Recorded /\ \A m \in Recorded : m <= n

BeginSession ==
    /\ up /\ ~live
    /\ live' = TRUE
    /\ \E n \in {0} \cup Numbers : LastNumber(n) /\ next' = n
    /\ written' = [n \in Numbers |-> 0]
    /\ UNCHANGED <<epoch, up, table, disk, runs, pend, req, claims, agents, starts, succ, fails,
                   bounds>>

\* The process dies; its agents' processes may outlive it.
Crash ==
    /\ up /\ crashes < Crashes
    /\ crashes' = crashes + 1
    /\ up' = FALSE /\ live' = FALSE
    /\ table' = [n \in Numbers |-> NoJob] /\ pend' = {}
    /\ req' = [r \in Requests |-> Idle] /\ claims' = {}
    /\ UNCHANGED <<epoch, next, disk, runs, written, agents, starts, succ, fails, ends, weeks>>

Boot ==
    /\ ~up
    /\ up' = TRUE /\ epoch' = epoch + 1
    /\ UNCHANGED <<live, next, table, disk, runs, pend, written, req, claims, agents, starts, succ,
                   fails, bounds>>

\* The registry's sweep stops the agents that a dead process left.
Reap ==
    /\ up /\ ~live /\ agents # {}
    /\ agents' = {}
    /\ UNCHANGED <<epoch, up, live, next, table, disk, runs, pend, written, req, claims, starts, succ,
                   fails, bounds>>

-----------------------------------------------------------------------------
(* Maintenance.                                                            *)

Alive(owner) == up /\ owner = epoch

\* Mutant: a record of a dead process is left alone when dismissed or not.
SettleNever(n, ok) == FALSE

\* ledger::settle_orphans, on the record as it is now.
Settle(n, ok) ==
    /\ up /\ disk[n] # NoRec /\ ~disk[n].dismissed
    /\ disk[n].state \notin Final /\ ~Alive(disk[n].owner)
    /\ MayFail(ok)
    /\ disk' = IF ok THEN Written(n, [disk[n] EXCEPT !.state = "interrupted"]) ELSE disk
    /\ UNCHANGED <<epoch, up, live, next, table, runs, pend, written, req, claims, agents, starts,
                   succ, bounds>>

\* KEEP passes; nothing in flight lasts that long.
Week ==
    /\ weeks < Weeks /\ pend = {} /\ claims = {}
    /\ weeks' = weeks + 1
    /\ disk' = [n \in Numbers |-> IF disk[n] = NoRec THEN NoRec ELSE [disk[n] EXCEPT !.old = TRUE]]
    /\ runs' = {n \in runs : Running(n)}
    /\ UNCHANGED <<epoch, up, live, next, table, pend, written, req, claims, agents, starts, succ,
                   fails, crashes, ends>>

\* ledger::prune: final, and unchanged for KEEP.
Prune(n) ==
    /\ up /\ disk[n] # NoRec /\ disk[n].state \in Final /\ disk[n].old
    /\ disk' = [disk EXCEPT ![n] = NoRec]
    /\ UNCHANGED <<epoch, up, live, next, table, runs, pend, written, req, claims, agents, starts,
                   succ, fails, bounds>>

-----------------------------------------------------------------------------
(* The workbench.                                                          *)

\* Workbench::dismiss: not a running job, nor one whose result its session
\* has yet to report. What is left keeps the number taken, and the links.
Dismiss(n, ok) ==
    LET rec == disk[n]
    IN
    /\ up /\ rec # NoRec /\ ~rec.dismissed
    /\ ~Running(n) /\ (rec.state \in Final \/ ~Alive(rec.owner))
    /\ table[n] # NoJob => table[n].reported
    /\ MayFail(ok)
    /\ disk' = IF ok
               THEN Written(n, [rec EXCEPT !.dismissed = TRUE, !.text = FALSE,
                                           !.state = IF @ \in Final THEN @ ELSE "interrupted"])
               ELSE disk
    /\ UNCHANGED <<epoch, up, live, next, table, runs, pend, written, req, claims, agents, starts,
                   succ, bounds>>

Shown(n) == disk[n] # NoRec /\ ~disk[n].dismissed

\* What resume takes for interrupted: the record's word, or the end of the
\* process that ran it (the session, which is the host here, is live).
Interrupted(n) ==
    disk[n].state = "interrupted" \/ (disk[n].state \notin Final /\ ~Alive(disk[n].owner))

\* Workbench::resume_locked claims the job, and resume_once reads its record
\* with the host session at hand.
ResumeLoad(r, n) ==
    /\ up /\ live /\ req[r] = Idle /\ n \notin claims
    /\ Shown(n) /\ Interrupted(n) /\ disk[n].as = NoLink
    /\ claims' = claims \cup {n}
    /\ req' = [req EXCEPT ![r] = [Idle EXCEPT !.pc = "loaded", !.job = n, !.uid = disk[n].uid]]
    /\ UNCHANGED <<epoch, up, live, next, table, disk, runs, pend, written, agents, starts, succ,
                   fails, bounds>>

Done(r) ==
    /\ req' = [req EXCEPT ![r] = Idle]
    /\ claims' = claims \ {req[r].job}

\* Mutant: the resuming jobs' own records are not looked at.
SuccessorUnread(n) == FALSE

\* A record that names the job as what it resumes, dismissed or not.
Successor(n) == \E m \in Numbers : disk[m] # NoRec /\ disk[m].from[1] = n

\* Every record, run and process is read, off the loop; a client that goes
\* away drops the request here.
ResumeCheck(r) ==
    LET ok == ~Successor(req[r].job) /\ req[r].uid \notin agents
    IN
    /\ up /\ req[r].pc = "loaded"
    /\ \/ ok /\ req' = [req EXCEPT ![r].pc = "checked"] /\ UNCHANGED claims
       \/ Done(r)
    /\ UNCHANGED <<epoch, up, live, next, table, disk, runs, pend, written, agents, starts, succ,
                   fails, bounds>>

\* The new job's first record names what it resumes.
ResumeStart(r) ==
    LET q == req[r]
    IN
    /\ q.pc = "checked"
    /\ Started(next + 1, FALSE, TRUE, <<q.job, q.uid>>)
    /\ req' = [req EXCEPT ![r].pc = "starting", ![r].new = next + 1]
    /\ UNCHANGED <<epoch, up, live, disk, written, claims, fails, bounds>>

ResumeRefused(r) ==
    /\ up /\ req[r].pc = "checked" /\ ~Room(FALSE)
    /\ Done(r)
    /\ UNCHANGED <<epoch, up, live, next, table, disk, runs, pend, written, agents, starts, succ,
                   fails, bounds>>

\* The old record is linked once the new one was written, or failed to be.
ResumeLink(r, ok) ==
    LET q == req[r]
    IN
    /\ up /\ q.pc = "starting"
    /\ ~Unspawned(q.new)
    /\ IF Shown(q.job)
       THEN /\ MayFail(ok)
            /\ disk' = IF ok
                       THEN Written(q.job, [disk[q.job] EXCEPT
                              !.as = <<q.new, table[q.new].rec.uid>>,
                              !.state = IF @ \in Final THEN @ ELSE "interrupted"])
                       ELSE disk
       ELSE ok /\ UNCHANGED <<disk, fails>>
    /\ Done(r)
    /\ UNCHANGED <<epoch, up, live, next, table, runs, pend, written, agents, starts, succ, bounds>>

-----------------------------------------------------------------------------
Maintain == \E n \in Numbers, ok \in BOOLEAN : Settle(n, ok)

Next ==
    \/ \E w \in pend, ok \in BOOLEAN : Persist(w, ok)
    \/ \E queued \in Behind, owners \in ByOwner : Start(queued, owners)
    \/ \E n \in Numbers : Began(n) \/ FinishJob(n) \/ MarkReported(n) \/ Prune(n)
    \/ \E lost \in SUBSET Numbers : EndSession(lost)
    \/ BeginSession \/ Crash \/ Boot \/ Reap \/ Week \/ Maintain
    \/ \E n \in Numbers, ok \in BOOLEAN : Dismiss(n, ok)
    \/ \E r \in Requests :
          \/ \E n \in Numbers : ResumeLoad(r, n)
          \/ ResumeCheck(r) \/ ResumeStart(r) \/ ResumeRefused(r)
          \/ \E ok \in BOOLEAN : ResumeLink(r, ok)

Spec == Init /\ [][Next]_vars

\* The daemon is restarted and maintains its records every minute.
LiveSpec == Spec /\ WF_vars(Boot) /\ WF_vars(Maintain)

-----------------------------------------------------------------------------
(* Properties.                                                             *)

TypeOK ==
    /\ next \in 0 .. MaxStarts /\ starts \in 0 .. MaxStarts
    /\ \A n \in Numbers : /\ disk[n].state \in {"none", "queued", "working"} \cup Final
                          /\ table[n].rev \in 0 .. 4 /\ disk[n].owner <= epoch
    /\ claims \subseteq Numbers /\ runs \subseteq Numbers /\ agents \subseteq Numbers

\* Once all of a live job's writes landed, its record is the newest state the
\* store has, whatever order they landed in (save_revision); a dismissal or
\* the link of a resume may stand over it.
NewestStands ==
    /\ TypeOK
    /\ live /\ fails = 0 =>
        \A n \in Numbers :
            /\ table[n] # NoJob /\ Shown(n) /\ ~ \E w \in pend : w.job = n
            => /\ disk[n].uid = table[n].rec.uid
               /\ disk[n].state = table[n].rec.state
               /\ disk[n].reported = table[n].rec.reported

\* A dismissed job's prompt and reply never come back: the record stays a
\* tombstone until it is pruned (write against dismiss); and no record is of
\* another job than the one before it under its number (last_number).
DismissedStaysStep ==
    \A n \in Numbers : disk[n].dismissed =>
          disk'[n] = NoRec \/ (disk'[n].dismissed /\ ~disk'[n].text)
NumberFreeStep ==
    \A n \in Numbers : disk[n] # NoRec /\ disk'[n] # NoRec => disk'[n].uid = disk[n].uid
DismissedStays == [][DismissedStaysStep /\ NumberFreeStep]_vars

\* The link that says a job was resumed already names that job, not a later
\* one under its number, as long as either has a record (last_number and
\* continue_after number after the recorded ones, prune takes the old ones).
LinksMeanOneJob ==
    \A n \in Numbers : disk[n].from # NoLink /\ disk[disk[n].from[1]] # NoRec
                        => disk[disk[n].from[1]].uid = disk[n].from[2]

\* A job is resumed at most once, by any number of requests and through a
\* crash between the new job's start and the old one's link, as long as every
\* record was written and none is old enough to be pruned; and the link names
\* that job (resume_once).
ResumedOnce ==
    /\ fails = 0 /\ weeks = 0 => \A u \in Numbers : Cardinality(succ[u]) <= 1
    /\ LinksMeanOneJob

\* What a dead process left unfinished is settled.
EveryOrphanSettles ==
    \A n \in Numbers :
        (disk[n] # NoRec /\ disk[n].state \notin Final /\ disk[n].owner # epoch) ~>
        (disk[n] = NoRec \/ disk[n].state \in Final)

=============================================================================
