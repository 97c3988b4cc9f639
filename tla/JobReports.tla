----------------------------- MODULE JobReports -----------------------------
(***************************************************************************)
(* One session's background jobs and how their results reach its model and *)
(* its client: the job table (crates/scv-tools/src/delegate/background.rs),*)
(* the outcomes owed after a cancel (background/owed.rs) and the turns of  *)
(* the session's connection (crates/scv-server/src/connection.rs,          *)
(* session/turn.rs).                                                       *)
(*                                                                         *)
(* Jobs, the running turn and the connection are tasks that share the job  *)
(* table's lock; each action holds it once.  The connection's handlers are *)
(* cut where they await.  A retry's delay is a flag the clock takes away.  *)
(***************************************************************************)
EXTENDS Naturals, FiniteSets, Sequences, FiniteSetsExt, SequencesExt

CONSTANTS
    Jobs,           \* job IDs
    Reviewed,       \* the jobs with a review, whose journal outlives a cancel
    OwnersJobs,     \* the jobs the owner started from the workbench
    MaxRunning,     \* agent.max_background
    ReportMax,      \* REPORT_MAX_JOBS
    MaxFinished,    \* MAX_FINISHED
    Retries,        \* the length of REPORT_RETRY_DELAYS
    MaxPrompts,     \* bound on the client's prompts
    MaxPauses,      \* bound on its pauses
    Tools           \* the tools the model uses on jobs, of {"agent", "status", "cancel"}

ReportConstants ==
    /\ Reviewed \subseteq Jobs /\ OwnersJobs \subseteq Jobs
    /\ {MaxRunning, ReportMax, MaxFinished, Retries, MaxPrompts, MaxPauses} \subseteq Nat
    /\ ReportMax > 0

VARIABLES
    table,      \* the job table, oldest first
    ended,      \* jobs that stopped, in the table or not
    reported, reporting,
    attempts,   \* report_attempts
    delayed,    \* jobs whose report waits out a failed turn
    cancelled,  \* who stopped a job: "no", "model", "owner"
    cancelling, \* jobs agent_cancel waits for
    via,        \* Owed: how a cancelled job's final outcome will be sent
    call,       \* the running tool call, on a job
    woken,      \* the channel that wakes the connection
    turn,       \* the connection's active turn
    ready,      \* background_ready
    queued, paused, settling,
    open,       \* the connection is served
    prompts, pauses,
    shown,      \* jobs whose result the model read in a call
    asked,      \* running jobs the model asked to stop
    told,       \* how often a job's result went out, to the model or the client
    missed,     \* jobs of failed report turns that nothing follows
    finals      \* how often the client was sent a cancelled job's final outcome

jobs == <<table, ended, reported, reporting, attempts, delayed, cancelled, cancelling>>
session == <<turn, ready, queued, paused, settling, open, prompts, pauses>>
ghosts == <<shown, asked, told, missed, finals>>
vars == <<jobs, via, call, woken, session, ghosts>>

Idle == [kind |-> "none", jobs |-> {}, acted |-> FALSE, broken |-> FALSE, stop |-> FALSE]
NoCall == [tool |-> "none", job |-> "none", stage |-> "none"]

Init ==
    /\ table = <<>> /\ ended = {} /\ reported = {} /\ reporting = {} /\ delayed = {}
    /\ attempts = [j \in Jobs |-> 0]
    /\ cancelled = [j \in Jobs |-> "no"]
    /\ cancelling = {}
    /\ via = [j \in Jobs |-> "none"]
    /\ call = NoCall /\ woken = FALSE
    /\ turn = Idle /\ ready = FALSE
    /\ queued = 0 /\ paused = FALSE /\ settling = "no" /\ open = TRUE
    /\ prompts = 0 /\ pauses = 0
    /\ shown = {} /\ asked = {} /\ missed = {}
    /\ told = [j \in Jobs |-> 0] /\ finals = [j \in Jobs |-> 0]

InTable == ToSet(table)
Running == InTable \ ended

\* Job::awaits_report
AwaitsReport == (InTable \cap ended) \ (reported \cup reporting)

(***************************************************************************)
(* Jobs.                                                                   *)
(***************************************************************************)

\* The turn's calls run one after another, until it is cancelled or fails.
CallsMay(tool) ==
    /\ turn.kind # "none" /\ ~turn.stop /\ ~turn.broken /\ settling = "no" /\ call = NoCall
    /\ tool \in Tools

\* room and start: a model's job starts in a call of a turn, the owner's from
\* the workbench.
Start(j) ==
    /\ open /\ j \notin InTable \cup ended
    /\ Cardinality(Running) < MaxRunning
    /\ IF j \in OwnersJobs THEN UNCHANGED turn
       ELSE /\ CallsMay("agent")
            /\ turn' = [turn EXCEPT !.acted = TRUE]
    /\ table' = Append(table, j)
    /\ UNCHANGED <<ended, reported, reporting, attempts, delayed, cancelled, cancelling, via,
                   call, woken, ready, queued, paused, settling, open, prompts, pauses, ghosts>>

\* Fault: the newest finished jobs are kept, whatever was reported.
Retained_Fault(finished, seen) ==
    LET old == SelectSeq(table, LAMBDA k : k \in finished)
        excess == IF Len(old) > MaxFinished THEN Len(old) - MaxFinished ELSE 0
    IN SelectSeq(table, LAMBDA k : k \notin ToSet(SubSeq(old, 1, excess)))

\* finish keeps every running job and the newest finished ones; one that is
\* unreported or waited for stays as well.
Retained(finished, seen) ==
    LET Droppable(k) == k \in finished /\ k \in seen /\ k \notin cancelling
        old == SelectSeq(table, Droppable)
        count == Cardinality(finished \cap InTable)
        excess == IF count > MaxFinished THEN Min({count - MaxFinished, Len(old)}) ELSE 0
    IN SelectSeq(table, LAMBDA k : k \notin ToSet(SubSeq(old, 1, excess)))

\* finish: a job the model stopped, and an owner's, needs no report.  What a
\* cancel owes of it is final; the session is woken.
Finish(j) ==
    /\ open /\ j \in Running
    /\ ended' = ended \cup {j}
    /\ reported' = IF cancelled[j] = "model" \/ j \in OwnersJobs THEN reported \cup {j}
                   ELSE reported
    /\ table' = Retained(ended', reported')
    /\ woken' = TRUE
    /\ UNCHANGED <<reporting, attempts, delayed, cancelled, cancelling, via, call, session,
                   ghosts>>

\* cancel_for_owner, from the workbench; the job stops by itself.
CancelForOwner(j) ==
    /\ open /\ j \in Running /\ cancelled[j] # "owner"
    /\ cancelled' = [cancelled EXCEPT ![j] = "owner"]
    /\ UNCHANGED <<table, ended, reported, reporting, attempts, delayed, cancelling, via, call,
                   woken, session, ghosts>>

(***************************************************************************)
(* The model's calls: agent_wait, agent_status and agent_cancel.           *)
(***************************************************************************)

\* describe: the first look at a finished job's result counts as its report.
Look(j) ==
    /\ reported' = IF j \in ended THEN reported \cup {j} ELSE reported
    /\ shown' = IF j \in ended THEN shown \cup {j} ELSE shown
    /\ told' = IF j \in ended \ reported THEN [told EXCEPT ![j] = @ + 1] ELSE told

Status(j) ==
    /\ CallsMay("status") /\ j \in InTable
    /\ turn' = [turn EXCEPT !.acted = TRUE]
    /\ Look(j)
    /\ UNCHANGED <<table, ended, reporting, attempts, delayed, cancelled, cancelling, via, call,
                   woken, ready, queued, paused, settling, open, prompts, pauses, asked, missed,
                   finals>>

\* cancel: the owner's running job is refused, a finished one is described.
\* Otherwise the job counts as reported and the call waits for it to stop.
Cancel(j) ==
    /\ CallsMay("cancel") /\ j \in InTable
    /\ ~(j \in OwnersJobs /\ j \in Running)
    /\ turn' = [turn EXCEPT !.acted = TRUE]
    /\ IF j \in ended
       THEN /\ Look(j)
            /\ UNCHANGED <<cancelled, cancelling, via, call, asked>>
       ELSE /\ cancelled' = [cancelled EXCEPT ![j] = IF @ = "owner" THEN @ ELSE "model"]
            /\ cancelling' = cancelling \cup {j}
            /\ reported' = reported \cup {j}
            /\ via' = IF j \notin reported /\ j \in Reviewed
                      THEN [via EXCEPT ![j] = "Waiting"] ELSE via
            /\ call' = [tool |-> "cancel", job |-> j, stage |-> "wait"]
            /\ asked' = asked \cup {j}
            /\ UNCHANGED <<shown, told>>
    /\ UNCHANGED <<table, ended, reporting, attempts, delayed, woken, ready, queued, paused,
                   settling, open, prompts, pauses, missed, finals>>

\* Waiting::settle, when the job stopped or CANCEL_SETTLE is over: the call's
\* change will say the final outcome, or that the journal is still open.
Settle ==
    /\ call.stage = "wait"
    /\ cancelling' = cancelling \ {call.job}
    /\ via' = IF via[call.job] = "Waiting" THEN [via EXCEPT ![call.job] = "Change"] ELSE via
    /\ call' = [call EXCEPT !.stage = "made"]
    /\ UNCHANGED <<table, ended, reported, reporting, attempts, delayed, cancelled, woken,
                   session, ghosts>>

\* take_changes and Owed::take, as tool.completed is made.
TakeChanges ==
    /\ call.stage = "made"
    /\ via' = IF via[call.job] = "Change"
              THEN [via EXCEPT ![call.job] = IF call.job \in ended THEN "SendingLast"
                                             ELSE "SendingOpen"]
              ELSE via
    /\ call' = [call EXCEPT !.stage = "sending"]
    /\ UNCHANGED <<jobs, woken, session, ghosts>>

\* Fault: nobody is woken for the update.
Publish_Fault(delivered) ==
    /\ call.stage = "sending"
    /\ turn' = [turn EXCEPT !.broken = ~delivered]
    /\ LET j == call.job
           final == via[j] = "SendingLast" /\ delivered
       IN /\ via' = IF via[j] \in {"SendingOpen", "SendingLast"}
                    THEN [via EXCEPT ![j] = IF final THEN "none" ELSE "Update"] ELSE via
          /\ finals' = IF final /\ j \in ended THEN [finals EXCEPT ![j] = @ + 1] ELSE finals
    /\ call' = NoCall
    /\ UNCHANGED <<jobs, woken, ready, queued, paused, settling, open, prompts, pauses, shown,
                   asked, told, missed>>

\* published: a sent final outcome ends what is owed; anything else leaves it
\* to an update, which is due once the job stopped.  The send fails for a
\* frame over its limit or a cancelled turn, and the turn with it.
Publish(delivered) ==
    /\ call.stage = "sending"
    /\ turn' = [turn EXCEPT !.broken = ~delivered]
    /\ LET j == call.job
           final == via[j] = "SendingLast" /\ delivered
       IN /\ via' = IF via[j] \in {"SendingOpen", "SendingLast"}
                    THEN [via EXCEPT ![j] = IF final THEN "none" ELSE "Update"] ELSE via
          /\ finals' = IF final /\ j \in ended THEN [finals EXCEPT ![j] = @ + 1] ELSE finals
          /\ woken' = (woken \/ (via'[j] = "Update" /\ j \in ended))
    /\ call' = NoCall
    /\ UNCHANGED <<jobs, ready, queued, paused, settling, open, prompts, pauses, shown, asked,
                   told, missed>>

(***************************************************************************)
(* The connection.                                                         *)
(***************************************************************************)

\* send_updates: due outcomes go out at once; a failed send ends the
\* connection.
Due == {j \in Jobs : via[j] = "Update" /\ j \in ended}

\* take_unreported, oldest first.
Batch ==
    LET due == SelectSeq(table, LAMBDA j : j \in AwaitsReport \ delayed)
    IN ToSet(SubSeq(due, 1, Min({Len(due), ReportMax})))

\* TurnStarter::report_background; ready says whether a report turn started.
ReportTurn ==
    /\ turn' = IF Batch = {} THEN Idle
               ELSE [Idle EXCEPT !.kind = "report", !.jobs = Batch]
    /\ reporting' = reporting \cup Batch
    /\ ready' = (Batch # {})

\* on_background, for a wake or a retry that is due.
OnBackground ==
    /\ open /\ settling = "no"
    /\ \/ woken
       \/ turn.kind = "none" /\ ~ready /\ attempts # [j \in Jobs |-> 0]
          /\ AwaitsReport # {} /\ delayed = {}
    /\ woken' = FALSE
    /\ via' = [j \in Jobs |-> IF j \in Due THEN "none" ELSE via[j]]
    /\ finals' = [j \in Jobs |-> IF j \in Due THEN finals[j] + 1 ELSE finals[j]]
    /\ IF turn.kind = "none" /\ ~paused /\ queued = 0
       THEN ReportTurn
       ELSE ready' = TRUE /\ UNCHANGED <<turn, reporting>>
    /\ UNCHANGED <<table, ended, reported, attempts, delayed, cancelled, cancelling, call,
                   queued, paused, settling, open, prompts, pauses, shown, asked, told,
                   missed>>

\* A failed report's delay is over.
RetryDue ==
    /\ open /\ delayed # {}
    /\ \E d \in SUBSET delayed : d # {} /\ delayed' = delayed \ d
    /\ UNCHANGED <<table, ended, reported, reporting, attempts, cancelled, cancelling, via, call,
                   woken, session, ghosts>>

PromptTurn == [Idle EXCEPT !.kind = "prompt"]

\* turn_start: the prompt runs at once, or joins the queue.
TurnStart ==
    /\ open /\ settling = "no" /\ prompts < MaxPrompts
    /\ prompts' = prompts + 1
    /\ IF turn.kind = "none" THEN turn' = PromptTurn /\ UNCHANGED queued
       ELSE queued' = queued + 1 /\ UNCHANGED turn
    /\ UNCHANGED <<jobs, via, call, woken, ready, paused, settling, open, pauses, ghosts>>

\* queue_remove, session_clear
QueueRemove ==
    /\ open /\ settling = "no" /\ queued > 0
    /\ queued' = queued - 1
    /\ UNCHANGED <<jobs, via, call, woken, turn, ready, paused, settling, open, prompts, pauses,
                   ghosts>>

Pause ==
    /\ open /\ settling = "no" /\ ~paused /\ pauses < MaxPauses
    /\ paused' = TRUE /\ pauses' = pauses + 1
    /\ UNCHANGED <<jobs, via, call, woken, turn, ready, queued, settling, open, prompts, ghosts>>

\* session_pause(false) runs the next prompt of an idle session.
Resume ==
    /\ open /\ settling = "no" /\ paused
    /\ paused' = FALSE
    /\ IF turn.kind = "none" /\ queued > 0
       THEN turn' = PromptTurn /\ queued' = queued - 1
       ELSE UNCHANGED <<turn, queued>>
    /\ UNCHANGED <<jobs, via, call, woken, ready, settling, open, prompts, pauses, ghosts>>

TurnCancel ==
    /\ open /\ settling = "no" /\ turn.kind # "none" /\ ~turn.stop
    /\ turn' = [turn EXCEPT !.stop = TRUE]
    /\ UNCHANGED <<jobs, via, call, woken, ready, queued, paused, settling, open, prompts,
                   pauses, ghosts>>

Results == {"ok", "cancelled", "provider", "other"}

\* Fault: a turn that ran a tool is tried again.
GivesUp_Repeats(failed, retry) == \E j \in failed : attempts[j] + 1 > Retries

\* A turn that ran a tool, or failed for another reason than the provider's,
\* is not tried again, and none is tried more than Retries times.
GivesUp(failed, retry) == ~retry \/ \E j \in failed : attempts[j] + 1 > Retries

\* on_turn_done up to the events it sends: turn_ended, and settle_report with
\* report_settled or report_failed.
TurnDone(result) ==
    /\ open /\ turn.kind # "none" /\ settling = "no" /\ call = NoCall
    /\ result = "cancelled" => turn.stop
    /\ turn.broken => result \in {"cancelled", "other"}
    /\ LET failed == turn.jobs \ reported
           good == result \in {"ok", "cancelled"}
           retry == result = "provider" /\ ~turn.acted
           giveUp == ~good /\ failed # {} /\ GivesUp(failed, retry)
       IN /\ reporting' = reporting \ turn.jobs
          /\ reported' = IF good THEN reported \cup turn.jobs
                         ELSE IF giveUp THEN reported \cup failed ELSE reported
          /\ attempts' = IF good THEN attempts
                         ELSE [j \in Jobs |-> IF j \in turn.jobs THEN attempts[j] + 1
                                              ELSE attempts[j]]
          /\ delayed' = IF good \/ giveUp THEN delayed \ turn.jobs
                        ELSE delayed \cup failed
          /\ told' = [j \in Jobs |-> IF j \in failed /\ (good \/ giveUp) THEN told[j] + 1
                                     ELSE told[j]]
          /\ missed' = IF good THEN missed ELSE missed \cup (turn.jobs \cap reported)
    /\ settling' = IF result = "ok" THEN "ok" ELSE "failed"
    /\ UNCHANGED <<table, ended, cancelled, cancelling, via, call, woken, turn, ready, queued,
                   paused, open, prompts, pauses, shown, asked, finals>>

\* The rest of on_turn_done: a success makes delayed reports due, a queued
\* prompt goes first, then what is ready is reported.
AfterTurn ==
    /\ open /\ settling # "no"
    /\ settling' = "no"
    /\ LET freed == IF settling = "ok" THEN delayed \cap AwaitsReport ELSE {}
           due == SelectSeq(table, LAMBDA j : j \in AwaitsReport /\ j \notin delayed \ freed)
           batch == ToSet(SubSeq(due, 1, Min({Len(due), ReportMax})))
       IN /\ delayed' = delayed \ freed
          /\ IF ~paused /\ queued > 0
             THEN /\ turn' = PromptTurn /\ queued' = queued - 1
                  /\ ready' = (ready \/ freed # {})
                  /\ UNCHANGED reporting
             ELSE /\ (IF ready \/ freed # {}
                      THEN /\ turn' = IF batch = {} THEN Idle
                                      ELSE [Idle EXCEPT !.kind = "report", !.jobs = batch]
                           /\ reporting' = reporting \cup batch
                           /\ ready' = (batch # {})
                      ELSE turn' = Idle /\ UNCHANGED <<reporting, ready>>)
                  /\ UNCHANGED queued
    /\ UNCHANGED <<table, ended, reported, attempts, cancelled, cancelling, via, call, woken,
                   paused, open, prompts, pauses, ghosts>>

\* The client leaves, the daemon stops, or a send fails: the session's jobs
\* end with it.
Close ==
    /\ open /\ open' = FALSE
    /\ UNCHANGED <<jobs, via, call, woken, turn, ready, queued, paused, settling, prompts,
                   pauses, ghosts>>

Calls == Settle \/ TakeChanges \/ (\E d \in BOOLEAN : Publish(d))

Turns == (\E r \in Results : TurnDone(r)) \/ AfterTurn

Next ==
    \/ \E j \in Jobs : Start(j) \/ Finish(j) \/ CancelForOwner(j) \/ Status(j) \/ Cancel(j)
    \/ Calls \/ OnBackground \/ RetryDue \/ Turns
    \/ TurnStart \/ QueueRemove \/ Pause \/ Resume \/ TurnCancel \/ Close

Spec == Init /\ [][Next]_vars

\* Calls and retry delays end, a turn ends although its model makes call after
\* call (max_steps), and the connection's loop serves what is ready.  A job need
\* not stop, nor the client resume.
FairSpec ==
    /\ Spec
    /\ WF_vars(Calls) /\ SF_vars(Turns) /\ WF_vars(OnBackground) /\ WF_vars(RetryDue)

(***************************************************************************)
(* Properties.                                                             *)
(***************************************************************************)

TypeOK ==
    /\ InTable \subseteq Jobs /\ ended \subseteq Jobs
    /\ reported \subseteq Jobs /\ reporting \subseteq Jobs /\ delayed \subseteq Jobs
    /\ attempts \in [Jobs -> 0..(Retries + 1)]
    /\ via \in [Jobs -> {"none", "Waiting", "Change", "SendingOpen", "SendingLast", "Update"}]
    /\ turn.kind \in {"none", "prompt", "report"} /\ turn.jobs \subseteq Jobs
    /\ settling # "no" => turn.kind # "none"
    /\ reporting = turn.jobs \/ (settling # "no" /\ reporting = {})

\* A finished job's result goes out exactly once, by a look, a report turn or
\* the direct report, whatever failed in between, and a job leaves the table
\* or counts as reported only after that (background.rs report_failed, finish).
\* The jobs the model stopped and the owner's own need none.
ToldOnce ==
    \A j \in ended \ (OwnersJobs \cup asked) :
        /\ told[j] <= 1
        /\ (j \in reported \/ j \notin InTable) => told[j] = 1

\* The client gets a cancelled reviewed job's final outcome once, and only
\* after the job stopped: no snapshot of an open journal counts as final
\* (owed.rs "An obligation ends only when a client was actually sent the
\* final outcome").
FinalOnce ==
    \A j \in Jobs :
        /\ finals[j] <= 1
        /\ finals[j] = 1 => j \in ended
        /\ j \in Reviewed \cap asked => via[j] # "none" \/ finals[j] = 1

\* A report turn that ran a tool and failed is never run again
\* (connection.rs settle_report; docs/security.md).
ActedNotRepeatedStep ==
    (turn.kind = "report" /\ turn.acted /\ settling = "no" /\ settling' = "failed")
        => turn.jobs \cap (delayed' \cup AwaitsReport') = {}
ActedNotRepeated == [][ActedNotRepeatedStep]_vars

\* Every result is told in the end, through failed report turns, prompts that
\* come first and full batches, while the session is not paused
\* (connection.rs on_background: "report it now when the session is idle, else
\* once the user's own work is done").
EveryResultTold ==
    \A j \in Jobs : j \in AwaitsReport ~> (j \in reported \/ ~open \/ paused)

\* What a cancel owes is sent in the end, once the job stopped.
OwedIsSent ==
    \A j \in Jobs : (via[j] # "none" /\ j \in ended) ~> (via[j] = "none" \/ ~open)

\* docs/protocol.md of a failed report turn: "the model has not seen them, and
\* one of two things follows": another turn, or background.reported.
FailedReportFollowsUp == missed = {}
=============================================================================
