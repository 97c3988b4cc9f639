# SCV, specified in TLA+

A verification project for SCV, the personal agent daemon in this repository:
TLA+ modules translated from its source, TLC runs on small instances, and
theorems checked by TLAPS. Paths below are relative to `crates/` unless they
say otherwise.

The project is built outwards from the part where a mistake cannot be taken
back, the actions SCV carries out in its owner's mailbox after he approved them
in a chat, through the chat that carries his words, to the sessions, background
jobs and delegated agents that do his work and the daemon that restarts around
them.

## 1. Inventory

| Component | State | Operations and interactions | Hard | What makes it correct |
|---|---|---|---|---|
| Mail actions (`scv-channels/src/email/ledger*`, `executor.rs`, `notify.rs`, `authority.rs`, `janitor.rs`, `prepare.rs`) | one JSON file per account: actions, reservations, notices, approvals, tombstones | propose, preview, approve, execute, probe, expire, recover, sweep; five tasks over one ledger, the hub, the provider's adapters | crash between the provider's acceptance and the record; HTTP 401; previews stored twice, refused, re-issued; approvals late or repeated; drain | a send goes out at most once; what is reported is true; an approval answers what its writer read; limits hold; everything ends |
| Chat bridge (`lib.rs`, `state.rs`, `intake.rs`, `session.rs`) | cursor, claims, pending and held replies, seen IDs | poll, accept, converse, deliver, hold, recover | crash between claim, cursor and reply; partial delivery; a conversation that idles out or is evicted | each message runs one turn; no piece of an answer is lost or shown twice |
| Owner questions (`hub.rs`, `scv-server/src/confirm.rs`) | one question per chat, its notice, the answer's channel | ask, deliver, answer, withdraw, expire | time-out against answer; answer before the question; stops | a yes is the owner's, given to that question while it was open |
| Connections and prompt queue (`scv-server/src/connection.rs`, `session/`) | queue, active turn, saved queue | queue, pause, cancel, restore, leave | crash between two records, two restoring clients | no prompt is lost or runs twice |
| Background jobs (`scv-tools/src/delegate/background*`) | job table, report marks, outcomes owed, durable records | start, finish, cancel, report, resume, dismiss, prune | reports that fail; record writes out of order; crashes | a result is told once; a job is resumed once; a dismissal stands |
| Task subscriptions (`background/subscription.rs`, `scv-server/src/subscription.rs`) | record and sidecar, ledger tokens, return queue | bind, decide, deliver, hand back, retry | crash between two files; two callers of one decision | a message is given to a job once, or runs as a turn, never neither |
| Reviewed jobs (`delegate/review*`) | plan, round, verdicts, landing, journal | build, review, refuse, repair, land, confirm, cancel | refusals, repairs, a cancel at any await, journal failures | only an approving verdict approves; all stories of the end agree |
| Takeovers and workbench (`workbench.rs`, `delegate/takeover.rs`, `background/lane.rs`) | lanes, busy conversations, terminals, leases | attach, interrupt, answer, detach, end | stopping a running turn for the owner, the session or daemon ending meanwhile | one driver at a time; nothing runs between the stop and the terminal |
| Agents' conversations (`delegate/conversation.rs`, `scv agents gc`) | handles, pins, markers, transcripts | claim, finish, pin, evict, adopt, collect | lock dropped before the marker is written; eviction; wake-ups | one user, one handle, no lost wake-up, no transcript in use collected |
| Delegated processes (`delegate/records.rs`, `live.rs`, `native.rs`) | records, process groups, reaper | record, stop, sweep, collect | reused process IDs, death of the owner | no stranger is signalled; what a dead owner left goes |
| Planned restart (`scv-server/src/restart.rs`) | plan file, crash marker, binaries | request, wait, drain, hand over, watch, roll back, announce | daemon and watchdog write one file | one announcement, and it is true; nothing waited for is cut |
| Mail intake and triage; audit journal; IMAP moves; OAuth; supervisor; project ledger; agent loop; ACP and nested SCV; transports; CLI, TUI, protocol, configuration | see `PROJECT.json` | | | |

Messages from chats reach the owner questions, the task subscriptions and the
mail authority through the bridge; mail previews and questions leave through
the hub, which hands them to a bridge. Jobs run calls of delegated agents,
which stand in a conversation's lane; the workbench takes that lane over. The
planned restart waits for all of them and drains mail through the hub.

`PROJECT.json` lists every component with its sources, and under `hazards`
every place found that is hard to test, with the property that would catch it
going wrong.

## 2. Modules

| Module | Models | Theorems |
|---|---|---|
| `MailLedger` | the persisted `MailState` and each change the ledger commits | `MailLedger_proofs` |
| `MailActions` | the account's tasks, its chats, the owner, the provider, crashes around one `MailLedger` state | `MailActions_proofs`, `MailApproval_proofs` |
| `ChatBridge` | one ordinary chat account: claims, turns, replies, held replies, recovery | |
| `OwnerQuestion` | questions to the owner: the asker, the hub's slot, the bridge's part | `OwnerQuestion_proofs` |
| `PromptQueue` | queued prompts of sessions and their saved copy | |
| `JobReports` | a session's jobs and how their results reach its model and client | |
| `JobRecords` | the durable records of background jobs | `JobRecords_proofs` |
| `TaskSubscriptions` | a thread's subscription to a job, over two files and two callers | |
| `ReviewedJob` | the loop of builder, reviewers and landing | `ReviewedJob_proofs` |
| `Takeover` | lanes, terminals and the attach request | `Takeover_proofs` |
| `Conversations` | a session's conversations with one agent, markers and `gc` | `Conversations_proofs` |
| `Delegations` | processes, groups, records and the passes that stop them | |
| `PlannedRestart` | daemon, plan file, watchdog, announcement | |

Each module's header names the code; its constants name the code's limits, and
each bound a run needs is a constant whose comment says "bound". One action is
one stretch of code under one lock or between two awaits, with every state
change in it.

### How `MailLedger` corresponds to the code

A commit is one step because the ledger publishes a state only after saving it
and holds its lock throughout. So each function that calls `commit` is one
operator, with its whole effect: `finish` also releases the reservation and
queues what the owner is told, `approve` also supersedes the alternatives and
adds to the approvals ring, `recover` also rebinds previews and withdraws what
the new settings do not allow.

Abstractions of data, none of control:

- A code is `<<action, generation>>`: codes are drawn fresh for every
  generation, so two are equal just when these are. Codes may be guessed: a
  command may name any code ever given out.
- Time counts ticks; the host's seconds and milliseconds are one clock, which
  the platform's times are assumed to agree with.
- What the owner is told is one of five texts (`outcome_text`).
- An action's content is whether it still hashes to what was approved
  (`intact`); its credentials' fingerprint is part of that.
- The queue, the batch and the notices hold previews only. Reports and digests
  share them in the code but never change an action.
- Bounded rings (`MAX_APPROVALS`, `MAX_TOMBSTONES`) are unbounded sets that
  are pruned by age, as the code prunes them; their size bounds are not reached
  by the few actions of a run.

Operators whose comment says "Fault" are variants with one plausible mistake
each; a run must reject every one of them in place of the real one.

### How `MailActions` corresponds to the code

`ledger` and `hub` are on disk; `draft`, `again`, `exec` and `counted` are what
tasks hold in memory and a `Crash` loses.

- *Worker*: `StartRequest` reads a snapshot, `Propose` commits minutes later,
  `DropRequest` is the failed turn; `Suggest` is a triage report's move.
- *Notifier*: `BeginBatch`, `HandOver` (stored and answered),
  `HandOverUnseen` (stored, answer lost or a crash before it is recorded),
  `Dissolve`, `SettleWatched`; `SnapshotAgain` and `PreviewAgain` are the two
  halves of `preview_again`.
- *Chats*: `Deliver`, `DeliverUnrecorded`, `Refuse`, `StopChat`, `StartChat`
  (with another owner the chat's record is gone); `Say` is anyone writing an
  approve command, which `Approve` may take late and several times.
- *Executor*: `StartProbe`/`Probed`; `Pick` (no lock), `Count` (under the
  hub's lock), `BeginExecution`, `Perform`, `MarkSent`, `CopySent`,
  `FinishExecution`. `LandLate` is a request carried out after SCV stopped
  waiting for it.
- *Restart*: `Restart` (recover with any settings), `StartSweep`, `StartTasks`
  in the order of `run_account`; `SetDrain` by a planned restart.

`Perform` and `ProbeResults` are the provider as the adapters see it. They are
the model's assumption about it: a request answered "not applied" was not, one
answered "applied" was, a mail not found in Sent may still have gone out, and
one request is carried out at most once.

### The other components

- *`ChatBridge`*: `disk` is `BridgeState`, changed and saved under one lock;
  everything else but the platform is memory a crash loses. A failed save ends
  the run, so it is a crash before or after it. An answer is a sequence of
  pieces; `taken`, `shown` and `repeated` are what the platform did, `dropped`
  what SCV gave up by a limit and said so. A platform that knows client IDs
  (`Keyed`) shows a part sent again once; Slack has none
  (`slack/mod.rs:445`), and Feishu forgets one after an hour
  (`feishu/api.rs:345`). A file whose answer is lost, and `/new` and the other
  commands, are not modelled.
- *`OwnerQuestion`*: `entry`, `due`, `polled`, `heard` and `task` are the
  asker's; `slot`, `channel`, `notices` the hub's; `outbox` and `handled` are
  durable. `shown`, `wrote` and `told` are what the owner sees and writes.
- *`PromptQueue`*: a change and its save are one step (it is announced
  afterwards); the two writes of a restore and of a leaving client are steps of
  their own, and `cut` counts the stops between them.
- *`JobReports`*: the job table, the turn and the connection, cut where they
  await; `told`, `missed` and `finals` are ghosts that count what went out.
- *`JobRecords`*: a record is changed under the table's lock and written later
  (`pend`), so writes arrive in any order; resume is load, check, start, link.
- *`TaskSubscriptions`*: each operation of the book is the set of its outcomes,
  with the faults it took; a decision is begun, sent, linked and committed.
- *`ReviewedJob`*: the loop is one task; `Cancel` and `CutOff` may come at
  every await, and between the end's question whether there was one and the
  snapshot after it; what agents answer is chosen freely, and `Plans` is what
  any valid call (`Calls`) of a session comes to (`Planned`).
- *`Takeover`*: `lane`, `busy`, `kept` and `job` are changed under their locks,
  the attach request goes through `wait`, `placed` (a place in the lane, the
  running turn not yet looked at), `reserved`, `confirmed`, `first`, `open`,
  `start`, `started`; the session and the daemon may end in between. Only a
  place that a refused `take_over` holds for the length of one call is left out.
- *`Conversations`*: what a method does under the lock is one step; the marker
  operations it does after dropping it wait in the caller's `io`, and `crossed`
  remembers those that came when they were no longer called for.
- *`Delegations`*: the kernel is external: a process has an ID, a birth time, a
  group, an inherited tag and a parent. Signals follow the order of the code.
- *`PlannedRestart`*: `file`, `bin`, `prev` and `marker` are on disk; waiter,
  announcer and watchdog are tasks by plan; every write may fail. A request
  asks the installed binary (`Ask`) and arms its plan later (`Request`), when
  another may be armed; work begins and releases are installed at any time.
  `late`, `mixed`, `replaced`, `dropped` and `retold` are ghosts that name the
  plans the properties make exceptions of.

## 3. Runs

A component is checked in one or more *scenes*: small instances that each leave
out what a question does not need, so that the case it is about happens in
full. A run plays every scene of one question: `MC...` instantiates the
components once a scene (`INSTANCE ... WITH` the scene's constants), a variable
`scene` is chosen at the start, and a property says in which scene it is
checked. Where a property is also proved, the MC module extends the proved
component itself, so that TLC and the proof speak of one definition, and the
scene restricts the component's behaviours (`OneQuestion`, `TwoCalls`, `Scope`,
...) instead of its constants; restricting behaviours is sound for what holds
of all of them.

Where the code has an exception to what one would like to say of it, the case
is kept inside the run and the property names the exception as narrowly as the
code allows (a plan made before the other caller finished, work that began when
the wait was over, a cancel between two lines). What a constant keeps out of a
run, because no narrower exception could be named, is in the rows of section 4
that name that constant. Of the hazards listed these are an idle conversation
that takes a message (`Idles = FALSE` in `served`; it is what `bridge_idle`
shows), a session paused before its result comes (`MaxPauses = 0` in `served`),
children forked while a dead owner's record is stopped (`LateForks = FALSE` in
`ends`), and, for `NoneLost` only, an owner who stops the task with both callers
at work (no `"stop"` in `offered`).

| Run | Question | Scenes and properties |
|---|---|---|
| `mail_exec` | Can a mail action be carried out twice, told wrongly, or left over? | one send SCV copies to Sent, two tries, a crash, HTTP 401, late answers, drain up and down: `TypeOK` `SendAtMostOnce` `SendTruth` `DoneHappened` `Never401Again` `OverIsFinal` `DrainHolds`; under fairness `EveryActionEnds` |
| `mail_approval` | Is every approval an informed one? | one action, two people, a chat that stops, loses answers and changes owner, one re-issue, undated messages: `ApprovalIsInformed` |
| `mail_owner` | What do the owner's other decisions do? | `chats`, `revise`, `together` (one message names both alternatives), `in turn` (two messages), `replay`, `limited` (one send after the other's end), `settings`: `ApprovalsAreRead` `OneReply` `LimitsHold` `EndsAreTold` |
| `chat` | Is what the owner writes handled once? | bridge `once`, `held`, `slack` (no client IDs), `tasks`, `settles`; questions `asked`, `stopped`; prompts `queued`, `halved` (stops in the middle of restores), `unsaved` (a save that fails): `NothingTwice` `NothingLost` `TurnsInOrder` `YesIsTheOwners` |
| `sessions` | Do reports and takeovers agree with a session's jobs? | `reporting`, `owed`; `driven`, `offering`, `capping`: `ToldOnce` `OneDriver` `OfferAgrees` `NoForbiddenTurn` `NothingBetween` |
| `jobs` | Do background jobs survive their records? | `kept`, `resumed`, `numbers`; `offered`, `raced` (two callers), `crashed`, `unreadable`, `owners`: `NewestStands` `DismissedStays` `ResumedOnce` `NoneLost` `FollowedUpOnce` |
| `review` | Can a reviewed job be approved without approval? | `judged`, `grokBuilt`, `landing`, `cancelled`: `VerdictsStand` `StoriesAgree` |
| `agents` | Does one agent conversation have one user and one handle? | `shared`, `collected`, `adopting`: `OneUser` `NoLostWakeup` `NothingMissed` `InUseStays` |
| `daemon` | Does the daemon stop and restart only what it may? | `draining` (work begins at any time), `crashing` (releases, crashes, failing copies and commands), `two` (plans); `recorded`, `telling`: `NothingCut` `PlanNotLost` `SaidIsSo` `RunsAreKnown` |
| `served` | Is what the owner and the clients wait for served in the end? | `settles`, `stopped`, `reporting`, `retried`, `terminals`: `OwnerIsServed` `StopsAreSeen` |
| `ends` | Does the daemon's own work come to an end? | `restarts`, `reviews`, `orphans`, `leftovers`: `WorkEnds` |
| `bridge_idle` | (violated) | one conversation that may idle out: `EveryClaimSettles` |

*Bounds.* Clocks, crashes, failing writes, handles, turns and jobs started are
bounded by constants. They are enough where it matters:

- an action's executions differ only in whether an earlier one may have taken
  effect, so two tries and a crash reach every combination of first and later
  try; an approval depends on one action, two codes of it and two people or two
  chats; exclusions between actions are about pairs; deadlines are one or two
  ticks, so every one of them passes and is reached exactly; two alternatives,
  or two sends of a day's limit of one, are approved by one message or by two,
  before, during and after the other's execution. `UpToApproval` stops
  `mail_approval` after the first approval, whose states are still checked;
  `OfInterest` does so in the scene `chats`, and leaves out sends that ended
  unapproved in `replay` and `limited`;
- four messages of two conversations with room for one exercise eviction and
  every order of claim, cursor and reply; an answer of three units fills one
  message and overflows into a second; four connections restore what a stop
  between the two writes of a restore left twice;
- two questions are enough for one to take the other's answer; two clients and
  two calls for one to stand behind the other, a takeover between them; three
  callers of a conversation for one to run, one to wait and one to evict;
- two jobs with one kept record, or three starts, are enough for a job number to
  be given twice; a failed write and a crash each fall between every two writes;
- two plans are enough for one watchdog to meet the other's plan, three
  releases for a watchdog to find neither its own nor the previous one;
  `OfInterest` of `daemon` lets no deadline pass where no work runs; three
  births over two process IDs are enough for an ID to be reused.

Symmetry is used only over values no constant or scene tells apart, and with no
property but invariants and properties of single steps (`InUseStays`).

*Deadlock* is checked in the mail runs: with the account up, commands that
change nothing are always possible, and `Start` is enabled while it is down.
The other runs say `CHECK_DEADLOCK FALSE`: sessions, jobs and chats really come
to rest once their bounded work is done.

*Fairness.* Each component's specification states its own; the liveness runs
repeat it scene by scene. A behaviour plays one scene for ever, so one
condition `Weak3` or `Strong1` of `MCServed` and `MCEnds`, a disjunction with
one action of every scene, is in each scene exactly the condition on that
scene's action.

| Component | Assumed fair, and why | Not assumed |
|---|---|---|
| `MailActions` | the executor (its loop sleeps at most until the next due action), `Expire` (both executor and janitor call it each round), the start sequence, `preview_again` before the tasks start, the clock | the owner, the chats, the provider, the drain flag |
| `ChatBridge` | start, the poller, deliveries (retried for ever), conversations (futures of one run, polled side by side; turns have a time limit) | the platform, the senders, the jobs |
| `OwnerQuestion` | the asker's follow loop (wakes each second), the save of an answer, the clock | platform, owner |
| `JobReports` | calls, turns (strongly: one at a time is started whenever the connection is free), the connection's loop, retry delays | that a job stops, that the client resumes |
| `TaskSubscriptions` | the daemon's load and tick (each pending message is retried again and again, strongly, as a caller may hold it each time), begun calls, the bridge's claims | writes, workers |
| `Takeover` | turns end, waiters run, a terminal asked to end is hung up and killed, a review (bounded in rounds) ends (strongly, its turns come and go) | the owner, the agent's exit |
| `PlannedRestart` | waiter, watchdog and announcer are polled to their end; the deadline ends the wait (strongly: work may come and go); the unit is started again | that work ends |
| `ReviewedJob` | the loop (each turn has a deadline or a cancel) | what agents answer |
| `JobRecords` | the daemon starts again and maintains its records each minute | everything else |
| `Delegations` | owners, the reconcile pass each minute, init collecting what exited, the service's restart | that a child exits by itself |

Liveness is about what lies within the bounded clocks and budgets
(`EnoughTime` for mail actions).

## 4. What the models showed

`bridge_idle` is a run: `converse`, once `SESSION_IDLE` passed, awaits the
state lock in `record_jobs` (`scv-channels/src/lib.rs:1858`) before it drops
its receiver. A message enqueued meanwhile is accepted by the dying queue, so
the fallback of `accept` never runs: it stays claimed and unanswered until the
account's next start. `Idles = FALSE` takes the case out of the other runs.

While the modules were written TLC refuted these statements of docs, comments
or the code itself too. They are not kept as runs of their own. In most rows the
case happens inside a run, whose property names it as its exception: the third
column says which clause to take out of the property to see it, and in which
scene TLC then finds it, or which constants bring it about.

| Where | What the code does | To see it |
|---|---|---|
| `email/ledger/actions.rs:1197` | a revised draft that ended and was swept while its revision was drafted is no obstacle to the revision | `RevisionReplaces`; a draft, a revision, `UnknownKeep`, `ApprovalKeep` small, time to sweep |
| `email/notify.rs:241` | `preview_again` of an action denied after the re-issue queues an empty preview | `EveryPreviewOffers`; `MaxReissues = 1` |
| `email/notify.rs:241` | of two alternatives previewed again, one that ended makes its sibling be previewed twice; after another refusal the older of the two shows a superseded code, and is delivered as the open one | `ApprovalIsInformed` without `InOneVersion`; two alternatives, `MaxReissues = 2` |
| `email/ledger/actions.rs:1680` | a 401 on a draft or move is only in memory until it is recorded; after a crash it may be tried again, which `docs/channels.md:1721` excludes | `Never401Again` without `Kind[a] = "send"`; a draft, one crash |
| `scv-channels/src/lib.rs:2985` | replies delivered during a full batch push its oldest IDs out of the ring before the checkpoint | `NoSecondTurn`; `MaxSeen = BatchMax` |
| `scv-server/src/confirm.rs:314` | a question withdrawn after the platform took its text counts as never seen | `UnsentWasNeverSeen` |
| `scv-server/src/connection.rs:1386` | a result that comes while an idle session is paused waits for the next turn after it resumes | `EveryResultTold`; `MaxPauses = 1`, as long as not paused |
| `delegate/background.rs:1086` | a report turn whose model read the job and then failed settles it, and nothing follows | `FailedReportFollowsUp` |
| `scv-server/src/connection.rs:826`, `:250` | a stop between the two records of a restore, or of a leaving client's put-back, leaves both, and the prompts run twice | `RunOnce` without `cut`; in `halved` |
| `session/persist.rs:80` | a change whose save failed is announced all the same; the prompt may run again | `ShownIsKept`, `RunOnce` without `failed`; in `unsaved` |
| `scv-channels/src/lib.rs:1828`, `:1990` | a full session table closes a conversation whose turn has just started a job: the flag is stored only at the next top of its loop, though the comment at `lib.rs:1826`, `docs/tools.md:961` and `docs/channels.md:1329` exclude it | `watched` of `ChatBridge`, which a turn's job enters in `RecordJobs` only |
| `scv-server/src/subscription.rs:411`, `:414` | a plan made before the other caller finished is carried out again: the message is given twice, or withheld as a turn and given as well | `GivenOnce`, `NotBoth` without `late`; in `raced` |
| `scv-server/src/subscription.rs:181` | a job replaced during the delivery still gets it; a withheld unrecorded message opens no turn | `NoneLost`; both callers and `"stop"` |
| `background/subscription.rs:1032`, `:512`, `:884` | an ID settled before its turn is claimed; an unreadable history that forgets an extra thread; a delivery settled before the continuation's link | `NoneLost`, `OneTurn`, `EveryFollowUpEnds`; a crash or `"unreadable"` |
| `scv-server/src/restart.rs:845` | work that begins after the second clear check is stopped by the restart | `NothingCut` without `c.late`; in `draining` |
| `restart.rs:1029`, `:1300`, `:706` | a second plan, armed while the first one's file or watchdog is there or by a request that asked before it was armed, is the first watchdog's to overwrite, and its release the first's to roll back | `OwnRollback`, `DogFindsPlan`, `PlanNotLost` without `mixed`; in `two` |
| `restart.rs:1056` | a roll-back whose copy failed is told as done; only its detail says so | `RolledBackIsBack` without `uncopied`; in `crashing` |
| `restart.rs:1070` | when every `systemctl` call fails the watchdog saves its outcome, but the daemon keeps the plan scheduled and mail drained, and announces nothing until it is started again | `WorkEnds` without `Unrestarted`; in `restarts` |
| `restart.rs:1198` | "updated" is said by another version if a release was installed since the request; a daemon of a third version drops the plan unsaid | `SaidIsSo` without `replaced` in `crashing`; `WorkEnds` without `dropped` in `restarts` |
| `restart.rs:1299` | a daemon that stops between saying an outcome and removing the file has it said again | `ToldOnce` without `retold`; in `crashing` |
| `delegate/review.rs:1815` | a cancel between the end's question and its snapshot calls the landing unknown that the result and the journal settle | `CancelAgrees` without `CancelledTooLate`; in `cancelled` |
| `delegate/background.rs:663` | a resumed job whose record write failed is resumed again after a crash | `ResumedOnce` without `fails = 0`; `Fails = 1`, `Crashes = 1` |
| `scv-tools/src/workbench.rs:1381`, `:1396` | an approval request made while the owner's takeover stops the job is withdrawn; a takeover that starts as its session ends is kept | `NoneWithdrawn`, `EndsWithSession` |
| `delegate/conversation.rs:637`, `:748` | an adopted conversation has no marker yet when `gc` looks; a marker is written for a conversation already evicted, or removed for one whose session another has adopted | `TranscriptKept` for all `Ids(Known)`, `Marked` without `crossed`; in `adopting` |
| `delegate/records.rs:583`, `:604`; `native.rs:745` | a stranger's group under a reused ID is signalled when its leader is gone; a child forked late survives its record; a run never recorded is not looked for | `NoStranger` with `hit = {}` in `recorded`; `OrphansGo` with `LateForks`; `TaggedGo` with `Writable = FALSE` |

## 5. Proofs

`tlapm X_proofs.tla` for each of the eight proof modules. The assumptions are
those named in the components (`MailLedgerConstants`, `NoApproval`, `NoBatch`,
`MailActionsConstants`, `QuestionConstants`, `ConversationConstants`,
`TakeoverAssumption`, `ReviewAssumption`, `RecordsAssumption`), which TLC
evaluates on the runs. They say that constants have their types and that `None`
is none of the values.
Actions, chats, people, questions, messages, callers, conversations, jobs and
agents are arbitrary sets, finite only where something is counted, and no bound
is used but as an arbitrary number.

| Module | Theorem | States |
|---|---|---|
| `MailActions_proofs` | `Invariance`, `TypeCorrect` | `Spec => []IInv`, `Spec => []TypeOK` |
| | `SendsOnce`, `NotDoneIsTrue`, `DoneIsTrue` | `Spec => []SendAtMostOnce`, `[]SendTruth`, `[]DoneHappened` |
| | `NoSendAgain` | `Spec => []Never401Again` |
| | `EndsAreFinal`, `DrainIsKept` | `Spec => OverIsFinal`, `Spec => DrainHolds` |
| `MailApproval_proofs` | `PreviewInvariance`, `ApprovalsAreInformed` | `Spec => []PreviewInv`, `[]ApprovalIsInformed` |
| `OwnerQuestion_proofs` | `Invariance`, `YesIsTheOwnersHolds`, `OneEndHolds` | `Spec => []IInv`, `[]YesIsTheOwners`, `[]OneEnd` |
| `Conversations_proofs` | `Invariance`, `OneUserHolds`, `NoWakeupIsLost`, `InUseStaysHolds` | `Spec => []IInv`, `[]OneUser`, `[]NoLostWakeup`, `InUseStays` |
| `Takeover_proofs` | `Invariance`, `OneDriverHolds`, `OfferAgreesHolds`, `NothingBetweenHolds` | `Spec => []IInv`, `[]OneDriver`, `[]OfferAgrees`, `NothingBetween` |
| `ReviewedJob_proofs` | `ReviewInvariance`, `VerdictsAlwaysStand`, `StoriesAlwaysAgree` | `Spec => []IInv`, `[]VerdictsStand`, `[]StoriesAgree` |
| | `CancelFreezes` | `Spec => [][token => token' /\ live' = live]_vars` |
| `JobRecords_proofs` | `RecordsInvariance`, `NewestAlwaysStands`, `ResumedAtMostOnce` | `Spec => []IInv`, `[]NewestStands`, `[]ResumedOnce` |
| | `DismissalsStay` | `Spec => DismissedStays` |

### Mail actions

None of the safety properties is inductive: whether a send may be begun depends
on nothing of it being under way, which is in the ledger's states only together
with what the executor holds. `IInv` is `TypeOK` with

- `HubOK`: a stored notice has a recipient, a command names one or two codes;
- `LedgerOK`: an entry approved, executing, done or unknown has its approval,
  and a tombstone is over;
- `ExecOK`: the action in the executor's hands is executing while it runs, and
  done while its copy is made, although four other tasks change the ledger;
- `EffectOK`: done means it happened, and what happened or may still happen is
  approved;
- `SendOK`: a send that happened or may still happen, or was answered 401, is
  executing, done or unknown; the one being carried out has not happened, is
  not in flight and was not answered 401. `Never401Again` is in it.

`MailLedger_proofs` shows of every operator that is not the executor's that it
is `Quiet`: it moves no action into or out of executing, done and unknown,
changes nothing that is over, and forgets no approval. `QuietCore` shows once
that a quiet step keeps the core of `IInv`, which settles the worker, the
notifier, the authority, the janitor and recovery. The executor's operators
change one entry (`Alone`) and are shown one by one, with the provider's steps.
`EndsAreFinal` comes from the same lemmas, which also show `OverKept`.
`DrainIsKept` needs one invariant more, `CountedOK`: the count the drain waits
for is held exactly while the executor is between its counting and its end, so
only `Count`, which reads the flag in the same step, brings one under way.

### Informed approvals

`ApprovalIsInformed` spans the queue, the batch, two chats' notices, what
people saw and the ledger: a preview may be stored under two keys, delivered
without the bridge's recording it, refused, re-issued with a new code, handed
to another chat, while another owner takes the chat over. `PreviewInv`, kept
together with `IInv`, follows it:

- `QueuedOK`: an action without alternatives is queued once at most, under its
  current code, and not while its preview is stored or about to be made again
  (the invariant alternatives break, see above);
- `BatchOK`: the batch is of what is queued, its key is drawn and not watched,
  and a chat that has that key has the batch's codes;
- `PreviewOK`: an action being previewed is in the batch, or was stored under an
  earlier key, which is watched in the chat the entry names;
- `NoticeOK`: a stored notice is for the chat's owner, and who it was delivered
  to saw each of its codes;
- `ShownOK`: what is stored, open or approved has its preview with its person in
  that chat, in time: of an action without alternatives under the current code;
- `GivenOK`: no code is queued, stored or seen before it is given out, so that
  the preview of an alternative whose code never changed was that code's.

Most changes of the ledger are `Calm` (they preview nothing and give no code)
and keep all of it at once (`CalmStep`, `KeptStep`). The notifier's own steps,
the chats' and the approval are shown one by one; what was seen stays seen.

### Owner questions

A question passes through the asker, the hub's slot, the poller and the
outbox, and its answer through a channel, while the bridge may stop and the
daemon restart. `IInv` is `Typed` with

- `DeliveryOK`: what the platform took the owner saw, and the slot opened for
  answers only after that;
- `TakingOK`: the answer the poller holds was written after its question was
  seen and is handled by nobody else;
- `YesOK`: whoever has a yes, channel, asker or call, has the owner's own yes,
  acknowledged, behind it (`Meant`);
- for each question `Fate` (it is the hub's, the poller's, acknowledged or
  closed, only one of these: they take it from each other), `Waiting` (who
  holds it waits for its answer) and `Answered` (its text was stored, and its
  sender told so, before anyone could answer).

### Conversations

`IInv` has, beside `Typed`, `UserOK` (a turn or takeover has its conversation
to itself), `NumberOK` (no handle in use or on disk is newer than the newest),
`PinOK` and `LimitOK` (pins and conversations are counted), `ReleasedGoes`,
`NoLostWakeup`, and `IdOK`. `OneHandle`, one agent session is one conversation
of a directory, is not inductive: a turn may leave its conversation with a
session ID it did not have. `TurnOK` says whose that ID can be and that no
other conversation there has it, `ApartOK` that no two turns will leave the
same, and `FilesOK` that an ID in use has a transcript, so that a new one is
new. `InUseStays` also needs the crash count to be a number (`CrashesOK`).

### Takeovers

`NothingBetween`, that no prompt starts a turn between the stop of the owner's
takeover and its terminal, relates the lane's order, the calls and the attach
request, which takes its place in the lane before it looks at the turn. `IInv`:
`LockOK` (one request past the attaching lock), `TurnOK` (the store and the
calls agree on the turn), `OwnOK` (a turn of its own means a review or a
conversation being born), `DrivenOK`, `ClosedOK`, `OwningOK`, `KeptOK`,
`TakenOK` (who holds a taken conversation, and that no server of it is kept),
`ShapeOK` (each place once, one a takeover's), `OwnersOK` (each place is
somebody's), `PlacedOK` (a place not yet seated is first or next, with nothing
else in the way), `LentOK` (a taken conversation has its takeover's place),
`HeadOK` (the call that is up is the first), `BehindOK` (a reserved takeover is
first or right behind the call it has stopped), `RoomOK` (the terminals, with
the one about to start, are within the cap) and `AnswersOK`. `HeadOK` and
`BehindOK` exclude a call's start while a takeover is reserved, which is
`NothingBetween`.

### Reviewed jobs

The properties speak of the whole history (`turns`, `journal`, the landing
reports) while the loop decides from the last turn alone. `IInv` ties the two:
`JudgedOK` (the turn in the loop's hands is the last one recorded, and its
verdict is in the journal), `RoundOK` and `NegativesOK` (a negative verdict is
its round's last turn and leads to repair, the next round or the end),
`ApprovedOK`, `RefusedOK` and `NamedOK` (a refused review goes on to Grok
alone, a named reviewer is the only one), `HeldOK` (each conversation the loop
started is in its hands), `ReportsOK` (a landing counts as covered only by a
recorded turn of that reviewer in that round), `EndOK` and `FrozenOK` (the
result, the journal's end and what a cancel read are one snapshot).

Steps that do not judge are `Calm`, those that record a turn `Longer`, the end
`Ended`: a lemma for each says what such a step keeps, and the proof of an
action is left with the clauses it is about. A cancel may fall between the end's
question and its snapshot (`CancelledTooLate`); `SnapshotsDiffer` shows that the
landing is all the two stories then differ in. `CancelFreezes` says that after
the cancel no step writes what they are read from.

### Job records

A record is changed in memory under one lock and written under another, later
and out of order, beside dismissals, links, maintenance and crashes. `IInv` is
`Typed` with

- `LiveOK`, `NumbersOK`, `UidsOK`: numbers above the last one given are nobody's,
  whatever was pruned, and no two records or jobs are the same job;
- `RecordsOK`, `JobsOK`, `PendOK`: a record and each write under way are of the
  job that has the number, by this process, and a tombstone has no text;
- `NewestOK`: the newest revision was written or is still to be, and while no
  write failed a written newest revision is what the record tells;
- `LinksOK`, `RequestsOK`: what a link or a resume request names is no job of
  this session, and its record is still its own or gone;
- `ResumesOK`, while no write failed and nothing was pruned: a job has one
  successor at most (`OneSuccessor`), a request that has checked has none yet
  (`NoneYet`), a job without a record has its first write under way and, if it
  resumes another, the request that started it (`BeingStarted`), and every
  successor is on disk (`RecordedOnDisk`).

`BeingStarted` is what makes `resume_once` safe: a successor is always in sight,
as a record or through the claim its request still holds, so two requests
cannot both find none, and a crash loses the claim only with the job that was
not started. Steps that leave jobs alone only touch records (`TouchStep`), the
end and the crash leave what is on disk (`NothingRuns`), and a job's own steps
add one revision (`ChangedStep`); `Persist` and the start are shown clause by
clause.

### Only model-checked

- Liveness under fairness (`EveryActionEnds`, `OwnerIsServed`, `StopsAreSeen`,
  `WorkEnds`) and `ENABLED` are outside the prover.
- `OneOfAGroup`, `DailyLimitHolds`, `ReplayAddsNothing`, `EndsAreTold`,
  `RevisedNotLive` and `OpenBounded` need invariants of their own.
- `NothingMissed`: the order of a session's handles is built with `SelectSeq`,
  about which nothing can be proved here without induction over the sequence;
  its clauses about markers and transcripts compare caller, conversation, marker
  and `gc`, and would need an invariant of their own.
- The properties of `ChatBridge`, `PromptQueue`, `JobReports`,
  `TaskSubscriptions`, `Delegations` and `PlannedRestart`.

## 6. Plan

1. Proofs about the mail account's counts: `OneOfAGroup`, `OpenBounded`,
   `DailyLimitHolds`.
2. Proofs of `ToldOnce` of `JobReports` and `NothingCut` of `PlannedRestart`;
   each MC module then extends its component as `MCChat`, `MCSessions`,
   `MCAgents`, `MCReview` and `MCJobs` do.
3. `AuditJournal`: the three files, every write failing or interrupted,
   refining an append-only log; `ImapMove`: COPY, STORE, EXPUNGE and its resume
   points, refining what the executor assumes of a move.
4. `MailIntake`, `Supervisor`.

## 7. Not modelled

Wire formats, TLS, MIME, rendering and parsing; the model's own turns; the
operating system's terminals; CLI, TUI and configuration. They are pure
functions or I/O without a protocol state, and the components table of
`PROJECT.json` gives the reason for each.
