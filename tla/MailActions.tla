----------------------------- MODULE MailActions -----------------------------
(***************************************************************************)
(* A mail account's actions from proposal to end: the account's processes  *)
(* (worker, notifier, authority, janitor, executor) that commit changes of *)
(* MailLedger to one persisted state, the chats its previews go through,   *)
(* the owner who approves, the provider that carries an action out, and    *)
(* crashes between any two steps.                                          *)
(*                                                                         *)
(* Persisted: ledger, and the chats' own record of notices, hub.  Lost in  *)
(* a crash: draft, again, exec, counted.  Outside the account: owner,      *)
(* running, said, effect, inflight, intact.  Observed only: seen,          *)
(* answered401.                                                            *)
(***************************************************************************)
EXTENDS MailLedger

Request == [new : SUBSET Actions, revises : SUBSET Actions]

CONSTANTS
  Proposals,   \* the requests of the owner: what each proposes and revises
  Suggestions, \* moves a triage report suggests
  Policies,    \* the settings an account may be started with
  Removable,   \* actions whose content may stop matching their approval
  Unsteady,    \* chats that may stop and start again
  Lossy,       \* chats that may lose the platform's answer
  Restarts,    \* whether planned restarts drain the account: a set of flags
  Undated,     \* whether the chats' messages may lack the time they were sent
  MaxCodes,    \* bound on the codes one command names, 1 or 2
  MaxTime,     \* bound on the clock
  MaxCrashes   \* bound on crashes

VARIABLES
  ledger,      \* the MailState, as saved and published
  policy,      \* the settings of this run, and what the provider can do
  phase,       \* "down", "recovered", "swept" (starting) or "up"
  now,         \* host clock
  hub,         \* what each chat stored of each notice, and its fate
  drawn,       \* batch keys drawn so far
  owner,       \* the owner each chat is signed in for
  running,     \* the chats running now
  seen,        \* which code reached whom, where and when
  said,        \* approve commands sent in some chat
  draft,       \* worker: the request being prepared
  again,       \* notifier: preview_again under way
  exec,        \* executor
  counted,     \* hub: actions under way
  draining,    \* hub: drain flag of a planned restart
  effect,      \* provider: times each action took effect
  inflight,    \* provider: requests it may still carry out
  intact,      \* actions whose content still matches
  answered401, \* actions with a mutation answered HTTP 401
  crashes

accountVars == <<ledger, policy, phase, draft, again, exec, counted>>
hostVars == <<now, draining, crashes>>
chatVars == <<hub, drawn, owner, running, seen, said>>
providerVars == <<effect, inflight, intact, answered401>>
vars == <<accountVars, hostVars, chatVars, providerVars>>

ASSUME MailActionsConstants ==
  /\ Proposals \subseteq Request
  /\ Suggestions \subseteq {a \in Actions : Kind[a] = "move"}
  /\ Policies \subseteq Policy
  /\ Policies # {}
  /\ Removable \subseteq Actions
  /\ Unsteady \subseteq Routes
  /\ Lossy \subseteq Routes
  /\ Restarts \subseteq BOOLEAN
  /\ Undated \in BOOLEAN
  /\ MaxCodes \in {1, 2}
  /\ {MaxTime, MaxCrashes} \subseteq Nat
  /\ BatchKeys = 1 .. Cardinality(BatchKeys)
  /\ Cardinality(BatchKeys) \in Nat

Notice == [status : {"absent", "pending", "delivered", "refused"},
           at : Times, peer : Peers \cup {None}, codes : SUBSET Codes]
Sighting == [code : Codes, route : Routes, peer : Peers, at : Nat]
Command == [message : Messages, route : Routes, peer : Peers, sent : Times,
            codes : Seq(Codes)]

Executions == {"applied", "not_applied", "retry", "ambiguous", "uncertain"}
Pcs == {"idle", "picked", "counted", "running", "ran", "copying", "copied",
        "probing"}
Executor == [pc : Pcs, id : Actions \cup {None}, resume : Resumes,
             result : Executions \cup SentCopies]
Rework == [pc : {"none", "due", "reading"},
           ids : SUBSET Actions,       \* the actions left to preview again
           proposed : SUBSET Actions]  \* those proposed in its snapshot
NoRework == [pc |-> "none", ids |-> {}, proposed |-> {}]
Idle == [pc |-> "idle", id |-> None, resume |-> "none", result |-> "none"]
NoNotice == [status |-> "absent", at |-> NoTime, peer |-> None, codes |-> {}]

TypeOK ==
  /\ ledger \in MailState
  /\ policy \in Policy
  /\ phase \in {"down", "recovered", "swept", "up"}
  /\ now \in Nat
  /\ hub \in [Routes \X BatchKeys -> Notice]
  /\ drawn \in 0 .. Cardinality(BatchKeys)
  /\ owner \in [Routes -> Peers]
  /\ running \subseteq Routes
  /\ seen \subseteq Sighting
  /\ said \subseteq Command
  /\ draft \in Request \cup {None}
  /\ again \in Rework
  /\ exec \in Executor
  /\ counted \in BOOLEAN
  /\ draining \in BOOLEAN
  /\ effect \in [Actions -> Nat]
  /\ inflight \subseteq Actions
  /\ intact \subseteq Actions
  /\ answered401 \subseteq Actions
  /\ crashes \in Nat

Init ==
  /\ ledger = EmptyState
  /\ policy \in Policies
  /\ phase = "up"
  /\ now = 0
  /\ hub = [n \in Routes \X BatchKeys |-> NoNotice]
  /\ drawn = 0
  /\ owner \in [Routes -> Peers]
  /\ running = Routes
  /\ seen = {}
  /\ said = {}
  /\ draft = None
  /\ again = NoRework
  /\ exec = Idle
  /\ counted = FALSE
  /\ draining = FALSE
  /\ effect = [a \in Actions |-> 0]
  /\ inflight = {}
  /\ intact = Actions
  /\ answered401 = {}
  /\ crashes = 0

-----------------------------------------------------------------------------
(* Worker: proposals *)

Worker == phase = "up" /\ draft = None

full(L) == Cardinality(LiveActions(L)) >= MaxOpen

\* A drafting turn starts, of new mail or of one that still waits (revise
\* looks at a snapshot).  It may take minutes.
StartRequest(r) ==
  /\ Worker
  /\ ~full(ledger)
  /\ \A a \in r.new : ledger.actions[a].state = "absent" /\ offers(policy, a)
  /\ r.revises # {} => \E a \in r.revises : ledger.actions[a].state \in Live
  /\ draft' = r
  /\ UNCHANGED <<ledger, policy, phase, again, exec, counted, hostVars,
                 chatVars, providerVars>>

\* Its result is recorded, or refused.
Propose(head) ==
  /\ phase = "up"
  /\ draft # None
  /\ head \in draft.new
  /\ ledger' = propose(ledger, draft.new, draft.revises, head, now, policy)
  /\ draft' = None
  /\ UNCHANGED <<policy, phase, again, exec, counted, hostVars, chatVars,
                 providerVars>>

\* The turn fails or the source is lost: the request is dropped or waits.
DropRequest ==
  /\ phase = "up"
  /\ draft # None
  /\ draft' = None
  /\ UNCHANGED <<ledger, policy, phase, again, exec, counted, hostVars,
                 chatVars, providerVars>>

\* The worker asks Preparer::full before it adds the suggestion.
Suggest(a) ==
  /\ Worker
  /\ ledger.actions[a].state = "absent"
  /\ offers(policy, a)
  /\ ~full(ledger)
  /\ ledger' = record_report(ledger, a, now, policy)
  /\ UNCHANGED <<policy, phase, draft, again, exec, counted, hostVars,
                 chatVars, providerVars>>

\* The mailbox opened: what the provider can do is known.
SetPossible(kinds) ==
  /\ Worker
  /\ policy' = [policy EXCEPT !.possible = kinds]
  /\ UNCHANGED <<ledger, phase, draft, again, exec, counted, hostVars,
                 chatVars, providerVars>>

-----------------------------------------------------------------------------
(* Notifier: previews *)

Notifier == phase = "up" /\ again = NoRework

\* Previewing ids again is due.
rework(pc, ids, proposed) ==
  IF ids = {} THEN NoRework
  ELSE [pc |-> pc, ids |-> ids, proposed |-> proposed]

BeginBatch(items) ==
  /\ Notifier
  /\ ledger.batch = None
  /\ items # {} /\ items \subseteq ledger.queue
  /\ drawn < Cardinality(BatchKeys)
  /\ drawn' = drawn + 1
  /\ ledger' = begin_batch(ledger, drawn + 1, items, policy)
  /\ UNCHANGED <<policy, phase, draft, again, exec, counted, hostVars, hub,
                 owner, running, seen, said, providerVars>>

\* A chat stores a key once: the same key again is acknowledged without a
\* second copy.
stored_in(route, batch) ==
  IF hub[<<route, batch.key>>].status # "absent" THEN hub
  ELSE [hub EXCEPT ![<<route, batch.key>>] =
          [status |-> "pending", at |-> NoTime, peer |-> owner[route],
           codes |-> UNION {i.codes : i \in batch.items}]]

\* Hub::notify_keyed stored the batch and the hub stopped waiting before the
\* answer, or a crash came before it was recorded: the ledger does not know.
HandOverUnseen(route) ==
  /\ Notifier
  /\ ledger.batch # None
  /\ route \in RoutesOf(policy)
  /\ route \in running
  /\ hub' = stored_in(route, ledger.batch)
  /\ UNCHANGED <<accountVars, hostVars, drawn, owner, running, seen, said,
                 providerVars>>

HandOver(route) ==
  /\ Notifier
  /\ ledger.batch # None
  /\ route \in RoutesOf(policy)
  /\ route \in running
  /\ hub' = stored_in(route, ledger.batch)
  /\ ledger' = batch_stored(ledger, route, owner[route], now)
  /\ UNCHANGED <<policy, phase, draft, again, exec, counted, hostVars, drawn,
                 owner, running, seen, said, providerVars>>

\* No route took it for give_up_hours.
Dissolve ==
  /\ Notifier
  /\ ledger.batch # None
  /\ ledger' = batch_dissolve(ledger, now)
  /\ UNCHANGED <<policy, phase, draft, again, exec, counted, hostVars,
                 chatVars, providerVars>>

\* Hub::keyed_outcome: what is known of a notice in a running chat.
keyed_outcome(r, k) ==
  IF r \notin running THEN "absent" ELSE hub[<<r, k>>].status

\* When each notice was delivered, in the chat that stored it.
delivered_at == [n \in Routes \X BatchKeys |->
                   IF keyed_outcome(n[1], n[2]) = "delivered"
                   THEN hub[n].at ELSE NoTime]

\* What the notifier learns of the watched notices: when each was delivered,
\* and which were refused.
Fate(k) == {<<w.route, k>> : w \in {v \in ledger.watched : v.key = k}}
taken == [k \in BatchKeys |->
            IF \E n \in Fate(k) : delivered_at[n] # NoTime
            THEN delivered_at[CHOOSE n \in Fate(k) : delivered_at[n] # NoTime]
            ELSE NoTime]
refused == {k \in BatchKeys : \E n \in Fate(k) :
              keyed_outcome(n[1], n[2]) = "refused"}

SettleWatched ==
  /\ Notifier
  /\ refused # {} \/ \E k \in BatchKeys : taken[k] # NoTime
  /\ ledger' = settle_watched(ledger, taken, refused, now, policy)
  /\ again' = rework("due", {a \in Actions : ledger'.actions[a].generation
                                        > ledger.actions[a].generation}, {})
  /\ UNCHANGED <<policy, phase, draft, exec, counted, hostVars, chatVars,
                 providerVars>>

\* preview_again reads one snapshot; an action swept meanwhile is skipped.
SnapshotAgain ==
  /\ phase \in {"swept", "up"}
  /\ again.pc = "due"
  /\ again' = rework("reading", {a \in again.ids : ~ledger.actions[a].swept},
                     {a \in Actions : ledger.actions[a].state = "proposed"})
  /\ UNCHANGED <<ledger, policy, phase, draft, exec, counted, hostVars,
                 chatVars, providerVars>>

\* Then it queues a preview of each, with its proposed alternatives; with
\* content that cannot be read, none.
Alternatives(a) == ({a} \cup Siblings(a)) \cap again.proposed

PreviewAgain(a) ==
  /\ phase \in {"swept", "up"}
  /\ again.pc = "reading"
  /\ a \in again.ids
  /\ \/ ledger' = queue_preview(ledger, a, Alternatives(a), policy)
     \/ ~(Alternatives(a) \subseteq intact) /\ ledger' = ledger
  /\ again' = rework("reading", again.ids \ ({a} \cup Alternatives(a)),
                     again.proposed)
  /\ UNCHANGED <<policy, phase, draft, exec, counted, hostVars, chatVars,
                 providerVars>>

-----------------------------------------------------------------------------
(* Chats and owners, outside SCV's account *)

\* The people a stored notice shows its codes to, if the platform takes it.
Sightings(r, k) ==
  {[code |-> c, route |-> r, peer |-> hub[<<r, k>>].peer, at |-> now] :
     c \in hub[<<r, k>>].codes}

\* The chat hands a stored notice to the platform, which takes or refuses it
\* (Bridge::deliver_next).
Deliver(r, k) ==
  /\ r \in running
  /\ hub[<<r, k>>].status = "pending"
  /\ hub' = [hub EXCEPT ![<<r, k>>].status = "delivered", ![<<r, k>>].at = now]
  /\ seen' = seen \cup Sightings(r, k)
  /\ UNCHANGED <<accountVars, hostVars, drawn, owner, running, said,
                 providerVars>>

\* The platform takes it, and the answer is lost or the chat stops before it
\* records it: the notice will be handed over again.
DeliverUnrecorded(r, k) ==
  /\ r \in running
  /\ hub[<<r, k>>].status = "pending"
  /\ seen' = seen \cup Sightings(r, k)
  /\ UNCHANGED <<accountVars, hostVars, hub, drawn, owner, running, said,
                 providerVars>>

Refuse(r, k) ==
  /\ r \in running
  /\ hub[<<r, k>>].status = "pending"
  /\ hub' = [hub EXCEPT ![<<r, k>>].status = "refused"]
  /\ UNCHANGED <<accountVars, hostVars, drawn, owner, running, seen, said,
                 providerVars>>

StopChat(r) ==
  /\ r \in running
  /\ running' = running \ {r}
  /\ UNCHANGED <<accountVars, hostVars, hub, drawn, owner, seen, said,
                 providerVars>>

\* A chat starts again with the owner it is signed in for; another owner
\* takes a logout first, which removes the chat's state.
StartChat(r, peer) ==
  /\ r \notin running
  /\ running' = running \cup {r}
  /\ owner' = [owner EXCEPT ![r] = peer]
  /\ hub' = IF peer = owner[r] THEN hub
            ELSE [n \in DOMAIN hub |-> IF n[1] = r THEN NoNotice ELSE hub[n]]
  /\ UNCHANGED <<accountVars, hostVars, drawn, seen, said, providerVars>>

\* World::owner
chat_owner == [r \in Routes |-> IF r \in running THEN owner[r] ELSE None]

\* Someone writes an approve command; the chat may say when (sent) or not.
\* It reaches the account later, and maybe more than once.
Say(c) ==
  /\ c \in Command
  /\ \A d \in said : d.message # c.message
  /\ said' = said \cup {c}
  /\ UNCHANGED <<accountVars, hostVars, hub, drawn, owner, running, seen,
                 providerVars>>

\* The commands someone may write now: one code or two that were ever given
\* out, known or guessed, dated now or undated.
Issued == UNION {{<<a, g>> : g \in 1 .. ledger.actions[a].generation} :
                   a \in Actions}
Written(m, r, peer) ==
  {[message |-> m, route |-> r, peer |-> peer, sent |-> s, codes |-> cs] :
     s \in {now} \cup (IF Undated THEN {NoTime} ELSE {}),
     cs \in {<<c>> : c \in Issued}
            \cup (IF MaxCodes = 1 THEN {} ELSE {<<c, d>> : c, d \in Issued})}

-----------------------------------------------------------------------------
(* Authority: commands *)

Approve(c) ==
  /\ phase = "up"
  /\ ledger' = approve(ledger, c, chat_owner, delivered_at, now, policy)
  /\ UNCHANGED <<policy, phase, draft, again, exec, counted, hostVars,
                 chatVars, providerVars>>

Deny(r, peer, codes) ==
  /\ phase = "up"
  /\ ledger' = deny(ledger, codes, [route |-> r, peer |-> peer], chat_owner,
                    now, policy)
  /\ UNCHANGED <<policy, phase, draft, again, exec, counted, hostVars,
                 chatVars, providerVars>>

Cancel(S) ==
  /\ phase = "up"
  /\ ledger' = cancel(ledger, S, now)
  /\ UNCHANGED <<policy, phase, draft, again, exec, counted, hostVars,
                 chatVars, providerVars>>

-----------------------------------------------------------------------------
(* Janitor, and the executor's own expire *)

Expire ==
  /\ phase = "up"
  /\ Expired(ledger, now) \cup Stale(ledger, now) # {}
  /\ ledger' = expire(ledger, now)
  /\ UNCHANGED <<policy, phase, draft, again, exec, counted, hostVars,
                 chatVars, providerVars>>

Prune ==
  /\ phase = "up"
  /\ ledger' = prune(ledger, now)
  /\ UNCHANGED <<policy, phase, draft, again, exec, counted, hostVars,
                 chatVars, providerVars>>

SweepActions ==
  /\ phase = "up"
  /\ ledger' = sweep_actions(ledger, now)
  /\ UNCHANGED <<policy, phase, draft, again, exec, counted, hostVars,
                 chatVars, providerVars>>

-----------------------------------------------------------------------------
(* Executor: checks of interrupted actions, and one approved action a time *)

StartProbe(a) ==
  /\ phase = "up"
  /\ exec.pc = "idle"
  /\ a \in due_probes(ledger, now)
  /\ exec' = [Idle EXCEPT !.pc = "probing", !.id = a]
  /\ UNCHANGED <<ledger, policy, phase, draft, again, counted, hostVars,
                 chatVars, providerVars>>

\* What a check may find (imap/writer.rs probe_on, gmail.rs, graph.rs): a
\* send not found in Sent may still have gone out, a half-done move is taken
\* up, and content that cannot be read checks nothing.
ProbeResults(a) ==
  IF a \notin intact THEN {"unknown"}
  ELSE {"unknown", "unreachable"}
       \cup (IF effect[a] > 0 THEN {"done"} ELSE {})
       \cup (IF Kind[a] = "send" \/ effect[a] > 0 THEN {} ELSE {"not_done"})
       \cup (IF Kind[a] = "move" THEN {"gone"} ELSE {})
       \cup (IF Kind[a] = "move" /\ effect[a] = 0
             THEN {"after_copy", "expunge"} ELSE {})

Probed(probe) ==
  /\ phase = "up"
  /\ exec.pc = "probing"
  /\ probe \in ProbeResults(exec.id)
  /\ ledger' = probed(ledger, exec.id, probe, now)
  /\ exec' = Idle
  /\ UNCHANGED <<policy, phase, draft, again, counted, hostVars, chatVars,
                 providerVars>>

\* next_approved and the first look at the drain flag, outside any lock.  A
\* check that fell due since due_probes was read does not hold it back.
Pick(a) ==
  /\ phase = "up"
  /\ exec.pc = "idle"
  /\ a \in next_approved(ledger, now)
  /\ ~draining
  /\ exec' = [Idle EXCEPT !.pc = "picked", !.id = a]
  /\ UNCHANGED <<ledger, policy, phase, draft, again, counted, hostVars,
                 chatVars, providerVars>>

\* Fault: the flag is not read again.
Count_unguarded ==
  /\ phase = "up"
  /\ exec.pc = "picked"
  /\ counted' = TRUE
  /\ exec' = [exec EXCEPT !.pc = "counted"]
  /\ UNCHANGED <<ledger, policy, phase, draft, again, hostVars, chatVars,
                 providerVars>>

\* MailRegistration::begin_execution: the flag is read under the lock the
\* count is kept under.
Count ==
  /\ phase = "up"
  /\ exec.pc = "picked"
  /\ counted' = ~draining
  /\ exec' = IF draining THEN Idle ELSE [exec EXCEPT !.pc = "counted"]
  /\ UNCHANGED <<ledger, policy, phase, draft, again, hostVars, chatVars,
                 providerVars>>

\* The Approved in hand keeps the resume point begin_execution took.
BeginExecution ==
  LET a == exec.id
      ready == Startable(ledger, a, a \in intact, now, policy)
  IN /\ phase = "up"
     /\ exec.pc = "counted"
     /\ ledger' = begin_execution(ledger, a, a \in intact, now, policy)
     /\ counted' = ready
     /\ exec' = IF ready
                THEN [exec EXCEPT !.pc = "running",
                                  !.resume = ledger.actions[a].resume]
                ELSE Idle
     /\ UNCHANGED <<policy, phase, draft, again, hostVars, chatVars,
                    providerVars>>

\* What the provider may do with the request, and how the adapter classifies
\* its answer (smtp.rs, imap/writer.rs and api.rs classify): an applied or
\* refused request is told apart, a lost answer or a time-out is ambiguous,
\* a mutation answered 401 uncertain.
Perform(execution, lands) ==
  LET a == exec.id
  IN /\ phase = "up"
     /\ exec.pc = "running"
     /\ execution = "applied" =>
          lands \/ (Kind[a] # "send" /\ effect[a] > 0)
     /\ execution \in {"not_applied", "retry"} => ~lands
     /\ effect' = IF lands THEN [effect EXCEPT ![a] = @ + 1] ELSE effect
     /\ inflight' = IF execution = "ambiguous" /\ ~lands
                    THEN inflight \cup {a} ELSE inflight
     /\ answered401' = IF execution = "uncertain" THEN answered401 \cup {a}
                       ELSE answered401
     /\ exec' = [exec EXCEPT !.pc = "ran", !.result = execution]
     /\ UNCHANGED <<ledger, policy, phase, draft, again, counted, hostVars,
                    chatVars, intact>>

\* A request SCV lost sight of is carried out after all.
LandLate(a) ==
  /\ a \in inflight
  /\ inflight' = inflight \ {a}
  /\ effect' = [effect EXCEPT ![a] = @ + 1]
  /\ UNCHANGED <<accountVars, hostVars, chatVars, intact, answered401>>

\* A send SCV copies to Sent itself is recorded as done first.
Sent == exec.id \in Copied /\ exec.result = "applied"

MarkSent ==
  /\ phase = "up"
  /\ exec.pc = "ran" /\ Sent
  /\ ledger' = mark_sent(ledger, exec.id, now)
  /\ exec' = [exec EXCEPT !.pc = "copying"]
  /\ UNCHANGED <<policy, phase, draft, again, counted, hostVars, chatVars,
                 providerVars>>

CopySent(copy) ==
  /\ phase = "up"
  /\ exec.pc = "copying"
  /\ copy \in {"saved", "failed"}
  /\ exec' = [exec EXCEPT !.pc = "copied", !.result = copy]
  /\ UNCHANGED <<ledger, policy, phase, draft, again, counted, hostVars,
                 chatVars, providerVars>>

FinishExecution ==
  /\ phase = "up"
  /\ \/ exec.pc = "ran" /\ ~Sent
     \/ exec.pc = "copied"
  /\ ledger' = IF exec.pc = "copied"
               THEN finish_execution(ledger, exec.id, "applied", exec.result,
                                     exec.resume, now)
               ELSE finish_execution(ledger, exec.id, exec.result, "none",
                                     exec.resume, now)
  /\ exec' = Idle
  /\ counted' = FALSE
  /\ UNCHANGED <<policy, phase, draft, again, hostVars, chatVars,
                 providerVars>>

-----------------------------------------------------------------------------
(* Restarts, crashes and time *)

\* Hub::set_mail_drain, by a planned restart.
SetDrain(b) ==
  /\ draining # b
  /\ draining' = b
  /\ UNCHANGED <<accountVars, now, crashes, chatVars, providerVars>>

\* The account stops between two steps: a request under way may still land.
Crash ==
  /\ phase # "down"
  /\ crashes < MaxCrashes
  /\ crashes' = crashes + 1
  /\ phase' = "down"
  /\ inflight' = IF exec.pc = "running" THEN inflight \cup {exec.id}
                 ELSE inflight
  /\ draft' = None
  /\ again' = NoRework
  /\ exec' = Idle
  /\ counted' = FALSE
  /\ UNCHANGED <<ledger, policy, now, draining, chatVars, effect, intact,
                 answered401>>

\* The account starts with the settings it finds, and recovers.
Restart(p) ==
  /\ phase = "down"
  /\ phase' = "recovered"
  /\ policy' = p
  /\ ledger' = recover(ledger, now, p)
  /\ again' = rework("due", unpreviewed(ledger'), {})
  /\ UNCHANGED <<draft, exec, counted, hostVars, chatVars, providerVars>>

\* The janitor's first sweep, before anything else runs.
StartSweep ==
  /\ phase = "recovered"
  /\ phase' = "swept"
  /\ ledger' = sweep_actions(expire(prune(ledger, now), now), now)
  /\ UNCHANGED <<policy, draft, again, exec, counted, hostVars, chatVars,
                 providerVars>>

StartTasks ==
  /\ phase = "swept"
  /\ again = NoRework
  /\ phase' = "up"
  /\ UNCHANGED <<ledger, policy, draft, again, exec, counted, hostVars,
                 chatVars, providerVars>>

\* An action's content is damaged or its credentials are replaced.
ContentChanges(a) ==
  /\ a \in intact
  /\ intact' = intact \ {a}
  /\ UNCHANGED <<accountVars, hostVars, chatVars, effect, inflight,
                 answered401>>

Tick ==
  /\ now < MaxTime
  /\ now' = now + 1
  /\ UNCHANGED <<accountVars, draining, crashes, chatVars, providerVars>>

-----------------------------------------------------------------------------
Account ==
  \/ \E r \in Proposals : StartRequest(r)
  \/ \E a \in Actions : Propose(a)
  \/ DropRequest
  \/ \E a \in Suggestions : Suggest(a)
  \/ \E kinds \in {p.possible : p \in Policies} : SetPossible(kinds)
  \/ \E items \in SUBSET ledger.queue : BeginBatch(items)
  \/ \E r \in Routes : HandOver(r) \/ HandOverUnseen(r)
  \/ Dissolve
  \/ SettleWatched
  \/ SnapshotAgain
  \/ \E a \in Actions : PreviewAgain(a)
  \/ \E c \in said : Approve(c)
  \/ \E r \in Routes, peer \in Peers :
       \/ Deny(r, peer, CurrentCodes(ledger))
       \/ \E c \in CurrentCodes(ledger) : Deny(r, peer, {c})
  \/ \E S \in {Actions} \cup {{a} : a \in Actions} : Cancel(S)
  \/ Expire
  \/ Prune
  \/ SweepActions
  \/ Crash

Execute ==
  \/ \E a \in Actions : StartProbe(a) \/ Pick(a)
  \/ \E probe \in {"done", "not_done", "gone", "unknown", "unreachable",
                   "after_copy", "expunge"} : Probed(probe)
  \/ Count
  \/ BeginExecution
  \/ \E execution \in Executions, lands \in BOOLEAN : Perform(execution, lands)
  \/ MarkSent
  \/ \E copy \in {"saved", "failed"} : CopySent(copy)
  \/ FinishExecution

Start ==
  \/ \E p \in Policies : Restart(p)
  \/ StartSweep
  \/ StartTasks

World ==
  \/ \E r \in Routes, k \in BatchKeys :
       Deliver(r, k) \/ Refuse(r, k)
  \/ \E r \in Lossy, k \in BatchKeys : DeliverUnrecorded(r, k)
  \/ \E r \in Unsteady : StopChat(r)
  \/ \E r \in Routes, peer \in Peers : StartChat(r, peer)
  \/ \E m \in Messages, r \in Routes, peer \in Peers :
       \E c \in Written(m, r, peer) : Say(c)
  \/ \E a \in Actions : LandLate(a)
  \/ \E a \in Removable : ContentChanges(a)
  \/ \E b \in Restarts : SetDrain(b)
  \/ Tick

Next == Account \/ Execute \/ Start \/ World

Spec == Init /\ [][Next]_vars

\* What the account does by itself, given time: the executor works, actions
\* are expired, a stopped account is started again and the clock goes on.
Fairness ==
  /\ WF_vars(Execute)
  /\ WF_vars(Expire)
  /\ WF_vars(Start)
  /\ WF_vars(SnapshotAgain \/ \E a \in Actions : PreviewAgain(a))
  /\ WF_vars(Tick)

FairSpec == Spec /\ Fairness

-----------------------------------------------------------------------------
(* Properties *)

Entry(a) == ledger.actions[a]

\* A send goes out at most once, whatever crashes, time-outs, retries and
\* late answers do (begin_execution, finish_execution, probed and recover
\* between them).  A request that may still be carried out counts.
SendAtMostOnce ==
  \A a \in Actions : Kind[a] = "send" =>
    effect[a] + (IF a \in inflight THEN 1 ELSE 0) <= 1

\* A send the ledger holds as not done - waiting, approved and to be tried,
\* denied, cancelled, expired, superseded, failed or invalid - has not gone
\* out and will not: "Not done" told to the owner is true.  One under way,
\* interrupted or of unknown outcome is the only kind that may have.
SendTruth ==
  \A a \in Actions :
    Kind[a] = "send" /\ (effect[a] > 0 \/ a \in inflight) =>
      Entry(a).state \in {"executing", "done", "unknown"}

\* What is recorded as done happened (Execution::Applied, Probe::Done), and
\* nothing happens that was not approved.
DoneHappened ==
  \A a \in Actions :
    /\ Entry(a).state = "done" => effect[a] > 0
    /\ effect[a] > 0 => Entry(a).approval # None

\* Of alternatives offered again, one that ended leaves two previews of the
\* other (preview_again), and the older of them may show a code that was given
\* up since.
InOneVersion(a) == Siblings(a) = {} \/ Entry(a).generation = 1

\* Every approval was given by a message sent after a preview of the action
\* reached that same person in that same chat, and that preview showed its
\* current code, unless it is one of alternatives that got a new code since
\* (approve, previews_stored and previews_delivered, across re-issued codes,
\* previews stored twice, and chats that changed owner).
ApprovalIsInformed ==
  \A a \in Actions : Entry(a).approval # None =>
    \E s \in seen : /\ s.code[1] = a
                    /\ InOneVersion(a) => s.code[2] = Entry(a).generation
                    /\ s.route = Entry(a).approval.route
                    /\ s.peer = Entry(a).approval.peer
                    /\ s.at <= Entry(a).approval.sent

\* Of the alternatives for one mail at most one is ever approved (approve
\* supersedes the others, whatever became of the first).
OneOfAGroup ==
  \A a \in Actions : \A b \in Siblings(a) :
    Entry(a).approval = None \/ Entry(b).approval = None

\* A send the provider answered HTTP 401 is never sent again (docs/
\* channels.md: "A `POST` or `PATCH` is never tried again after HTTP 401").
\* It does not hold of the other kinds: a crash before the answer is recorded
\* forgets it, and the check of the next start has a draft or a move that is
\* not found done tried again.
Never401Again ==
  \A a \in answered401 :
    Kind[a] = "send" => ~(exec.pc = "running" /\ exec.id = a)

\* Once an HTTP 401 is recorded, no check puts the action back to be tried,
\* whatever it finds and whatever restarts come between (probed, recover).
Checked401Stays ==
  [][\A a \in Actions :
       Entry(a).uncertain => Entry(a)'.state # "approved"]_vars

\* However its approvals end, no more mails go out on one day's approvals
\* than max_sends_per_day (the reservation of a send that may have gone out
\* is never given back).
DailyLimitHolds ==
  \A a \in Actions :
    LET that_day == {b \in Actions :
                       /\ Kind[b] = "send" /\ Entry(b).approval # None
                       /\ Entry(b).approval.at <= Entry(a).approval.at
                       /\ Entry(a).approval.at - Entry(b).approval.at < Day
                       /\ effect[b] > 0}
    IN Kind[a] = "send" /\ Entry(a).approval # None =>
         Cardinality(that_day) <= DailyLimit["send"]

\* A message handed over again approves nothing more than it did the first
\* time it approved something (the approvals ring).
ReplayAddsNothing ==
  \A a, b \in Approved(ledger) :
    Entry(a).approval.message = Entry(b).approval.message =>
      Entry(a).approval.at = Entry(b).approval.at

\* The owner is told of every approved action that ended without them, and
\* what they are told is what the ledger says, once a sent mail's copy is
\* settled (finish, finish_execution and recover).
EndsAreTold ==
  \A a \in Actions :
    /\ Entry(a).approval # None
    /\ terminal(Entry(a))
    /\ Entry(a).sentCopy # "pending"
    => ledger.told[a] = outcome_text(Entry(a))

\* No more than max_open actions wait or are under way, though a revision
\* frees places and brings alternatives (Ledger::propose, Preparer::full).
OpenBounded == Cardinality(LiveActions(ledger)) <= MaxOpen

\* An action that is over stays as it ended, though mark_sent and
\* finish_execution write without looking at the state.
OverIsFinal ==
  [][\A a \in Actions : terminal(Entry(a)) =>
       /\ Entry(a)'.state = Entry(a).state
       /\ Entry(a)'.approval = Entry(a).approval]_vars

\* Once the drain flag is up and nothing is counted as under way, nothing is
\* and nothing starts while it is up: a planned restart that saw
\* Hub::mail_executing at zero misses no action.
UnderWay == {"running", "ran", "copying", "copied"}
DrainHolds ==
  [][draining /\ ~counted =>
       ~counted' /\ exec.pc \notin UnderWay /\ exec'.pc \notin UnderWay]_vars

\* Every action that is recorded ends, whatever the owner, the chats and the
\* provider do: previews expire, approvals go stale, checks that cannot reach
\* the provider are given up (expire, finish_not_applied and probed).  The
\* clock is bounded, so it must have enough time left.
EnoughTime(a) ==
  Entry(a).hardExpiry + ExecuteSpan + ProbeGrace + ProbeDelay < MaxTime
EveryActionEnds ==
  \A a \in Actions : Entry(a).state \in Live /\ EnoughTime(a)
                      ~> Entry(a).state \in Over

\* A draft and its revision are never both live: the owner who asked for a
\* change cannot get both sent, though drafting the revision takes minutes
\* in which the first may be approved (propose, revise).
RevisedNotLive ==
  \A r \in Proposals : \A a \in r.revises, b \in r.new :
    ~(Entry(a).state \in Live /\ Entry(b).state \in Live)

\* A revision is recorded only in place of a draft that still waits
\* (actions.rs, propose: "superseding the actions `revised`, which a revision
\* replaces, unless one of them was approved or is over").
RevisionReplaces ==
  [][\A b \in Actions :
       Entry(b).state = "absent" /\ Entry(b)'.state # "absent" =>
         \A r \in Proposals : b \in r.new =>
           \A a \in r.revises :
             waiting(Entry(a)) \/ Entry(a).state = "superseded"]_vars

\* Every preview queued offers an action (notify.rs, preview_again: "Queue a
\* new preview of the actions ids (proposed, with their current codes)").
EveryPreviewOffers == \A i \in ledger.queue : i.codes # {}
=============================================================================
