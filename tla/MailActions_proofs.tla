------------------------- MODULE MailActions_proofs -------------------------
(***************************************************************************)
(* Type correctness of a mail account, and its safety where a send may     *)
(* have gone out, for any number of actions, chats, people, crashes and    *)
(* any time.                                                               *)
(*                                                                         *)
(* The inductive invariant IInv adds to TypeOK what the executor has in    *)
(* hand (ExecOK), what a stored notice and a written command hold (HubOK), *)
(* and how the provider's effects relate to the ledger (EffectOK, SendOK). *)
(* Changes of the ledger that are Quiet cannot disturb it; the others are  *)
(* the executor's own.                                                     *)
(***************************************************************************)
EXTENDS MailActions, MailLedger_proofs

\* What the executor has in hand is as the ledger says it is.
ExecOK ==
  /\ exec.pc # "idle" => exec.id \in Actions
  /\ exec.pc = "ran" => exec.result \in Executions
  /\ exec.pc = "copied" => exec.result \in SentCopies
  /\ exec.pc \in {"running", "ran"} => Entry(exec.id).state = "executing"
  /\ exec.pc \in {"copying", "copied"} => Entry(exec.id).state = "done"

HubOK ==
  /\ \A n \in Routes \X BatchKeys :
       hub[n].status # "absent" => hub[n].peer \in Peers
  /\ \A c \in said : Len(c.codes) \in {1, 2}

\* Nothing is done that did not happen, and nothing happens unapproved.
EffectOK ==
  \A a \in Actions :
    /\ Entry(a).state = "done" => effect[a] > 0
    /\ effect[a] > 0 \/ a \in inflight => Entry(a).approval # None
    /\ exec.pc = "ran" /\ exec.id = a /\ exec.result = "applied"
         => effect[a] > 0

NotYet(a) == effect[a] = 0 /\ a \notin inflight /\ a \notin answered401

\* A send that went out, or still may, is one the ledger knows it may have;
\* the one under way is the first try.
SendOK ==
  \A a \in Actions : Kind[a] = "send" =>
    /\ NotYet(a) \/ Entry(a).state \in Committed
    /\ effect[a] \in {0, 1}
    /\ a \in inflight => effect[a] = 0
    /\ exec.pc = "running" /\ exec.id = a => NotYet(a)
    /\ /\ exec.pc = "ran" /\ exec.id = a
       /\ exec.result \in {"not_applied", "retry"}
       => NotYet(a)

Core == LedgerOK(ledger) /\ ExecOK /\ EffectOK /\ SendOK

IInv == TypeOK /\ HubOK /\ Core

\* What is over stays as it ended.
OverKept ==
  \A a \in Actions : terminal(Entry(a)) =>
    /\ Entry(a)'.state = Entry(a).state
    /\ Entry(a)'.approval = Entry(a).approval

\* What is shown of every step.
StepOK == IInv' /\ OverKept

-----------------------------------------------------------------------------
(* Steps by what they leave alone *)

LEMMA QuietOver ==
  ASSUME Quiet(ledger, ledger')
  PROVE  OverKept
  BY DEF Quiet, QuietEntry, OverKept, terminal, Entry

LEMMA SameOver ==
  ASSUME ledger' = ledger
  PROVE  OverKept
  BY DEF OverKept, Entry

\* A step that changes one entry, and keeps its approval.
LEMMA AloneOver ==
  ASSUME NEW a \in Actions, Alone(ledger, ledger', a),
         Entry(a).state \in Over => Entry(a)'.state = Entry(a).state
  PROVE  OverKept
  BY DEF Alone, OverKept, terminal, Entry

LEMMA QuietCore ==
  ASSUME TypeOK, Core, Quiet(ledger, ledger'),
         exec' = exec, effect' = effect, inflight' = inflight,
         answered401' = answered401
  PROVE  Core'
  <1>1. LedgerOK(ledger')
    BY QuietOK DEF Core
  <1>2. \A a \in Actions :
          /\ QuietEntry(Entry(a), Entry(a)')
          /\ EntryOK(Entry(a))
    BY DEF Quiet, LedgerOK, Core, Entry
  <1>3. \A a \in Actions :
          /\ Entry(a).state \in Committed => Entry(a)'.state = Entry(a).state
          /\ Entry(a)'.state \in Committed => Entry(a)'.state = Entry(a).state
          /\ Entry(a).approval # None => Entry(a)'.approval # None
    BY <1>2 DEF QuietEntry
  <1>4. "executing" \in Committed /\ "done" \in Committed
    BY DEF Committed
  <1>5. ExecOK'
    <2>1. exec.pc # "idle" => exec.id \in Actions
      BY DEF Core, ExecOK
    <2>2. exec.pc \in {"running", "ran"} => Entry(exec.id)'.state = "executing"
      BY <1>3, <1>4, <2>1 DEF Core, ExecOK
    <2>3. exec.pc \in {"copying", "copied"} => Entry(exec.id)'.state = "done"
      BY <1>3, <1>4, <2>1 DEF Core, ExecOK
    <2> QED BY <2>1, <2>2, <2>3 DEF Core, ExecOK, Entry
  <1>6. EffectOK'
    BY <1>3, <1>4 DEF Core, EffectOK
  <1>7. SendOK'
    BY <1>3 DEF Core, SendOK, NotYet
  <1> QED BY <1>1, <1>5, <1>6, <1>7 DEF Core

LEMMA AccountStep ==
  ASSUME IInv, ledger' \in MailState, Quiet(ledger, ledger'),
         policy' \in Policy, phase' \in {"down", "recovered", "swept", "up"},
         draft' \in Request \cup {None}, again' \in Rework,
         drawn' \in 0 .. Cardinality(BatchKeys), hub' = hub,
         UNCHANGED <<exec, counted, hostVars, owner, running, seen, said,
                     providerVars>>
  PROVE  StepOK
  <1>1. TypeOK'
    BY DEF IInv, TypeOK, hostVars, providerVars
  <1>2. HubOK'
    BY DEF IInv, HubOK
  <1>3. Core'
    BY QuietCore DEF IInv, providerVars
  <1> QED BY <1>1, <1>2, <1>3, QuietOver DEF IInv, StepOK

LEMMA ChatStep ==
  ASSUME IInv, hub' \in [Routes \X BatchKeys -> Notice], HubOK',
         owner' \in [Routes -> Peers], running' \subseteq Routes,
         seen' \subseteq Sighting, said' \subseteq Command,
         UNCHANGED <<accountVars, hostVars, drawn, providerVars>>
  PROVE  StepOK
  <1>1. TypeOK'
    BY DEF IInv, TypeOK, accountVars, hostVars, providerVars
  <1>2. Core'
    BY QuietCore, QuietSame DEF IInv, accountVars, providerVars
  <1> QED BY <1>1, <1>2, SameOver DEF IInv, StepOK, accountVars

LEMMA ExecStep ==
  ASSUME IInv, ledger' \in MailState, exec' \in Executor,
         counted' \in BOOLEAN, effect' \in [Actions -> Nat],
         inflight' \subseteq Actions, answered401' \subseteq Actions, Core',
         OverKept,
         UNCHANGED <<policy, phase, draft, again, hostVars, chatVars, intact>>
  PROVE  StepOK
  <1>1. TypeOK'
    BY DEF IInv, TypeOK, hostVars, chatVars
  <1>2. HubOK'
    BY DEF IInv, HubOK, chatVars
  <1> QED BY <1>1, <1>2 DEF IInv, StepOK

-----------------------------------------------------------------------------
(* What the account learns from the chats *)

LEMMA DeliveredType ==
  ASSUME TypeOK
  PROVE  delivered_at \in Deliveries
  BY DEF TypeOK, delivered_at, Deliveries, Notice, Times

LEMMA TakenType ==
  ASSUME TypeOK
  PROVE  taken \in [BatchKeys -> Times]
  <1>1. ASSUME NEW k \in BatchKeys
        PROVE  Fate(k) \subseteq Routes \X BatchKeys
    BY DEF Fate, TypeOK, MailState, Watched
  <1>2. ASSUME NEW k \in BatchKeys, NEW n \in Fate(k)
        PROVE  delivered_at[n] \in Times
    BY <1>1, <1>2, DeliveredType DEF Deliveries
  <1>3. ASSUME NEW k \in BatchKeys,
               \E n \in Fate(k) : delivered_at[n] # NoTime
        PROVE  (CHOOSE n \in Fate(k) : delivered_at[n] # NoTime) \in Fate(k)
    BY <1>3
  <1>4. NoTime \in Times
    BY Members
  <1> QED BY <1>2, <1>3, <1>4 DEF taken

LEMMA ReworkType ==
  ASSUME NEW pc \in {"due", "reading"}, NEW ids \in SUBSET Actions,
         NEW proposed \in SUBSET Actions
  PROVE  rework(pc, ids, proposed) \in Rework
  BY DEF rework, Rework, NoRework

-----------------------------------------------------------------------------
(* The account's steps, but the executor's *)

LEMMA WorkerSteps ==
  ASSUME IInv,
         \/ \E r \in Proposals : StartRequest(r)
         \/ \E a \in Actions : Propose(a)
         \/ DropRequest
         \/ \E a \in Suggestions : Suggest(a)
         \/ \E kinds \in {p.possible : p \in Policies} : SetPossible(kinds)
  PROVE  StepOK
  <1>1. ASSUME NEW r \in Proposals, StartRequest(r) PROVE StepOK
    <2>1. r \in Request
      BY MailActionsConstants
    <2>2. Quiet(ledger, ledger')
      BY <1>1, QuietSame DEF StartRequest
    <2> QED BY <1>1, <2>1, <2>2, AccountStep
            DEF StartRequest, chatVars, IInv, TypeOK
  <1>2. ASSUME NEW a \in Actions, Propose(a) PROVE StepOK
    <2>1. draft.new \in SUBSET Actions /\ draft.revises \in SUBSET Actions
      BY <1>2 DEF Propose, IInv, TypeOK, Request
    <2>2. ledger' \in MailState /\ Quiet(ledger, ledger')
      BY <1>2, <2>1, ProposeType DEF Propose, IInv, TypeOK
    <2> QED BY <1>2, <2>2, AccountStep DEF Propose, chatVars, IInv, TypeOK
  <1>3. ASSUME DropRequest PROVE StepOK
    <2>1. Quiet(ledger, ledger')
      BY <1>3, QuietSame DEF DropRequest
    <2> QED BY <1>3, <2>1, AccountStep DEF DropRequest, chatVars, IInv, TypeOK
  <1>4. ASSUME NEW a \in Suggestions, Suggest(a) PROVE StepOK
    <2>1. a \in Actions
      BY MailActionsConstants
    <2>2. ledger' \in MailState /\ Quiet(ledger, ledger')
      BY <1>4, <2>1, RecordReportType DEF Suggest, IInv, TypeOK
    <2> QED BY <1>4, <2>2, AccountStep DEF Suggest, chatVars, IInv, TypeOK
  <1>5. ASSUME NEW p \in Policies, SetPossible(p.possible) PROVE StepOK
    <2>1. p \in Policy
      BY MailActionsConstants
    <2>2. policy' \in Policy
      BY <1>5, <2>1 DEF SetPossible, Policy, IInv, TypeOK
    <2>3. Quiet(ledger, ledger')
      BY <1>5, QuietSame DEF SetPossible
    <2> QED BY <1>5, <2>2, <2>3, AccountStep
            DEF SetPossible, chatVars, IInv, TypeOK
  <1> QED BY <1>1, <1>2, <1>3, <1>4, <1>5

LEMMA NotifierSteps ==
  ASSUME IInv,
         \/ \E items \in SUBSET ledger.queue : BeginBatch(items)
         \/ Dissolve
         \/ SettleWatched
         \/ SnapshotAgain
         \/ \E a \in Actions : PreviewAgain(a)
  PROVE  StepOK
  <1>1. ASSUME NEW items \in SUBSET ledger.queue, BeginBatch(items)
        PROVE  StepOK
    <2>1. items \in SUBSET Item
      BY DEF IInv, TypeOK, MailState
    <2>2. drawn + 1 \in BatchKeys /\ drawn' \in 0 .. Cardinality(BatchKeys)
      BY <1>1, MailActionsConstants DEF BeginBatch, IInv, TypeOK
    <2>3. ledger' \in MailState /\ Quiet(ledger, ledger')
      BY <1>1, <2>1, <2>2, BeginBatchType DEF BeginBatch, IInv, TypeOK
    <2> QED BY <1>1, <2>2, <2>3, AccountStep DEF BeginBatch, IInv, TypeOK
  <1>2. ASSUME Dissolve PROVE StepOK
    <2>1. ledger' \in MailState /\ Quiet(ledger, ledger')
      BY <1>2, BatchDissolveType DEF Dissolve, IInv, TypeOK
    <2> QED BY <1>2, <2>1, AccountStep DEF Dissolve, chatVars, IInv, TypeOK
  <1>3. ASSUME SettleWatched PROVE StepOK
    <2>1. ledger' \in MailState /\ Quiet(ledger, ledger')
      BY <1>3, TakenType, SettleWatchedType DEF SettleWatched, IInv, TypeOK
    <2>2. again' \in Rework
      BY <1>3, ReworkType DEF SettleWatched
    <2> QED BY <1>3, <2>1, <2>2, AccountStep
            DEF SettleWatched, chatVars, IInv, TypeOK
  <1>4. ASSUME SnapshotAgain PROVE StepOK
    <2>1. again.ids \in SUBSET Actions
      BY DEF IInv, TypeOK, Rework
    <2>2. again' \in Rework
      BY <1>4, <2>1, ReworkType DEF SnapshotAgain
    <2>3. Quiet(ledger, ledger')
      BY <1>4, QuietSame DEF SnapshotAgain
    <2> QED BY <1>4, <2>2, <2>3, AccountStep
            DEF SnapshotAgain, chatVars, IInv, TypeOK
  <1>5. ASSUME NEW a \in Actions, PreviewAgain(a) PROVE StepOK
    <2>1. again.ids \in SUBSET Actions /\ again.proposed \in SUBSET Actions
      BY DEF IInv, TypeOK, Rework
    <2>2. Alternatives(a) \in SUBSET Actions
      BY <2>1 DEF Alternatives
    <2>3. ledger' \in MailState /\ Quiet(ledger, ledger')
      BY <1>5, <2>2, QueuePreviewType, QuietSame
         DEF PreviewAgain, IInv, TypeOK
    <2>4. again' \in Rework
      BY <1>5, <2>1, ReworkType DEF PreviewAgain
    <2> QED BY <1>5, <2>3, <2>4, AccountStep
            DEF PreviewAgain, chatVars, IInv, TypeOK
  <1> QED BY <1>1, <1>2, <1>3, <1>4, <1>5

LEMMA AuthoritySteps ==
  ASSUME IInv,
         \/ \E c \in said : Approve(c)
         \/ \E r \in Routes, peer \in Peers, codes \in SUBSET Codes :
              Deny(r, peer, codes)
         \/ \E S \in SUBSET Actions : Cancel(S)
         \/ Expire
         \/ Prune
         \/ SweepActions
  PROVE  StepOK
  <1>1. ASSUME NEW c \in said, Approve(c) PROVE StepOK
    <2>1. c \in Command /\ Len(c.codes) \in {1, 2}
      BY DEF IInv, TypeOK, HubOK
    <2>2. Evidence(c) /\ c.codes \in Seq(Codes)
      BY <2>1 DEF Command, Evidence
    <2>3. ledger' \in MailState /\ Quiet(ledger, ledger')
      BY <1>1, <2>1, <2>2, DeliveredType, ApproveType
         DEF Approve, IInv, TypeOK, Core
    <2> QED BY <1>1, <2>3, AccountStep DEF Approve, chatVars, IInv, TypeOK
  <1>2. ASSUME NEW r \in Routes, NEW peer \in Peers, NEW codes \in SUBSET Codes,
               Deny(r, peer, codes)
        PROVE  StepOK
    <2>1. ledger' \in MailState /\ Quiet(ledger, ledger')
      BY <1>2, DenyType DEF Deny, IInv, TypeOK
    <2> QED BY <1>2, <2>1, AccountStep DEF Deny, chatVars, IInv, TypeOK
  <1>3. ASSUME NEW S \in SUBSET Actions, Cancel(S) PROVE StepOK
    <2>1. ledger' \in MailState /\ Quiet(ledger, ledger')
      BY <1>3, CancelType DEF Cancel, IInv, TypeOK
    <2> QED BY <1>3, <2>1, AccountStep DEF Cancel, chatVars, IInv, TypeOK
  <1>4. ASSUME Expire PROVE StepOK
    <2>1. ledger' \in MailState /\ Quiet(ledger, ledger')
      BY <1>4, ExpireType DEF Expire, IInv, TypeOK
    <2> QED BY <1>4, <2>1, AccountStep DEF Expire, chatVars, IInv, TypeOK
  <1>5. ASSUME Prune PROVE StepOK
    <2>1. ledger' \in MailState /\ Quiet(ledger, ledger')
      BY <1>5, PruneType DEF Prune, IInv, TypeOK
    <2> QED BY <1>5, <2>1, AccountStep DEF Prune, chatVars, IInv, TypeOK
  <1>6. ASSUME SweepActions PROVE StepOK
    <2>1. ledger' \in MailState /\ Quiet(ledger, ledger')
      BY <1>6, SweepType DEF SweepActions, IInv, TypeOK
    <2> QED BY <1>6, <2>1, AccountStep DEF SweepActions, chatVars, IInv, TypeOK
  <1> QED BY <1>1, <1>2, <1>3, <1>4, <1>5, <1>6

LEMMA StartSteps ==
  ASSUME IInv, Start
  PROVE  StepOK
  <1>1. ASSUME NEW p \in Policies, Restart(p) PROVE StepOK
    <2>1. p \in Policy
      BY MailActionsConstants
    <2>2. ledger' \in MailState /\ Quiet(ledger, ledger')
      BY <1>1, <2>1, RecoverType DEF Restart, IInv, TypeOK
    <2>3. unpreviewed(ledger') \in SUBSET Actions
      BY DEF unpreviewed
    <2>4. again' \in Rework
      BY <1>1, <2>3, ReworkType DEF Restart
    <2> QED BY <1>1, <2>1, <2>2, <2>4, AccountStep
            DEF Restart, chatVars, IInv, TypeOK
  <1>2. ASSUME StartSweep PROVE StepOK
    <2> DEFINE M == prune(ledger, now)
               N == expire(M, now)
    <2>1. ledger' = sweep_actions(N, now)
      BY <1>2 DEF StartSweep
    <2>2. M \in MailState /\ Quiet(ledger, M)
      BY PruneType DEF IInv, TypeOK
    <2> HIDE DEF M
    <2>3. N \in MailState /\ Quiet(M, N)
      BY <2>2, ExpireType DEF IInv, TypeOK
    <2> HIDE DEF N
    <2>4. ledger' \in MailState /\ Quiet(N, ledger')
      BY <2>1, <2>3, SweepType DEF IInv, TypeOK
    <2>5. Quiet(ledger, ledger')
      BY <2>2, <2>3, <2>4, QuietTrans
    <2> QED BY <1>2, <2>4, <2>5, AccountStep
            DEF StartSweep, chatVars, IInv, TypeOK
  <1>3. ASSUME StartTasks PROVE StepOK
    <2>1. Quiet(ledger, ledger')
      BY <1>3, QuietSame DEF StartTasks
    <2> QED BY <1>3, <2>1, AccountStep DEF StartTasks, chatVars, IInv, TypeOK
  <1> QED BY <1>1, <1>2, <1>3 DEF Start

-----------------------------------------------------------------------------
(* The chats' steps, and handing a batch to one *)

LEMMA StoredType ==
  ASSUME IInv, NEW r \in Routes, ledger.batch # None
  PROVE  /\ stored_in(r, ledger.batch) \in [Routes \X BatchKeys -> Notice]
         /\ \A n \in Routes \X BatchKeys :
              stored_in(r, ledger.batch)[n].status # "absent" =>
                stored_in(r, ledger.batch)[n].peer \in Peers
  <1> DEFINE b == ledger.batch
             shown == UNION {i.codes : i \in b.items}
             note == [status |-> "pending", at |-> NoTime, peer |-> owner[r],
                      codes |-> shown]
             h == [hub EXCEPT ![<<r, b.key>>] = note]
  <1>1. b \in Batch
    BY DEF IInv, TypeOK, MailState
  <1>2. shown \in SUBSET Codes
    BY <1>1 DEF Batch, Item
  <1>3. <<r, b.key>> \in Routes \X BatchKeys
    BY <1>1 DEF Batch
  <1>4. stored_in(r, b) \in {hub, h}
    BY DEF stored_in
  <1>5. owner[r] \in Peers /\ NoTime \in Times
    BY Members DEF IInv, TypeOK
  <1>6. hub \in [Routes \X BatchKeys -> Notice]
    BY DEF IInv, TypeOK
  <1> HIDE DEF b, shown
  <1>7. note \in Notice /\ note.peer \in Peers
    BY <1>2, <1>5 DEF Notice
  <1> HIDE DEF note
  <1>8. /\ h \in [Routes \X BatchKeys -> Notice]
        /\ \A n \in Routes \X BatchKeys : h[n] = hub[n] \/ h[n] = note
    BY <1>3, <1>6, <1>7
  <1> HIDE DEF h
  <1>9. \A n \in Routes \X BatchKeys :
          hub[n].status # "absent" => hub[n].peer \in Peers
    BY DEF IInv, HubOK
  <1>10. CASE stored_in(r, b) = hub
    BY <1>6, <1>9, <1>10 DEF b
  <1>11. CASE stored_in(r, b) = h
    BY <1>7, <1>8, <1>9, <1>11 DEF b
  <1> QED BY <1>4, <1>10, <1>11

LEMMA HandOverSteps ==
  ASSUME IInv, NEW r \in Routes, HandOver(r) \/ HandOverUnseen(r)
  PROVE  StepOK
  <1>1. CASE HandOver(r)
    <2>1. hub' \in [Routes \X BatchKeys -> Notice] /\ HubOK'
      BY <1>1, StoredType DEF HandOver, HubOK, IInv
    <2>2. ledger' \in MailState /\ Quiet(ledger, ledger')
      <3>1. owner[r] \in Peers
        BY DEF IInv, TypeOK
      <3> QED BY <1>1, <3>1, BatchStoredType DEF HandOver, IInv, TypeOK
    <2>3. TypeOK'
      BY <1>1, <2>1, <2>2 DEF HandOver, IInv, TypeOK, hostVars, providerVars
    <2>4. Core'
      BY <1>1, <2>2, QuietCore DEF HandOver, IInv, providerVars
    <2> QED BY <2>1, <2>2, <2>3, <2>4, QuietOver DEF IInv, StepOK
  <1>2. CASE HandOverUnseen(r)
    <2>1. hub' \in [Routes \X BatchKeys -> Notice] /\ HubOK'
      BY <1>2, StoredType DEF HandOverUnseen, HubOK, IInv
    <2> QED BY <1>2, <2>1, ChatStep DEF HandOverUnseen, IInv, TypeOK
  <1> QED BY <1>1, <1>2

LEMMA SightingsType ==
  ASSUME IInv, NEW r \in Routes, NEW k \in BatchKeys,
         hub[<<r, k>>].status = "pending"
  PROVE  Sightings(r, k) \subseteq Sighting
  <1>1. hub[<<r, k>>] \in Notice /\ now \in Nat
    BY DEF IInv, TypeOK
  <1>2. hub[<<r, k>>].peer \in Peers
    BY DEF IInv, HubOK
  <1>3. hub[<<r, k>>].codes \subseteq Codes
    BY <1>1 DEF Notice
  <1> QED BY <1>1, <1>2, <1>3 DEF Sightings, Sighting

\* A notice keeps its person as its fate is settled.
LEMMA NoticeType ==
  ASSUME IInv, NEW n \in Routes \X BatchKeys, hub[n].status = "pending",
         NEW x \in Notice, x.peer = hub[n].peer,
         hub' = [hub EXCEPT ![n] = x], said' = said
  PROVE  hub' \in [Routes \X BatchKeys -> Notice] /\ HubOK'
  <1>1. hub \in [Routes \X BatchKeys -> Notice]
    BY DEF IInv, TypeOK
  <1>2. hub' \in [Routes \X BatchKeys -> Notice]
    BY <1>1
  <1>3. \A m \in Routes \X BatchKeys : m # n => hub'[m] = hub[m]
    BY <1>1
  <1>4. hub'[n] = x
    BY <1>1
  <1>5. hub[n].peer \in Peers
    BY DEF IInv, HubOK
  <1> QED BY <1>2, <1>3, <1>4, <1>5 DEF IInv, HubOK

LEMMA ChatSteps ==
  ASSUME IInv,
         \/ \E r \in Routes, k \in BatchKeys :
              Deliver(r, k) \/ Refuse(r, k) \/ DeliverUnrecorded(r, k)
         \/ \E r \in Routes : StopChat(r)
         \/ \E r \in Routes, peer \in Peers : StartChat(r, peer)
         \/ \E m \in Messages, r \in Routes, peer \in Peers :
              \E c \in Written(m, r, peer) : Say(c)
  PROVE  StepOK
  <1>1. ASSUME NEW r \in Routes, NEW k \in BatchKeys, Deliver(r, k)
        PROVE  StepOK
    <2> DEFINE n == <<r, k>>
               x == [hub[n] EXCEPT !.status = "delivered", !.at = now]
    <2>1. hub[n] \in Notice /\ now \in Times /\ n \in Routes \X BatchKeys
      BY Members DEF IInv, TypeOK
    <2>2. x \in Notice /\ x.peer = hub[n].peer
      BY <2>1 DEF Notice
    <2>3. hub' = [hub EXCEPT ![n] = x]
      BY <1>1, <2>1 DEF Deliver, IInv, TypeOK, Notice
    <2>4. seen' \subseteq Sighting
      BY <1>1, SightingsType DEF Deliver, IInv, TypeOK
    <2>5. hub[n].status = "pending" /\ said' = said
      BY <1>1 DEF Deliver
    <2> HIDE DEF n, x
    <2>6. hub' \in [Routes \X BatchKeys -> Notice] /\ HubOK'
      BY <2>1, <2>2, <2>3, <2>5, NoticeType
    <2> QED BY <1>1, <2>4, <2>6, ChatStep DEF Deliver, IInv, TypeOK
  <1>2. ASSUME NEW r \in Routes, NEW k \in BatchKeys, Refuse(r, k)
        PROVE  StepOK
    <2> DEFINE n == <<r, k>>
               x == [hub[n] EXCEPT !.status = "refused"]
    <2>1. hub[n] \in Notice /\ n \in Routes \X BatchKeys
      BY DEF IInv, TypeOK
    <2>2. x \in Notice /\ x.peer = hub[n].peer
      BY <2>1 DEF Notice
    <2>3. hub' = [hub EXCEPT ![n] = x]
      BY <1>2, <2>1 DEF Refuse, IInv, TypeOK, Notice
    <2>4. hub[n].status = "pending" /\ said' = said
      BY <1>2 DEF Refuse
    <2> HIDE DEF n, x
    <2>5. hub' \in [Routes \X BatchKeys -> Notice] /\ HubOK'
      BY <2>1, <2>2, <2>3, <2>4, NoticeType
    <2> QED BY <1>2, <2>5, ChatStep DEF Refuse, IInv, TypeOK
  <1>3. ASSUME NEW r \in Routes, NEW k \in BatchKeys, DeliverUnrecorded(r, k)
        PROVE  StepOK
    <2>1. seen' \subseteq Sighting
      BY <1>3, SightingsType DEF DeliverUnrecorded, IInv, TypeOK
    <2>2. HubOK'
      BY <1>3 DEF DeliverUnrecorded, IInv, HubOK
    <2> QED BY <1>3, <2>1, <2>2, ChatStep DEF DeliverUnrecorded, IInv, TypeOK
  <1>4. ASSUME NEW r \in Routes, StopChat(r) PROVE StepOK
    <2>1. HubOK'
      BY <1>4 DEF StopChat, IInv, HubOK
    <2> QED BY <1>4, <2>1, ChatStep DEF StopChat, IInv, TypeOK
  <1>5. ASSUME NEW r \in Routes, NEW peer \in Peers, StartChat(r, peer)
        PROVE  StepOK
    <2> DEFINE h == [n \in DOMAIN hub |-> IF n[1] = r THEN NoNotice ELSE hub[n]]
    <2>1. hub \in [Routes \X BatchKeys -> Notice]
      BY DEF IInv, TypeOK
    <2>2. NoNotice \in Notice /\ NoNotice.status = "absent"
      BY Members DEF NoNotice, Notice
    <2>3. h \in [Routes \X BatchKeys -> Notice]
      BY <2>1, <2>2
    <2>4. hub' \in {hub, h} /\ said' = said
      BY <1>5 DEF StartChat
    <2>5. \A n \in Routes \X BatchKeys : hub'[n] \in {NoNotice, hub[n]}
      BY <2>1, <2>4
    <2>6. HubOK'
      BY <2>2, <2>4, <2>5 DEF IInv, HubOK
    <2> HIDE DEF h
    <2>7. owner' \in [Routes -> Peers] /\ running' \subseteq Routes
      BY <1>5 DEF StartChat, IInv, TypeOK
    <2>8. hub' \in [Routes \X BatchKeys -> Notice]
      BY <2>1, <2>3, <2>4
    <2> QED BY <1>5, <2>6, <2>7, <2>8, ChatStep DEF StartChat, IInv, TypeOK
  <1>6. ASSUME NEW m \in Messages, NEW r \in Routes, NEW peer \in Peers,
               NEW c \in Written(m, r, peer), Say(c)
        PROVE  StepOK
    <2>1. PICK s \in {now} \cup (IF Undated THEN {NoTime} ELSE {}),
               cs \in {<<x>> : x \in Issued}
                      \cup (IF MaxCodes = 1 THEN {}
                            ELSE {<<x, y>> : x, y \in Issued}) :
            c = [message |-> m, route |-> r, peer |-> peer, sent |-> s,
                 codes |-> cs]
      BY DEF Written
    <2>2. Len(cs) \in {1, 2}
      OBVIOUS
    <2>3. Len(c.codes) \in {1, 2}
      BY <2>1, <2>2
    <2>4. HubOK'
      BY <1>6, <2>3 DEF Say, IInv, HubOK
    <2>5. said' \subseteq Command
      BY <1>6 DEF Say, IInv, TypeOK
    <2> QED BY <1>6, <2>4, <2>5, ChatStep DEF Say, IInv, TypeOK
  <1> QED BY <1>1, <1>2, <1>3, <1>4, <1>5, <1>6

-----------------------------------------------------------------------------
(* The executor's steps *)

LEMMA AloneOK ==
  ASSUME NEW L, NEW M, NEW a \in Actions, LedgerOK(L), Alone(L, M, a),
         EntryOK(M.actions[a])
  PROVE  LedgerOK(M)
  BY DEF LedgerOK, Alone

\* An entry under way, or done, stays a sensible one.
LEMMA UnderWayOK ==
  ASSUME NEW e, NEW f, EntryOK(e), e.state \in {"approved"} \cup Committed,
         f.approval = e.approval, f.swept = e.swept,
         \/ f.state \in Over
         \/ f.state \in {"approved", "executing"} /\ e.state \notin Over
  PROVE  EntryOK(f)
  BY DEF EntryOK, Committed, Over

\* An idle executor has nothing in hand.
LEMMA IdleType ==
  /\ Idle \in Executor
  /\ Idle.pc = "idle"
  BY DEF Idle, Executor, Pcs, Resumes, SentCopies, Executions

LEMMA PickSteps ==
  ASSUME IInv,
         (\E a \in Actions : StartProbe(a) \/ Pick(a)) \/ Count
         \/ \E copy \in {"saved", "failed"} : CopySent(copy)
  PROVE  StepOK
  <1>1. /\ ledger' = ledger
        /\ UNCHANGED <<policy, phase, draft, again, hostVars, chatVars,
                       providerVars>>
    BY DEF StartProbe, Pick, Count, CopySent
  <1>2. exec' \in Executor /\ counted' \in BOOLEAN
    <2>1. exec \in Executor /\ counted \in BOOLEAN /\ draining \in BOOLEAN
      BY DEF IInv, TypeOK
    <2>2. ASSUME NEW a \in Actions, StartProbe(a) \/ Pick(a)
          PROVE  exec' \in Executor /\ counted' \in BOOLEAN
      <3>1. exec' = [Idle EXCEPT !.pc = "probing", !.id = a]
            \/ exec' = [Idle EXCEPT !.pc = "picked", !.id = a]
        BY <2>2 DEF StartProbe, Pick
      <3>2. exec' \in Executor
        BY <3>1 DEF Idle, Executor, Pcs, Resumes, SentCopies
      <3> QED BY <2>1, <2>2, <3>2 DEF StartProbe, Pick
    <2>3. ASSUME Count PROVE exec' \in Executor /\ counted' \in BOOLEAN
      <3>1. [exec EXCEPT !.pc = "counted"] \in Executor
        BY <2>1 DEF Executor, Pcs
      <3> QED BY <2>1, <2>3, <3>1, IdleType DEF Count
    <2>4. ASSUME NEW copy \in {"saved", "failed"}, CopySent(copy)
          PROVE  exec' \in Executor /\ counted' \in BOOLEAN
      <3>1. [exec EXCEPT !.pc = "copied", !.result = copy] \in Executor
        BY <2>1 DEF Executor, Pcs, SentCopies
      <3> QED BY <2>1, <2>4, <3>1 DEF CopySent
    <2> QED BY <2>2, <2>3, <2>4
  <1>3. exec'.pc \notin {"running", "ran", "copying"}
    BY IdleType DEF StartProbe, Pick, Count, CopySent, Idle, IInv, TypeOK,
       Executor
  <1>4. ExecOK'
    <2>1. ASSUME NEW a \in Actions, StartProbe(a) \/ Pick(a) PROVE ExecOK'
      BY <2>1 DEF StartProbe, Pick, ExecOK, Idle
    <2>2. ASSUME Count PROVE ExecOK'
      BY <2>2 DEF Count, ExecOK, Idle, IInv, Core, TypeOK, Executor
    <2>3. ASSUME NEW copy \in {"saved", "failed"}, CopySent(copy)
          PROVE  ExecOK'
      <3>1. exec'.pc = "copied" /\ exec'.id = exec.id /\ exec'.result = copy
        BY <2>3 DEF CopySent, IInv, TypeOK, Executor
      <3>2. copy \in SentCopies
        BY DEF SentCopies
      <3>3. exec.id \in Actions /\ Entry(exec.id).state = "done"
        BY <2>3 DEF CopySent, IInv, Core, ExecOK
      <3> QED BY <1>1, <3>1, <3>2, <3>3 DEF ExecOK, Entry
    <2> QED BY <2>1, <2>2, <2>3
  <1>5. LedgerOK(ledger) /\ UNCHANGED <<effect, inflight, answered401>>
    BY <1>1 DEF IInv, Core, providerVars
  <1>6. EffectOK' /\ SendOK'
    BY <1>1, <1>3, <1>5 DEF IInv, Core, EffectOK, SendOK, NotYet, Entry
  <1>7. Core'
    BY <1>1, <1>4, <1>5, <1>6 DEF Core
  <1> QED BY <1>1, <1>2, <1>7, ExecStep, SameOver
          DEF providerVars, IInv, TypeOK

\* The core is kept when the executor drops what it has in hand and the
\* ledger changes one entry: not into what did not happen, and never from
\* where a send may have gone out to where it may not.
LEMMA SettleCore ==
  ASSUME IInv, NEW a \in Actions, Alone(ledger, ledger', a),
         EntryOK(ledger'.actions[a]), exec' = Idle,
         UNCHANGED <<effect, inflight, answered401>>,
         Entry(a)'.state = "done" => effect[a] > 0,
         Kind[a] = "send" => NotYet(a) \/ Entry(a)'.state \in Committed
  PROVE  Core'
  <1>1. LedgerOK(ledger')
    BY AloneOK DEF IInv, Core
  <1>2. \A b \in Actions : b # a => Entry(b)' = Entry(b)
    BY DEF Alone, Entry
  <1>3. Entry(a)'.approval = Entry(a).approval
    BY DEF Alone, Entry
  <1>4. exec'.pc = "idle"
    BY IdleType
  <1>5. ExecOK'
    BY <1>4 DEF ExecOK
  <1>6. EffectOK'
    BY <1>2, <1>3, <1>4 DEF IInv, Core, EffectOK
  <1>7. SendOK'
    BY <1>2, <1>4 DEF IInv, Core, SendOK, NotYet
  <1> QED BY <1>1, <1>5, <1>6, <1>7 DEF Core

LEMMA ProbedStep ==
  ASSUME IInv,
         NEW probe \in {"done", "not_done", "gone", "unknown", "unreachable",
                        "after_copy", "expunge"},
         Probed(probe)
  PROVE  StepOK
  <1>1. PICK a \in Actions : a = exec.id
    BY DEF Probed, IInv, Core, ExecOK
  <1> DEFINE e == ledger.actions[a]
             f == ledger'.actions[a]
  <1>2. exec' = Idle /\ probe \in ProbeResults(a)
    BY <1>1 DEF Probed
  <1>3. /\ ledger' \in MailState
        /\ Alone(ledger, ledger', a)
        /\ ledger.actions[a].state # "executing" => ledger' = ledger
        /\ ledger.actions[a].state = "executing" =>
             /\ ledger'.actions[a].state
                  \in {"executing", "approved", "failed", "unknown", "done"}
             /\ ledger'.actions[a].state = "done" => probe = "done"
             /\ probe \in {"done", "unknown", "unreachable"}
                  => ledger'.actions[a].state \in Committed
    <2>1. ledger' = probed(ledger, a, probe, now)
      BY <1>1 DEF Probed
    <2>2. ledger \in MailState /\ now \in Nat
      BY DEF IInv, TypeOK
    <2> HIDE DEF e, f
    <2> QED BY ONLY <2>1, <2>2, ProbedType, a \in Actions,
              probe \in {"done", "not_done", "gone", "unknown", "unreachable",
                         "after_copy", "expunge"}
  <1>4. EntryOK(e)
    BY <1>1 DEF IInv, Core, LedgerOK
  <1>5. ledger' \in MailState /\ Alone(ledger, ledger', a)
    BY <1>3
  <1>6. probe = "done" => effect[a] > 0
    BY <1>2 DEF ProbeResults
  <1>7. Kind[a] = "send" => probe \in {"done", "unknown", "unreachable"}
    BY <1>2 DEF ProbeResults
  <1>8. UNCHANGED <<effect, inflight, answered401>>
    BY DEF Probed, providerVars
  <1>9. CASE e.state # "executing"
    <2>1. ledger' = ledger
      BY <1>3, <1>9
    <2>2. Entry(a)'.state = "done" => effect[a] > 0
      BY <1>1, <2>1 DEF IInv, Core, EffectOK, Entry
    <2>3. Kind[a] = "send" => NotYet(a) \/ Entry(a)'.state \in Committed
      BY <1>1, <2>1 DEF IInv, Core, SendOK, Entry
    <2>4. EntryOK(f)
      BY <1>4, <2>1
    <2>5. Core'
      BY <1>1, <1>2, <1>5, <1>8, <2>2, <2>3, <2>4, SettleCore
    <2> QED BY <1>2, <1>5, <2>1, <2>5, ExecStep, IdleType, SameOver
            DEF Probed, providerVars, IInv, TypeOK
  <1>10. CASE e.state = "executing"
    <2>1. /\ f.state \in {"executing", "approved", "failed", "unknown", "done"}
          /\ f.state = "done" => probe = "done"
      BY <1>3, <1>10
    <2>2. Kind[a] = "send" => f.state \in Committed
      BY <1>3, <1>7, <1>10
    <2>3. f.state = "done" => effect[a] > 0
      BY <1>6, <2>1
    <2>4. EntryOK(f)
      <3>1. f.approval = e.approval /\ f.swept = e.swept
        BY <1>5 DEF Alone
      <3>2. e.state \in Committed /\ e.state \notin Over
        BY <1>10 DEF Committed, Over
      <3>3. f.state \in Over \cup {"approved", "executing"}
        BY <2>1 DEF Over
      <3> QED BY <1>4, <3>1, <3>2, <3>3, UnderWayOK
    <2>5. Core'
      <3>1. Entry(a)' = f
        BY DEF Entry
      <3> HIDE DEF f
      <3> QED BY <1>1, <1>2, <1>5, <1>8, <2>2, <2>3, <2>4, <3>1, SettleCore
              DEF f
    <2>6. OverKept
      BY <1>5, <1>10, AloneOver DEF Entry, Over
    <2> QED BY <1>2, <1>5, <2>5, <2>6, ExecStep, IdleType
            DEF Probed, providerVars, IInv, TypeOK
  <1> QED BY <1>9, <1>10

LEMMA BeginExecutionStep ==
  ASSUME IInv, BeginExecution
  PROVE  StepOK
  <1>1. PICK a \in Actions : a = exec.id
    BY DEF BeginExecution, IInv, Core, ExecOK
  <1> DEFINE e == ledger.actions[a]
             f == ledger'.actions[a]
             whole == a \in intact
             ready == Startable(ledger, a, whole, now, policy)
             M == begin_execution(ledger, a, whole, now, policy)
  <1>2. /\ ledger' = M
        /\ counted' = ready
        /\ exec' = IF ready THEN [exec EXCEPT !.pc = "running",
                                              !.resume = e.resume]
                   ELSE Idle
    BY <1>1 DEF BeginExecution
  <1>3. /\ ledger \in MailState /\ now \in Nat /\ policy \in Policy
        /\ whole \in BOOLEAN /\ exec \in Executor
        /\ effect \in [Actions -> Nat]
    BY DEF IInv, TypeOK
  <1> HIDE DEF whole
  <1>4. EntryOK(e) /\ e \in ActionEntry
    BY <1>1, <1>3, EntryType DEF IInv, Core, LedgerOK
  <1>5. UNCHANGED <<effect, inflight, answered401>>
    BY DEF BeginExecution, providerVars
  <1>6. ledger' \in MailState /\ Alone(ledger, ledger', a)
    BY <1>1, <1>2, <1>3, BeginExecutionType
  <1>7. ready \in BOOLEAN
    BY DEF Startable
  <1>8. CASE ~ready
    <2>1. \/ ledger' = ledger
          \/ e.state = "approved" /\ f.state \in {"unknown", "failed", "invalid"}
      BY <1>1, <1>2, <1>3, <1>8, BeginExecutionType
    <2>2. EntryOK(f)
      <3>1. f.approval = e.approval /\ f.swept = e.swept
        BY <1>6 DEF Alone
      <3>2. CASE e.state = "approved"
                 /\ f.state \in {"unknown", "failed", "invalid"}
        BY <1>4, <3>1, <3>2, UnderWayOK DEF Over
      <3> QED BY <1>4, <2>1, <3>2
    <2>3. f.state = "done" => effect[a] > 0
      BY <1>1, <2>1 DEF IInv, Core, EffectOK, Entry
    <2>4. Kind[a] = "send" => NotYet(a) \/ f.state \in Committed
      BY <1>1, <2>1 DEF IInv, Core, SendOK, Entry, Committed
    <2>5. Core'
      <3>1. Entry(a)' = f
        BY DEF Entry
      <3>2. exec' = Idle
        BY <1>2, <1>8
      <3> HIDE DEF f, ready, M
      <3> QED BY <1>1, <1>5, <1>6, <2>2, <2>3, <2>4, <3>1, <3>2, SettleCore
              DEF f
    <2>6. OverKept
      <3>1. "approved" \notin Over
        BY DEF Over
      <3> QED BY <1>6, <2>1, <3>1, AloneOver, SameOver DEF Entry
    <2> QED BY <1>2, <1>6, <1>7, <1>8, <2>5, <2>6, ExecStep, IdleType
            DEF BeginExecution, providerVars, IInv, TypeOK
  <1>9. CASE ready
    <2>1. f.state = "executing"
      BY <1>1, <1>2, <1>3, <1>9, BeginExecutionType
    <2>2. e.state = "approved"
      BY <1>9 DEF Startable, Ready
    <2>3. EntryOK(f)
      <3>1. f.approval = e.approval /\ f.swept = e.swept
        BY <1>6 DEF Alone
      <3>2. "approved" \notin Over
        BY DEF Over
      <3> QED BY <1>4, <2>1, <2>2, <3>1, <3>2, UnderWayOK
    <2>4. LedgerOK(ledger')
      BY <1>1, <1>6, <2>3, AloneOK DEF IInv, Core
    <2>5. exec' = [exec EXCEPT !.pc = "running", !.resume = e.resume]
      BY <1>2, <1>9
    <2>6. exec' \in Executor /\ exec'.pc = "running" /\ exec'.id = a
      <3>1. e.resume \in Resumes
        BY <1>4 DEF ActionEntry
      <3> HIDE DEF e
      <3> QED BY <1>1, <1>3, <2>5, <3>1 DEF Executor, Pcs
    <2>7. \A b \in Actions : b # a => Entry(b)' = Entry(b)
      BY <1>6 DEF Alone, Entry
    <2>8. Entry(a)' = f /\ Entry(a) = e /\ f.approval = e.approval
      BY <1>6 DEF Entry, Alone
    <2>9. ExecOK'
      BY <2>1, <2>6 DEF ExecOK, Entry
    <2>10. Kind[a] = "send" => NotYet(a)
      <3>1. "approved" \notin Committed
        BY DEF Committed
      <3> QED BY <1>1, <2>2, <2>8, <3>1 DEF IInv, Core, SendOK
    <2>11. "executing" \in Committed
      BY DEF Committed
    <2>12. OverKept
      BY <1>6, <2>2, AloneOver DEF Entry, Over
    <2> HIDE DEF e, f, ready, M
    <2>13. EffectOK'
      BY <1>5, <2>1, <2>6, <2>7, <2>8 DEF IInv, Core, EffectOK
    <2>14. SendOK'
      BY <1>5, <2>1, <2>6, <2>7, <2>8, <2>10, <2>11
         DEF IInv, Core, SendOK, NotYet
    <2>15. Core'
      BY <2>4, <2>9, <2>13, <2>14 DEF Core
    <2> QED BY <1>2, <1>6, <1>7, <2>6, <2>12, <2>15, ExecStep
            DEF BeginExecution, providerVars, IInv, TypeOK
  <1> QED BY <1>8, <1>9

LEMMA PerformStep ==
  ASSUME IInv, NEW x \in Executions, NEW lands \in BOOLEAN, Perform(x, lands)
  PROVE  StepOK
  <1>1. PICK a \in Actions : a = exec.id
    BY DEF Perform, IInv, Core, ExecOK
  <1>2. /\ exec.pc = "running"
        /\ x = "applied" => lands \/ (Kind[a] # "send" /\ effect[a] > 0)
        /\ x \in {"not_applied", "retry"} => ~lands
        /\ ledger' = ledger
        /\ counted' = counted
        /\ answered401' = IF x = "uncertain" THEN answered401 \cup {a}
                          ELSE answered401
    BY <1>1 DEF Perform
  <1>3. effect \in [Actions -> Nat] /\ inflight \subseteq Actions
        /\ exec \in Executor
    BY DEF IInv, TypeOK
  <1>4. /\ lands => effect' = [effect EXCEPT ![a] = effect[a] + 1]
        /\ ~lands => effect' = effect
    BY <1>1 DEF Perform
  <1>5. /\ x = "ambiguous" /\ ~lands => inflight' = inflight \cup {a}
        /\ ~(x = "ambiguous" /\ ~lands) => inflight' = inflight
    BY <1>1 DEF Perform
  <1>6. exec' = [exec EXCEPT !.pc = "ran", !.result = x]
    BY DEF Perform
  <1>7. /\ exec' \in Executor
        /\ exec'.pc = "ran" /\ exec'.id = a /\ exec'.result = x
    BY <1>1, <1>3, <1>6 DEF Executor, Pcs
  <1>8. /\ effect' \in [Actions -> Nat]
        /\ inflight' \subseteq Actions
        /\ answered401' \subseteq Actions
    BY <1>1, <1>3, <1>4, <1>5 DEF Perform, IInv, TypeOK
  <1>9. \A b \in Actions : b # a =>
          /\ effect'[b] = effect[b]
          /\ b \in inflight' <=> b \in inflight
          /\ b \in answered401' <=> b \in answered401
    BY <1>2, <1>3, <1>4, <1>5
  <1>10. /\ lands => effect'[a] = effect[a] + 1
         /\ ~lands => effect'[a] = effect[a]
         /\ effect[a] \in Nat
    BY <1>3, <1>4
  <1>11. \A b \in Actions : Entry(b)' = Entry(b)
    BY <1>2 DEF Entry
  <1>12. /\ Entry(a).state = "executing"
         /\ Entry(a).approval # None
         /\ Kind[a] = "send" => NotYet(a)
    <2>1. Entry(a).state = "executing"
      BY <1>1, <1>2 DEF IInv, Core, ExecOK
    <2>2. Entry(a).approval # None
      BY <2>1 DEF IInv, Core, LedgerOK, EntryOK, Entry, Committed
    <2>3. Kind[a] = "send" => NotYet(a)
      BY <1>1, <1>2 DEF IInv, Core, SendOK
    <2> QED BY <2>1, <2>2, <2>3
  <1>13. ExecOK'
    BY <1>7, <1>11, <1>12 DEF ExecOK, Entry
  <1>14. EffectOK'
    <2>1. x = "applied" => effect'[a] > 0
      BY <1>2, <1>10
    <2>2. Entry(a)'.state # "done"
      BY <1>11, <1>12
    <2> QED BY <1>7, <1>9, <1>11, <1>12, <2>1, <2>2
            DEF IInv, Core, EffectOK
  <1>15. SendOK'
    <2>1. ASSUME Kind[a] = "send"
          PROVE  /\ effect'[a] \in {0, 1}
                 /\ a \in inflight' => effect'[a] = 0
                 /\ x \in {"not_applied", "retry"} => NotYet(a)'
      BY <1>2, <1>5, <1>10, <1>12, <2>1 DEF NotYet
    <2>2. Entry(a)'.state \in Committed
      BY <1>11, <1>12 DEF Committed
    <2> QED BY <1>7, <1>9, <1>11, <2>1, <2>2 DEF IInv, Core, SendOK, NotYet
  <1>16. Core'
    BY <1>2, <1>13, <1>14, <1>15 DEF IInv, Core
  <1> QED BY <1>2, <1>7, <1>8, <1>16, ExecStep, SameOver
          DEF Perform, IInv, TypeOK

LEMMA LandLateStep ==
  ASSUME IInv, NEW a \in Actions, LandLate(a)
  PROVE  StepOK
  <1>1. /\ a \in inflight
        /\ inflight' = inflight \ {a}
        /\ effect' = [effect EXCEPT ![a] = effect[a] + 1]
        /\ ledger' = ledger /\ exec' = exec /\ answered401' = answered401
    BY DEF LandLate, accountVars
  <1>2. effect \in [Actions -> Nat] /\ inflight \subseteq Actions
    BY DEF IInv, TypeOK
  <1>3. effect' \in [Actions -> Nat] /\ inflight' \subseteq Actions
    BY <1>1, <1>2
  <1>4. /\ effect'[a] = effect[a] + 1 /\ effect[a] \in Nat
        /\ \A b \in Actions : b # a => /\ effect'[b] = effect[b]
                                       /\ b \in inflight' <=> b \in inflight
    BY <1>1, <1>2
  <1>5. \A b \in Actions : Entry(b)' = Entry(b)
    BY <1>1 DEF Entry
  <1>6. ExecOK'
    BY <1>1 DEF IInv, Core, ExecOK, Entry
  <1>7. EffectOK'
    BY <1>1, <1>4, <1>5 DEF IInv, Core, EffectOK
  <1>8. SendOK'
    <2>1. Kind[a] = "send" => /\ effect[a] = 0
                              /\ Entry(a).state \in Committed
                              /\ ~(exec.pc = "running" /\ exec.id = a)
                              /\ ~(/\ exec.pc = "ran" /\ exec.id = a
                                   /\ exec.result \in {"not_applied", "retry"})
      BY <1>1 DEF IInv, Core, SendOK, NotYet
    <2> QED BY <1>1, <1>4, <1>5, <2>1 DEF IInv, Core, SendOK, NotYet
  <1>9. Core'
    BY <1>1, <1>6, <1>7, <1>8 DEF IInv, Core
  <1> QED BY <1>1, <1>3, <1>9, ExecStep, SameOver
          DEF LandLate, accountVars, IInv, TypeOK

LEMMA MarkSentStep ==
  ASSUME IInv, MarkSent
  PROVE  StepOK
  <1>1. PICK a \in Actions : a = exec.id
    BY DEF MarkSent, IInv, Core, ExecOK
  <1>2. /\ exec.pc = "ran" /\ exec.result = "applied"
        /\ exec' = [exec EXCEPT !.pc = "copying"]
        /\ UNCHANGED <<effect, inflight, answered401>>
    BY DEF MarkSent, Sent, providerVars
  <1>3. /\ ledger' \in MailState
        /\ Alone(ledger, ledger', a)
        /\ ledger'.actions[a].state = "done"
    <2>1. ledger' = mark_sent(ledger, a, now)
      BY <1>1 DEF MarkSent
    <2>2. ledger \in MailState /\ now \in Nat
      BY DEF IInv, TypeOK
    <2> QED BY <2>1, <2>2, MarkSentType
  <1>4. /\ exec' \in Executor
        /\ exec'.pc = "copying" /\ exec'.id = a
    BY <1>1, <1>2 DEF IInv, TypeOK, Executor, Pcs
  <1>5. Entry(a).state = "executing" /\ effect[a] > 0
    BY <1>1, <1>2 DEF IInv, Core, ExecOK, EffectOK
  <1>6. LedgerOK(ledger')
    <2>1. EntryOK(ledger.actions[a])
      BY DEF IInv, Core, LedgerOK
    <2>2. ledger.actions[a].state \in Committed /\ "done" \in Over
      BY <1>5 DEF Entry, Committed, Over
    <2>3. EntryOK(ledger'.actions[a])
      BY <1>3, <2>1, <2>2, UnderWayOK DEF Alone
    <2> QED BY <1>3, <2>3, AloneOK DEF IInv, Core
  <1>7. \A b \in Actions : b # a => Entry(b)' = Entry(b)
    BY <1>3 DEF Alone, Entry
  <1>8. Entry(a)'.approval = Entry(a).approval /\ Entry(a)'.state = "done"
    BY <1>3 DEF Alone, Entry
  <1>9. ExecOK'
    BY <1>4, <1>8 DEF ExecOK, Entry
  <1>10. EffectOK'
    BY <1>2, <1>4, <1>5, <1>7, <1>8 DEF IInv, Core, EffectOK
  <1>11. SendOK'
    <2>1. "done" \in Committed
      BY DEF Committed
    <2> QED BY <1>2, <1>4, <1>7, <1>8, <2>1 DEF IInv, Core, SendOK, NotYet
  <1>12. Core'
    BY <1>6, <1>9, <1>10, <1>11 DEF Core
  <1>13. OverKept
    BY <1>3, <1>5, AloneOver DEF Over
  <1> QED BY <1>3, <1>4, <1>12, <1>13, ExecStep
          DEF MarkSent, providerVars, IInv, TypeOK

LEMMA FinishExecutionStep ==
  ASSUME IInv, FinishExecution
  PROVE  StepOK
  <1>1. PICK a \in Actions : a = exec.id
    BY DEF FinishExecution, IInv, Core, ExecOK
  <1> DEFINE x == IF exec.pc = "copied" THEN "applied" ELSE exec.result
             copy == IF exec.pc = "copied" THEN exec.result ELSE "none"
             e == ledger.actions[a]
             f == ledger'.actions[a]
  <1>2. /\ exec.pc \in {"ran", "copied"}
        /\ exec' = Idle
        /\ counted' = FALSE
        /\ UNCHANGED <<effect, inflight, answered401>>
    BY DEF FinishExecution, providerVars
  <1>3. ledger' = finish_execution(ledger, a, x, copy, exec.resume, now)
    BY <1>1, <1>2 DEF FinishExecution
  <1>4. /\ x \in {"applied", "not_applied", "retry", "ambiguous", "uncertain"}
        /\ copy \in SentCopies
    BY <1>2 DEF IInv, Core, ExecOK, Executions, SentCopies
  <1>5. /\ ledger \in MailState /\ now \in Nat /\ exec.resume \in Resumes
        /\ effect[a] \in Nat
    BY DEF IInv, TypeOK, Executor
  <1>6. x = "applied" => effect[a] > 0
    <2>1. CASE exec.pc = "copied"
      BY <1>1, <2>1 DEF IInv, Core, ExecOK, EffectOK
    <2>2. CASE exec.pc = "ran"
      BY <1>1, <2>2 DEF IInv, Core, EffectOK
    <2> QED BY <1>2, <2>1, <2>2
  <1>7. Kind[a] = "send" /\ x \in {"not_applied", "retry"} => NotYet(a)
    BY <1>1, <1>2 DEF IInv, Core, SendOK
  <1>8. e.state \in {"executing", "done"} /\ (x # "applied" =>
                                               e.state = "executing")
    BY <1>1, <1>2 DEF IInv, Core, ExecOK, Entry
  <1> HIDE DEF x, copy
  <1>9. /\ ledger' \in MailState
        /\ Alone(ledger, ledger', a)
        /\ x = "applied" => f.state = "done"
        /\ x \in {"not_applied", "retry"} => f.state \in {"approved", "failed"}
        /\ x \in {"ambiguous", "uncertain"} => f.state = e.state
    BY <1>3, <1>4, <1>5, FinishExecutionType
  <1>10. EntryOK(f)
    <2>1. EntryOK(e) /\ e.state \in {"approved"} \cup Committed
      BY <1>8 DEF IInv, Core, LedgerOK, Committed
    <2>2. f.approval = e.approval /\ f.swept = e.swept
      BY <1>9 DEF Alone
    <2>3. \/ f.state \in Over
          \/ f.state \in {"approved", "executing"} /\ e.state \notin Over
      BY <1>4, <1>8, <1>9 DEF Over
    <2> QED BY <2>1, <2>2, <2>3, UnderWayOK
  <1>11. Entry(a)' = f
    BY DEF Entry
  <1>12. f.state = "done" => effect[a] > 0
    BY <1>4, <1>6, <1>8, <1>9
  <1>13. Kind[a] = "send" => NotYet(a) \/ f.state \in Committed
    BY <1>4, <1>7, <1>8, <1>9 DEF Committed
  <1>14. Core'
    <2> HIDE DEF f
    <2> QED BY <1>2, <1>9, <1>10, <1>11, <1>12, <1>13, SettleCore DEF f
  <1>15. OverKept
    <2>1. e.state \in Over => f.state = e.state
      BY <1>4, <1>8, <1>9 DEF Over
    <2> QED BY <1>9, <2>1, AloneOver DEF Entry
  <1> QED BY <1>2, <1>9, <1>14, <1>15, ExecStep, IdleType
          DEF FinishExecution, providerVars, IInv, TypeOK

-----------------------------------------------------------------------------
(* Crashes, and the world *)

LEMMA CrashStep ==
  ASSUME IInv, Crash
  PROVE  StepOK
  <1>1. /\ ledger' = ledger /\ effect' = effect
        /\ answered401' = answered401
        /\ exec'.pc = "idle" /\ exec' \in Executor
        /\ inflight' = IF exec.pc = "running" THEN inflight \cup {exec.id}
                       ELSE inflight
    BY IdleType DEF Crash
  <1>2. exec.pc = "running" =>
          /\ exec.id \in Actions
          /\ Entry(exec.id).state = "executing"
    BY DEF IInv, Core, ExecOK
  <1>3. inflight' \subseteq Actions
    BY <1>1, <1>2 DEF IInv, TypeOK
  <1>4. NoRework \in Rework
    BY DEF NoRework, Rework
  <1>5. TypeOK'
    <2>1. /\ phase' = "down" /\ draft' = None /\ again' \in Rework
          /\ counted' = FALSE /\ crashes' = crashes + 1
          /\ UNCHANGED <<ledger, policy, now, draining, chatVars, effect,
                         intact, answered401>>
      BY <1>4 DEF Crash
    <2>2. crashes' \in Nat
      BY <2>1 DEF IInv, TypeOK
    <2> QED BY <1>1, <1>3, <2>1, <2>2 DEF IInv, TypeOK, chatVars
  <1>6. HubOK'
    BY DEF Crash, chatVars, IInv, HubOK
  <1>7. ExecOK'
    BY <1>1 DEF ExecOK
  <1>8. EffectOK'
    <2>1. exec.pc = "running" => Entry(exec.id).approval # None
      BY <1>2 DEF IInv, Core, LedgerOK, EntryOK, Entry, Committed
    <2> QED BY <1>1, <1>2, <2>1 DEF IInv, Core, EffectOK, Entry
  <1>9. SendOK'
    <2>1. exec.pc = "running" /\ Kind[exec.id] = "send" =>
            effect[exec.id] = 0 /\ Entry(exec.id).state \in Committed
      BY <1>2 DEF IInv, Core, SendOK, NotYet, Committed
    <2> QED BY <1>1, <1>2, <2>1 DEF IInv, Core, SendOK, NotYet, Entry
  <1> QED BY <1>1, <1>5, <1>6, <1>7, <1>8, <1>9, SameOver
          DEF IInv, Core, StepOK

LEMMA WorldSteps ==
  ASSUME IInv,
         \/ \E a \in Actions : ContentChanges(a)
         \/ \E b \in BOOLEAN : SetDrain(b)
         \/ Tick
  PROVE  StepOK
  <1>1. /\ UNCHANGED <<accountVars, chatVars, effect, inflight, answered401,
                       crashes>>
        /\ intact' \subseteq intact
        /\ now' \in {now, now + 1}
        /\ draining' \in BOOLEAN
    BY DEF ContentChanges, SetDrain, Tick, hostVars, providerVars, IInv, TypeOK
  <1>2. TypeOK'
    BY <1>1 DEF IInv, TypeOK, accountVars, chatVars
  <1>3. HubOK'
    BY <1>1 DEF IInv, HubOK, chatVars
  <1>4. Core'
    BY <1>1, QuietCore, QuietSame DEF IInv, accountVars
  <1> QED BY <1>1, <1>2, <1>3, <1>4, SameOver DEF IInv, accountVars, StepOK

LEMMA StutterStep ==
  ASSUME IInv, UNCHANGED vars
  PROVE  StepOK
  <1>1. TypeOK'
    BY DEF vars, accountVars, hostVars, chatVars, providerVars, IInv, TypeOK
  <1>2. HubOK'
    BY DEF vars, chatVars, IInv, HubOK
  <1>3. Core'
    BY QuietCore, QuietSame DEF vars, accountVars, providerVars, IInv
  <1> QED BY <1>1, <1>2, <1>3, SameOver DEF IInv, vars, accountVars, StepOK

-----------------------------------------------------------------------------
(* The theorems *)

LEMMA InitIInv ==
  ASSUME Init
  PROVE  IInv
  <1>1. EmptyState \in MailState
    <2>1. \A a \in Actions : absent_entry \in ActionEntry
      BY AbsentEntryType
    <2>2. "none" \in Texts
      BY DEF Texts
    <2> QED BY <2>1, <2>2 DEF EmptyState, MailState
  <1>2. \A n \in Routes \X BatchKeys : NoNotice \in Notice
    BY Members DEF NoNotice, Notice
  <1>3. TypeOK
    <2>1. policy \in Policy
      BY MailActionsConstants DEF Init
    <2>2. NoRework \in Rework
      BY DEF NoRework, Rework
    <2>3. 0 \in 0 .. Cardinality(BatchKeys)
      BY MailActionsConstants
    <2> QED BY <1>1, <1>2, <2>1, <2>2, <2>3, IdleType DEF Init, TypeOK
  <1>4. HubOK
    BY DEF Init, HubOK, NoNotice
  <1>5. \A a \in Actions : Entry(a) = absent_entry
    BY DEF Init, EmptyState, Entry
  <1>6. LedgerOK(ledger)
    BY <1>5 DEF LedgerOK, EntryOK, Entry, absent_entry, Committed
  <1>7. ExecOK
    BY IdleType DEF Init, ExecOK
  <1>8. EffectOK
    BY <1>5 DEF Init, EffectOK, Idle, absent_entry
  <1>9. SendOK
    BY DEF Init, SendOK, NotYet, Idle
  <1> QED BY <1>3, <1>4, <1>6, <1>7, <1>8, <1>9 DEF IInv, Core

LEMMA NextStep ==
  ASSUME IInv, [Next]_vars
  PROVE  StepOK
  <1>1. CurrentCodes(ledger) \in SUBSET Codes
    <2>1. \A a \in Actions : ledger.actions[a].generation \in Nat
      BY EntryType DEF IInv, TypeOK, ActionEntry
    <2> QED BY <2>1 DEF CurrentCodes, Codes
  <1>2. /\ Lossy \subseteq Routes /\ Unsteady \subseteq Routes
        /\ Removable \subseteq Actions /\ Restarts \subseteq BOOLEAN
    BY MailActionsConstants
  <1>3. CASE Account
    BY <1>1, <1>3, WorkerSteps, NotifierSteps, HandOverSteps, AuthoritySteps,
       CrashStep DEF Account
  <1>4. CASE Execute
    BY <1>4, PickSteps, ProbedStep, BeginExecutionStep, PerformStep,
       MarkSentStep, FinishExecutionStep DEF Execute
  <1>5. CASE Start
    BY <1>5, StartSteps
  <1>6. CASE World
    BY <1>2, <1>6, ChatSteps, LandLateStep, WorldSteps DEF World
  <1>7. CASE UNCHANGED vars
    BY <1>7, StutterStep
  <1> QED BY <1>3, <1>4, <1>5, <1>6, <1>7 DEF Next

\* The inductive invariant holds in every reachable state.
THEOREM Invariance == Spec => []IInv
  <1>1. Init => IInv
    BY InitIInv
  <1>2. IInv /\ [Next]_vars => IInv'
    BY NextStep DEF StepOK
  <1> QED BY <1>1, <1>2, PTL DEF Spec

\* Every variable of an account, its chats and its provider keeps its type:
\* whatever is saved, and whatever the settings of the next start, the ledger
\* is one the code can load.
THEOREM TypeCorrect == Spec => []TypeOK
  <1>1. IInv => TypeOK
    BY DEF IInv
  <1> QED BY <1>1, Invariance, PTL

\* A send goes out at most once: however often the account crashes, whenever
\* a request it lost sight of is carried out, and whatever its checks and
\* retries do (begin_execution, finish_execution, probed, recover).
THEOREM SendsOnce == Spec => []SendAtMostOnce
  <1>1. IInv => SendAtMostOnce
    <2>1. SUFFICES ASSUME IInv, NEW a \in Actions, Kind[a] = "send"
                   PROVE  effect[a] + (IF a \in inflight THEN 1 ELSE 0) <= 1
      BY DEF SendAtMostOnce
    <2>2. effect[a] \in {0, 1} /\ (a \in inflight => effect[a] = 0)
      BY <2>1 DEF IInv, Core, SendOK
    <2> QED BY <2>2
  <1> QED BY <1>1, Invariance, PTL

\* A send the ledger holds as not done has not gone out and will not
\* (finish_execution tells a refusal from a lost answer, probed never takes
\* a send for not done).
THEOREM NotDoneIsTrue == Spec => []SendTruth
  <1>1. IInv => SendTruth
    BY DEF IInv, Core, SendOK, NotYet, SendTruth, Committed
  <1> QED BY <1>1, Invariance, PTL

\* A send answered HTTP 401 is never under way again, whatever is crashed,
\* recovered or checked after (Execution::Uncertain; probed takes no send for
\* not done).
THEOREM NoSendAgain == Spec => []Never401Again
  <1>1. IInv => Never401Again
    BY DEF IInv, Core, SendOK, NotYet, Never401Again, TypeOK
  <1> QED BY <1>1, Invariance, PTL

\* What the ledger holds as done happened, and nothing happens that was not
\* approved (mark_sent, finish_execution, probed; begin_execution).
THEOREM DoneIsTrue == Spec => []DoneHappened
  <1>1. IInv => DoneHappened
    BY DEF IInv, Core, EffectOK, DoneHappened
  <1> QED BY <1>1, Invariance, PTL

\* No step changes how an action ended or forgets who approved it, though
\* mark_sent and finish_execution write without looking at the state.
THEOREM EndsAreFinal == Spec => OverIsFinal
  <1>1. IInv /\ [Next]_vars => [OverKept]_vars
    BY NextStep DEF StepOK
  <1> QED BY <1>1, Invariance, PTL DEF Spec, OverIsFinal, OverKept

-----------------------------------------------------------------------------
(* The drain of a planned restart *)

\* An action counts as under way from begin_execution to finish_execution.
CountedOK == counted <=> exec.pc \in {"counted"} \cup UnderWay

\* A step that counts nothing keeps the count true.
LEMMA CountKept ==
  ASSUME CountedOK, UNCHANGED <<exec, counted>>
  PROVE  CountedOK' /\ (~counted => ~counted')
  BY DEF CountedOK, UnderWay

\* An action is counted only while the flag is down, and only Count counts.
LEMMA CountedStep ==
  ASSUME IInv, CountedOK, [Next]_vars
  PROVE  CountedOK' /\ (draining /\ ~counted => ~counted')
  <1> DEFINE Goal == CountedOK' /\ (draining /\ ~counted => ~counted')
  <1>1. exec \in Executor /\ counted \in BOOLEAN /\ draining \in BOOLEAN
    BY DEF IInv, TypeOK
  <1>2. Idle.pc \notin {"counted"} \cup UnderWay
    BY DEF Idle, UnderWay
  <1>3. ASSUME NEW pc \in Pcs, exec' = [exec EXCEPT !.pc = pc]
        PROVE  exec'.pc = pc
    BY <1>1, <1>3 DEF Executor
  <1>4. CASE Account /\ ~Crash
    <2>1. UNCHANGED <<exec, counted>>
      BY <1>4 DEF Account, StartRequest, Propose, DropRequest, Suggest,
         SetPossible, BeginBatch, HandOver, HandOverUnseen, Dissolve,
         SettleWatched, SnapshotAgain, PreviewAgain, Approve, Deny, Cancel,
         Expire, Prune, SweepActions, accountVars
    <2> QED BY <2>1, CountKept
  <1>5. CASE Crash
    BY <1>2, <1>5 DEF Crash, CountedOK
  <1>6. CASE Execute
    <2>1. ASSUME NEW a \in Actions, StartProbe(a) \/ Pick(a) PROVE Goal
      <3>1. exec.pc = "idle" /\ counted' = counted
        BY <2>1 DEF StartProbe, Pick
      <3>2. exec'.pc \in {"probing", "picked"}
        BY <2>1 DEF StartProbe, Pick, Idle
      <3> QED BY <3>1, <3>2 DEF CountedOK, UnderWay
    <2>2. ASSUME NEW probe, Probed(probe) PROVE Goal
      BY <1>2, <2>2 DEF Probed, CountedOK, UnderWay
    <2>3. CASE Count
      <3>1. ~draining => exec'.pc = "counted"
        BY <1>3, <2>3 DEF Count, Pcs
      <3> QED BY <1>1, <1>2, <2>3, <3>1 DEF Count, CountedOK
    <2>4. CASE BeginExecution
      <3>1. counted' \in BOOLEAN /\ counted
        BY <2>4 DEF BeginExecution, Startable, CountedOK
      <3>2. counted' => exec'.pc = "running"
        BY <1>1, <2>4 DEF BeginExecution, Executor
      <3>3. ~counted' => exec' = Idle
        BY <2>4 DEF BeginExecution
      <3> QED BY <1>2, <3>1, <3>2, <3>3 DEF CountedOK, UnderWay
    <2>5. ASSUME NEW x, NEW lands, Perform(x, lands) PROVE Goal
      <3>1. exec'.pc = "ran" /\ exec.pc = "running" /\ counted' = counted
        BY <1>1, <2>5 DEF Perform, Executor
      <3> QED BY <3>1 DEF CountedOK, UnderWay
    <2>6. CASE MarkSent
      <3>1. exec'.pc = "copying" /\ exec.pc = "ran" /\ counted' = counted
        BY <1>1, <2>6 DEF MarkSent, Executor
      <3> QED BY <3>1 DEF CountedOK, UnderWay
    <2>7. ASSUME NEW copy, CopySent(copy) PROVE Goal
      <3>1. exec'.pc = "copied" /\ exec.pc = "copying" /\ counted' = counted
        BY <1>1, <2>7 DEF CopySent, Executor
      <3> QED BY <3>1 DEF CountedOK, UnderWay
    <2>8. CASE FinishExecution
      BY <1>2, <2>8 DEF FinishExecution, CountedOK
    <2> QED BY <1>6, <2>1, <2>2, <2>3, <2>4, <2>5, <2>6, <2>7, <2>8
            DEF Execute
  <1>7. CASE Start
    <2>1. UNCHANGED <<exec, counted>>
      BY <1>7 DEF Start, Restart, StartSweep, StartTasks
    <2> QED BY <2>1, CountKept
  <1>8. CASE World
    <2>1. UNCHANGED <<exec, counted>>
      BY <1>8 DEF World, Deliver, Refuse, DeliverUnrecorded, StopChat,
         StartChat, Say, LandLate, ContentChanges, SetDrain, Tick, accountVars
    <2> QED BY <2>1, CountKept
  <1>9. CASE UNCHANGED vars
    BY <1>9, CountKept DEF vars, accountVars
  <1> QED BY <1>4, <1>5, <1>6, <1>7, <1>8, <1>9 DEF Next

\* Once the drain flag is up and nothing is counted as under way, nothing is
\* and nothing starts while it is up (Hub::mail_executing, read by a planned
\* restart; MailRegistration::begin_execution).
THEOREM DrainIsKept == Spec => DrainHolds
  <1>1. Init => CountedOK
    BY DEF Init, Idle, CountedOK, UnderWay
  <1>2. IInv /\ CountedOK /\ [Next]_vars => CountedOK'
    BY CountedStep
  <1>3. Spec => []CountedOK
    BY <1>1, <1>2, Invariance, PTL DEF Spec
  <1>4. IInv /\ CountedOK /\ CountedOK' /\ [Next]_vars =>
          [draining /\ ~counted =>
             ~counted' /\ exec.pc \notin UnderWay
                       /\ exec'.pc \notin UnderWay]_vars
    BY CountedStep DEF CountedOK
  <1> QED BY <1>3, <1>4, Invariance, PTL DEF Spec, DrainHolds
=============================================================================
