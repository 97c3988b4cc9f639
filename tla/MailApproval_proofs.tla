------------------------ MODULE MailApproval_proofs ------------------------
(***************************************************************************)
(* Every approval of a mail action is an informed one, for any number of   *)
(* actions, chats, people, re-issued codes and crashes.                    *)
(*                                                                         *)
(* The inductive invariant PreviewInv follows a preview from its queue to  *)
(* the approval: what is queued shows current codes (QueuedOK), a batch is *)
(* of the queue and its key is its own (BatchOK, PreviewOK), what a chat   *)
(* stored is for its owner and was seen when delivered (NoticeOK), and a   *)
(* stored, open or approved action has its preview with its person         *)
(* (ShownOK).  Of alternatives it follows that a preview was seen, and     *)
(* GivenOK, that no code is shown before it is given, that it was the one  *)
(* preview of an action whose code never changed.                          *)
(***************************************************************************)
EXTENDS MailActions_proofs

\* c is a code of a; its current one, if a has no alternatives.
Names(c, a, e) == c[1] = a /\ (Siblings(a) = {} => c[2] = e.generation)

Sighted(a, e, route, peer, at) ==
  \E s \in seen : /\ Names(s.code, a, e)
                  /\ s.route = route
                  /\ s.peer = peer
                  /\ s.at <= at

\* An entry e of a, as far as its preview got.
NotYetApproved(e) == waiting(e) => e.approval = None
ApprovedShown(a, e) ==
  e.approval # None =>
    Sighted(a, e, e.approval.route, e.approval.peer, e.approval.sent)
OpenShown(a, e) ==
  e.state = "open" => /\ e.delivered # NoTime
                      /\ Sighted(a, e, e.route, e.peer, e.delivered)
StoredShown(a, e) ==
  e.state = "previewing" /\ e.stored =>
    /\ e.route # None
    /\ hub[<<e.route, e.key>>].status # "absent" =>
         /\ hub[<<e.route, e.key>>].peer = e.peer
         /\ \E c \in hub[<<e.route, e.key>>].codes : Names(c, a, e)
EntryShown(a, e) ==
  NotYetApproved(e) /\ ApprovedShown(a, e) /\ OpenShown(a, e)
                    /\ StoredShown(a, e)

ShownOK == \A a \in Actions : EntryShown(a, Entry(a))

\* A stored notice is for the chat's owner; a delivered one reached them.
NoticeShown(r, k) ==
  hub[<<r, k>>].status # "absent" =>
    /\ k <= drawn
    /\ hub[<<r, k>>].peer = owner[r]
    /\ hub[<<r, k>>].status = "delivered" =>
         \A c \in hub[<<r, k>>].codes : \E s \in seen :
           /\ s.code = c
           /\ s.route = r
           /\ s.peer = hub[<<r, k>>].peer
           /\ s.at <= hub[<<r, k>>].at
NoticeOK == \A r \in Routes, k \in BatchKeys : NoticeShown(r, k)

\* The batch is of what is queued, and a chat that has its key has its codes.
BatchOK ==
  /\ \A w \in ledger.watched : w.key <= drawn
  /\ ledger.batch # None =>
       /\ ledger.batch.key <= drawn
       /\ ledger.batch.items \subseteq ledger.queue
       /\ \A w \in ledger.watched : w.key # ledger.batch.key
       /\ \A r \in Routes :
            hub[<<r, ledger.batch.key>>].status # "absent" =>
              hub[<<r, ledger.batch.key>>].codes
                = UNION {i.codes : i \in ledger.batch.items}

\* An action being previewed is in the batch, or was stored under an earlier
\* key, which is watched in the chat the entry names.
PreviewOK(a) ==
  Entry(a).state = "previewing" =>
    /\ Entry(a).key # NoKey
    /\ Entry(a).key <= drawn
    /\ ~Entry(a).stored =>
         ledger.batch # None /\ Entry(a).key = ledger.batch.key
    /\ ledger.batch # None /\ Entry(a).key = ledger.batch.key =>
         /\ ~Entry(a).stored
         /\ \E i \in ledger.batch.items : \E c \in i.codes :
              Names(c, a, Entry(a))
    /\ Entry(a).stored =>
         \A w \in ledger.watched :
           w.key = Entry(a).key => w.route = Entry(a).route

\* An action without alternatives is queued once, under its current code,
\* and not while its preview is stored or is about to be made again.
Queued(a) == {i \in ledger.queue : a \in Previews(i)}
QueuedOK(a) ==
  Siblings(a) = {} =>
    /\ \A i \in ledger.queue : \A c \in i.codes :
         c[1] = a => Entry(a).state # "absent" /\ c[2] = Entry(a).generation
    /\ \A i, j \in Queued(a) : i = j
    /\ Entry(a).state = "previewing" /\ Entry(a).stored => Queued(a) = {}
    /\ a \in again.ids => /\ Entry(a).state \notin {"absent", "previewing"}
                          /\ Queued(a) = {}

\* Every code queued, stored or seen was given out: an action not recorded yet
\* has none.
Given(c) == c[2] \in Nat /\ 1 <= c[2] /\ c[2] <= Entry(c[1]).generation
Numbered(e) == e.state = "absent" <=> e.generation = 0
GivenOK ==
  /\ \A a \in Actions : Numbered(Entry(a))
  /\ \A a \in again.proposed : Entry(a).state # "absent"
  /\ \A i \in ledger.queue : \A c \in i.codes : Given(c)
  /\ \A r \in Routes, k \in BatchKeys : \A c \in hub[<<r, k>>].codes : Given(c)
  /\ \A s \in seen : Given(s.code)

PreviewInv ==
  /\ ShownOK
  /\ NoticeOK
  /\ BatchOK
  /\ \A a \in Actions : PreviewOK(a)
  /\ \A a \in Actions : QueuedOK(a)
  /\ GivenOK

-----------------------------------------------------------------------------
(* Changes of an entry that leave its preview as it was *)

\* A change that previews nothing and gives no code.
Tame(e, f) ==
  /\ f.generation = e.generation
  /\ f.state = "absent" <=> e.state = "absent"
  /\ f.state = "previewing" =>
       /\ e.state = "previewing"
       /\ f.key = e.key
       /\ f.stored = e.stored
       /\ e.route # None => f.route = e.route

CalmEntry(e, f) ==
  /\ Tame(e, f)
  /\ f.approval = e.approval
  /\ waiting(f) => waiting(e)
  /\ f.state = "previewing" => f.peer = e.peer
  /\ f.state = "open" => /\ e.state = "open"
                         /\ f.route = e.route
                         /\ f.peer = e.peer
                         /\ f.delivered = e.delivered

\* A change that, whether calm or not, is of something shown.
KeptEntry(a, e, f) ==
  /\ Tame(e, f)
  /\ EntryShown(a, e) => EntryShown(a, f)

Calm(L, M) ==
  /\ SameNotices(L, M)
  /\ \A a \in Actions : CalmEntry(L.actions[a], M.actions[a])
Kept(L, M) ==
  /\ SameNotices(L, M)
  /\ \A a \in Actions : KeptEntry(a, L.actions[a], M.actions[a])

LEMMA CalmKeeps ==
  ASSUME NEW a, NEW e, NEW f, CalmEntry(e, f)
  PROVE  KeptEntry(a, e, f)
  <1>1. SUFFICES ASSUME EntryShown(a, e) PROVE EntryShown(a, f)
    BY DEF KeptEntry, CalmEntry
  <1>2. NotYetApproved(f)
    BY <1>1 DEF CalmEntry, EntryShown, NotYetApproved
  <1>3. f.generation = e.generation
    BY DEF CalmEntry, Tame
  <1>4. ApprovedShown(a, f)
    BY <1>1, <1>3 DEF CalmEntry, EntryShown, ApprovedShown, Sighted, Names
  <1>5. OpenShown(a, f)
    BY <1>1, <1>3 DEF CalmEntry, EntryShown, OpenShown, Sighted, Names
  <1>6. StoredShown(a, f)
    BY <1>1, <1>3 DEF CalmEntry, Tame, EntryShown, StoredShown, Names
  <1> QED BY <1>2, <1>4, <1>5, <1>6 DEF EntryShown

LEMMA CalmIsKept ==
  ASSUME NEW L, NEW M, Calm(L, M)
  PROVE  Kept(L, M)
  BY CalmKeeps DEF Calm, Kept

LEMMA CalmSame ==
  ASSUME NEW L, NEW M, M.actions = L.actions, SameNotices(L, M)
  PROVE  Calm(L, M)
  BY DEF Calm, CalmEntry, Tame

LEMMA CalmItself ==
  ASSUME NEW e PROVE CalmEntry(e, e)
  BY DEF CalmEntry, Tame

LEMMA CalmEntryTrans ==
  ASSUME NEW e, NEW f, NEW g, CalmEntry(e, f), CalmEntry(f, g)
  PROVE  CalmEntry(e, g)
  BY DEF CalmEntry, Tame

LEMMA CalmTrans ==
  ASSUME NEW L, NEW M, NEW N, Calm(L, M), Calm(M, N)
  PROVE  Calm(L, N)
  <1>1. SameNotices(L, N)
    BY DEF Calm, SameNotices
  <1>2. \A a \in Actions : CalmEntry(L.actions[a], N.actions[a])
    BY CalmEntryTrans DEF Calm
  <1> QED BY <1>1, <1>2 DEF Calm

LEMMA KeptTrans ==
  ASSUME NEW L, NEW M, NEW N, Kept(L, M), Kept(M, N)
  PROVE  Kept(L, N)
  <1>1. SameNotices(L, N)
    BY DEF Kept, SameNotices
  <1>2. ASSUME NEW e, NEW f, NEW g, Tame(e, f), Tame(f, g)
        PROVE  Tame(e, g)
    BY <1>2 DEF Tame
  <1>3. \A a \in Actions : KeptEntry(a, L.actions[a], N.actions[a])
    BY <1>2 DEF Kept, KeptEntry
  <1> QED BY <1>1, <1>3 DEF Kept

\* What ends is not previewed again.
LEMMA EndCalm ==
  ASSUME NEW e \in ActionEntry, NEW st \in Over,
         NEW code \in OutcomeCodes \cup {None}, NEW n \in Nat,
         e.state # "absent"
  PROVE  CalmEntry(e, end(e, st, code, n))
  <1> DEFINE f == end(e, st, code, n)
  <1>1. f.state = st /\ f.approval = e.approval
    BY EndType
  <1>2. f.generation = e.generation
    BY EndType
  <1>3. st \notin {"absent", "proposed", "previewing", "open"}
    BY DEF Over
  <1> HIDE DEF f
  <1>4. CalmEntry(e, f)
    BY <1>1, <1>2, <1>3 DEF CalmEntry, Tame, waiting
  <1> QED BY <1>4 DEF f

LEMMA BindCalm ==
  ASSUME NEW e \in ActionEntry, NEW a, NEW p
  PROVE  CalmEntry(e, bind(e, a, p))
  <1> DEFINE f == [e EXCEPT !.route = intended_route(a, p)]
  <1>1. CASE e.route = None /\ e.state \in {"proposed", "previewing"}
    <2>1. /\ f.state = e.state /\ f.approval = e.approval /\ f.key = e.key
          /\ f.stored = e.stored /\ f.peer = e.peer
          /\ f.generation = e.generation
      BY DEF ActionEntry
    <2>2. bind(e, a, p) = f
      BY <1>1 DEF bind
    <2> HIDE DEF f
    <2> QED BY <1>1, <2>1, <2>2 DEF CalmEntry, Tame, waiting
  <1>2. CASE ~(e.route = None /\ e.state \in {"proposed", "previewing"})
    BY <1>2, CalmItself DEF bind
  <1> QED BY <1>1, <1>2

-----------------------------------------------------------------------------
(* Changes of the ledger that are calm *)

LEMMA CalmMap ==
  ASSUME NEW L \in MailState, NEW F \in [Actions -> ActionEntry],
         \A a \in Actions : CalmEntry(L.actions[a], F[a])
  PROVE  /\ Calm(L, [L EXCEPT !.actions = F])
         /\ SameNotices(L, [L EXCEPT !.actions = F])
  <1> DEFINE M == [L EXCEPT !.actions = F]
  <1>1. M.actions = F
    BY ActionsType
  <1>2. SameNotices(L, M)
    BY DEF SameNotices, MailState
  <1> HIDE DEF M
  <1>3. Calm(L, M)
    BY <1>1, <1>2 DEF Calm
  <1> QED BY <1>2, <1>3 DEF M

LEMMA BindAllCalm ==
  ASSUME NEW L \in MailState, NEW p \in Policy
  PROVE  Calm(L, bind_unassigned(L, p))
  <1> DEFINE F == [a \in Actions |-> bind(L.actions[a], a, p)]
  <1>1. F \in [Actions -> ActionEntry]
    BY EntryType, BindType
  <1>2. \A a \in Actions : CalmEntry(L.actions[a], F[a])
    BY EntryType, BindCalm
  <1> QED BY <1>1, <1>2, CalmMap DEF bind_unassigned

LEMMA PruneCalm ==
  ASSUME NEW L \in MailState, NEW n \in Nat
  PROVE  Calm(L, prune(L, n))
  <1>1. prune(L, n).actions = L.actions
    BY DEF prune, MailState
  <1>2. SameNotices(L, prune(L, n))
    BY DEF prune, MailState, SameNotices
  <1> QED BY <1>1, <1>2, CalmSame

LEMMA FinishCalm ==
  ASSUME NEW L \in MailState, NEW S, NEW st \in Over,
         NEW code \in OutcomeCodes \cup {None}, NEW n \in Nat,
         \A a \in Actions : a \in S => L.actions[a].state # "absent"
  PROVE  Calm(L, finish(L, S, st, code, n))
  <1> DEFINE M == finish(L, S, st, code, n)
  <1>1. SameNotices(L, M)
    BY FinishType
  <1>2. \A a \in Actions : a \in S => M.actions[a].state = st
    BY FinishType
  <1>3. \A a \in Actions : a \notin S => M.actions[a] = L.actions[a]
    BY FinishType
  <1>4. \A a \in Actions : M.actions[a].approval = L.actions[a].approval
    BY FinishType
  <1>5. \A a \in Actions : M.actions[a].generation = L.actions[a].generation
    BY FinishType
  <1>6. st \notin {"absent", "proposed", "previewing", "open"}
    BY DEF Over
  <1> HIDE DEF M
  <1>7. ASSUME NEW a \in Actions
        PROVE  CalmEntry(L.actions[a], M.actions[a])
    <2>1. CASE a \in S
      BY <1>2, <1>4, <1>5, <1>6, <2>1 DEF CalmEntry, Tame, waiting
    <2>2. CASE a \notin S
      BY <1>3, <2>2, CalmItself
    <2> QED BY <2>1, <2>2
  <1> QED BY <1>1, <1>7 DEF Calm, M

LEMMA StoppablePresent ==
  ASSUME NEW e, Stoppable(e) \/ waiting(e) \/ terminal(e)
                \/ e.state \in {"approved", "previewing"}
  PROVE  e.state # "absent"
  BY DEF Stoppable, Live, waiting, terminal, Over

LEMMA DenyCalm ==
  ASSUME NEW L \in MailState, NEW codes, NEW ev, NEW ow, NEW n \in Nat, NEW p
  PROVE  Calm(L, deny(L, codes, ev, ow, n, p))
  BY FinishCalm, EndStates, StoppablePresent DEF deny

LEMMA CancelCalm ==
  ASSUME NEW L \in MailState, NEW S, NEW n \in Nat
  PROVE  Calm(L, cancel(L, S, n))
  BY FinishCalm, EndStates, StoppablePresent DEF cancel

LEMMA ExpireCalm ==
  ASSUME NEW L \in MailState, NEW n \in Nat
  PROVE  Calm(L, expire(L, n))
  <1> DEFINE X == Expired(L, n)
             S == Stale(L, n)
             F == [a \in Actions |->
                     IF a \in X THEN end(L.actions[a], "expired", None, n)
                                ELSE L.actions[a]]
             M == [L EXCEPT !.actions = F]
  <1>1. expire(L, n) = finish(M, S, "failed", "stale", n)
    BY DEF expire, Each
  <1>2. \A a \in Actions : a \in X => L.actions[a].state # "absent"
    BY StoppablePresent DEF Expired
  <1>3. \A a \in Actions : a \in S => L.actions[a].state # "absent"
    BY StoppablePresent DEF Stale
  <1> HIDE DEF X, S
  <1>4. F \in [Actions -> ActionEntry] /\ Calm(L, M)
    <2>1. "expired" \in Over /\ None \in OutcomeCodes \cup {None}
      BY EndStates
    <2>2. F \in [Actions -> ActionEntry]
      BY <2>1, EntryType, EndType
    <2>3. \A a \in Actions : CalmEntry(L.actions[a], F[a])
      BY <1>2, <2>1, EntryType, EndCalm, CalmItself
    <2> HIDE DEF F
    <2> QED BY <2>2, <2>3, CalmMap
  <1> HIDE DEF F
  <1>5. M \in MailState
    BY <1>4, ActionsType
  <1> HIDE DEF M
  <1>6. \A a \in Actions : a \in S => M.actions[a].state # "absent"
    BY <1>3, <1>4 DEF Calm, CalmEntry, Tame
  <1>7. Calm(M, finish(M, S, "failed", "stale", n))
    BY <1>5, <1>6, EndStates, CodeMembers, FinishCalm
  <1> QED BY <1>1, <1>4, <1>7, CalmTrans

LEMMA SweepCalm ==
  ASSUME NEW L \in MailState, NEW n \in Nat
  PROVE  Calm(L, sweep_actions(L, n))
  <1> DEFINE S == {a \in Actions : tombstone_due(L.actions[a], n)}
             F == [a \in Actions |->
                     IF a \in S THEN [L.actions[a] EXCEPT !.swept = TRUE]
                                ELSE L.actions[a]]
  <1>1. ASSUME NEW e \in ActionEntry
        PROVE  /\ [e EXCEPT !.swept = TRUE] \in ActionEntry
               /\ CalmEntry(e, [e EXCEPT !.swept = TRUE])
    BY DEF ActionEntry, CalmEntry, Tame, waiting
  <1>2. sweep_actions(L, n) = [L EXCEPT !.actions = F]
    BY DEF sweep_actions, Each
  <1> HIDE DEF S
  <1>3. F \in [Actions -> ActionEntry]
    BY <1>1, EntryType
  <1>4. \A a \in Actions : CalmEntry(L.actions[a], F[a])
    BY <1>1, EntryType, CalmItself
  <1> QED BY <1>2, <1>3, <1>4, CalmMap

LEMMA RecoverCalm ==
  ASSUME NEW L \in MailState, NEW n \in Nat, NEW p \in Policy
  PROVE  Calm(L, recover(L, n, p))
  <1> DEFINE bound == bind_unassigned(L, p)
             W == Withdrawn(bound, p)
             settled == finish(bound, W, "cancelled", None, n)
             kept(e) ==
               CASE e.state = "open" /\ e.delivered # NoTime ->
                      [e EXCEPT !.expiresAt = min(@, e.delivered + p.window)]
                 [] e.state = "executing" -> [e EXCEPT !.probeAfter = n]
                 [] e.state = "done" /\ e.sentCopy = "pending" ->
                      [e EXCEPT !.sentCopy = "failed"]
                 [] OTHER -> e
             F == [a \in Actions |-> IF a \in Actions \ W
                                     THEN kept(settled.actions[a])
                                     ELSE settled.actions[a]]
             resumed == [settled EXCEPT !.actions = F]
             cut == {a \in Actions : /\ bound.actions[a].state = "done"
                                     /\ bound.actions[a].sentCopy = "pending"}
             told == [a \in Actions |->
                        IF a \in cut
                        THEN tell(resumed.told[a], resumed.actions[a])
                        ELSE resumed.told[a]]
             M == [resumed EXCEPT !.told = told]
  <1>1. recover(L, n, p) = M
    BY DEF recover, Each
  <1>2. bound \in MailState /\ Calm(L, bound)
    BY BindUnassignedType, BindAllCalm
  <1>3. \A a \in Actions : a \in W => bound.actions[a].state # "absent"
    BY StoppablePresent DEF Withdrawn
  <1>4. ASSUME NEW e \in ActionEntry
        PROVE  kept(e) \in ActionEntry /\ CalmEntry(e, kept(e))
    <2> DEFINE x == min(e.expiresAt, e.delivered + p.window)
               f == [e EXCEPT !.expiresAt = x]
               g == [e EXCEPT !.probeAfter = n]
               h == [e EXCEPT !.sentCopy = "failed"]
    <2>1. e.delivered # NoTime => x \in Nat
      BY DEF ActionEntry, Policy, Times, min
    <2>2. n \in Times /\ "failed" \in SentCopies
      BY Members DEF SentCopies
    <2> HIDE DEF x
    <2>3. e.delivered # NoTime => f \in ActionEntry
      BY <2>1 DEF ActionEntry
    <2>4. g \in ActionEntry /\ h \in ActionEntry
      BY <2>2 DEF ActionEntry
    <2>5. CalmEntry(e, f)
      BY DEF ActionEntry, CalmEntry, Tame, waiting
    <2>6. CalmEntry(e, g)
      BY DEF ActionEntry, CalmEntry, Tame, waiting
    <2>7. CalmEntry(e, h)
      BY DEF ActionEntry, CalmEntry, Tame, waiting
    <2>8. \/ e.delivered # NoTime /\ kept(e) = f
          \/ kept(e) = g
          \/ kept(e) = h
          \/ kept(e) = e
      BY DEF x
    <2> HIDE DEF f, g, h, kept
    <2> QED BY <2>3, <2>4, <2>5, <2>6, <2>7, <2>8, CalmItself
  <1> HIDE DEF bound, W, kept
  <1>5. settled \in MailState /\ Calm(bound, settled)
    <2>1. "cancelled" \in Over
      BY EndStates
    <2> QED BY <1>2, <1>3, <2>1, FinishType, FinishCalm
  <1> HIDE DEF settled
  <1>6. F \in [Actions -> ActionEntry]
    BY <1>4, <1>5, EntryType
  <1>7. \A a \in Actions : CalmEntry(settled.actions[a], F[a])
    BY <1>4, <1>5, EntryType, CalmItself
  <1> HIDE DEF F
  <1>8. resumed \in MailState /\ Calm(settled, resumed)
    BY <1>5, <1>6, <1>7, CalmMap, ActionsType
  <1> HIDE DEF resumed, cut, told
  <1>9. M.actions = resumed.actions /\ SameNotices(resumed, M)
    BY <1>8 DEF MailState, SameNotices
  <1> HIDE DEF M
  <1>10. Calm(resumed, M)
    BY <1>9, CalmSame
  <1> QED BY <1>1, <1>2, <1>5, <1>8, <1>10, CalmTrans

-----------------------------------------------------------------------------
(* Approving *)

\* When a chat says a notice was delivered, its codes were seen by then.
LEMMA DeliveredShown ==
  ASSUME IInv, NoticeOK, NEW r \in Routes, NEW k \in BatchKeys,
         delivered_at[<<r, k>>] # NoTime
  PROVE  /\ hub[<<r, k>>].status # "absent"
         /\ \A c \in hub[<<r, k>>].codes : \E s \in seen :
              /\ s.code = c
              /\ s.route = r
              /\ s.peer = hub[<<r, k>>].peer
              /\ s.at <= delivered_at[<<r, k>>]
  <1>1. /\ hub[<<r, k>>].status = "delivered"
        /\ delivered_at[<<r, k>>] = hub[<<r, k>>].at
    BY DEF delivered_at, keyed_outcome
  <1> QED BY <1>1 DEF NoticeOK, NoticeShown

\* An entry whose preview was delivered may open.
LEMMA OpenKept ==
  ASSUME IInv, NoticeOK, NEW a \in Actions, NEW e \in ActionEntry,
         NEW p \in Policy, e.state = "previewing", e.stored,
         e.key # NoKey, e.route # None,
         delivered_at[<<e.route, e.key>>] # NoTime
  PROVE  KeptEntry(a, e, open(e, delivered_at[<<e.route, e.key>>], p))
  <1> DEFINE at == delivered_at[<<e.route, e.key>>]
             f == open(e, at, p)
  <1>1. e.route \in Routes /\ e.key \in BatchKeys
    BY DEF ActionEntry
  <1>2. at \in Nat
    BY <1>1, DeliveredType DEF IInv, Deliveries, Times
  <1>3. /\ f.state = "open" /\ f.delivered = at
        /\ f.route = e.route /\ f.peer = e.peer
        /\ f.approval = e.approval /\ f.generation = e.generation
    BY DEF open, ActionEntry
  <1>4. EntryShown(a, e) =>
          \E s \in seen : /\ Names(s.code, a, e)
                          /\ s.route = e.route
                          /\ s.peer = e.peer
                          /\ s.at <= at
    <2>1. /\ hub[<<e.route, e.key>>].status # "absent"
          /\ \A c \in hub[<<e.route, e.key>>].codes : \E s \in seen :
               /\ s.code = c
               /\ s.route = e.route
               /\ s.peer = hub[<<e.route, e.key>>].peer
               /\ s.at <= at
      BY <1>1, DeliveredShown
    <2> HIDE DEF at
    <2> QED BY <2>1 DEF EntryShown, StoredShown
  <1> HIDE DEF at, f
  <1>5. Tame(e, f)
    BY <1>3 DEF Tame
  <1>6. ASSUME EntryShown(a, e) PROVE EntryShown(a, f)
    <2>1. NotYetApproved(f)
      BY <1>3, <1>6 DEF EntryShown, NotYetApproved, waiting
    <2>2. ApprovedShown(a, f)
      BY <1>3, <1>6 DEF EntryShown, ApprovedShown, Sighted, Names
    <2>3. OpenShown(a, f)
      <3>1. at # NoTime
        BY <1>2 DEF NoTime
      <3> QED BY <1>3, <1>4, <1>6, <3>1 DEF OpenShown, Sighted, Names
    <2>4. StoredShown(a, f)
      BY <1>3 DEF StoredShown
    <2> QED BY <2>1, <2>2, <2>3, <2>4 DEF EntryShown
  <1> QED BY <1>5, <1>6 DEF KeptEntry, f, at

LEMMA OneKept ==
  ASSUME NEW L \in MailState, NEW a \in Actions, NEW f \in ActionEntry,
         KeptEntry(a, L.actions[a], f)
  PROVE  Kept(L, [L EXCEPT !.actions[a] = f])
  <1> DEFINE M == [L EXCEPT !.actions[a] = f]
  <1>1. M.actions = [L.actions EXCEPT ![a] = f]
    BY OneEntryType
  <1>2. L.actions \in [Actions -> ActionEntry]
    BY DEF MailState
  <1>3. SameNotices(L, M)
    BY DEF MailState, SameNotices
  <1> HIDE DEF M
  <1>4. \A b \in Actions : M.actions[b] = IF b = a THEN f ELSE L.actions[b]
    BY <1>1, <1>2
  <1>5. \A b \in Actions : KeptEntry(b, L.actions[b], M.actions[b])
    BY <1>4, CalmItself, CalmKeeps
  <1>6. Kept(L, M)
    BY <1>3, <1>5 DEF Kept
  <1> QED BY <1>6 DEF M

\* The approval of an open action, by the person its preview reached and
\* after it did, is informed; the alternatives end.
LEMMA RecordApprovalKept ==
  ASSUME IInv, NEW L \in MailState, NEW a \in Actions, NEW ev, Evidence(ev),
         NEW n \in Nat, NEW ow, L.actions[a].state = "open",
         same_chat(L.actions[a], ev, ow), in_order(L.actions[a], ev)
  PROVE  Kept(L, record_approval(L, a, ev, n))
  <1> DEFINE given == [route |-> ev.route, peer |-> ev.peer,
                       message |-> ev.message, sent |-> ev.sent, at |-> n]
             by == n + ExecuteSpan
             choose(b, e) ==
               IF b = a
               THEN [e EXCEPT !.state = "approved", !.approval = given,
                              !.executeBy = by, !.notBefore = n]
               ELSE IF e.state \in Live THEN end(e, "superseded", None, n)
               ELSE e
             F == [b \in Actions |-> IF b \in {a} \cup Siblings(a)
                                     THEN choose(b, L.actions[b])
                                     ELSE L.actions[b]]
             held == L.reservations \cup {[id |-> a, at |-> n]}
             M == [L EXCEPT !.actions = F, !.reservations = held]
  <1>1. record_approval(L, a, ev, n) = M
    BY DEF record_approval, Each, MailState
  <1>2. SameNotices(L, M) /\ M.actions = F
    BY DEF SameNotices, MailState
  <1>3. /\ given.route = ev.route
        /\ given.peer = ev.peer
        /\ given.sent = ev.sent
    OBVIOUS
  <1> HIDE DEF given, by, held
  <1>4. KeptEntry(a, L.actions[a], choose(a, L.actions[a]))
    <2> DEFINE e == L.actions[a]
               f == [e EXCEPT !.state = "approved", !.approval = given,
                              !.executeBy = by, !.notBefore = n]
    <2>1. e \in ActionEntry
      BY EntryType
    <2>2. /\ f.state = "approved" /\ f.approval = given
          /\ f.generation = e.generation
      BY <2>1 DEF ActionEntry
    <2>3. choose(a, e) = f
      OBVIOUS
    <2>4. /\ e.route = ev.route /\ e.peer = ev.peer
          /\ e.delivered <= ev.sent
      <3>1. e.delivered \in Int /\ ev.sent \in Int
        BY <2>1 DEF ActionEntry, Evidence, Times, NoTime
      <3> QED BY <3>1 DEF same_chat, in_order
    <2>5. Tame(e, f)
      BY <2>2 DEF Tame
    <2>6. ASSUME EntryShown(a, e) PROVE EntryShown(a, f)
      <3>1. PICK s \in seen : /\ Names(s.code, a, e)
                              /\ s.route = e.route
                              /\ s.peer = e.peer
                              /\ s.at <= e.delivered
        BY <2>6 DEF EntryShown, OpenShown, Sighted
      <3>2. s.at <= ev.sent
        <4>1. s.at \in Int /\ e.delivered \in Int /\ ev.sent \in Int
          BY <2>1 DEF ActionEntry, Evidence, Times, NoTime, IInv, TypeOK,
             Sighting
        <4> QED BY <2>4, <3>1, <4>1
      <3>3. Names(s.code, a, f)
        BY <2>2, <3>1 DEF Names
      <3> HIDE DEF e, f
      <3>4. ApprovedShown(a, f)
        BY <1>3, <2>2, <2>4, <3>1, <3>2, <3>3 DEF ApprovedShown, Sighted
      <3> QED BY <2>2, <3>4 DEF EntryShown, NotYetApproved, waiting,
              OpenShown, StoredShown
    <2> HIDE DEF f, choose
    <2> QED BY <2>3, <2>5, <2>6 DEF KeptEntry
  <1>5. ASSUME NEW b \in Actions, b # a
        PROVE  KeptEntry(b, L.actions[b], choose(b, L.actions[b]))
    <2>1. L.actions[b] \in ActionEntry
      BY EntryType
    <2>2. CASE L.actions[b].state \in Live
      <3>1. "superseded" \in Over /\ "absent" \notin Live
        BY DEF Over, Live
      <3> QED BY <1>5, <2>1, <2>2, <3>1, EndCalm, CalmKeeps
    <2>3. CASE L.actions[b].state \notin Live
      BY <1>5, <2>3, CalmItself, CalmKeeps
    <2> QED BY <2>2, <2>3
  <1> HIDE DEF choose
  <1>6. \A b \in Actions : KeptEntry(b, L.actions[b], F[b])
    BY <1>4, <1>5, CalmItself, CalmKeeps
  <1> HIDE DEF F, M
  <1> QED BY <1>1, <1>2, <1>6 DEF Kept

LEMMA ApproveCodeKept ==
  ASSUME IInv, NoticeOK, NEW L \in MailState, LedgerOK(L), NEW c \in Codes,
         NEW ev, Evidence(ev), NEW replayed \in BOOLEAN, NEW ow,
         NEW n \in Nat, NEW p \in Policy, NEW M,
         M = approve_code(L, c, ev, replayed, ow, delivered_at, n, p)
  PROVE  M \in MailState /\ LedgerOK(M) /\ Kept(L, M)
  <1> DEFINE a == c[1]
             e == opened_entry(L.actions[a], c[2], delivered_at, p)
             opened == [L EXCEPT !.actions[a] = e]
             no == \/ e.generation # c[2] \/ replayed \/ e.state # "open"
                   \/ ~same_chat(e, ev, ow) \/ ~in_order(e, ev)
  <1>1. M \in MailState /\ LedgerOK(M)
    BY DeliveredType, ApproveCodeType, QuietOK DEF IInv
  <1>2. CASE ~Known(L, c)
    <2>1. M = L
      BY <1>2 DEF approve_code
    <2> QED BY <1>1, <2>1, CalmItself, CalmIsKept DEF Calm, SameNotices
  <1>3. CASE Known(L, c)
    <2>1. a \in Actions /\ L.actions[a] \in ActionEntry
      BY EntryType DEF Codes
    <2>2. e \in ActionEntry
      BY <2>1, DeliveredType, OpenedEntryType DEF IInv
    <2>3. KeptEntry(a, L.actions[a], e)
      <3> DEFINE d == L.actions[a]
                 found == /\ d.state = "previewing" /\ d.generation = c[2]
                          /\ d.route # None /\ d.key # NoKey /\ d.stored
                          /\ delivered_at[<<d.route, d.key>>] # NoTime
      <3>1. CASE found
        <4>1. e = open(d, delivered_at[<<d.route, d.key>>], p)
          BY <3>1 DEF opened_entry
        <4> HIDE DEF e
        <4> QED BY <2>1, <3>1, <4>1, OpenKept
      <3>2. CASE ~found
        <4>1. e = d
          BY <3>2 DEF opened_entry
        <4> QED BY <4>1, CalmItself, CalmKeeps
      <3> QED BY <3>1, <3>2
    <2>4. M = IF no THEN opened
              ELSE IF n >= e.expiresAt
              THEN [opened EXCEPT !.actions[a] = end(e, "expired", None, n)]
              ELSE IF may_approve(opened, a, ev, n, p)
              THEN record_approval(opened, a, ev, n)
              ELSE opened
      BY <1>3 DEF approve_code
    <2>5. ~no => e.state = "open" /\ same_chat(e, ev, ow) /\ in_order(e, ev)
      OBVIOUS
    <2> HIDE DEF a, e, no
    <2>6. opened \in MailState /\ Kept(L, opened)
      BY <2>1, <2>2, <2>3, OneKept, OneEntryType
    <2>7. opened.actions[a] = e
      <3>1. L.actions \in [Actions -> ActionEntry]
        BY DEF MailState
      <3> QED BY <2>1, <2>2, <3>1, OneEntryType
    <2> HIDE DEF opened
    <2>8. CASE M = opened
      BY <1>1, <2>6, <2>8
    <2>9. CASE ~no /\ n >= e.expiresAt
      <3> DEFINE f == end(e, "expired", None, n)
                 X == [opened EXCEPT !.actions[a] = f]
      <3>1. "expired" \in Over /\ e.state # "absent"
        BY <2>5, <2>9, EndStates
      <3>2. f \in ActionEntry /\ CalmEntry(e, f)
        BY <2>2, <3>1, EndType, EndCalm
      <3>3. M = X
        BY <2>4, <2>9
      <3> HIDE DEF f
      <3>4. Kept(opened, X)
        BY <2>1, <2>6, <2>7, <3>2, CalmKeeps, OneKept
      <3> HIDE DEF X
      <3> QED BY <1>1, <2>6, <3>3, <3>4, KeptTrans
    <2>10. CASE ~no /\ M = record_approval(opened, a, ev, n)
      <3>1. Kept(opened, M)
        BY <2>1, <2>5, <2>6, <2>7, <2>10, RecordApprovalKept
      <3> QED BY <1>1, <2>6, <3>1, KeptTrans
    <2> QED BY <2>4, <2>8, <2>9, <2>10
  <1> QED BY <1>2, <1>3

LEMMA ApproveKept ==
  ASSUME IInv, NoticeOK, NEW ev, Evidence(ev), ev.codes \in Seq(Codes),
         Len(ev.codes) \in {1, 2}, NEW ow
  PROVE  Kept(ledger, approve(ledger, ev, ow, delivered_at, now, policy))
  <1> DEFINE replayed == \E m \in ledger.approvals : m.message = ev.message
             first == approve_code(ledger, ev.codes[1], ev, replayed, ow,
                                   delivered_at, now, policy)
             second == approve_code(first, ev.codes[2], ev, replayed, ow,
                                    delivered_at, now, policy)
             all == IF Len(ev.codes) = 1 THEN first ELSE second
             noted == all.approvals \cup {[message |-> ev.message, at |-> now]}
             M == [all EXCEPT !.approvals = noted]
  <1>1. approve(ledger, ev, ow, delivered_at, now, policy) \in {all, M}
    BY DEF approve
  <1>2. replayed \in BOOLEAN
    OBVIOUS
  <1>3. ev.codes[1] \in Codes /\ (Len(ev.codes) # 1 => ev.codes[2] \in Codes)
    OBVIOUS
  <1>4. /\ ledger \in MailState /\ LedgerOK(ledger)
        /\ now \in Nat /\ policy \in Policy
    BY DEF IInv, TypeOK, Core
  <1> HIDE DEF replayed
  <1>5. first \in MailState /\ LedgerOK(first) /\ Kept(ledger, first)
    BY <1>2, <1>3, <1>4, ApproveCodeKept
  <1> HIDE DEF first
  <1>6. Len(ev.codes) # 1 => second \in MailState /\ Kept(first, second)
    BY <1>2, <1>3, <1>4, <1>5, ApproveCodeKept
  <1> HIDE DEF second
  <1>7. all \in MailState /\ Kept(ledger, all)
    BY <1>5, <1>6, KeptTrans
  <1> HIDE DEF all, noted
  <1>8. M.actions = all.actions /\ SameNotices(all, M)
    BY <1>7 DEF MailState, SameNotices
  <1> HIDE DEF M
  <1>9. Kept(all, M)
    BY <1>8, CalmSame, CalmIsKept
  <1>10. Kept(ledger, M)
    BY <1>7, <1>9, KeptTrans
  <1> QED BY <1>1, <1>7, <1>10

-----------------------------------------------------------------------------
(* Steps that queue a preview, or none *)

LEMMA QueuedMeans ==
  ASSUME NEW a, NEW i
  PROVE  i \in Queued(a) <=> i \in ledger.queue /\ \E c \in i.codes : c[1] = a
  BY DEF Queued, Previews

LEMMA AbsentNotQueued ==
  ASSUME NEW a \in Actions, QueuedOK(a), Siblings(a) = {},
         Entry(a).state = "absent"
  PROVE  Queued(a) = {} /\ a \notin again.ids
  BY QueuedMeans DEF QueuedOK

LEMMA ChatsKept ==
  ASSUME IInv, NoticeOK, UNCHANGED <<hub, seen, owner>>,
         drawn' \in {drawn, drawn + 1}
  PROVE  NoticeOK'
  <1>1. drawn \in Nat /\ BatchKeys \subseteq Nat
    BY MailActionsConstants DEF IInv, TypeOK
  <1>2. ASSUME NEW r \in Routes, NEW k \in BatchKeys
        PROVE  NoticeShown(r, k)'
    <2>1. NoticeShown(r, k)
      BY DEF NoticeOK
    <2>2. k <= drawn => k <= drawn'
      BY <1>1
    <2> QED BY <2>1, <2>2 DEF NoticeShown
  <1> QED BY <1>2 DEF NoticeOK

\* An entry that a tame change left as it was, as far as previews go.
LEMMA TamePreview ==
  ASSUME NEW a \in Actions, PreviewOK(a), EntryShown(a, Entry(a)),
         Tame(Entry(a), Entry(a)'), ledger'.batch = ledger.batch,
         ledger'.watched \subseteq ledger.watched, drawn' = drawn
  PROVE  PreviewOK(a)'
  <1>1. Entry(a)'.state = "previewing" =>
          /\ Entry(a).state = "previewing"
          /\ Entry(a)'.key = Entry(a).key
          /\ Entry(a)'.stored = Entry(a).stored
          /\ Entry(a).stored => Entry(a)'.route = Entry(a).route
    BY DEF Tame, EntryShown, StoredShown
  <1>2. \A c : Names(c, a, Entry(a)) => Names(c, a, Entry(a)')
    BY DEF Tame, Names
  <1> QED BY <1>1, <1>2 DEF PreviewOK, Names

LEMMA TameQueued ==
  ASSUME NEW a \in Actions, QueuedOK(a), Tame(Entry(a), Entry(a)'),
         ledger'.queue \subseteq ledger.queue,
         a \in again'.ids =>
           \/ a \in again.ids
           \/ Entry(a)'.state = "proposed" /\ Queued(a)' = {}
  PROVE  QueuedOK(a)'
  <1>1. SUFFICES ASSUME Siblings(a) = {} PROVE QueuedOK(a)'
    BY DEF QueuedOK
  <1>2. Queued(a)' \subseteq Queued(a)
    BY DEF Queued
  <1>3. \A i \in ledger'.queue : \A c \in i.codes :
          c[1] = a => /\ Entry(a)'.state # "absent"
                      /\ c[2] = Entry(a)'.generation
    BY <1>1 DEF QueuedOK, Tame
  <1>4. \A i, j \in Queued(a)' : i = j
    BY <1>1, <1>2 DEF QueuedOK
  <1>5. Entry(a)'.state = "previewing" /\ Entry(a)'.stored
          => Queued(a)' = {}
    BY <1>1, <1>2 DEF QueuedOK, Tame
  <1>6. a \in again'.ids =>
          /\ Entry(a)'.state \notin {"absent", "previewing"}
          /\ Queued(a)' = {}
    BY <1>1, <1>2 DEF QueuedOK, Tame
  <1> QED BY <1>3, <1>4, <1>5, <1>6 DEF QueuedOK

\* What is previewed again is less, or was recorded.
Narrower ==
  /\ again'.ids \subseteq again.ids
  /\ \A a \in again'.proposed :
       a \in again.proposed \/ (a \in Actions /\ Entry(a).state # "absent")

\* An entry whose codes are still its codes.
Older(e, f) ==
  /\ f.generation \in Nat /\ e.generation <= f.generation
  /\ Numbered(e) => Numbered(f)

LEMMA TameOlder ==
  ASSUME NEW e, NEW f, Tame(e, f), e.generation \in Nat
  PROVE  Older(e, f)
  BY DEF Tame, Older, Numbered

\* No code is taken back, so a step that shows codes given out, and no others,
\* keeps GivenOK.
LEMMA GivenStep ==
  ASSUME IInv, GivenOK,
         \A a \in Actions : Older(Entry(a), Entry(a)'),
         \A a \in again'.proposed :
           a \in again.proposed \/ (a \in Actions /\ Entry(a).state # "absent"),
         \A i \in ledger'.queue :
           i \in ledger.queue \/ \A c \in i.codes : Given(c)',
         \A r \in Routes, k \in BatchKeys : \A c \in hub'[<<r, k>>].codes :
           \/ c \in hub[<<r, k>>].codes
           \/ \E i \in ledger.queue : c \in i.codes,
         \A s \in seen' :
           s \in seen \/ \E r \in Routes, k \in BatchKeys :
                            s.code \in hub[<<r, k>>].codes
  PROVE  GivenOK'
  <1>1. /\ ledger \in MailState /\ again \in Rework /\ seen \subseteq Sighting
        /\ hub \in [Routes \X BatchKeys -> Notice]
    BY DEF IInv, TypeOK
  <1>2. \A a \in Actions : Entry(a).generation \in Nat
    BY <1>1, EntryType DEF ActionEntry, Entry
  <1>3. \A c \in Codes : Given(c) => Given(c)'
    <2>1. ASSUME NEW c \in Codes, Given(c) PROVE Given(c)'
      <3>1. c[1] \in Actions
        BY DEF Codes
      <3> QED BY <1>2, <2>1, <3>1 DEF Given, Older
    <2> QED BY <2>1
  <1>4. \A i \in ledger.queue : \A c \in i.codes : c \in Codes /\ Given(c)'
    <2>1. \A i \in ledger.queue : i.codes \subseteq Codes
      BY <1>1 DEF MailState, Item
    <2> QED BY <1>3, <2>1 DEF GivenOK
  <1>5. \A r \in Routes, k \in BatchKeys : \A c \in hub[<<r, k>>].codes : Given(c)'
    <2>1. \A r \in Routes, k \in BatchKeys : hub[<<r, k>>].codes \subseteq Codes
      BY <1>1 DEF Notice
    <2> QED BY <1>3, <2>1 DEF GivenOK
  <1>6. \A s \in seen : Given(s.code)'
    <2>1. \A s \in seen : s.code \in Codes
      BY <1>1 DEF Sighting
    <2> QED BY <1>3, <2>1 DEF GivenOK
  <1>7. \A a \in Actions : Numbered(Entry(a))'
    <2>1. ASSUME NEW a \in Actions PROVE Numbered(Entry(a))'
      BY DEF GivenOK, Older, Numbered
    <2> QED BY <2>1
  <1>8. \A a \in again'.proposed : Entry(a)'.state # "absent"
    <2>1. ASSUME NEW a \in again'.proposed PROVE Entry(a)'.state # "absent"
      <3>1. a \in Actions /\ Entry(a).state # "absent"
        BY <1>1, <2>1 DEF GivenOK, Rework
      <3>2. Older(Entry(a), Entry(a)') /\ Numbered(Entry(a))
        BY <3>1 DEF GivenOK
      <3> QED BY <1>2, <3>1, <3>2 DEF Older, Numbered
    <2> QED BY <2>1
  <1>9. \A i \in ledger'.queue : \A c \in i.codes : Given(c)'
    BY <1>4
  <1>10. \A r \in Routes, k \in BatchKeys : \A c \in hub'[<<r, k>>].codes : Given(c)'
    BY <1>4, <1>5
  <1>11. \A s \in seen' : Given(s.code)'
    BY <1>5, <1>6
  <1> QED BY <1>7, <1>8, <1>9, <1>10, <1>11 DEF GivenOK

\* A notice that is stored still is the one that was.
StillShows(m, n) ==
  n.status # "absent" =>
    m.status # "absent" /\ n.peer = m.peer /\ n.codes = m.codes

LEMMA SightingsKept ==
  ASSUME NEW a \in Actions, EntryShown(a, Entry(a)'), seen \subseteq seen',
         Entry(a)'.state = "previewing" /\ Entry(a)'.stored =>
           StillShows(hub[<<Entry(a)'.route, Entry(a)'.key>>],
                      hub'[<<Entry(a)'.route, Entry(a)'.key>>])
  PROVE  EntryShown(a, Entry(a))'
  <1>1. NotYetApproved(Entry(a))'
    BY DEF EntryShown, NotYetApproved, waiting
  <1>2. ApprovedShown(a, Entry(a))'
    BY DEF EntryShown, ApprovedShown, Sighted, Names
  <1>3. OpenShown(a, Entry(a))'
    BY DEF EntryShown, OpenShown, Sighted, Names
  <1>4. StoredShown(a, Entry(a))'
    BY DEF EntryShown, StoredShown, StillShows, Names
  <1> QED BY <1>1, <1>2, <1>3, <1>4 DEF EntryShown

LEMMA SameSightings ==
  ASSUME \A a \in Actions : EntryShown(a, Entry(a)'), UNCHANGED <<hub, seen>>
  PROVE  ShownOK'
  <1>1. ASSUME NEW a \in Actions PROVE EntryShown(a, Entry(a))'
    BY <1>1, SightingsKept DEF StillShows
  <1> QED BY <1>1 DEF ShownOK

\* The actions S are recorded and the others are kept, and of the item that
\* may be queued each action without alternatives was not queued.
LEMMA PushStep ==
  ASSUME IInv, PreviewInv, NEW S, NEW item,
         \A a \in Actions : a \notin S =>
           KeptEntry(a, Entry(a), Entry(a)'),
         \A a \in Actions : a \in S =>
           /\ Entry(a).state = "absent"
           /\ Entry(a)'.state = "proposed"
           /\ Entry(a)'.generation = 1
           /\ Entry(a)'.approval = None,
         ledger'.batch = ledger.batch, ledger'.watched = ledger.watched,
         ledger.queue \subseteq ledger'.queue,
         ledger'.queue \subseteq ledger.queue \cup {item},
         \A c \in item.codes : Given(c)',
         \A c \in item.codes : Siblings(c[1]) = {} =>
           /\ c[2] = Entry(c[1])'.generation
           /\ Entry(c[1])'.state \notin {"absent", "previewing"}
           /\ c[1] \notin again'.ids
           /\ Queued(c[1]) = {},
         Narrower,
         UNCHANGED <<hub, seen, drawn, owner>>
  PROVE  PreviewInv'
  <1>1. ShownOK'
    <2>1. ASSUME NEW a \in Actions PROVE EntryShown(a, Entry(a)')
      <3>1. CASE a \notin S
        BY <3>1 DEF KeptEntry, PreviewInv, ShownOK
      <3>2. CASE a \in S
        BY <3>2 DEF EntryShown, NotYetApproved, ApprovedShown, OpenShown,
           StoredShown
      <3> QED BY <3>1, <3>2
    <2> QED BY <2>1, SameSightings
  <1>2. NoticeOK'
    BY ChatsKept DEF PreviewInv
  <1>3. BatchOK'
    BY DEF PreviewInv, BatchOK
  <1>4. ASSUME NEW a \in Actions PROVE PreviewOK(a)'
    <2>1. CASE a \notin S
      <3>1. PreviewOK(a) /\ EntryShown(a, Entry(a))
        BY DEF PreviewInv, ShownOK
      <3>2. Tame(Entry(a), Entry(a)')
        BY <2>1 DEF KeptEntry
      <3> QED BY <3>1, <3>2, TamePreview
    <2>2. CASE a \in S
      BY <2>2 DEF PreviewOK
    <2> QED BY <2>1, <2>2
  <1>5. ASSUME NEW a \in Actions PROVE QueuedOK(a)'
    <2>1. SUFFICES ASSUME Siblings(a) = {} PROVE QueuedOK(a)'
      BY DEF QueuedOK
    <2>2. QueuedOK(a)
      BY DEF PreviewInv
    <2>3. a \notin S => Tame(Entry(a), Entry(a)')
      BY DEF KeptEntry
    <2>4. a \in S => Queued(a) = {} /\ a \notin again.ids
      BY <2>1, <2>2, AbsentNotQueued
    <2>5. \A i : i \in Queued(a)' <=>
            i \in ledger'.queue /\ \E c \in i.codes : c[1] = a
      BY DEF Queued, Previews
    <2>6. \A i \in Queued(a)' : i \in Queued(a) \/ i = item
      BY <2>5, QueuedMeans
    <2>7. item \in Queued(a)' =>
            /\ Queued(a) = {}
            /\ Entry(a)'.state \notin {"absent", "previewing"}
            /\ a \notin again'.ids
            /\ \A c \in item.codes :
                 c[1] = a => c[2] = Entry(a)'.generation
      BY <2>1, <2>5
    <2>8. ASSUME NEW i \in Queued(a)', NEW c \in i.codes, c[1] = a
          PROVE  Entry(a)'.state # "absent" /\ c[2] = Entry(a)'.generation
      <3>1. CASE i = item
        BY <2>7, <2>8, <3>1
      <3>2. CASE i # item
        <4>1. i \in Queued(a) /\ i \in ledger.queue
          BY <2>6, <3>2, QueuedMeans
        <4>2. a \notin S
          BY <2>4, <4>1
        <4> QED BY <2>1, <2>2, <2>3, <2>8, <4>1, <4>2 DEF QueuedOK, Tame
      <3> QED BY <3>1, <3>2
    <2>9. \A i, j \in Queued(a)' : i = j
      BY <2>1, <2>2, <2>6, <2>7 DEF QueuedOK
    <2>10. Entry(a)'.state = "previewing" /\ Entry(a)'.stored
             => Queued(a)' = {}
      BY <2>1, <2>2, <2>3, <2>6, <2>7 DEF QueuedOK, Tame
    <2>11. a \in again'.ids =>
             /\ Entry(a)'.state \notin {"absent", "previewing"}
             /\ Queued(a)' = {}
      BY <2>1, <2>2, <2>3, <2>4, <2>6, <2>7 DEF QueuedOK, Tame, Narrower
    <2>12. \A i \in ledger'.queue : \A c \in i.codes :
             c[1] = a => /\ Entry(a)'.state # "absent"
                         /\ c[2] = Entry(a)'.generation
      BY <2>5, <2>8
    <2> QED BY <2>9, <2>10, <2>11, <2>12 DEF QueuedOK
  <1>6. GivenOK'
    <2>1. \A a \in Actions : Entry(a).generation \in Nat /\ Numbered(Entry(a))
      BY EntryType DEF IInv, TypeOK, ActionEntry, Entry, PreviewInv, GivenOK
    <2>2. ASSUME NEW a \in Actions PROVE Older(Entry(a), Entry(a)')
      <3>1. CASE a \notin S
        BY <2>1, <3>1, TameOlder DEF KeptEntry
      <3>2. CASE a \in S
        <4>1. Entry(a).generation = 0
          BY <2>1, <3>2 DEF Numbered
        <4> QED BY <3>2, <4>1 DEF Older, Numbered
      <3> QED BY <3>1, <3>2
    <2>3. \A i \in ledger'.queue :
            i \in ledger.queue \/ \A c \in i.codes : Given(c)'
      OBVIOUS
    <2> QED BY <2>2, <2>3, GivenStep DEF PreviewInv, Narrower
  <1> QED BY <1>1, <1>2, <1>3, <1>4, <1>5, <1>6 DEF PreviewInv

LEMMA KeptStep ==
  ASSUME IInv, PreviewInv, Kept(ledger, ledger'),
         Narrower,
         UNCHANGED <<hub, seen, drawn, owner>>
  PROVE  PreviewInv'
  <1> DEFINE item == [codes |-> {}]
  <1>1. item.codes = {}
    OBVIOUS
  <1> HIDE DEF item
  <1>2. \A a \in Actions : KeptEntry(a, Entry(a), Entry(a)')
    BY DEF Kept, Entry
  <1>3. /\ ledger'.queue = ledger.queue
        /\ ledger'.batch = ledger.batch
        /\ ledger'.watched = ledger.watched
    BY DEF Kept, SameNotices
  <1> DEFINE S == {}
  <1>4. \A a \in Actions : a \notin S
    OBVIOUS
  <1> HIDE DEF S
  <1> QED BY <1>1, <1>2, <1>3, <1>4, PushStep

LEMMA CalmStep ==
  ASSUME IInv, PreviewInv, Calm(ledger, ledger'),
         Narrower,
         UNCHANGED <<hub, seen, drawn, owner>>
  PROVE  PreviewInv'
  BY CalmIsKept, KeptStep

LEMMA StillStep ==
  ASSUME IInv, PreviewInv, ledger' = ledger,
         Narrower,
         UNCHANGED <<hub, seen, drawn, owner>>
  PROVE  PreviewInv'
  <1>1. Calm(ledger, ledger')
    BY CalmSame DEF SameNotices
  <1> QED BY <1>1, CalmStep

-----------------------------------------------------------------------------
(* The worker's steps *)

LEMMA NewEntryCode ==
  ASSUME NEW n \in Nat
  PROVE  new_entry(n).generation = 1
  BY AbsentEntryType DEF new_entry, ActionEntry

\* An entry as it was just recorded.
Fresh(e) == e.state = "proposed" /\ e.generation = 1 /\ e.approval = None

LEMMA AddedCalm ==
  ASSUME NEW L \in MailState, NEW new \in SUBSET Actions, NEW n \in Nat,
         NEW p \in Policy, NEW M, M = add_proposed(L, new, n, p)
  PROVE  /\ M \in MailState
         /\ SameNotices(L, M)
         /\ \A a \in Actions : a \notin new =>
              CalmEntry(L.actions[a], M.actions[a])
         /\ \A a \in Actions : a \in new => Fresh(M.actions[a])
  <1> DEFINE F == [a \in Actions |-> IF a \in new THEN new_entry(n)
                                                  ELSE L.actions[a]]
             N == [L EXCEPT !.actions = F]
             G == [a \in Actions |-> bind(N.actions[a], a, p)]
  <1>1. F \in [Actions -> ActionEntry]
    BY EntryType, NewEntryType
  <1>2. N \in MailState /\ N.actions = F
    BY <1>1, ActionsType
  <1>3. M = [N EXCEPT !.actions = G]
    BY DEF add_proposed, Each, bind_unassigned
  <1>4. SameNotices(L, N)
    BY DEF SameNotices, MailState
  <1>5. \A a \in new : /\ F[a].state = "proposed"
                       /\ F[a].generation = 1
                       /\ F[a].approval = None
    BY NewEntryType, NewEntryCode
  <1>6. \A a \in Actions : a \notin new => F[a] = L.actions[a]
    OBVIOUS
  <1> HIDE DEF F, N
  <1>7. G \in [Actions -> ActionEntry]
    BY <1>2, EntryType, BindType
  <1>8. M \in MailState /\ M.actions = G
    BY <1>2, <1>3, <1>7, ActionsType
  <1>9. SameNotices(L, M)
    BY <1>2, <1>3, <1>4 DEF SameNotices, MailState
  <1>10. \A a \in Actions : CalmEntry(F[a], G[a])
    BY <1>1, <1>2, BindCalm
  <1>11. \A a \in new : /\ G[a].state = F[a].state
                        /\ G[a].generation = F[a].generation
                        /\ G[a].approval = F[a].approval
    <2>1. ASSUME NEW a \in new
          PROVE  /\ G[a].state = F[a].state
                 /\ G[a].generation = F[a].generation
                 /\ G[a].approval = F[a].approval
      <3>1. a \in Actions /\ F[a] \in ActionEntry
        BY <1>1
      <3>2. G[a] = bind(F[a], a, p)
        BY <1>2, <3>1
      <3> QED BY <3>1, <3>2, BindType
    <2> QED BY <2>1
  <1> HIDE DEF G
  <1> QED BY <1>5, <1>6, <1>8, <1>9, <1>10, <1>11 DEF Fresh

LEMMA PushFacts ==
  ASSUME NEW L \in MailState, NEW item, NEW M, M = push_item(L, item)
  PROVE  /\ M.actions = L.actions
         /\ M.batch = L.batch
         /\ M.watched = L.watched
         /\ L.queue \subseteq M.queue
         /\ M.queue \subseteq L.queue \cup {item}
  <1> DEFINE N == [L EXCEPT !.queue = @ \cup {item}]
  <1>1. /\ N.actions = L.actions /\ N.batch = L.batch
        /\ N.watched = L.watched /\ N.queue = L.queue \cup {item}
    BY DEF MailState
  <1>2. M \in {L, N}
    BY DEF push_item
  <1> HIDE DEF N
  <1> QED BY <1>1, <1>2

\* Actions that were not known are recorded, and their first codes queued.
LEMMA RecordedStep ==
  ASSUME IInv, PreviewInv, NEW new \in SUBSET Actions,
         NEW L \in MailState, Calm(ledger, L),
         \A a \in new : L.actions[a].state = "absent",
         NEW item, item.codes = {<<a, 1>> : a \in new},
         NEW N, N = add_proposed(L, new, now, policy),
         NEW M, M = push_item(N, item),
         ledger'.actions = M.actions, SameNotices(M, ledger'),
         again' = again, UNCHANGED <<hub, seen, drawn, owner>>
  PROVE  PreviewInv'
  <1>1. now \in Nat /\ policy \in Policy
    BY DEF IInv, TypeOK
  <1>2. N \in MailState /\ SameNotices(L, N)
    BY <1>1, AddedCalm
  <1>3. \A a \in Actions : a \notin new =>
          CalmEntry(L.actions[a], N.actions[a])
    BY <1>1, AddedCalm
  <1>4. \A a \in Actions : a \in new => Fresh(N.actions[a])
    BY <1>1, AddedCalm
  <1>5. ledger'.actions = N.actions
    BY <1>2, PushFacts
  <1>6. /\ ledger'.batch = ledger.batch
        /\ ledger'.watched = ledger.watched
        /\ ledger.queue \subseteq ledger'.queue
        /\ ledger'.queue \subseteq ledger.queue \cup {item}
    BY <1>2, PushFacts DEF SameNotices, Calm
  <1>7. \A a \in Actions : a \notin new => KeptEntry(a, Entry(a), Entry(a)')
    BY <1>3, <1>5, CalmEntryTrans, CalmKeeps DEF Calm, Entry
  <1>8. \A a \in Actions : a \in new =>
          /\ Entry(a).state = "absent"
          /\ Entry(a)'.state = "proposed"
          /\ Entry(a)'.generation = 1
          /\ Entry(a)'.approval = None
    BY <1>4, <1>5 DEF Calm, CalmEntry, Tame, Entry, Fresh
  <1>9. \A c \in item.codes : Siblings(c[1]) = {} =>
          /\ c[2] = Entry(c[1])'.generation
          /\ Entry(c[1])'.state \notin {"absent", "previewing"}
          /\ c[1] \notin again'.ids
          /\ Queued(c[1]) = {}
    <2>1. ASSUME NEW a \in new, Siblings(a) = {}
          PROVE  /\ 1 = Entry(a)'.generation
                 /\ Entry(a)'.state \notin {"absent", "previewing"}
                 /\ a \notin again'.ids
                 /\ Queued(a) = {}
      <3>1. QueuedOK(a) /\ Entry(a).state = "absent"
        BY <1>8 DEF PreviewInv
      <3>2. Queued(a) = {} /\ a \notin again.ids
        BY <2>1, <3>1, AbsentNotQueued
      <3> QED BY <1>4, <1>5, <1>8, <3>2 DEF Entry, Fresh
    <2> QED BY <2>1
  <1>10. \A c \in item.codes : Given(c)'
    <2>1. ASSUME NEW a \in new PROVE Given(<<a, 1>>)'
      BY <1>8 DEF Given
    <2> QED BY <2>1
  <1>11. Narrower
    BY DEF Narrower
  <1> QED BY <1>6, <1>7, <1>8, <1>9, <1>10, <1>11, PushStep

LEMMA ProposeShown ==
  ASSUME IInv, PreviewInv, NEW a \in Actions, Propose(a)
  PROVE  PreviewInv'
  <1> DEFINE new == draft.new
             revised == draft.revises
             replaced == {b \in revised : waiting(ledger.actions[b])}
             F == [b \in Actions |->
                     IF b \in replaced
                     THEN end(ledger.actions[b], "superseded", None, now)
                     ELSE ledger.actions[b]]
             L == [ledger EXCEPT !.actions = F]
             item == [head |-> a, generation |-> 1,
                      codes |-> {<<b, 1>> : b \in new}]
             N == add_proposed(L, new, now, policy)
             M == push_item(N, item)
  <1>1. /\ ledger \in MailState /\ now \in Nat
        /\ new \in SUBSET Actions
    BY DEF IInv, TypeOK, Propose, Request
  <1>2. ledger' = IF Refused(ledger, new, revised) THEN ledger ELSE M
    BY DEF Propose, propose, Each
  <1>3. UNCHANGED <<again, hub, seen, drawn, owner>>
    BY DEF Propose, chatVars
  <1>4. CASE Refused(ledger, new, revised)
    BY <1>2, <1>3, <1>4, StillStep DEF Narrower
  <1>5. CASE ~Refused(ledger, new, revised)
    <2>1. \A b \in new : ledger.actions[b].state = "absent"
      BY <1>5 DEF Refused
    <2>2. \A b \in Actions : b \in replaced => ledger.actions[b].state # "absent"
      BY StoppablePresent
    <2>3. ledger' = M
      BY <1>2, <1>5
    <2> HIDE DEF new, replaced
    <2>4. "superseded" \in Over /\ None \in OutcomeCodes \cup {None}
      BY DEF Over
    <2>5. F \in [Actions -> ActionEntry]
      BY <1>1, <2>4, EntryType, EndType
    <2>6. \A b \in Actions : CalmEntry(ledger.actions[b], F[b])
      BY <1>1, <2>2, <2>4, EntryType, EndCalm, CalmItself
    <2> HIDE DEF F
    <2>7. L \in MailState /\ L.actions = F /\ Calm(ledger, L)
      BY <1>1, <2>5, <2>6, ActionsType, CalmMap
    <2> HIDE DEF L
    <2>8. \A b \in new : L.actions[b].state = "absent"
      BY <1>1, <2>1, <2>7 DEF Calm, CalmEntry, Tame
    <2>9. item.codes = {<<b, 1>> : b \in new}
      OBVIOUS
    <2>10. SameNotices(M, ledger')
      BY <2>3 DEF SameNotices
    <2> HIDE DEF item, N, M
    <2>11. N = add_proposed(L, new, now, policy) /\ M = push_item(N, item)
      BY DEF N, M
    <2> QED BY <1>1, <1>3, <2>3, <2>7, <2>8, <2>9, <2>10, <2>11, RecordedStep
  <1> QED BY <1>4, <1>5

LEMMA SuggestShown ==
  ASSUME IInv, PreviewInv, NEW a \in Suggestions, Suggest(a)
  PROVE  PreviewInv'
  <1> DEFINE new == {a}
             item == [head |-> a, generation |-> 1, codes |-> {<<a, 1>>}]
             N == add_proposed(ledger, new, now, policy)
             M == push_item(N, item)
  <1>1. a \in Actions
    BY MailActionsConstants
  <1>2. /\ ledger \in MailState /\ now \in Nat /\ policy \in Policy
        /\ new \in SUBSET Actions
    BY <1>1 DEF IInv, TypeOK
  <1>3. ledger' = prune(M, now)
    BY DEF Suggest, record_report
  <1>4. UNCHANGED <<again, hub, seen, drawn, owner>>
    BY DEF Suggest, chatVars
  <1>5. \A b \in new : ledger.actions[b].state = "absent"
    BY DEF Suggest
  <1>6. item.codes = {<<b, 1>> : b \in new}
    OBVIOUS
  <1>7. item \in Item
    BY <1>1 DEF Item, Codes
  <1>8. Calm(ledger, ledger)
    BY CalmSame DEF SameNotices
  <1> HIDE DEF new, item
  <1>9. N \in MailState
    BY <1>2, AddedCalm
  <1> HIDE DEF N
  <1>10. M \in MailState
    BY <1>7, <1>9, PushItemType
  <1> HIDE DEF M
  <1>11. ledger'.actions = M.actions /\ SameNotices(M, ledger')
    BY <1>3, <1>10 DEF prune, MailState, SameNotices
  <1>12. N = add_proposed(ledger, new, now, policy) /\ M = push_item(N, item)
    BY DEF N, M
  <1> QED BY <1>2, <1>4, <1>5, <1>6, <1>8, <1>11, <1>12, RecordedStep

-----------------------------------------------------------------------------
(* The notifier's steps *)

LEMMA ReworkIds ==
  ASSUME NEW pc, NEW ids, NEW proposed
  PROVE  /\ rework(pc, ids, proposed).ids = ids
         /\ rework(pc, ids, proposed).proposed \subseteq proposed
  BY DEF rework, NoRework

LEMMA SiblingsMutual ==
  ASSUME NEW a \in Actions, NEW b \in Siblings(a)
  PROVE  a \in Siblings(b)
  BY DEF Siblings

LEMMA PreviewAgainShown ==
  ASSUME IInv, PreviewInv, NEW a \in Actions, PreviewAgain(a)
  PROVE  PreviewInv'
  <1> DEFINE item == [head |-> a, generation |-> Entry(a).generation,
                      codes |-> {<<b, Entry(b).generation>> :
                                   b \in Alternatives(a)}]
             M == push_item(ledger, item)
  <1>1. UNCHANGED <<hub, seen, drawn, owner>>
    BY DEF PreviewAgain, chatVars
  <1>2. again'.ids = again.ids \ ({a} \cup Alternatives(a))
    BY ReworkIds DEF PreviewAgain
  <1>3. Narrower /\ a \notin again'.ids
    BY <1>2, ReworkIds DEF PreviewAgain, Narrower
  <1>4. \/ ledger' = ledger
        \/ ledger' = bind_unassigned(M, policy)
    BY DEF PreviewAgain, queue_preview, Entry
  <1>5. CASE ledger' = ledger
    BY <1>1, <1>3, <1>5, StillStep
  <1>6. CASE ledger' = bind_unassigned(M, policy)
    <2>1. ledger \in MailState /\ policy \in Policy
      BY DEF IInv, TypeOK
    <2>2. \A b \in Actions : Entry(b).generation \in Nat
      BY <2>1, EntryType DEF ActionEntry, Entry
    <2>3. Alternatives(a) \in SUBSET Actions
      BY DEF Alternatives, Siblings
    <2>4. item \in Item
      BY <2>2, <2>3 DEF Item, Codes
    <2>5. \A c \in item.codes : Siblings(c[1]) = {} =>
            c[1] = a /\ c[2] = Entry(a).generation
      <3>1. ASSUME NEW b \in Alternatives(a), Siblings(b) = {}
            PROVE  b = a
        BY <3>1, SiblingsMutual DEF Alternatives
      <3> QED BY <3>1
    <2> HIDE DEF item
    <2>6. M \in MailState
      BY <2>1, <2>4, PushItemType
    <2>7. /\ M.actions = ledger.actions
          /\ M.batch = ledger.batch
          /\ M.watched = ledger.watched
          /\ ledger.queue \subseteq M.queue
          /\ M.queue \subseteq ledger.queue \cup {item}
      BY <2>1, PushFacts
    <2> HIDE DEF M
    <2>8. Calm(M, ledger')
      BY <1>6, <2>1, <2>6, BindAllCalm
    <2>9. \A b \in Actions : CalmEntry(Entry(b), Entry(b)')
      BY <2>7, <2>8 DEF Calm, Entry
    <2>10. \A b \in Actions : KeptEntry(b, Entry(b), Entry(b)')
      BY <2>9, CalmKeeps
    <2>11. Siblings(a) = {} =>
             /\ Entry(a).state \notin {"absent", "previewing"}
             /\ Queued(a) = {}
      BY DEF PreviewAgain, PreviewInv, QueuedOK
    <2>12. \A c \in item.codes : Siblings(c[1]) = {} =>
             /\ c[2] = Entry(c[1])'.generation
             /\ Entry(c[1])'.state \notin {"absent", "previewing"}
             /\ c[1] \notin again'.ids
             /\ Queued(c[1]) = {}
      BY <1>3, <2>5, <2>9, <2>11 DEF CalmEntry, Tame
    <2>13. /\ ledger'.batch = ledger.batch
           /\ ledger'.watched = ledger.watched
           /\ ledger.queue \subseteq ledger'.queue
           /\ ledger'.queue \subseteq ledger.queue \cup {item}
      BY <2>7, <2>8 DEF Calm, SameNotices
    <2>15. \A c \in item.codes : Given(c)'
      <3>1. ASSUME NEW c \in item.codes PROVE Given(c)'
        <4>1. PICK b \in Alternatives(a) : c = <<b, Entry(b).generation>>
          BY DEF item
        <4>2. b \in Actions /\ Entry(b).state # "absent"
          BY <2>3 DEF Alternatives, PreviewInv, GivenOK
        <4>3. Entry(b).generation \in Nat /\ Entry(b).generation # 0
          BY <2>2, <4>2 DEF PreviewInv, GivenOK, Numbered
        <4>4. Entry(b)'.generation = Entry(b).generation
          BY <2>9, <4>2 DEF CalmEntry, Tame
        <4>5. c[1] = b /\ c[2] = Entry(b).generation
          BY <4>1
        <4> QED BY <4>3, <4>4, <4>5 DEF Given
      <3> QED BY <3>1
    <2> DEFINE S == {}
    <2>14. \A b \in Actions : b \notin S
      OBVIOUS
    <2> HIDE DEF S
    <2> QED BY <1>1, <1>3, <2>10, <2>12, <2>13, <2>14, <2>15, PushStep
  <1> QED BY <1>4, <1>5, <1>6

\* An action taken into the batch of this key.
Handed(e, f, key) ==
  /\ e.state \in {"proposed", "previewing"}
  /\ f.state = "previewing" /\ f.key = key /\ ~f.stored
  /\ f.generation = e.generation /\ f.approval = e.approval

LEMMA BeginBatchEntries ==
  ASSUME NEW L \in MailState, NEW key \in BatchKeys,
         NEW items \in SUBSET Item, NEW p \in Policy,
         NEW M, M = begin_batch(L, key, items, p)
  PROVE  /\ M.queue = L.queue
         /\ M.watched = L.watched
         /\ M.batch = [key |-> key, items |-> items]
         /\ \A a \in Actions :
              \/ CalmEntry(L.actions[a], M.actions[a])
              \/ /\ Handed(L.actions[a], M.actions[a], key)
                 /\ \E i \in items : \E c \in i.codes : c[1] = a
  <1> DEFINE ids == UNION {Previews(i) : i \in items}
             hand(e) == IF e.state \in {"proposed", "previewing"}
                        THEN [e EXCEPT !.state = "previewing", !.key = key,
                                       !.stored = FALSE, !.delivered = NoTime]
                        ELSE e
             F == [a \in Actions |-> IF a \in ids THEN hand(L.actions[a])
                                                  ELSE L.actions[a]]
             batch == [key |-> key, items |-> items]
             N == [L EXCEPT !.actions = F, !.batch = batch]
  <1>1. ASSUME NEW e \in ActionEntry
        PROVE  /\ hand(e) \in ActionEntry
               /\ CalmEntry(e, hand(e)) \/ Handed(e, hand(e), key)
    <2>1. [e EXCEPT !.state = "previewing", !.key = key, !.stored = FALSE,
                    !.delivered = NoTime] \in ActionEntry
      BY Members, StateMembers DEF ActionEntry
    <2>2. CASE e.state \in {"proposed", "previewing"}
      <3>1. /\ hand(e).state = "previewing"
            /\ hand(e).key = key
            /\ ~hand(e).stored
            /\ hand(e).approval = e.approval
            /\ hand(e).generation = e.generation
        BY <2>2 DEF ActionEntry
      <3>2. hand(e) \in ActionEntry
        BY <2>1
      <3> HIDE DEF hand
      <3> QED BY <2>2, <3>1, <3>2 DEF Handed
    <2>3. CASE e.state \notin {"proposed", "previewing"}
      BY <2>3, CalmItself
    <2> QED BY <2>2, <2>3
  <1>2. M = bind_unassigned(N, p)
    BY DEF begin_batch, Each, MailState
  <1>3. batch \in Batch
    BY DEF Batch
  <1>4. \A a \in ids : \E i \in items : \E c \in i.codes : c[1] = a
    BY DEF Previews
  <1> HIDE DEF hand, ids, batch
  <1>5. F \in [Actions -> ActionEntry]
    BY <1>1, EntryType
  <1>6. \A a \in Actions :
          \/ CalmEntry(L.actions[a], F[a])
          \/ a \in ids /\ Handed(L.actions[a], F[a], key)
    BY <1>1, EntryType, CalmItself
  <1> HIDE DEF F
  <1>7. /\ N \in MailState /\ N.actions = F /\ N.batch = batch
        /\ N.queue = L.queue /\ N.watched = L.watched
    BY <1>3, <1>5 DEF MailState
  <1> HIDE DEF N
  <1>8. Calm(N, M)
    BY <1>2, <1>7, BindAllCalm
  <1>9. M.queue = L.queue /\ M.watched = L.watched /\ M.batch = batch
    BY <1>7, <1>8 DEF Calm, SameNotices
  <1>10. ASSUME NEW a \in Actions
         PROVE  \/ CalmEntry(L.actions[a], M.actions[a])
                \/ a \in ids /\ Handed(L.actions[a], M.actions[a], key)
    <2>1. CalmEntry(F[a], M.actions[a])
      BY <1>7, <1>8 DEF Calm
    <2>2. M.actions[a].state = F[a].state
      BY <1>2, <1>7, EntryType, BindType DEF bind_unassigned, MailState
    <2>3. CASE CalmEntry(L.actions[a], F[a])
      BY <2>1, <2>3, CalmEntryTrans
    <2>4. CASE a \in ids /\ Handed(L.actions[a], F[a], key)
      BY <2>1, <2>2, <2>4 DEF Handed, CalmEntry, Tame
    <2> QED BY <1>6, <2>3, <2>4
  <1> QED BY <1>4, <1>9, <1>10 DEF batch

LEMMA BeginBatchShown ==
  ASSUME IInv, PreviewInv, NEW items \in SUBSET ledger.queue,
         BeginBatch(items)
  PROVE  PreviewInv'
  <1> DEFINE key == drawn + 1
  <1>1. /\ ledger.batch = None /\ again = NoRework /\ drawn' = key
        /\ UNCHANGED <<again, hub, seen, owner>>
        /\ ledger' = begin_batch(ledger, key, items, policy)
    BY DEF BeginBatch, Notifier
  <1>2. /\ ledger \in MailState /\ policy \in Policy /\ drawn \in Nat
        /\ items \in SUBSET Item /\ key \in BatchKeys
    BY MailActionsConstants DEF IInv, TypeOK, MailState, BeginBatch
  <1>3. drawn < key /\ key \in Nat /\ BatchKeys \subseteq Nat
    BY <1>2, MailActionsConstants
  <1> HIDE DEF key
  <1>4. /\ ledger'.queue = ledger.queue /\ ledger'.watched = ledger.watched
        /\ ledger'.batch = [key |-> key, items |-> items]
        /\ \A a \in Actions :
             \/ CalmEntry(ledger.actions[a], ledger'.actions[a])
             \/ /\ Handed(ledger.actions[a], ledger'.actions[a], key)
                /\ \E i \in items : \E c \in i.codes : c[1] = a
    BY <1>1, <1>2, BeginBatchEntries
  <1>5. /\ ledger'.batch # None /\ ledger'.batch.key = key
        /\ ledger'.batch.items = items
    <2>1. [key |-> key, items |-> items] \in Batch
      BY <1>2 DEF Batch
    <2> QED BY <1>4, <2>1, NoBatch
  <1>6. \A a \in Actions :
          \/ CalmEntry(Entry(a), Entry(a)')
          \/ /\ Handed(Entry(a), Entry(a)', key)
             /\ \E i \in items : \E c \in i.codes : c[1] = a
    BY <1>4 DEF Entry
  <1>12. \A a \in Actions : Entry(a).key \in Nat
    <2>1. \A k \in BatchKeys \cup {NoKey} : k \in Nat
      BY <1>3 DEF NoKey
    <2>2. \A a \in Actions : Entry(a).key \in BatchKeys \cup {NoKey}
      BY <1>2, EntryType DEF ActionEntry, Entry
    <2> QED BY <2>1, <2>2
  <1>7. ShownOK'
    <2>1. ASSUME NEW a \in Actions PROVE EntryShown(a, Entry(a)')
      <3>1. EntryShown(a, Entry(a))
        BY DEF PreviewInv, ShownOK
      <3>2. CASE CalmEntry(Entry(a), Entry(a)')
        BY <3>1, <3>2, CalmKeeps DEF KeptEntry
      <3>3. CASE Handed(Entry(a), Entry(a)', key)
        <4>1. Entry(a)'.approval = None
          BY <3>1, <3>3 DEF Handed, EntryShown, NotYetApproved, waiting
        <4> QED BY <3>3, <4>1 DEF Handed, EntryShown, NotYetApproved,
                ApprovedShown, OpenShown, StoredShown
      <3> QED BY <1>6, <3>2, <3>3
    <2> QED BY <1>1, <2>1, SameSightings
  <1>8. NoticeOK'
    BY <1>1, ChatsKept DEF PreviewInv, key
  <1>9. BatchOK'
    <2>1. \A w \in ledger.watched : w.key <= drawn /\ w.key \in Nat
      BY <1>2, <1>3 DEF PreviewInv, BatchOK, MailState, Watched
    <2>2. \A w \in ledger'.watched : w.key <= drawn' /\ w.key # key
      BY <1>1, <1>2, <1>3, <1>4, <2>1
    <2>3. \A r \in Routes : hub[<<r, key>>].status = "absent"
      BY <1>2, <1>3 DEF PreviewInv, NoticeOK, NoticeShown
    <2>4. key <= drawn' /\ items \subseteq ledger'.queue
      BY <1>1, <1>3, <1>4
    <2> QED BY <1>1, <1>5, <2>2, <2>3, <2>4 DEF BatchOK
  <1>10. ASSUME NEW a \in Actions PROVE PreviewOK(a)'
    <2>1. PreviewOK(a) /\ EntryShown(a, Entry(a)) /\ QueuedOK(a)
      BY DEF PreviewInv, ShownOK
    <2>2. CASE CalmEntry(Entry(a), Entry(a)')
      <3>1. SUFFICES ASSUME Entry(a)'.state = "previewing"
            PROVE PreviewOK(a)'
        BY DEF PreviewOK
      <3>2. /\ Entry(a).state = "previewing"
            /\ Entry(a)'.key = Entry(a).key
            /\ Entry(a)'.stored = Entry(a).stored
        BY <2>2, <3>1 DEF CalmEntry, Tame
      <3>3. /\ Entry(a).stored
            /\ Entry(a).key # NoKey
            /\ Entry(a).key <= drawn
            /\ \A w \in ledger.watched :
                 w.key = Entry(a).key => w.route = Entry(a).route
        BY <1>1, <2>1, <3>2 DEF PreviewOK
      <3>4. Entry(a)'.route = Entry(a).route
        BY <2>1, <2>2, <3>1, <3>2, <3>3
           DEF CalmEntry, Tame, EntryShown, StoredShown
      <3>5. Entry(a)'.key <= drawn' /\ Entry(a)'.key # key
        BY <1>1, <1>2, <1>3, <1>12, <3>2, <3>3
      <3> QED BY <1>4, <1>5, <3>2, <3>3, <3>4, <3>5 DEF PreviewOK
    <2>3. CASE /\ Handed(Entry(a), Entry(a)', key)
               /\ \E i \in items : \E c \in i.codes : c[1] = a
      <3>1. PICK i \in items : \E c \in i.codes : c[1] = a
        BY <2>3
      <3>2. PICK c \in i.codes : c[1] = a
        BY <3>1
      <3>3. Siblings(a) = {} => c[2] = Entry(a).generation
        BY <2>1, <3>2 DEF QueuedOK
      <3>4. Names(c, a, Entry(a)')
        BY <2>3, <3>2, <3>3 DEF Handed, Names
      <3>5. /\ Entry(a)'.key = key /\ ~Entry(a)'.stored
        BY <2>3 DEF Handed
      <3>6. key <= drawn' /\ key # NoKey
        BY <1>1, <1>2, <1>3, MailLedgerConstants
      <3> QED BY <1>5, <3>4, <3>5, <3>6 DEF PreviewOK, Names
    <2> QED BY <1>6, <2>2, <2>3
  <1>11. ASSUME NEW a \in Actions PROVE QueuedOK(a)'
    <2>1. QueuedOK(a)
      BY DEF PreviewInv
    <2>2. CASE CalmEntry(Entry(a), Entry(a)')
      BY <1>1, <1>4, <2>1, <2>2, TameQueued DEF CalmEntry
    <2>3. CASE Handed(Entry(a), Entry(a)', key)
      <3>1. Queued(a)' = Queued(a) /\ again'.ids = {}
        BY <1>1, <1>4 DEF Queued, NoRework
      <3> QED BY <1>4, <2>1, <2>3, <3>1 DEF QueuedOK, Handed
    <2> QED BY <1>6, <2>2, <2>3
  <1>13. GivenOK'
    <2>1. ASSUME NEW a \in Actions PROVE Older(Entry(a), Entry(a)')
      <3>1. Entry(a).generation \in Nat
        BY <1>2, EntryType DEF ActionEntry, Entry
      <3>2. CASE CalmEntry(Entry(a), Entry(a)')
        BY <3>1, <3>2, TameOlder DEF CalmEntry
      <3>3. CASE Handed(Entry(a), Entry(a)', key)
        BY <3>1, <3>3 DEF Handed, Older, Numbered
      <3> QED BY <1>6, <3>2, <3>3
    <2> QED BY <1>1, <1>4, <2>1, GivenStep DEF PreviewInv
  <1> QED BY <1>7, <1>8, <1>9, <1>10, <1>11, <1>13 DEF PreviewInv

\* A chat asked to store the batch has it then, as it is, for its owner.
LEMMA StoredHub ==
  ASSUME IInv, PreviewInv, ledger.batch # None, NEW r \in Routes,
         hub' = stored_in(r, ledger.batch), UNCHANGED <<drawn, owner, seen>>
  PROVE  /\ NoticeOK'
         /\ \A q \in Routes, k \in BatchKeys :
              k # ledger.batch.key => hub'[<<q, k>>] = hub[<<q, k>>]
         /\ \A q \in Routes :
              hub'[<<q, ledger.batch.key>>].status # "absent" =>
                hub'[<<q, ledger.batch.key>>].codes
                  = UNION {i.codes : i \in ledger.batch.items}
         /\ hub'[<<r, ledger.batch.key>>].status # "absent"
         /\ hub'[<<r, ledger.batch.key>>].peer = owner[r]
         /\ \A q \in Routes, k \in BatchKeys : \A c \in hub'[<<q, k>>].codes :
              c \in hub[<<q, k>>].codes \/ \E i \in ledger.queue : c \in i.codes
  <1> DEFINE key == ledger.batch.key
             codes == UNION {i.codes : i \in ledger.batch.items}
             new == [status |-> "pending", at |-> NoTime, peer |-> owner[r],
                     codes |-> codes]
  <1>1. key \in BatchKeys
    BY DEF IInv, TypeOK, MailState, Batch
  <1>2. hub \in [Routes \X BatchKeys -> Notice]
    BY DEF IInv, TypeOK
  <1>3. hub' = IF hub[<<r, key>>].status # "absent" THEN hub
               ELSE [hub EXCEPT ![<<r, key>>] = new]
    BY DEF stored_in
  <1>4. /\ new.status = "pending" /\ new.peer = owner[r]
        /\ new.codes = codes
    OBVIOUS
  <1>5. /\ key <= drawn
        /\ \A q \in Routes : hub[<<q, key>>].status # "absent" =>
             hub[<<q, key>>].codes = codes
    BY DEF PreviewInv, BatchOK
  <1> HIDE DEF key, codes, new
  <1>6. \A q \in Routes, k \in BatchKeys :
          \/ hub'[<<q, k>>] = hub[<<q, k>>]
          \/ q = r /\ k = key /\ hub'[<<q, k>>] = new
    BY <1>2, <1>3
  <1>7. \A q \in Routes, k \in BatchKeys :
          k # key => hub'[<<q, k>>] = hub[<<q, k>>]
    BY <1>6
  <1>11. \A c \in codes : \E i \in ledger.queue : c \in i.codes
    BY DEF PreviewInv, BatchOK, codes
  <1>12. \A q \in Routes, k \in BatchKeys : \A c \in hub'[<<q, k>>].codes :
           c \in hub[<<q, k>>].codes \/ \E i \in ledger.queue : c \in i.codes
    BY <1>4, <1>6, <1>11
  <1>8. \A q \in Routes : hub'[<<q, key>>].status # "absent" =>
          hub'[<<q, key>>].codes = codes
    BY <1>1, <1>4, <1>5, <1>6
  <1>9. CASE hub[<<r, key>>].status # "absent"
    <2>1. hub' = hub
      BY <1>3, <1>9
    <2>2. NoticeOK'
      BY <2>1, ChatsKept DEF PreviewInv
    <2>3. hub[<<r, key>>].peer = owner[r]
      BY <1>1, <1>9 DEF PreviewInv, NoticeOK, NoticeShown
    <2> QED BY <1>7, <1>8, <1>9, <1>12, <2>1, <2>2, <2>3 DEF key, codes
  <1>10. CASE hub[<<r, key>>].status = "absent"
    <2>1. hub'[<<r, key>>] = new
      BY <1>1, <1>2, <1>3, <1>10
    <2>2. NoticeOK'
      <3>1. ASSUME NEW q \in Routes, NEW k \in BatchKeys
            PROVE  NoticeShown(q, k)'
        <4>1. NoticeShown(q, k)
          BY DEF PreviewInv, NoticeOK
        <4>2. CASE hub'[<<q, k>>] = hub[<<q, k>>]
          BY <4>1, <4>2 DEF NoticeShown
        <4>3. CASE q = r /\ k = key /\ hub'[<<q, k>>] = new
          BY <1>4, <1>5, <4>3 DEF NoticeShown
        <4> QED BY <1>6, <4>2, <4>3
      <3> QED BY <3>1 DEF NoticeOK
    <2> QED BY <1>4, <1>7, <1>8, <1>12, <2>1, <2>2 DEF key, codes
  <1> QED BY <1>9, <1>10

LEMMA HandOverUnseenShown ==
  ASSUME IInv, PreviewInv, NEW r \in Routes, HandOverUnseen(r)
  PROVE  PreviewInv'
  <1>1. /\ ledger.batch # None /\ hub' = stored_in(r, ledger.batch)
        /\ UNCHANGED <<drawn, owner, seen, ledger, again>>
    BY DEF HandOverUnseen, accountVars
  <1>2. NoticeOK'
    BY <1>1, StoredHub
  <1>3. \A a \in Actions : Entry(a) \in ActionEntry
    BY EntryType DEF IInv, TypeOK, Entry
  <1>4. ShownOK'
    <2>1. ASSUME NEW a \in Actions PROVE EntryShown(a, Entry(a))'
      <3>1. EntryShown(a, Entry(a)) /\ PreviewOK(a)
        BY DEF PreviewInv, ShownOK
      <3>2. Entry(a)' = Entry(a)
        BY <1>1 DEF Entry
      <3>3. ASSUME Entry(a).state = "previewing", Entry(a).stored
            PROVE  hub'[<<Entry(a).route, Entry(a).key>>]
                     = hub[<<Entry(a).route, Entry(a).key>>]
        <4>1. Entry(a).key # ledger.batch.key /\ Entry(a).key # NoKey
          BY <1>1, <3>1, <3>3 DEF PreviewOK
        <4>2. Entry(a).route # None
          BY <3>1, <3>3 DEF EntryShown, StoredShown
        <4>3. Entry(a).route \in Routes /\ Entry(a).key \in BatchKeys
          BY <1>3, <4>1, <4>2 DEF ActionEntry
        <4> QED BY <1>1, <4>1, <4>3, StoredHub
      <3> QED BY <1>1, <3>1, <3>2, <3>3, SightingsKept DEF StillShows
    <2> QED BY <2>1 DEF ShownOK
  <1>5. BatchOK'
    <2>1. \A q \in Routes :
            hub'[<<q, ledger.batch.key>>].status # "absent" =>
              hub'[<<q, ledger.batch.key>>].codes
                = UNION {i.codes : i \in ledger.batch.items}
      BY <1>1, StoredHub
    <2> QED BY <1>1, <2>1 DEF PreviewInv, BatchOK
  <1>6. \A a \in Actions : PreviewOK(a)'
    BY <1>1 DEF PreviewInv, PreviewOK, Entry, Names
  <1>7. \A a \in Actions : QueuedOK(a)'
    BY <1>1 DEF PreviewInv, QueuedOK, Queued, Entry
  <1>8. GivenOK'
    <2>1. \A a \in Actions : Older(Entry(a), Entry(a)')
      BY <1>1, <1>3 DEF Entry, Older, ActionEntry
    <2>2. \A q \in Routes, k \in BatchKeys : \A c \in hub'[<<q, k>>].codes :
            c \in hub[<<q, k>>].codes \/ \E i \in ledger.queue : c \in i.codes
      BY <1>1, StoredHub
    <2> QED BY <1>1, <2>1, <2>2, GivenStep DEF PreviewInv
  <1> QED BY <1>2, <1>4, <1>5, <1>6, <1>7, <1>8 DEF PreviewInv

\* An action whose preview a chat just stored for this person.
StoredAs(e, f, route, peer) ==
  /\ f.state = e.state /\ f.generation = e.generation
  /\ f.approval = e.approval /\ f.key = e.key
  /\ f.stored /\ f.route = route /\ f.peer = peer

LEMMA BatchStoredEntries ==
  ASSUME NEW L \in MailState, L.batch # None, NEW route \in Routes,
         NEW peer \in Peers, NEW n \in Nat,
         NEW M, M = batch_stored(L, route, peer, n)
  PROVE  /\ M.batch = None
         /\ M.queue = L.queue \ L.batch.items
         /\ M.watched = L.watched
                          \cup {[key |-> L.batch.key, route |-> route]}
         /\ \A a \in Actions :
              IF a \in Previewing(L, L.batch.key)
              THEN StoredAs(L.actions[a], M.actions[a], route, peer)
              ELSE M.actions[a] = L.actions[a]
  <1> DEFINE P == Previewing(L, L.batch.key)
             F == [a \in Actions |->
                     IF a \in P
                     THEN [L.actions[a] EXCEPT !.route = route, !.peer = peer,
                                               !.stored = TRUE]
                     ELSE L.actions[a]]
             sent == {<<i.head, i.generation>> : i \in L.batch.items}
             watch == [key |-> L.batch.key, route |-> route]
             N == [L EXCEPT !.actions = F, !.batch = None,
                            !.queue = @ \ L.batch.items,
                            !.sentKeys = @ \cup sent,
                            !.watched = @ \cup {watch}]
  <1>1. M = prune(N, n)
    BY DEF batch_stored, Each, MailState
  <1> HIDE DEF P, sent, watch
  <1>2. ASSUME NEW e \in ActionEntry
        PROVE  StoredAs(e, [e EXCEPT !.route = route, !.peer = peer,
                                     !.stored = TRUE], route, peer)
    BY DEF ActionEntry, StoredAs
  <1>3. \A a \in Actions : IF a \in P
                           THEN StoredAs(L.actions[a], F[a], route, peer)
                           ELSE F[a] = L.actions[a]
    BY <1>2, EntryType
  <1> HIDE DEF F
  <1>4. /\ N.actions = F /\ N.batch = None
        /\ N.queue = L.queue \ L.batch.items
        /\ N.watched = L.watched \cup {watch}
    BY DEF MailState
  <1>5. /\ M.actions = N.actions /\ M.batch = N.batch /\ M.queue = N.queue
        /\ M.watched = N.watched
    BY <1>1 DEF prune, MailState
  <1> QED BY <1>3, <1>4, <1>5 DEF P, watch

LEMMA HandOverShown ==
  ASSUME IInv, PreviewInv, NEW r \in Routes, HandOver(r)
  PROVE  PreviewInv'
  <1> DEFINE key == ledger.batch.key
             items == ledger.batch.items
             P == Previewing(ledger, ledger.batch.key)
             watch == [key |-> ledger.batch.key, route |-> r]
  <1>1. /\ ledger.batch # None /\ hub' = stored_in(r, ledger.batch)
        /\ ledger' = batch_stored(ledger, r, owner[r], now)
        /\ again = NoRework
        /\ UNCHANGED <<drawn, owner, seen, again>>
    BY DEF HandOver, Notifier
  <1>2. /\ ledger \in MailState /\ now \in Nat /\ owner[r] \in Peers
        /\ r # None
    BY MailLedgerConstants DEF IInv, TypeOK
  <1>3. /\ ledger'.batch = None
        /\ ledger'.queue = ledger.queue \ items
        /\ ledger'.watched = ledger.watched \cup {watch}
        /\ \A a \in Actions :
             IF a \in P
             THEN StoredAs(ledger.actions[a], ledger'.actions[a], r, owner[r])
             ELSE ledger'.actions[a] = ledger.actions[a]
    BY <1>1, <1>2, BatchStoredEntries
  <1>4. \A a \in Actions :
          IF a \in P
          THEN StoredAs(Entry(a), Entry(a)', r, owner[r])
          ELSE Entry(a)' = Entry(a)
    BY <1>3 DEF Entry
  <1>5. \A a \in Actions :
          a \in P <=> Entry(a).state = "previewing" /\ Entry(a).key = key
    BY DEF Previewing, Entry
  <1>6. watch.key = key /\ watch.route = r
    OBVIOUS
  <1>7. /\ NoticeOK'
        /\ \A q \in Routes, k \in BatchKeys :
             k # key => hub'[<<q, k>>] = hub[<<q, k>>]
        /\ hub'[<<r, key>>].status # "absent"
        /\ hub'[<<r, key>>].codes = UNION {i.codes : i \in items}
        /\ hub'[<<r, key>>].peer = owner[r]
        /\ \A q \in Routes, k \in BatchKeys : \A c \in hub'[<<q, k>>].codes :
             c \in hub[<<q, k>>].codes \/ \E i \in ledger.queue : c \in i.codes
    BY <1>1, StoredHub
  <1>8. \A a \in Actions : Entry(a) \in ActionEntry
    BY <1>2, EntryType DEF Entry
  <1>9. \A a \in Actions : /\ EntryShown(a, Entry(a))
                           /\ PreviewOK(a)
                           /\ QueuedOK(a)
    BY DEF PreviewInv, ShownOK
  <1>10. /\ key <= drawn
         /\ items \subseteq ledger.queue
         /\ \A w \in ledger.watched : w.key <= drawn /\ w.key # key
    BY <1>1 DEF PreviewInv, BatchOK
  <1> HIDE DEF key, items, P, watch
  <1>11. ShownOK'
    <2>1. ASSUME NEW a \in Actions PROVE EntryShown(a, Entry(a))'
      <3>1. CASE a \notin P
        <4>1. Entry(a)' = Entry(a)
          BY <1>4, <3>1
        <4>2. ASSUME Entry(a).state = "previewing", Entry(a).stored
              PROVE  hub'[<<Entry(a).route, Entry(a).key>>]
                       = hub[<<Entry(a).route, Entry(a).key>>]
          <5>1. Entry(a).key # key /\ Entry(a).key # NoKey
            BY <1>5, <1>9, <3>1, <4>2 DEF PreviewOK
          <5>2. Entry(a).route # None
            BY <1>9, <4>2 DEF EntryShown, StoredShown
          <5>3. Entry(a).route \in Routes /\ Entry(a).key \in BatchKeys
            BY <1>8, <5>1, <5>2 DEF ActionEntry
          <5> QED BY <1>7, <5>1, <5>3
        <4> QED BY <1>1, <1>9, <4>1, <4>2, SightingsKept DEF StillShows
      <3>2. CASE a \in P
        <4>1. /\ Entry(a).state = "previewing" /\ Entry(a).key = key
              /\ StoredAs(Entry(a), Entry(a)', r, owner[r])
          BY <1>4, <1>5, <3>2
        <4>2. Entry(a)'.approval = None /\ Entry(a)'.state = "previewing"
          BY <1>9, <4>1 DEF StoredAs, EntryShown, NotYetApproved, waiting
        <4>3. PICK i \in items : \E c \in i.codes : Names(c, a, Entry(a))
          BY <1>1, <1>9, <4>1 DEF PreviewOK, key, items
        <4>4. PICK c \in i.codes : Names(c, a, Entry(a))
          BY <4>3
        <4>5. Names(c, a, Entry(a)') /\ c \in hub'[<<r, key>>].codes
          BY <1>7, <4>1, <4>4 DEF StoredAs, Names
        <4>6. StoredShown(a, Entry(a))'
          <5>1. /\ Entry(a)'.route = r /\ Entry(a)'.key = key
                /\ Entry(a)'.peer = owner[r]
            BY <4>1 DEF StoredAs
          <5> QED BY <1>2, <1>7, <4>5, <5>1 DEF StoredShown, Names
        <4> QED BY <4>2, <4>6 DEF EntryShown, NotYetApproved, ApprovedShown,
                OpenShown
      <3> QED BY <3>1, <3>2
    <2> QED BY <2>1 DEF ShownOK
  <1>12. BatchOK'
    <2>1. \A w \in ledger'.watched : w.key <= drawn'
      BY <1>1, <1>3, <1>6, <1>10
    <2> QED BY <1>3, <2>1 DEF BatchOK
  <1>13. ASSUME NEW a \in Actions PROVE PreviewOK(a)'
    <2>1. SUFFICES ASSUME Entry(a)'.state = "previewing" PROVE PreviewOK(a)'
      BY DEF PreviewOK
    <2>2. CASE a \notin P
      <3>1. Entry(a)' = Entry(a)
        BY <1>4, <2>2
      <3>2. Entry(a).key # key /\ Entry(a).stored
        BY <1>5, <1>9, <2>1, <2>2, <3>1 DEF PreviewOK, key
      <3>3. \A w \in ledger'.watched :
              w.key = Entry(a).key => w.route = Entry(a).route
        BY <1>3, <1>6, <1>9, <2>1, <3>1, <3>2 DEF PreviewOK
      <3> QED BY <1>1, <1>3, <1>9, <2>1, <3>1, <3>2, <3>3 DEF PreviewOK
    <2>3. CASE a \in P
      <3>1. /\ Entry(a)'.key = key /\ Entry(a)'.route = r
            /\ Entry(a)'.stored
        BY <1>4, <1>5, <2>3 DEF StoredAs
      <3>2. key # NoKey
        BY <1>5, <1>9, <2>3 DEF PreviewOK
      <3>3. \A w \in ledger'.watched : w.key = key => w.route = r
        BY <1>3, <1>6, <1>10
      <3> QED BY <1>1, <1>3, <1>10, <3>1, <3>2, <3>3 DEF PreviewOK
    <2> QED BY <2>2, <2>3
  <1>14. ASSUME NEW a \in Actions PROVE QueuedOK(a)'
    <2>1. again'.ids = {} /\ again'.ids \subseteq again.ids
      BY <1>1 DEF NoRework
    <2>2. CASE a \notin P
      <3>1. Tame(Entry(a), Entry(a)')
        BY <1>4, <2>2 DEF Tame
      <3> QED BY <1>3, <1>9, <2>1, <3>1, TameQueued
    <2>3. CASE a \in P
      <3>1. SUFFICES ASSUME Siblings(a) = {} PROVE QueuedOK(a)'
        BY DEF QueuedOK
      <3>2. /\ Entry(a).state = "previewing" /\ Entry(a).key = key
            /\ StoredAs(Entry(a), Entry(a)', r, owner[r])
        BY <1>4, <1>5, <2>3
      <3>3. PICK i \in items : \E c \in i.codes : Names(c, a, Entry(a))
        BY <1>1, <1>9, <3>2 DEF PreviewOK, key, items
      <3>4. i \in Queued(a)
        BY <1>10, <3>3, QueuedMeans DEF Names
      <3>5. \A j \in Queued(a) : j = i
        BY <1>9, <3>1, <3>4 DEF QueuedOK
      <3>6. Queued(a)' \subseteq Queued(a) /\ i \notin Queued(a)'
        BY <1>3, <3>3 DEF Queued
      <3>7. Queued(a)' = {}
        BY <3>5, <3>6
      <3>8. \A j \in ledger'.queue : \A c \in j.codes :
              c[1] = a => /\ Entry(a)'.state # "absent"
                          /\ c[2] = Entry(a)'.generation
        BY <1>3, <1>9, <3>1, <3>2 DEF QueuedOK, StoredAs
      <3> QED BY <2>1, <3>7, <3>8 DEF QueuedOK
    <2> QED BY <2>2, <2>3
  <1>15. GivenOK'
    <2>1. ASSUME NEW a \in Actions PROVE Older(Entry(a), Entry(a)')
      <3>1. Entry(a).generation \in Nat
        BY <1>8 DEF ActionEntry
      <3>2. Entry(a)'.state = Entry(a).state /\ Entry(a)'.generation = Entry(a).generation
        BY <1>4 DEF StoredAs
      <3> QED BY <3>1, <3>2 DEF Older, Numbered
    <2> QED BY <1>1, <1>3, <1>7, <2>1, GivenStep DEF PreviewInv
  <1> QED BY <1>7, <1>11, <1>12, <1>13, <1>14, <1>15 DEF PreviewInv

LEMMA DissolveEntries ==
  ASSUME NEW L \in MailState, NEW n \in Nat,
         NEW M, M = batch_dissolve(L, n)
  PROVE  /\ M.batch = None
         /\ M.queue = L.queue \ L.batch.items
         /\ M.watched = L.watched
         /\ \A a \in Actions : CalmEntry(L.actions[a], M.actions[a])
         /\ \A a \in Actions : M.actions[a].state = "previewing" =>
              M.actions[a] = L.actions[a] /\ L.actions[a].key # L.batch.key
  <1> DEFINE P == Previewing(L, L.batch.key)
             F == [a \in Actions |->
                     IF a \in P THEN end(L.actions[a], "expired", None, n)
                                ELSE L.actions[a]]
  <1>1. "expired" \in Over /\ None \in OutcomeCodes \cup {None}
    BY EndStates
  <1>2. ASSUME NEW a \in Actions, a \in P
        PROVE  /\ CalmEntry(L.actions[a], F[a])
               /\ F[a].state = "expired"
    <2>1. L.actions[a].state = "previewing"
      BY <1>2 DEF Previewing
    <2>2. F[a] = end(L.actions[a], "expired", None, n)
      BY <1>2
    <2>3. L.actions[a] \in ActionEntry
      BY EntryType
    <2> DEFINE f == end(L.actions[a], "expired", None, n)
    <2>4. f.state = "expired"
      BY <1>1, <2>3, EndType
    <2>5. L.actions[a].state # "absent"
      BY <2>1
    <2>6. CalmEntry(L.actions[a], f)
      BY <1>1, <2>3, <2>5, EndCalm
    <2> HIDE DEF F, f
    <2> QED BY <2>2, <2>4, <2>6 DEF f
  <1>3. ASSUME NEW a \in Actions, a \notin P
        PROVE  /\ F[a] = L.actions[a]
               /\ L.actions[a].state = "previewing" =>
                    L.actions[a].key # L.batch.key
    BY <1>3 DEF Previewing
  <1>4. /\ M.actions = F /\ M.batch = None /\ M.watched = L.watched
        /\ M.queue = L.queue \ L.batch.items
    BY DEF batch_dissolve, Each, MailState
  <1> HIDE DEF F, P
  <1> QED BY <1>2, <1>3, <1>4, CalmItself

LEMMA DissolveShown ==
  ASSUME IInv, PreviewInv, Dissolve
  PROVE  PreviewInv'
  <1>1. /\ ledger \in MailState /\ now \in Nat
        /\ ledger' = batch_dissolve(ledger, now)
        /\ UNCHANGED <<drawn, owner, seen, again, hub>>
    BY DEF Dissolve, IInv, TypeOK, chatVars
  <1>2. /\ ledger'.batch = None
        /\ ledger'.queue \subseteq ledger.queue
        /\ ledger'.watched = ledger.watched
        /\ \A a \in Actions : CalmEntry(Entry(a), Entry(a)')
        /\ \A a \in Actions : Entry(a)'.state = "previewing" =>
             Entry(a)' = Entry(a) /\ Entry(a).key # ledger.batch.key
    BY <1>1, DissolveEntries DEF Entry
  <1>3. ShownOK'
    BY <1>1, <1>2, CalmKeeps, SameSightings DEF PreviewInv, ShownOK, KeptEntry
  <1>4. NoticeOK'
    BY <1>1, ChatsKept DEF PreviewInv
  <1>5. BatchOK'
    BY <1>1, <1>2 DEF PreviewInv, BatchOK
  <1>6. \A a \in Actions : PreviewOK(a)'
    <2>1. ASSUME NEW a \in Actions PROVE PreviewOK(a)'
      <3>1. PreviewOK(a)
        BY DEF PreviewInv
      <3> QED BY <1>1, <1>2, <3>1 DEF PreviewOK
    <2> QED BY <2>1
  <1>7. \A a \in Actions : QueuedOK(a)'
    <2>1. ASSUME NEW a \in Actions PROVE QueuedOK(a)'
      <3>1. QueuedOK(a)
        BY DEF PreviewInv
      <3> QED BY <1>1, <1>2, <3>1, TameQueued DEF CalmEntry
    <2> QED BY <2>1
  <1>8. GivenOK'
    <2>1. \A a \in Actions : Entry(a).generation \in Nat
      BY <1>1, EntryType DEF ActionEntry, Entry
    <2>2. \A a \in Actions : Older(Entry(a), Entry(a)')
      BY <1>2, <2>1, TameOlder DEF CalmEntry
    <2> QED BY <1>1, <1>2, <2>2, GivenStep DEF PreviewInv
  <1> QED BY <1>3, <1>4, <1>5, <1>6, <1>7, <1>8 DEF PreviewInv

\* An action offered again under a new code.
Offered(e, f) ==
  /\ e.state = "previewing" /\ f.state = "proposed"
  /\ f.generation = e.generation + 1 /\ f.approval = e.approval

\* What settle_watched may make of an entry.
Settled(e, f, at, keys, p) ==
  \/ CalmEntry(e, f)
  \/ /\ e.state = "previewing" /\ e.key # NoKey /\ e.stored
     /\ at[e.key] # NoTime
     /\ CalmEntry(open(e, at[e.key], p), f)
  \/ Offered(e, f) /\ e.key \in keys

AllSettled(L, M, at, keys, p) ==
  /\ M.batch = L.batch
  /\ M.queue = L.queue
  /\ M.watched \subseteq L.watched
  /\ \A a \in Actions : Settled(L.actions[a], M.actions[a], at, keys, p)

LEMMA ReissueOffers ==
  ASSUME NEW e \in ActionEntry, e.state = "previewing", NEW n \in Nat
  PROVE  CalmEntry(e, reissue(e, n)) \/ Offered(e, reissue(e, n))
  <1>1. CASE e.generation <= MaxReissues
    <2> DEFINE g == e.generation + 1
               f == [e EXCEPT !.generation = g, !.state = "proposed",
                              !.key = NoKey, !.route = None, !.peer = None,
                              !.stored = FALSE, !.delivered = NoTime]
    <2>1. reissue(e, n) = f
      BY <1>1 DEF reissue
    <2>2. f.state = "proposed" /\ f.generation = g /\ f.approval = e.approval
      BY DEF ActionEntry
    <2> HIDE DEF f
    <2> QED BY <2>1, <2>2 DEF Offered
  <1>2. CASE ~(e.generation <= MaxReissues)
    <2>1. reissue(e, n) = end(e, "expired", None, n)
      BY <1>2 DEF reissue
    <2>2. "expired" \in Over /\ e.state # "absent"
      BY EndStates
    <2> QED BY <2>1, <2>2, EndCalm
  <1> QED BY <1>1, <1>2

LEMMA SettleEntries ==
  ASSUME NEW L \in MailState, NEW at \in [BatchKeys -> Times], NEW keys,
         NEW n \in Nat, NEW p \in Policy,
         NEW M, M = settle_watched(L, at, keys, n, p)
  PROVE  AllSettled(L, M, at, keys, p)
  <1> DEFINE left == {w \in L.watched : at[w.key] = NoTime /\ w.key \notin keys}
             A == [L EXCEPT !.watched = left]
             T == {a \in Actions : /\ A.actions[a].state = "previewing"
                                   /\ A.actions[a].key # NoKey
                                   /\ A.actions[a].stored
                                   /\ at[A.actions[a].key] # NoTime}
             F == [a \in Actions |->
                     IF a \in T
                     THEN open(A.actions[a], at[A.actions[a].key], p)
                     ELSE A.actions[a]]
             B == [A EXCEPT !.actions = F]
             R == UNION {Previewing(B, k) : k \in keys}
             G == [a \in Actions |-> IF a \in R THEN reissue(B.actions[a], n)
                                                ELSE B.actions[a]]
             C == [B EXCEPT !.actions = G]
  <1>1. M = bind_unassigned(C, p)
    <2>1. settle_watched(L, at, keys, n, p)
            = previews_refused(previews_delivered(A, at, p), keys, n, p)
      BY DEF settle_watched
    <2> HIDE DEF A
    <2>2. previews_delivered(A, at, p) = B
      BY DEF previews_delivered, Each
    <2> HIDE DEF B
    <2>3. previews_refused(B, keys, n, p) = bind_unassigned(C, p)
      BY DEF previews_refused, Each
    <2> QED BY <2>1, <2>2, <2>3
  <1>2. left \in SUBSET Watched /\ left \subseteq L.watched
    BY DEF MailState
  <1> HIDE DEF left
  <1>3. /\ A \in MailState /\ A.actions = L.actions /\ A.queue = L.queue
        /\ A.batch = L.batch /\ A.watched = left
    BY <1>2 DEF MailState
  <1>4. \A a \in Actions :
          a \in T <=> /\ L.actions[a].state = "previewing"
                      /\ L.actions[a].key # NoKey
                      /\ L.actions[a].stored
                      /\ at[L.actions[a].key] # NoTime
    BY <1>3
  <1>5. \A a \in Actions :
          F[a] = IF a \in T THEN open(L.actions[a], at[L.actions[a].key], p)
                            ELSE L.actions[a]
    BY <1>3
  <1>6. F \in [Actions -> ActionEntry]
    <2>1. ASSUME NEW a \in Actions PROVE F[a] \in ActionEntry
      <3>1. L.actions[a] \in ActionEntry
        BY EntryType
      <3>2. CASE a \in T
        <4>1. L.actions[a].key \in BatchKeys
          BY <1>4, <3>1, <3>2 DEF ActionEntry
        <4>2. at[L.actions[a].key] \in Nat
          BY <1>4, <3>2, <4>1 DEF Times
        <4> QED BY <1>5, <3>1, <3>2, <4>2, OpenType
      <3>3. CASE a \notin T
        BY <1>5, <3>1, <3>3
      <3> QED BY <3>2, <3>3
    <2> QED BY <2>1
  <1> HIDE DEF A, T, F
  <1>7. /\ B \in MailState /\ B.actions = F /\ SameNotices(A, B)
    BY <1>3, <1>6 DEF MailState, SameNotices
  <1>8. \A a \in R : a \in Actions /\ F[a].state = "previewing"
                                   /\ F[a].key \in keys
    BY <1>7 DEF Previewing
  <1>9. \A a \in Actions : G[a] = IF a \in R THEN reissue(F[a], n) ELSE F[a]
    BY <1>7
  <1> HIDE DEF B, R
  <1>10. G \in [Actions -> ActionEntry]
    BY <1>6, <1>7, EntryType, ReissueType
  <1> HIDE DEF G
  <1>11. /\ C \in MailState /\ C.actions = G /\ SameNotices(B, C)
    BY <1>7, <1>10 DEF MailState, SameNotices
  <1> HIDE DEF C
  <1>12. Calm(C, M)
    BY <1>1, <1>11, BindAllCalm
  <1>13. M.batch = L.batch /\ M.queue = L.queue /\ M.watched \subseteq L.watched
    BY <1>2, <1>3, <1>7, <1>11, <1>12 DEF Calm, SameNotices
  <1>14. ASSUME NEW a \in Actions
         PROVE  Settled(L.actions[a], M.actions[a], at, keys, p)
    <2> DEFINE e == L.actions[a]
               f == M.actions[a]
    <2>1. CalmEntry(G[a], f) /\ f.state = G[a].state
      <3>1. f = bind(G[a], a, p)
        BY <1>1, <1>11 DEF bind_unassigned, MailState
      <3> QED BY <1>10, <3>1, BindCalm, BindType
    <2>2. e \in ActionEntry
      BY EntryType
    <2> HIDE DEF e, f
    <2>3. CASE a \in T
      <3>1. F[a] = open(e, at[e.key], p)
        BY <1>5, <2>3 DEF e
      <3>2. F[a].state = "open"
        BY <3>1 DEF open, ActionEntry, e
      <3>3. G[a] = F[a]
        BY <1>8, <1>9, <3>2
      <3> QED BY <1>4, <2>1, <2>3, <3>1, <3>3 DEF Settled, e, f
    <2>4. CASE a \notin T /\ a \in R
      <3>1. F[a] = e /\ e.state = "previewing" /\ e.key \in keys
        BY <1>5, <1>8, <2>4 DEF e
      <3>2. G[a] = reissue(e, n)
        BY <1>9, <2>4, <3>1
      <3>3. CASE CalmEntry(e, G[a])
        BY <2>1, <3>3, CalmEntryTrans DEF Settled, e, f
      <3>4. CASE Offered(e, G[a])
        BY <2>1, <3>1, <3>4 DEF Settled, Offered, CalmEntry, Tame, e, f
      <3> QED BY <2>2, <3>1, <3>2, <3>3, <3>4, ReissueOffers
    <2>5. CASE a \notin T /\ a \notin R
      <3>1. G[a] = e
        BY <1>5, <1>9, <2>5 DEF e
      <3> QED BY <2>1, <3>1 DEF Settled, e, f
    <2> QED BY <2>3, <2>4, <2>5
  <1> QED BY <1>13, <1>14 DEF AllSettled

\* A notice told as taken was delivered in the chat that is watched for it.
LEMMA TakenShown ==
  ASSUME TypeOK, NEW k \in BatchKeys, taken[k] # NoTime, NEW r,
         \A w \in ledger.watched : w.key = k => w.route = r
  PROVE  taken[k] = delivered_at[<<r, k>>]
  <1>1. \A n \in Fate(k) : n = <<r, k>>
    BY DEF Fate
  <1>2. taken[k] = IF \E n \in Fate(k) : delivered_at[n] # NoTime
                   THEN delivered_at[CHOOSE n \in Fate(k) :
                                       delivered_at[n] # NoTime]
                   ELSE NoTime
    BY DEF taken
  <1>3. \E n \in Fate(k) : delivered_at[n] # NoTime
    BY <1>2
  <1>4. (CHOOSE n \in Fate(k) : delivered_at[n] # NoTime) \in Fate(k)
    BY <1>3
  <1> QED BY <1>1, <1>2, <1>3, <1>4

LEMMA RefusedWatched ==
  ASSUME NEW k \in refused
  PROVE  \E w \in ledger.watched : w.key = k
  BY DEF refused, Fate

LEMMA SettleShown ==
  ASSUME IInv, PreviewInv, SettleWatched
  PROVE  PreviewInv'
  <1>1. /\ ledger \in MailState /\ now \in Nat /\ policy \in Policy
        /\ taken \in [BatchKeys -> Times]
        /\ ledger' = settle_watched(ledger, taken, refused, now, policy)
        /\ UNCHANGED <<drawn, owner, seen, hub>>
    BY TakenType DEF SettleWatched, IInv, TypeOK, chatVars
  <1>2. /\ ledger'.batch = ledger.batch
        /\ ledger'.queue = ledger.queue
        /\ ledger'.watched \subseteq ledger.watched
        /\ \A a \in Actions :
             Settled(Entry(a), Entry(a)', taken, refused, policy)
    <2>1. AllSettled(ledger, ledger', taken, refused, policy)
      BY <1>1, SettleEntries
    <2> QED BY <2>1 DEF AllSettled, Entry
  <1>3. again'.ids = {a \in Actions : Entry(a)'.generation > Entry(a).generation}
    BY ReworkIds DEF SettleWatched, Entry
  <1>4. \A a \in Actions : /\ Entry(a) \in ActionEntry
                           /\ EntryShown(a, Entry(a))
                           /\ PreviewOK(a)
                           /\ QueuedOK(a)
    BY <1>1, EntryType DEF PreviewInv, ShownOK, Entry
  <1>5. ASSUME NEW a \in Actions
        PROVE  \/ KeptEntry(a, Entry(a), Entry(a)')
               \/ Offered(Entry(a), Entry(a)') /\ Entry(a).key \in refused
    <2> DEFINE e == Entry(a)
               f == Entry(a)'
    <2>1. CASE CalmEntry(e, f)
      BY <2>1, CalmKeeps
    <2>2. CASE /\ e.state = "previewing" /\ e.key # NoKey /\ e.stored
               /\ taken[e.key] # NoTime
               /\ CalmEntry(open(e, taken[e.key], policy), f)
      <3>1. e.key \in BatchKeys
        BY <1>4, <2>2 DEF ActionEntry
      <3>2. taken[e.key] = delivered_at[<<e.route, e.key>>]
        BY <1>4, <2>2, <3>1, TakenShown DEF PreviewOK, IInv
      <3>3. e.route # None
        BY <1>4, <2>2 DEF EntryShown, StoredShown
      <3> DEFINE g == open(e, delivered_at[<<e.route, e.key>>], policy)
      <3>4. KeptEntry(a, e, g)
        BY <1>1, <1>4, <2>2, <3>2, <3>3, OpenKept DEF PreviewInv
      <3>5. CalmEntry(g, f)
        BY <2>2, <3>2
      <3> HIDE DEF e, f, g
      <3>6. KeptEntry(a, g, f)
        BY <3>5, CalmKeeps
      <3>7. KeptEntry(a, e, f)
        BY <3>4, <3>6 DEF KeptEntry, Tame
      <3> QED BY <3>7 DEF e, f
    <2>3. CASE Offered(e, f) /\ e.key \in refused
      BY <2>3
    <2> QED BY <1>2, <2>1, <2>2, <2>3 DEF Settled
  <1>6. ASSUME NEW a \in Actions, Offered(Entry(a), Entry(a)')
        PROVE  EntryShown(a, Entry(a)')
    BY <1>4, <1>6 DEF Offered, EntryShown, NotYetApproved, ApprovedShown,
       OpenShown, StoredShown, waiting
  <1>7. ShownOK'
    BY <1>1, <1>4, <1>5, <1>6, SameSightings DEF KeptEntry
  <1>8. NoticeOK'
    BY <1>1, ChatsKept DEF PreviewInv
  <1>9. BatchOK'
    BY <1>1, <1>2 DEF PreviewInv, BatchOK
  <1>10. ASSUME NEW a \in Actions PROVE PreviewOK(a)'
    <2>1. CASE KeptEntry(a, Entry(a), Entry(a)')
      BY <1>1, <1>2, <1>4, <2>1, TamePreview DEF KeptEntry
    <2>2. CASE Offered(Entry(a), Entry(a)')
      BY <2>2 DEF Offered, PreviewOK
    <2> QED BY <1>5, <2>1, <2>2
  <1>11. ASSUME NEW a \in Actions PROVE QueuedOK(a)'
    <2>1. CASE KeptEntry(a, Entry(a), Entry(a)')
      <3>1. Tame(Entry(a), Entry(a)') /\ Entry(a).generation \in Nat
        BY <1>4, <2>1 DEF KeptEntry, ActionEntry
      <3>2. a \notin again'.ids
        BY <1>3, <3>1 DEF Tame
      <3> QED BY <1>2, <1>4, <3>1, <3>2, TameQueued
    <2>2. CASE Offered(Entry(a), Entry(a)') /\ Entry(a).key \in refused
      <3>1. SUFFICES ASSUME Siblings(a) = {} PROVE QueuedOK(a)'
        BY DEF QueuedOK
      <3>2. PICK w \in ledger.watched : w.key = Entry(a).key
        BY <2>2, RefusedWatched
      <3>3. Entry(a).state = "previewing" /\ Entry(a).stored
        BY <1>4, <2>2, <3>2 DEF Offered, PreviewOK, PreviewInv, BatchOK
      <3>4. Queued(a) = {}
        BY <1>4, <3>1, <3>3 DEF QueuedOK
      <3>5. Queued(a)' = {}
        BY <1>2, <3>4 DEF Queued
      <3>6. \A i \in ledger'.queue : \A c \in i.codes : c[1] # a
        BY <1>2, <3>4, QueuedMeans
      <3> QED BY <2>2, <3>5, <3>6 DEF Offered, QueuedOK
    <2> QED BY <1>5, <2>1, <2>2
  <1>12. GivenOK'
    <2>1. ASSUME NEW a \in Actions PROVE Older(Entry(a), Entry(a)')
      <3>1. Entry(a).generation \in Nat
        BY <1>4 DEF ActionEntry
      <3>2. CASE KeptEntry(a, Entry(a), Entry(a)')
        BY <3>1, <3>2, TameOlder DEF KeptEntry
      <3>3. CASE Offered(Entry(a), Entry(a)')
        BY <3>1, <3>3 DEF Offered, Older, Numbered
      <3> QED BY <1>5, <3>2, <3>3
    <2>2. again'.proposed \subseteq {}
      BY ReworkIds DEF SettleWatched
    <2> QED BY <1>1, <1>2, <2>1, <2>2, GivenStep DEF PreviewInv
  <1> QED BY <1>7, <1>8, <1>9, <1>10, <1>11, <1>12 DEF PreviewInv

-----------------------------------------------------------------------------
(* The steps of the others *)

\* A step that changes no preview.
LEMMA StillSteps ==
  ASSUME IInv, PreviewInv,
         \/ \E r \in Proposals : StartRequest(r)
         \/ DropRequest
         \/ \E kinds \in {p.possible : p \in Policies} : SetPossible(kinds)
         \/ SnapshotAgain
         \/ \E a \in Actions : StartProbe(a) \/ Pick(a) \/ LandLate(a)
                                 \/ ContentChanges(a)
         \/ Count
         \/ \E execution \in Executions, lands \in BOOLEAN :
              Perform(execution, lands)
         \/ \E copy \in {"saved", "failed"} : CopySent(copy)
         \/ Crash
         \/ StartTasks
         \/ \E r \in Routes : StopChat(r)
         \/ \E c \in Command : Say(c)
         \/ \E b \in BOOLEAN : SetDrain(b)
         \/ Tick
  PROVE  PreviewInv'
  <1>1. ledger' = ledger /\ UNCHANGED <<hub, seen, drawn, owner>>
    BY DEF StartRequest, DropRequest, SetPossible, SnapshotAgain, StartProbe,
       Pick, LandLate, ContentChanges, Count, Perform, CopySent, Crash,
       StartTasks, StopChat, Say, SetDrain, Tick, chatVars, accountVars
  <1>2. Narrower
    <2>1. CASE SnapshotAgain
      BY <2>1, ReworkIds DEF SnapshotAgain, Narrower, Entry
    <2>2. CASE Crash
      BY <2>2 DEF Crash, NoRework, Narrower
    <2>3. CASE ~SnapshotAgain /\ ~Crash
      <3>1. again' = again
        BY <2>3 DEF StartRequest, DropRequest, SetPossible, StartProbe, Pick,
           LandLate, ContentChanges, Count, Perform, CopySent, StartTasks,
           StopChat, Say, SetDrain, Tick, accountVars
      <3> QED BY <3>1 DEF Narrower
    <2> QED BY <2>1, <2>2, <2>3
  <1> QED BY <1>1, <1>2, StillStep

LEMMA AuthorityShown ==
  ASSUME IInv, PreviewInv,
         \/ \E c \in said : Approve(c)
         \/ \E r \in Routes, peer \in Peers, codes \in SUBSET Codes :
              Deny(r, peer, codes)
         \/ \E S \in SUBSET Actions : Cancel(S)
         \/ Expire
         \/ Prune
         \/ SweepActions
  PROVE  PreviewInv'
  <1>1. Narrower /\ UNCHANGED <<hub, seen, drawn, owner>>
    BY DEF Approve, Deny, Cancel, Expire, Prune, SweepActions, chatVars, Narrower
  <1>2. ledger \in MailState /\ now \in Nat
    BY DEF IInv, TypeOK
  <1>3. ASSUME NEW c \in said, Approve(c) PROVE PreviewInv'
    <2>1. c \in Command /\ Len(c.codes) \in {1, 2}
      BY DEF IInv, TypeOK, HubOK
    <2>2. Evidence(c) /\ c.codes \in Seq(Codes)
      BY <2>1 DEF Command, Evidence
    <2>3. Kept(ledger, ledger')
      BY <1>3, <2>1, <2>2, ApproveKept DEF Approve, PreviewInv
    <2> QED BY <1>1, <2>3, KeptStep
  <1>4. ASSUME NEW r \in Routes, NEW peer \in Peers, NEW codes \in SUBSET Codes,
               Deny(r, peer, codes)
        PROVE  Calm(ledger, ledger')
    BY <1>2, <1>4, DenyCalm DEF Deny
  <1>5. ASSUME NEW S \in SUBSET Actions, Cancel(S)
        PROVE  Calm(ledger, ledger')
    BY <1>2, <1>5, CancelCalm DEF Cancel
  <1>6. ASSUME Expire PROVE Calm(ledger, ledger')
    BY <1>2, <1>6, ExpireCalm DEF Expire
  <1>7. ASSUME Prune PROVE Calm(ledger, ledger')
    BY <1>2, <1>7, PruneCalm DEF Prune
  <1>8. ASSUME SweepActions PROVE Calm(ledger, ledger')
    BY <1>2, <1>8, SweepCalm DEF SweepActions
  <1> QED BY <1>1, <1>3, <1>4, <1>5, <1>6, <1>7, <1>8, CalmStep

\* The executor carries out what was approved, and previews nothing.
LEMMA AloneCalm ==
  ASSUME NEW a \in Actions, Alone(ledger, ledger', a),
         Entry(a).state # "absent",
         Entry(a)'.state
           \in {"approved", "executing", "done", "failed", "unknown",
                "invalid"}
  PROVE  Calm(ledger, ledger')
  <1>1. CalmEntry(Entry(a), Entry(a)')
    BY DEF Alone, CalmEntry, Tame, waiting, Entry
  <1>2. \A b \in Actions : b # a => CalmEntry(Entry(b), Entry(b)')
    BY CalmItself DEF Alone, Entry
  <1> QED BY <1>1, <1>2 DEF Alone, Calm, Entry

LEMMA ExecutorShown ==
  ASSUME IInv, PreviewInv,
         \/ \E probe \in {"done", "not_done", "gone", "unknown",
                          "unreachable", "after_copy", "expunge"} :
              Probed(probe)
         \/ BeginExecution
         \/ MarkSent
         \/ FinishExecution
  PROVE  PreviewInv'
  <1>1. Narrower /\ UNCHANGED <<hub, seen, drawn, owner>>
    BY DEF Probed, BeginExecution, MarkSent, FinishExecution, chatVars, Narrower
  <1>2. PICK a \in Actions : a = exec.id
    BY DEF Probed, BeginExecution, MarkSent, FinishExecution, IInv, Core,
       ExecOK
  <1>3. /\ ledger \in MailState /\ now \in Nat /\ policy \in Policy
        /\ exec \in Executor
    BY DEF IInv, TypeOK
  <1>4. Calm(ledger, ledger) /\ Entry(a) = ledger.actions[a]
        /\ Entry(a)' = ledger'.actions[a]
    BY CalmSame DEF SameNotices, Entry
  <1>5. ASSUME NEW probe \in {"done", "not_done", "gone", "unknown",
                              "unreachable", "after_copy", "expunge"},
               Probed(probe)
        PROVE  Calm(ledger, ledger')
    <2>1. ledger' = probed(ledger, a, probe, now)
      BY <1>2, <1>5 DEF Probed
    <2>2. /\ Alone(ledger, ledger', a)
          /\ ledger.actions[a].state # "executing" => ledger' = ledger
          /\ ledger.actions[a].state = "executing" =>
               ledger'.actions[a].state
                 \in {"executing", "approved", "failed", "unknown", "done"}
      BY <1>3, <2>1, ProbedType
    <2> QED BY <1>4, <2>2, AloneCalm
  <1>6. ASSUME BeginExecution PROVE Calm(ledger, ledger')
    <2> DEFINE whole == a \in intact
               ready == Startable(ledger, a, whole, now, policy)
    <2>1. ledger' = begin_execution(ledger, a, whole, now, policy)
      BY <1>2, <1>6 DEF BeginExecution
    <2>2. whole \in BOOLEAN /\ (ready => ledger.actions[a].state = "approved")
      BY DEF Startable, Ready
    <2> HIDE DEF whole
    <2>3. /\ Alone(ledger, ledger', a)
          /\ ready => ledger'.actions[a].state = "executing"
          /\ ~ready => \/ ledger' = ledger
                       \/ /\ ledger.actions[a].state = "approved"
                          /\ ledger'.actions[a].state
                               \in {"unknown", "failed", "invalid"}
      BY <1>3, <2>1, <2>2, BeginExecutionType
    <2> QED BY <1>4, <2>2, <2>3, AloneCalm
  <1>7. ASSUME MarkSent PROVE Calm(ledger, ledger')
    <2>1. ledger' = mark_sent(ledger, a, now)
      BY <1>2, <1>7 DEF MarkSent
    <2>2. Alone(ledger, ledger', a) /\ ledger'.actions[a].state = "done"
      BY <1>3, <2>1, MarkSentType
    <2>3. Entry(a).state = "executing"
      BY <1>2, <1>7 DEF MarkSent, IInv, Core, ExecOK
    <2> QED BY <1>4, <2>2, <2>3, AloneCalm
  <1>8. ASSUME FinishExecution PROVE Calm(ledger, ledger')
    <2> DEFINE x == IF exec.pc = "copied" THEN "applied" ELSE exec.result
               copy == IF exec.pc = "copied" THEN exec.result ELSE "none"
    <2>1. exec.pc \in {"ran", "copied"}
      BY <1>8 DEF FinishExecution
    <2>2. ledger' = finish_execution(ledger, a, x, copy, exec.resume, now)
      BY <1>2, <1>8, <2>1 DEF FinishExecution
    <2>3. /\ x \in {"applied", "not_applied", "retry", "ambiguous",
                    "uncertain"}
          /\ copy \in SentCopies
          /\ exec.resume \in Resumes
      BY <2>1 DEF IInv, Core, TypeOK, Executor, ExecOK, Executions, SentCopies
    <2>4. Entry(a).state \in {"executing", "done"}
      BY <1>2, <2>1 DEF IInv, Core, ExecOK
    <2> HIDE DEF x, copy
    <2>5. /\ Alone(ledger, ledger', a)
          /\ x = "applied" => ledger'.actions[a].state = "done"
          /\ x \in {"not_applied", "retry"} =>
               ledger'.actions[a].state \in {"approved", "failed"}
          /\ x \in {"ambiguous", "uncertain"} =>
               ledger'.actions[a].state = ledger.actions[a].state
      BY <1>3, <2>2, <2>3, FinishExecutionType
    <2> QED BY <1>4, <2>3, <2>4, <2>5, AloneCalm
  <1> QED BY <1>1, <1>5, <1>6, <1>7, <1>8, CalmStep

\* What is previewed again after a start is offered and not queued.
LEMMA StartShown ==
  ASSUME IInv, PreviewInv, (\E p \in Policies : Restart(p)) \/ StartSweep
  PROVE  PreviewInv'
  <1>1. UNCHANGED <<hub, seen, drawn, owner>>
    BY DEF Restart, StartSweep, chatVars
  <1>2. ledger \in MailState /\ now \in Nat
    BY DEF IInv, TypeOK
  <1>3. ASSUME NEW p \in Policies, Restart(p) PROVE PreviewInv'
    <2>1. p \in Policy
      BY MailActionsConstants
    <2>2. Calm(ledger, ledger')
      BY <1>2, <1>3, <2>1, RecoverCalm DEF Restart
    <2>3. /\ ledger'.batch = ledger.batch /\ ledger'.queue = ledger.queue
          /\ ledger'.watched = ledger.watched
          /\ \A a \in Actions : CalmEntry(Entry(a), Entry(a)')
      BY <2>2 DEF Calm, SameNotices, Entry
    <2>4. again'.ids = unpreviewed(ledger')
      BY <1>3, ReworkIds DEF Restart
    <2>5. \A a \in Actions : /\ EntryShown(a, Entry(a))
                             /\ PreviewOK(a)
                             /\ QueuedOK(a)
                             /\ KeptEntry(a, Entry(a), Entry(a)')
      BY <2>3, CalmKeeps DEF PreviewInv, ShownOK
    <2>6. ShownOK'
      BY <1>1, <2>5, SameSightings DEF KeptEntry
    <2>7. NoticeOK'
      BY <1>1, ChatsKept DEF PreviewInv
    <2>8. BatchOK'
      BY <1>1, <2>3 DEF PreviewInv, BatchOK
    <2>9. \A a \in Actions : PreviewOK(a)'
      <3>1. ASSUME NEW a \in Actions PROVE PreviewOK(a)'
        BY <1>1, <2>3, <2>5, TamePreview DEF KeptEntry
      <3> QED BY <3>1
    <2>10. \A a \in Actions : QueuedOK(a)'
      <3>1. ASSUME NEW a \in Actions PROVE QueuedOK(a)'
        <4>1. a \in again'.ids =>
                Entry(a)'.state = "proposed" /\ Queued(a)' = {}
          BY <2>4 DEF unpreviewed, Queued, Entry
        <4> QED BY <2>3, <2>5, <4>1, TameQueued DEF KeptEntry
      <3> QED BY <3>1
    <2>11. GivenOK'
      <3>1. \A a \in Actions : Entry(a).generation \in Nat
        BY <1>2, EntryType DEF ActionEntry, Entry
      <3>2. \A a \in Actions : Older(Entry(a), Entry(a)')
        BY <2>5, <3>1, TameOlder DEF KeptEntry
      <3>3. again'.proposed \subseteq {}
        BY <1>3, ReworkIds DEF Restart
      <3> QED BY <1>1, <2>3, <3>2, <3>3, GivenStep DEF PreviewInv
    <2> QED BY <2>6, <2>7, <2>8, <2>9, <2>10, <2>11 DEF PreviewInv
  <1>4. ASSUME StartSweep PROVE PreviewInv'
    <2> DEFINE M == prune(ledger, now)
               N == expire(M, now)
    <2>1. ledger' = sweep_actions(N, now) /\ again' = again
      BY <1>4 DEF StartSweep
    <2>2. M \in MailState /\ Calm(ledger, M)
      BY <1>2, PruneType, PruneCalm
    <2> HIDE DEF M
    <2>3. N \in MailState /\ Calm(M, N)
      BY <1>2, <2>2, ExpireType, ExpireCalm
    <2> HIDE DEF N
    <2>4. Calm(N, ledger')
      BY <1>2, <2>1, <2>3, SweepCalm
    <2>5. Calm(ledger, ledger')
      BY <2>2, <2>3, <2>4, CalmTrans
    <2>6. Narrower
      BY <2>1 DEF Narrower
    <2> QED BY <1>1, <2>5, <2>6, CalmStep
  <1> QED BY <1>3, <1>4

-----------------------------------------------------------------------------
(* The chats' steps *)

LEMMA ChatShown ==
  ASSUME IInv, PreviewInv, UNCHANGED <<ledger, again, drawn>>,
         seen \subseteq seen', NoticeOK',
         \A r \in Routes, k \in BatchKeys :
           /\ StillShows(hub[<<r, k>>], hub'[<<r, k>>])
           /\ hub'[<<r, k>>].codes \subseteq hub[<<r, k>>].codes,
         \A s \in seen' :
           s \in seen \/ \E r \in Routes, k \in BatchKeys :
                            s.code \in hub[<<r, k>>].codes
  PROVE  PreviewInv'
  <1>1. \A a \in Actions : /\ Entry(a) \in ActionEntry
                           /\ Entry(a)' = Entry(a)
    BY EntryType DEF IInv, TypeOK, Entry
  <1>2. ShownOK'
    <2>1. ASSUME NEW a \in Actions PROVE EntryShown(a, Entry(a))'
      <3>1. EntryShown(a, Entry(a)) /\ PreviewOK(a)
        BY DEF PreviewInv, ShownOK
      <3>2. ASSUME Entry(a).state = "previewing", Entry(a).stored
            PROVE  StillShows(hub[<<Entry(a).route, Entry(a).key>>],
                              hub'[<<Entry(a).route, Entry(a).key>>])
        <4>1. Entry(a).key # NoKey /\ Entry(a).route # None
          BY <3>1, <3>2 DEF PreviewOK, EntryShown, StoredShown
        <4>2. Entry(a).route \in Routes /\ Entry(a).key \in BatchKeys
          BY <1>1, <4>1 DEF ActionEntry
        <4> QED BY <4>2
      <3> QED BY <1>1, <3>1, <3>2, SightingsKept
    <2> QED BY <2>1 DEF ShownOK
  <1>3. BatchOK'
    <2>1. ledger.batch # None => ledger.batch.key \in BatchKeys
      BY DEF IInv, TypeOK, MailState, Batch
    <2> QED BY <2>1 DEF PreviewInv, BatchOK, StillShows
  <1>4. \A a \in Actions : PreviewOK(a)'
    BY DEF PreviewInv, PreviewOK, Entry, Names
  <1>5. \A a \in Actions : QueuedOK(a)'
    BY DEF PreviewInv, QueuedOK, Queued, Entry
  <1>6. GivenOK'
    <2>1. \A a \in Actions : Older(Entry(a), Entry(a)')
      BY <1>1 DEF Older, ActionEntry
    <2> QED BY <2>1, GivenStep DEF PreviewInv
  <1> QED BY <1>2, <1>3, <1>4, <1>5, <1>6 DEF PreviewInv

LEMMA DeliverShown ==
  ASSUME IInv, PreviewInv, NEW r \in Routes, NEW k \in BatchKeys,
         Deliver(r, k)
  PROVE  PreviewInv'
  <1> DEFINE n == <<r, k>>
             x == [hub[n] EXCEPT !.status = "delivered", !.at = now]
  <1>1. /\ UNCHANGED <<ledger, again, drawn, owner>>
        /\ hub[n].status = "pending"
        /\ seen' = seen \cup Sightings(r, k)
    BY DEF Deliver, accountVars
  <1>2. /\ hub \in [Routes \X BatchKeys -> Notice]
        /\ n \in Routes \X BatchKeys
        /\ hub[n] \in Notice
    BY DEF IInv, TypeOK
  <1>3. hub' = [hub EXCEPT ![n] = x]
    BY <1>2 DEF Deliver, Notice
  <1>4. /\ x.peer = hub[n].peer /\ x.codes = hub[n].codes
        /\ x.at = now /\ x.status = "delivered"
    BY <1>2 DEF Notice
  <1>5. \A c \in hub[n].codes : \E s \in seen' :
          s.code = c /\ s.route = r /\ s.peer = hub[n].peer /\ s.at <= now
    <2>1. now \in Nat
      BY DEF IInv, TypeOK
    <2>2. ASSUME NEW c \in hub[n].codes
          PROVE  \E s \in seen' : /\ s.code = c /\ s.route = r
                                  /\ s.peer = hub[n].peer /\ s.at <= now
      <3> DEFINE s == [code |-> c, route |-> r, peer |-> hub[n].peer,
                       at |-> now]
      <3>1. s \in seen'
        BY <1>1, <2>2 DEF Sightings
      <3>2. /\ s.code = c /\ s.route = r /\ s.peer = hub[n].peer
            /\ s.at <= now
        BY <2>1
      <3> HIDE DEF s
      <3> QED BY <3>1, <3>2
    <2> QED BY <2>2
  <1> HIDE DEF x
  <1>6. \A q \in Routes, l \in BatchKeys :
          \/ hub'[<<q, l>>] = hub[<<q, l>>]
          \/ <<q, l>> = n /\ hub'[<<q, l>>] = x
    BY <1>2, <1>3
  <1>7. NoticeOK'
    <2>1. ASSUME NEW q \in Routes, NEW l \in BatchKeys
          PROVE  NoticeShown(q, l)'
      <3>1. NoticeShown(q, l)
        BY DEF PreviewInv, NoticeOK
      <3>2. CASE hub'[<<q, l>>] = hub[<<q, l>>]
        BY <1>1, <3>1, <3>2 DEF NoticeShown
      <3>3. CASE <<q, l>> = n /\ hub'[<<q, l>>] = x
        <4>1. q = r /\ l = k
          BY <3>3
        <4>2. l <= drawn /\ hub[n].peer = owner[q]
          BY <1>1, <3>1, <4>1 DEF NoticeShown
        <4> QED BY <1>1, <1>4, <1>5, <3>3, <4>1, <4>2 DEF NoticeShown
      <3> QED BY <1>6, <3>2, <3>3
    <2> QED BY <2>1 DEF NoticeOK
  <1>8. \A q \in Routes, l \in BatchKeys :
          /\ StillShows(hub[<<q, l>>], hub'[<<q, l>>])
          /\ hub'[<<q, l>>].codes \subseteq hub[<<q, l>>].codes
    BY <1>1, <1>4, <1>6 DEF StillShows
  <1>9. \A s \in seen' : s \in seen \/ s.code \in hub[<<r, k>>].codes
    BY <1>1 DEF Sightings
  <1> QED BY <1>1, <1>7, <1>8, <1>9, ChatShown

LEMMA UnrecordedShown ==
  ASSUME IInv, PreviewInv, NEW r \in Routes, NEW k \in BatchKeys,
         DeliverUnrecorded(r, k)
  PROVE  PreviewInv'
  <1>1. /\ UNCHANGED <<ledger, again, drawn, owner, hub>> /\ seen \subseteq seen'
        /\ \A s \in seen' : s \in seen \/ s.code \in hub[<<r, k>>].codes
    BY DEF DeliverUnrecorded, accountVars, Sightings
  <1>2. NoticeOK'
    <2>1. ASSUME NEW q \in Routes, NEW l \in BatchKeys
          PROVE  NoticeShown(q, l)'
      <3>1. NoticeShown(q, l)
        BY DEF PreviewInv, NoticeOK
      <3> QED BY <1>1, <3>1 DEF NoticeShown
    <2> QED BY <2>1 DEF NoticeOK
  <1> QED BY <1>1, <1>2, ChatShown DEF StillShows

LEMMA RefuseShown ==
  ASSUME IInv, PreviewInv, NEW r \in Routes, NEW k \in BatchKeys,
         Refuse(r, k)
  PROVE  PreviewInv'
  <1> DEFINE n == <<r, k>>
             x == [hub[n] EXCEPT !.status = "refused"]
  <1>1. /\ UNCHANGED <<ledger, again, drawn, owner, seen>>
        /\ hub[n].status = "pending"
    BY DEF Refuse, accountVars
  <1>2. /\ hub \in [Routes \X BatchKeys -> Notice]
        /\ n \in Routes \X BatchKeys
        /\ hub[n] \in Notice
    BY DEF IInv, TypeOK
  <1>3. hub' = [hub EXCEPT ![n] = x]
    BY <1>2 DEF Refuse, Notice
  <1>4. /\ x.peer = hub[n].peer /\ x.codes = hub[n].codes
        /\ x.status = "refused"
    BY <1>2 DEF Notice
  <1> HIDE DEF x
  <1>5. \A q \in Routes, l \in BatchKeys :
          \/ hub'[<<q, l>>] = hub[<<q, l>>]
          \/ <<q, l>> = n /\ hub'[<<q, l>>] = x
    BY <1>2, <1>3
  <1>6. NoticeOK'
    <2>1. ASSUME NEW q \in Routes, NEW l \in BatchKeys
          PROVE  NoticeShown(q, l)'
      <3>1. NoticeShown(q, l)
        BY DEF PreviewInv, NoticeOK
      <3>2. CASE hub'[<<q, l>>] = hub[<<q, l>>]
        BY <1>1, <3>1, <3>2 DEF NoticeShown
      <3>3. CASE <<q, l>> = n /\ hub'[<<q, l>>] = x
        BY <1>1, <1>4, <3>1, <3>3 DEF NoticeShown
      <3> QED BY <1>5, <3>2, <3>3
    <2> QED BY <2>1 DEF NoticeOK
  <1>7. \A q \in Routes, l \in BatchKeys :
          /\ StillShows(hub[<<q, l>>], hub'[<<q, l>>])
          /\ hub'[<<q, l>>].codes \subseteq hub[<<q, l>>].codes
    BY <1>1, <1>4, <1>5 DEF StillShows
  <1> QED BY <1>1, <1>6, <1>7, ChatShown

\* A chat that starts for another owner has forgotten its notices.
LEMMA StartChatShown ==
  ASSUME IInv, PreviewInv, NEW r \in Routes, NEW peer \in Peers,
         StartChat(r, peer)
  PROVE  PreviewInv'
  <1>1. UNCHANGED <<ledger, again, drawn, seen>>
    BY DEF StartChat, accountVars
  <1>2. /\ hub \in [Routes \X BatchKeys -> Notice]
        /\ owner \in [Routes -> Peers]
        /\ owner' = [owner EXCEPT ![r] = peer]
    BY DEF IInv, TypeOK, StartChat
  <1>3. NoNotice.status = "absent" /\ NoNotice.codes = {}
    BY DEF NoNotice
  <1>4. \A q \in Routes, l \in BatchKeys :
          \/ hub'[<<q, l>>] = hub[<<q, l>>] /\ owner'[q] = owner[q]
          \/ hub'[<<q, l>>].status = "absent" /\ hub'[<<q, l>>].codes = {}
    <2>1. ASSUME NEW q \in Routes, NEW l \in BatchKeys
          PROVE  \/ hub'[<<q, l>>] = hub[<<q, l>>] /\ owner'[q] = owner[q]
                 \/ hub'[<<q, l>>].status = "absent" /\ hub'[<<q, l>>].codes = {}
      <3>1. CASE peer = owner[r]
        BY <1>2, <3>1 DEF StartChat
      <3>2. CASE peer # owner[r]
        <4>1. hub' = [n \in Routes \X BatchKeys |->
                        IF n[1] = r THEN NoNotice ELSE hub[n]]
          BY <1>2, <3>2 DEF StartChat
        <4>2. hub'[<<q, l>>] = IF q = r THEN NoNotice ELSE hub[<<q, l>>]
          BY <4>1
        <4> QED BY <1>2, <1>3, <4>2
      <3> QED BY <3>1, <3>2
    <2> QED BY <2>1
  <1>5. NoticeOK'
    <2>1. ASSUME NEW q \in Routes, NEW l \in BatchKeys
          PROVE  NoticeShown(q, l)'
      <3>1. NoticeShown(q, l)
        BY DEF PreviewInv, NoticeOK
      <3> QED BY <1>1, <1>4, <3>1 DEF NoticeShown
    <2> QED BY <2>1 DEF NoticeOK
  <1>6. \A q \in Routes, l \in BatchKeys :
          /\ StillShows(hub[<<q, l>>], hub'[<<q, l>>])
          /\ hub'[<<q, l>>].codes \subseteq hub[<<q, l>>].codes
    BY <1>4 DEF StillShows
  <1> QED BY <1>1, <1>5, <1>6, ChatShown

-----------------------------------------------------------------------------
(* The theorem *)

LEMMA InitPreviewInv ==
  ASSUME Init
  PROVE  PreviewInv
  <1>1. \A a \in Actions : Entry(a) = absent_entry
    BY DEF Init, EmptyState, Entry
  <1>2. ledger.queue = {} /\ ledger.batch = None /\ ledger.watched = {}
    BY DEF Init, EmptyState
  <1>3. ShownOK
    BY <1>1 DEF ShownOK, EntryShown, NotYetApproved, ApprovedShown, OpenShown,
       StoredShown, absent_entry
  <1>4. NoticeOK
    <2>1. \A r \in Routes, k \in BatchKeys : hub[<<r, k>>].status = "absent"
      BY DEF Init, NoNotice
    <2> QED BY <2>1 DEF NoticeOK, NoticeShown
  <1>5. BatchOK
    BY <1>2 DEF BatchOK
  <1>6. \A a \in Actions : PreviewOK(a)
    BY <1>1 DEF PreviewOK, absent_entry
  <1>7. \A a \in Actions : QueuedOK(a)
    BY <1>1, <1>2 DEF QueuedOK, Queued, absent_entry, Init, NoRework
  <1>8. GivenOK
    <2>1. /\ \A r \in Routes, k \in BatchKeys : hub[<<r, k>>].codes = {}
          /\ again.proposed = {} /\ seen = {}
      BY DEF Init, NoNotice, NoRework
    <2>2. \A a \in Actions : Numbered(Entry(a))
      BY <1>1 DEF Numbered, absent_entry
    <2> QED BY <1>2, <2>1, <2>2 DEF GivenOK
  <1> QED BY <1>3, <1>4, <1>5, <1>6, <1>7, <1>8 DEF PreviewInv

LEMMA PreviewStep ==
  ASSUME IInv, PreviewInv, [Next]_vars
  PROVE  PreviewInv'
  <1>1. CurrentCodes(ledger) \in SUBSET Codes
    <2>1. \A a \in Actions : ledger.actions[a].generation \in Nat
      BY EntryType DEF IInv, TypeOK, ActionEntry
    <2> QED BY <2>1 DEF CurrentCodes, Codes
  <1>2. /\ Lossy \subseteq Routes /\ Unsteady \subseteq Routes
        /\ Removable \subseteq Actions /\ Restarts \subseteq BOOLEAN
    BY MailActionsConstants
  <1>3. CASE Account
    BY <1>1, <1>3, ProposeShown, SuggestShown, BeginBatchShown, HandOverShown,
       HandOverUnseenShown, DissolveShown, SettleShown, PreviewAgainShown,
       AuthorityShown, StillSteps DEF Account
  <1>4. CASE Execute
    BY <1>4, ExecutorShown, StillSteps DEF Execute
  <1>5. CASE Start
    BY <1>5, StartShown, StillSteps DEF Start
  <1>6. CASE World
    <2>1. \A c : Say(c) => c \in Command
      BY DEF Say
    <2> QED BY <1>2, <1>6, <2>1, DeliverShown, UnrecordedShown, RefuseShown,
            StartChatShown, StillSteps DEF World
  <1>7. CASE UNCHANGED vars
    <2>1. UNCHANGED <<ledger, again, hub, seen, drawn, owner>>
      BY <1>7 DEF vars, accountVars, chatVars
    <2> QED BY <2>1, StillStep DEF Narrower
  <1> QED BY <1>3, <1>4, <1>5, <1>6, <1>7 DEF Next

\* The previews are kept track of in every reachable state.
THEOREM PreviewInvariance == Spec => []PreviewInv
  <1>1. Init => PreviewInv
    BY InitPreviewInv
  <1>2. IInv /\ PreviewInv /\ [Next]_vars => PreviewInv'
    BY PreviewStep
  <1> QED BY <1>1, <1>2, Invariance, PTL DEF Spec

\* No action is approved unless the person who approved it, in the chat they
\* used, had been shown it before they wrote - and shown its current code,
\* unless it is one of alternatives that was offered again under a new code
\* (approve, previews_stored and previews_delivered, whatever is lost,
\* repeated, re-issued or restarted in between).
THEOREM ApprovalsAreInformed == Spec => []ApprovalIsInformed
  <1>1. IInv /\ PreviewInv => ApprovalIsInformed
    <2>1. SUFFICES ASSUME IInv, PreviewInv, NEW a \in Actions,
                          Entry(a).approval # None
                   PROVE  \E s \in seen :
                            /\ s.code[1] = a
                            /\ InOneVersion(a) => s.code[2] = Entry(a).generation
                            /\ s.route = Entry(a).approval.route
                            /\ s.peer = Entry(a).approval.peer
                            /\ s.at <= Entry(a).approval.sent
      BY DEF ApprovalIsInformed
    <2>2. Sighted(a, Entry(a), Entry(a).approval.route, Entry(a).approval.peer,
                  Entry(a).approval.sent)
      BY <2>1 DEF PreviewInv, ShownOK, EntryShown, ApprovedShown
    <2>3. PICK s \in seen : /\ Names(s.code, a, Entry(a))
                            /\ s.route = Entry(a).approval.route
                            /\ s.peer = Entry(a).approval.peer
                            /\ s.at <= Entry(a).approval.sent
      BY <2>2 DEF Sighted
    <2>4. s.code[2] \in Nat /\ 1 <= s.code[2] /\ s.code[2] <= Entry(a).generation
      BY <2>1, <2>3 DEF PreviewInv, GivenOK, Given, Names
    <2>5. Entry(a).generation = 1 => s.code[2] = Entry(a).generation
      BY <2>4
    <2> QED BY <2>3, <2>5 DEF Names, InOneVersion
  <1> QED BY <1>1, Invariance, PreviewInvariance, PTL
=============================================================================
