------------------------- MODULE MailLedger_proofs -------------------------
(***************************************************************************)
(* Facts about the ledger's changes, for every value of the constants:     *)
(* each takes a MailState to a MailState, and none but the executor's own  *)
(* moves an action into or out of the states in which it may have been     *)
(* carried out.                                                            *)
(***************************************************************************)
EXTENDS MailLedger, SequenceTheorems, TLAPS

-----------------------------------------------------------------------------
(* One entry *)

LEMMA Members ==
  /\ Nat \subseteq Times
  /\ NoTime \in Times
  /\ NoKey \in BatchKeys \cup {NoKey}
  BY DEF Times

LEMMA StateMembers ==
  /\ "proposed" \in States
  /\ "previewing" \in States
  /\ "open" \in States
  /\ "approved" \in States
  /\ "executing" \in States
  BY DEF States, Live

LEMMA AbsentEntryType == absent_entry \in ActionEntry
  BY MailLedgerConstants DEF absent_entry, ActionEntry, States, Times, Resumes,
     SentCopies, NoTime, NoKey

LEMMA EndType ==
  ASSUME NEW e \in ActionEntry, NEW st \in Over,
         NEW code \in OutcomeCodes \cup {None}, NEW now \in Nat
  PROVE  /\ end(e, st, code, now) \in ActionEntry
         /\ end(e, st, code, now).state = st
         /\ end(e, st, code, now).approval = e.approval
         /\ end(e, st, code, now).swept = e.swept
         /\ end(e, st, code, now).generation = e.generation
  <1> DEFINE o == IF code = None THEN e.outcome ELSE code
  <1>1. st \in States /\ now \in Times
    BY Members DEF States
  <1>2. o \in OutcomeCodes \cup {None}
    BY DEF ActionEntry
  <1>3. end(e, st, code, now)
          = [e EXCEPT !.state = st, !.terminalAt = now, !.outcome = o]
    BY DEF end
  <1> HIDE DEF o
  <1> QED BY ZenonT(60), <1>1, <1>2, <1>3 DEF ActionEntry

LEMMA OpenType ==
  ASSUME NEW e \in ActionEntry, NEW at \in Nat, NEW p \in Policy
  PROVE  /\ open(e, at, p) \in ActionEntry
         /\ open(e, at, p).state = "open"
         /\ open(e, at, p).approval = e.approval
         /\ open(e, at, p).swept = e.swept
         /\ open(e, at, p).generation = e.generation
  <1> DEFINE x == min(e.hardExpiry, at + p.window)
  <1>1. at \in Times /\ "open" \in States
    BY Members, StateMembers
  <1>2. x \in Nat
    BY DEF min, ActionEntry, Policy
  <1>3. open(e, at, p)
          = [e EXCEPT !.state = "open", !.delivered = at, !.expiresAt = x]
    BY DEF open
  <1> HIDE DEF x
  <1> QED BY ZenonT(60), <1>1, <1>2, <1>3 DEF ActionEntry

LEMMA NewEntryType ==
  ASSUME NEW now \in Nat
  PROVE  /\ new_entry(now) \in ActionEntry
         /\ new_entry(now).state = "proposed"
         /\ new_entry(now).approval = None
         /\ new_entry(now).swept = FALSE
  <1> DEFINE x == now + HardSpan
  <1>1. x \in Nat
    BY MailLedgerConstants
  <1>2. new_entry(now) = [absent_entry EXCEPT !.state = "proposed",
                            !.generation = 1, !.hardExpiry = x,
                            !.expiresAt = x]
    BY DEF new_entry
  <1>3. absent_entry.approval = None /\ absent_entry.swept = FALSE
    BY DEF absent_entry
  <1> HIDE DEF x
  <1>4. [absent_entry EXCEPT !.state = "proposed", !.generation = 1,
            !.hardExpiry = x, !.expiresAt = x] \in ActionEntry
    BY <1>1, AbsentEntryType, StateMembers DEF ActionEntry
  <1>5. /\ new_entry(now).state = "proposed"
        /\ new_entry(now).approval = None
        /\ new_entry(now).swept = FALSE
    BY <1>2, <1>3, AbsentEntryType DEF ActionEntry
  <1> QED BY <1>2, <1>4, <1>5

LEMMA RoutesType ==
  ASSUME NEW p \in Policy
  PROVE  /\ RoutesOf(p) \subseteq Routes
         /\ p.routes # <<>> => p.routes[1] \in Routes
  BY DEF RoutesOf, Policy

LEMMA IntendedRouteType ==
  ASSUME NEW a \in Actions, NEW p \in Policy
  PROVE  intended_route(a, p) \in Routes \cup {None}
  BY RoutesType DEF intended_route

LEMMA BindType ==
  ASSUME NEW e \in ActionEntry, NEW a \in Actions, NEW p \in Policy
  PROVE  /\ bind(e, a, p) \in ActionEntry
         /\ bind(e, a, p).state = e.state
         /\ bind(e, a, p).approval = e.approval
         /\ bind(e, a, p).swept = e.swept
         /\ bind(e, a, p).generation = e.generation
  BY IntendedRouteType DEF bind, ActionEntry

LEMMA ReissueType ==
  ASSUME NEW e \in ActionEntry, NEW now \in Nat
  PROVE  /\ reissue(e, now) \in ActionEntry
         /\ reissue(e, now).state \in {"proposed", "expired"}
         /\ reissue(e, now).approval = e.approval
         /\ reissue(e, now).swept = e.swept
  <1>1. CASE e.generation <= MaxReissues
    <2> DEFINE g == e.generation + 1
    <2>1. g \in Nat
      BY DEF ActionEntry
    <2>2. reissue(e, now)
            = [e EXCEPT !.generation = g, !.state = "proposed",
                        !.key = NoKey, !.route = None, !.peer = None,
                        !.stored = FALSE, !.delivered = NoTime]
      BY <1>1 DEF reissue
    <2> HIDE DEF g
    <2>3. [e EXCEPT !.generation = g, !.state = "proposed",
                    !.key = NoKey, !.route = None, !.peer = None,
                    !.stored = FALSE, !.delivered = NoTime] \in ActionEntry
      BY <2>1, Members, StateMembers DEF ActionEntry
    <2>4. /\ reissue(e, now).state = "proposed"
          /\ reissue(e, now).approval = e.approval
          /\ reissue(e, now).swept = e.swept
      BY <2>2 DEF ActionEntry
    <2> QED BY <2>2, <2>3, <2>4
  <1>2. CASE ~(e.generation <= MaxReissues)
    BY <1>2, EndType DEF reissue, Over
  <1> QED BY <1>1, <1>2

-----------------------------------------------------------------------------
(* The whole state *)

\* The states in which an action may have been carried out.
Committed == {"executing", "done", "unknown"}

\* An entry that makes sense: one that was chosen has its approval, and a
\* tombstone is of something that is over.
EntryOK(e) ==
  /\ e.state \in {"approved"} \cup Committed => e.approval # None
  /\ e.state = "absent" => e.approval = None
  /\ e.swept => e.state \in Over

\* A change of one entry that starts nothing, settles nothing that may have
\* been carried out, leaves what is over as it is and forgets no approval.
QuietEntry(e, f) ==
  /\ e.state \in Committed \/ f.state \in Committed => f.state = e.state
  /\ e.state \in Over => f.state = e.state /\ f.approval = e.approval
  /\ EntryOK(e) => EntryOK(f)
  /\ EntryOK(e) /\ e.approval # None => f.approval # None
Quiet(L, M) == \A a \in Actions : QuietEntry(L.actions[a], M.actions[a])

LEMMA QuietSame ==
  ASSUME NEW L, NEW M, M.actions = L.actions
  PROVE  Quiet(L, M)
  BY DEF Quiet, QuietEntry

LEMMA QuietTrans ==
  ASSUME NEW L, NEW M, NEW N, Quiet(L, M), Quiet(M, N)
  PROVE  Quiet(L, N)
  BY DEF Quiet, QuietEntry

LEMMA ActionsType ==
  ASSUME NEW L \in MailState, NEW F \in [Actions -> ActionEntry]
  PROVE  /\ [L EXCEPT !.actions = F] \in MailState
         /\ [L EXCEPT !.actions = F].actions = F
  BY DEF MailState

LEMMA EntryType ==
  ASSUME NEW L \in MailState, NEW a \in Actions
  PROVE  L.actions[a] \in ActionEntry
  BY DEF MailState

LEMMA OneEntryType ==
  ASSUME NEW L \in MailState, NEW a \in Actions, NEW e \in ActionEntry
  PROVE  /\ [L EXCEPT !.actions[a] = e] \in MailState
         /\ [L EXCEPT !.actions[a] = e].actions
              = [L.actions EXCEPT ![a] = e]
  BY DEF MailState

LEMMA BindUnassignedType ==
  ASSUME NEW L \in MailState, NEW p \in Policy
  PROVE  bind_unassigned(L, p) \in MailState /\ Quiet(L, bind_unassigned(L, p))
  <1> DEFINE F == [a \in Actions |-> bind(L.actions[a], a, p)]
  <1>1. F \in [Actions -> ActionEntry]
    BY EntryType, BindType
  <1>2. \A a \in Actions : QuietEntry(L.actions[a], F[a])
    BY EntryType, BindType DEF QuietEntry, EntryOK
  <1> QED BY <1>1, <1>2, ActionsType DEF bind_unassigned, Quiet

LEMMA PushItemType ==
  ASSUME NEW L \in MailState, NEW item \in Item
  PROVE  push_item(L, item) \in MailState /\ Quiet(L, push_item(L, item))
  <1>1. [L EXCEPT !.queue = @ \cup {item}] \in MailState
    BY DEF MailState
  <1>2. [L EXCEPT !.queue = @ \cup {item}].actions = L.actions
    BY DEF MailState
  <1> QED BY <1>1, <1>2, QuietSame DEF push_item

LEMMA PruneType ==
  ASSUME NEW L \in MailState, NEW now \in Nat
  PROVE  prune(L, now) \in MailState /\ Quiet(L, prune(L, now))
  <1>1. prune(L, now) \in MailState
    BY DEF prune, MailState
  <1>2. prune(L, now).actions = L.actions
    BY DEF prune, MailState
  <1> QED BY <1>1, <1>2, QuietSame

LEMMA TellType ==
  ASSUME NEW t \in Texts, NEW e \in ActionEntry
  PROVE  tell(t, e) \in Texts
  BY DEF tell, outcome_text, Texts

\* Neither the notices queued nor those handed over changed.
SameNotices(L, M) ==
  M.queue = L.queue /\ M.batch = L.batch /\ M.watched = L.watched

LEMMA FinishType ==
  ASSUME NEW L \in MailState, NEW S, NEW st \in Over,
         NEW code \in OutcomeCodes \cup {None}, NEW now \in Nat
  PROVE  /\ finish(L, S, st, code, now) \in MailState
         /\ SameNotices(L, finish(L, S, st, code, now))
         /\ \A a \in Actions :
              /\ a \in S => finish(L, S, st, code, now).actions[a].state = st
              /\ a \notin S => finish(L, S, st, code, now).actions[a]
                                = L.actions[a]
              /\ finish(L, S, st, code, now).actions[a].approval
                   = L.actions[a].approval
              /\ finish(L, S, st, code, now).actions[a].swept
                   = L.actions[a].swept
              /\ finish(L, S, st, code, now).actions[a].generation
                   = L.actions[a].generation
  <1> DEFINE ended == [a \in Actions |-> IF a \in S
                                         THEN end(L.actions[a], st, code, now)
                                         ELSE L.actions[a]]
             kept == IF st \in {"done", "unknown"} THEN L.reservations
                     ELSE {r \in L.reservations : r.id \notin S}
             told == [a \in Actions |->
                        IF a \in S /\ L.actions[a].approval # None
                        THEN tell(L.told[a], ended[a]) ELSE L.told[a]]
             M == [L EXCEPT !.actions = ended, !.reservations = kept,
                            !.told = told]
  <1>1. ended \in [Actions -> ActionEntry]
    BY EntryType, EndType
  <1>2. kept \in SUBSET Reservation
    BY DEF MailState
  <1>3. told \in [Actions -> Texts]
    <2>1. \A a \in Actions : L.told[a] \in Texts
      BY DEF MailState
    <2> QED BY <1>1, <2>1, TellType
  <1>4. finish(L, S, st, code, now) = M
    BY DEF finish
  <1>5. \A a \in Actions :
          /\ a \in S => ended[a].state = st
          /\ a \notin S => ended[a] = L.actions[a]
          /\ ended[a].approval = L.actions[a].approval
          /\ ended[a].swept = L.actions[a].swept
          /\ ended[a].generation = L.actions[a].generation
    BY EntryType, EndType
  <1> HIDE DEF ended, kept, told
  <1>6. M \in MailState /\ M.actions = ended
    BY <1>1, <1>2, <1>3 DEF MailState
  <1>7. SameNotices(L, M)
    BY DEF MailState, SameNotices
  <1> QED BY <1>4, <1>5, <1>6, <1>7
\* What is not under way and not over may end, if not as done or unknown.
LEMMA EndQuiet ==
  ASSUME NEW e \in ActionEntry, NEW st \in Over \ Committed,
         NEW code \in OutcomeCodes \cup {None}, NEW now \in Nat,
         e.state \in Live \ {"executing"}
  PROVE  QuietEntry(e, end(e, st, code, now))
  <1>1. end(e, st, code, now).state = st
        /\ end(e, st, code, now).approval = e.approval
    BY EndType
  <1>2. /\ e.state \notin Committed
        /\ e.state \notin Over
        /\ st \notin {"absent", "approved"} \cup Committed
    BY DEF Committed, Over, Live
  <1> QED BY <1>1, <1>2 DEF QuietEntry, EntryOK

\* What waits may wait otherwise, or expire.
LEMMA WaitQuiet ==
  ASSUME NEW e, NEW f, waiting(e), waiting(f) \/ f.state = "expired",
         f.approval = e.approval, f.swept = e.swept
  PROVE  QuietEntry(e, f)
  BY DEF waiting, QuietEntry, EntryOK, Committed, Over

LEMMA QuietItself ==
  ASSUME NEW e PROVE QuietEntry(e, e)
  BY DEF QuietEntry

LEMMA QuietMap ==
  ASSUME NEW L \in MailState, NEW F \in [Actions -> ActionEntry],
         \A a \in Actions : QuietEntry(L.actions[a], F[a])
  PROVE  /\ [L EXCEPT !.actions = F] \in MailState
         /\ [L EXCEPT !.actions = F].actions = F
         /\ Quiet(L, [L EXCEPT !.actions = F])
  BY ActionsType DEF Quiet

-----------------------------------------------------------------------------
(* Proposals *)

LEMMA AddProposedType ==
  ASSUME NEW L \in MailState, NEW new \in SUBSET Actions, NEW now \in Nat,
         NEW p \in Policy, \A a \in new : L.actions[a].state = "absent"
  PROVE  /\ add_proposed(L, new, now, p) \in MailState
         /\ Quiet(L, add_proposed(L, new, now, p))
  <1> DEFINE F == [a \in Actions |-> IF a \in new THEN new_entry(now)
                                                  ELSE L.actions[a]]
             M == [L EXCEPT !.actions = F]
  <1>1. F \in [Actions -> ActionEntry]
    BY EntryType, NewEntryType
  <1>2. \A a \in Actions : QuietEntry(L.actions[a], F[a])
    BY NewEntryType DEF QuietEntry, EntryOK, Committed, Over
  <1>3. add_proposed(L, new, now, p) = bind_unassigned(M, p)
    BY DEF add_proposed, Each
  <1> HIDE DEF F
  <1>4. M \in MailState /\ Quiet(L, M)
    BY <1>1, <1>2, QuietMap
  <1> HIDE DEF M
  <1> QED BY <1>3, <1>4, BindUnassignedType, QuietTrans

LEMMA FirstItemType ==
  ASSUME NEW head \in Actions, NEW new \in SUBSET Actions
  PROVE  [head |-> head, generation |-> 1, codes |-> {<<a, 1>> : a \in new}]
           \in Item
  BY DEF Item, Codes

LEMMA ProposeType ==
  ASSUME NEW L \in MailState, NEW new \in SUBSET Actions,
         NEW revised \in SUBSET Actions, NEW head \in Actions,
         NEW now \in Nat, NEW p \in Policy
  PROVE  /\ propose(L, new, revised, head, now, p) \in MailState
         /\ Quiet(L, propose(L, new, revised, head, now, p))
  <1>1. CASE Refused(L, new, revised)
    BY <1>1, QuietSame DEF propose
  <1>2. CASE ~Refused(L, new, revised)
    <2> DEFINE replaced == {a \in revised : waiting(L.actions[a])}
               F == [a \in Actions |->
                       IF a \in replaced
                       THEN end(L.actions[a], "superseded", None, now)
                       ELSE L.actions[a]]
               M == [L EXCEPT !.actions = F]
               item == [head |-> head, generation |-> 1,
                        codes |-> {<<a, 1>> : a \in new}]
    <2>1. F \in [Actions -> ActionEntry]
      BY EntryType, EndType DEF Over
    <2>2. \A a \in Actions : QuietEntry(L.actions[a], F[a])
      <3>1. "superseded" \in Over \ Committed
        BY DEF Over, Committed
      <3>2. \A a \in replaced : L.actions[a].state \in Live \ {"executing"}
        BY DEF waiting, Live
      <3> QED BY <3>1, <3>2, EntryType, EndQuiet, QuietItself
    <2>3. propose(L, new, revised, head, now, p)
            = push_item(add_proposed(M, new, now, p), item)
      BY <1>2 DEF propose, Each
    <2>4. \A a \in new : F[a].state = "absent"
      <3>1. \A a \in new : L.actions[a].state = "absent"
        BY <1>2 DEF Refused
      <3> QED BY <3>1 DEF waiting
    <2>5. item \in Item
      BY FirstItemType
    <2> HIDE DEF F, item
    <2>6. M \in MailState /\ Quiet(L, M) /\ M.actions = F
      BY <2>1, <2>2, QuietMap
    <2> HIDE DEF M
    <2>7. \A a \in new : M.actions[a].state = "absent"
      BY <2>4, <2>6
    <2> DEFINE N == add_proposed(M, new, now, p)
    <2>8. N \in MailState /\ Quiet(M, N)
      BY <2>6, <2>7, AddProposedType
    <2> HIDE DEF N
    <2>9. push_item(N, item) \in MailState /\ Quiet(N, push_item(N, item))
      BY <2>5, <2>8, PushItemType
    <2> QED BY <2>3, <2>6, <2>8, <2>9, QuietTrans DEF N
  <1> QED BY <1>1, <1>2

LEMMA RecordReportType ==
  ASSUME NEW L \in MailState, NEW a \in Actions, NEW now \in Nat,
         NEW p \in Policy, L.actions[a].state = "absent"
  PROVE  /\ record_report(L, a, now, p) \in MailState
         /\ Quiet(L, record_report(L, a, now, p))
  <1> DEFINE item == [head |-> a, generation |-> 1, codes |-> {<<a, 1>>}]
             M == add_proposed(L, {a}, now, p)
             N == push_item(M, item)
  <1>1. item \in Item
    BY DEF Item, Codes
  <1>2. M \in MailState /\ Quiet(L, M)
    BY AddProposedType
  <1>3. record_report(L, a, now, p) = prune(N, now)
    BY DEF record_report
  <1> HIDE DEF item, M
  <1>4. N \in MailState /\ Quiet(M, N)
    BY <1>1, <1>2, PushItemType
  <1> HIDE DEF N
  <1> QED BY <1>2, <1>3, <1>4, PruneType, QuietTrans

-----------------------------------------------------------------------------
(* Previews *)

LEMMA BeginBatchType ==
  ASSUME NEW L \in MailState, NEW key \in BatchKeys,
         NEW items \in SUBSET Item, NEW p \in Policy
  PROVE  /\ begin_batch(L, key, items, p) \in MailState
         /\ Quiet(L, begin_batch(L, key, items, p))
  <1> DEFINE ids == UNION {Previews(i) : i \in items}
             hand(e) == IF e.state \in {"proposed", "previewing"}
                        THEN [e EXCEPT !.state = "previewing", !.key = key,
                                       !.stored = FALSE, !.delivered = NoTime]
                        ELSE e
             F == [a \in Actions |-> IF a \in ids THEN hand(L.actions[a])
                                                  ELSE L.actions[a]]
             batch == [key |-> key, items |-> items]
             M == [L EXCEPT !.actions = F, !.batch = batch]
  <1>1. ASSUME NEW e \in ActionEntry
        PROVE  hand(e) \in ActionEntry /\ QuietEntry(e, hand(e))
    <2>1. [e EXCEPT !.state = "previewing", !.key = key, !.stored = FALSE,
                    !.delivered = NoTime] \in ActionEntry
      BY Members, StateMembers DEF ActionEntry
    <2>2. QuietEntry(e, hand(e))
      <3>1. CASE e.state \in {"proposed", "previewing"}
        <4>1. /\ hand(e).state = "previewing"
              /\ hand(e).approval = e.approval
              /\ hand(e).swept = e.swept
          BY <3>1 DEF ActionEntry
        <4> HIDE DEF hand
        <4> QED BY <3>1, <4>1, WaitQuiet DEF waiting
      <3>2. CASE e.state \notin {"proposed", "previewing"}
        BY <3>2, QuietItself
      <3> QED BY <3>1, <3>2
    <2> QED BY <2>1, <2>2
  <1>2. F \in [Actions -> ActionEntry]
    <2> HIDE DEF hand
    <2> QED BY <1>1, EntryType
  <1>3. \A a \in Actions : QuietEntry(L.actions[a], F[a])
    <2> HIDE DEF hand
    <2> QED BY <1>1, EntryType, QuietItself
  <1>4. begin_batch(L, key, items, p) = bind_unassigned(M, p)
    BY DEF begin_batch, Each, MailState
  <1>5. batch \in Batch
    BY DEF Batch
  <1> HIDE DEF F, batch
  <1>6. M \in MailState /\ M.actions = F
    BY <1>2, <1>5 DEF MailState
  <1>7. Quiet(L, M)
    BY <1>3, <1>6 DEF Quiet
  <1> HIDE DEF M
  <1> QED BY <1>4, <1>6, <1>7, BindUnassignedType, QuietTrans

\* The actions handed over under one key still wait for their preview.
LEMMA PreviewingLive ==
  ASSUME NEW L, NEW k, NEW a \in Previewing(L, k)
  PROVE  a \in Actions /\ L.actions[a].state \in Live \ {"executing"}
  BY DEF Previewing, Live

LEMMA BatchStoredType ==
  ASSUME NEW L \in MailState, L.batch # None, NEW route \in Routes,
         NEW peer \in Peers, NEW now \in Nat
  PROVE  /\ batch_stored(L, route, peer, now) \in MailState
         /\ Quiet(L, batch_stored(L, route, peer, now))
  <1> DEFINE P == Previewing(L, L.batch.key)
             F == [a \in Actions |->
                     IF a \in P
                     THEN [L.actions[a] EXCEPT !.route = route, !.peer = peer,
                                               !.stored = TRUE]
                     ELSE L.actions[a]]
             sent == {<<i.head, i.generation>> : i \in L.batch.items}
             watch == [key |-> L.batch.key, route |-> route]
             M == [L EXCEPT !.actions = F, !.batch = None,
                            !.queue = @ \ L.batch.items,
                            !.sentKeys = @ \cup sent,
                            !.watched = @ \cup {watch}]
  <1>1. F \in [Actions -> ActionEntry]
    <2>1. ASSUME NEW e \in ActionEntry
          PROVE  [e EXCEPT !.route = route, !.peer = peer, !.stored = TRUE]
                   \in ActionEntry
      BY DEF ActionEntry
    <2> HIDE DEF P
    <2> QED BY <2>1, EntryType
  <1>2. \A a \in Actions : QuietEntry(L.actions[a], F[a])
    <2>1. ASSUME NEW e \in ActionEntry
          PROVE  QuietEntry(e, [e EXCEPT !.route = route, !.peer = peer,
                                         !.stored = TRUE])
      BY DEF ActionEntry, QuietEntry, EntryOK
    <2> HIDE DEF P
    <2> QED BY <2>1, EntryType, QuietItself
  <1>3. L.batch \in Batch
    BY DEF MailState
  <1>4. sent \in SUBSET Codes /\ watch \in Watched
    BY <1>3 DEF Batch, Item, Codes, Watched
  <1>5. batch_stored(L, route, peer, now) = prune(M, now)
    BY DEF batch_stored, Each, MailState
  <1> HIDE DEF F, sent, watch
  <1>6. M \in MailState /\ M.actions = F
    BY <1>1, <1>4 DEF MailState
  <1>7. Quiet(L, M)
    BY <1>2, <1>6 DEF Quiet
  <1> HIDE DEF M
  <1> QED BY <1>5, <1>6, <1>7, PruneType, QuietTrans

LEMMA BatchDissolveType ==
  ASSUME NEW L \in MailState, NEW now \in Nat
  PROVE  /\ batch_dissolve(L, now) \in MailState
         /\ Quiet(L, batch_dissolve(L, now))
  <1> DEFINE P == Previewing(L, L.batch.key)
             F == [a \in Actions |->
                     IF a \in P THEN end(L.actions[a], "expired", None, now)
                                ELSE L.actions[a]]
             M == [L EXCEPT !.actions = F, !.batch = None,
                            !.queue = @ \ L.batch.items]
  <1>1. F \in [Actions -> ActionEntry]
    BY EntryType, EndType DEF Over
  <1>2. \A a \in Actions : QuietEntry(L.actions[a], F[a])
    <2>1. "expired" \in Over \ Committed
      BY DEF Over, Committed
    <2>2. \A a \in P : L.actions[a].state \in Live \ {"executing"}
      BY PreviewingLive
    <2> QED BY <2>1, <2>2, EntryType, EndQuiet, QuietItself
  <1>3. batch_dissolve(L, now) = M
    BY DEF batch_dissolve, Each, MailState
  <1> HIDE DEF F
  <1>4. M \in MailState /\ M.actions = F
    BY <1>1 DEF MailState
  <1> QED BY <1>2, <1>3, <1>4 DEF Quiet

LEMMA PreviewsDeliveredType ==
  ASSUME NEW L \in MailState, NEW taken \in [BatchKeys -> Times],
         NEW p \in Policy
  PROVE  /\ previews_delivered(L, taken, p) \in MailState
         /\ Quiet(L, previews_delivered(L, taken, p))
  <1> DEFINE S == {a \in Actions : /\ L.actions[a].state = "previewing"
                                   /\ L.actions[a].key # NoKey
                                   /\ L.actions[a].stored
                                   /\ taken[L.actions[a].key] # NoTime}
             F == [a \in Actions |->
                     IF a \in S
                     THEN open(L.actions[a], taken[L.actions[a].key], p)
                     ELSE L.actions[a]]
  <1>1. \A a \in S : taken[L.actions[a].key] \in Nat
    BY EntryType DEF ActionEntry, Times
  <1>2. F \in [Actions -> ActionEntry]
    BY <1>1, EntryType, OpenType
  <1>3. \A a \in Actions : QuietEntry(L.actions[a], F[a])
    <2>1. ASSUME NEW a \in S
          PROVE  QuietEntry(L.actions[a],
                            open(L.actions[a], taken[L.actions[a].key], p))
      <3>1. LET f == open(L.actions[a], taken[L.actions[a].key], p)
            IN /\ f.state = "open"
               /\ f.approval = L.actions[a].approval
               /\ f.swept = L.actions[a].swept
        BY <1>1, EntryType, OpenType
      <3> QED BY <3>1, WaitQuiet DEF waiting
    <2> HIDE DEF S
    <2> QED BY <2>1, QuietItself
  <1>4. previews_delivered(L, taken, p) = [L EXCEPT !.actions = F]
    BY DEF previews_delivered, Each
  <1> HIDE DEF F
  <1> QED BY <1>2, <1>3, <1>4, QuietMap

LEMMA PreviewsRefusedType ==
  ASSUME NEW L \in MailState, NEW keys, NEW now \in Nat, NEW p \in Policy
  PROVE  /\ previews_refused(L, keys, now, p) \in MailState
         /\ Quiet(L, previews_refused(L, keys, now, p))
  <1> DEFINE S == UNION {Previewing(L, k) : k \in keys}
             F == [a \in Actions |-> IF a \in S
                                     THEN reissue(L.actions[a], now)
                                     ELSE L.actions[a]]
             M == [L EXCEPT !.actions = F]
  <1>1. F \in [Actions -> ActionEntry]
    BY EntryType, ReissueType
  <1>2. \A a \in Actions : QuietEntry(L.actions[a], F[a])
    <2>1. ASSUME NEW a \in S
          PROVE  QuietEntry(L.actions[a], reissue(L.actions[a], now))
      <3>1. a \in Actions /\ L.actions[a].state = "previewing"
        BY DEF Previewing
      <3>2. LET f == reissue(L.actions[a], now)
            IN /\ f.state \in {"proposed", "expired"}
               /\ f.approval = L.actions[a].approval
               /\ f.swept = L.actions[a].swept
        BY <3>1, EntryType, ReissueType
      <3> QED BY <3>1, <3>2, WaitQuiet DEF waiting
    <2> HIDE DEF S
    <2> QED BY <2>1, QuietItself
  <1>3. previews_refused(L, keys, now, p) = bind_unassigned(M, p)
    BY DEF previews_refused, Each
  <1> HIDE DEF F
  <1>4. M \in MailState /\ Quiet(L, M)
    BY <1>1, <1>2, QuietMap
  <1> HIDE DEF M
  <1> QED BY <1>3, <1>4, BindUnassignedType, QuietTrans

LEMMA SettleWatchedType ==
  ASSUME NEW L \in MailState, NEW taken \in [BatchKeys -> Times],
         NEW keys, NEW now \in Nat, NEW p \in Policy
  PROVE  /\ settle_watched(L, taken, keys, now, p) \in MailState
         /\ Quiet(L, settle_watched(L, taken, keys, now, p))
  <1> DEFINE left == {w \in L.watched : /\ taken[w.key] = NoTime
                                        /\ w.key \notin keys}
             M == [L EXCEPT !.watched = left]
             N == previews_delivered(M, taken, p)
  <1>1. left \in SUBSET Watched
    BY DEF MailState
  <1>2. settle_watched(L, taken, keys, now, p)
          = previews_refused(N, keys, now, p)
    BY DEF settle_watched
  <1> HIDE DEF left
  <1>3. M \in MailState /\ M.actions = L.actions
    BY <1>1 DEF MailState
  <1>4. Quiet(L, M)
    BY <1>3, QuietSame
  <1> HIDE DEF M
  <1>5. N \in MailState /\ Quiet(M, N)
    BY <1>3, PreviewsDeliveredType
  <1> HIDE DEF N
  <1> QED BY <1>2, <1>4, <1>5, PreviewsRefusedType, QuietTrans

LEMMA QueuePreviewType ==
  ASSUME NEW L \in MailState, NEW head \in Actions,
         NEW ids \in SUBSET Actions, NEW p \in Policy
  PROVE  /\ queue_preview(L, head, ids, p) \in MailState
         /\ Quiet(L, queue_preview(L, head, ids, p))
  <1> DEFINE item == [head |-> head,
                      generation |-> L.actions[head].generation,
                      codes |-> {<<a, L.actions[a].generation>> : a \in ids}]
             M == push_item(L, item)
  <1>1. \A a \in Actions : L.actions[a].generation \in Nat
    BY EntryType DEF ActionEntry
  <1>2. item \in Item
    BY <1>1 DEF Item, Codes
  <1>3. queue_preview(L, head, ids, p) = bind_unassigned(M, p)
    BY DEF queue_preview
  <1> HIDE DEF item
  <1>4. M \in MailState /\ Quiet(L, M)
    BY <1>2, PushItemType
  <1> HIDE DEF M
  <1> QED BY <1>3, <1>4, BindUnassignedType, QuietTrans

-----------------------------------------------------------------------------
(* Denying, cancelling, expiring, sweeping *)

\* finish, of actions not under way and not over, in no Committed state.
LEMMA FinishQuiet ==
  ASSUME NEW L \in MailState, NEW S, NEW st \in Over \ Committed,
         NEW code \in OutcomeCodes \cup {None}, NEW now \in Nat,
         \A a \in S : a \in Actions => Stoppable(L.actions[a])
  PROVE  /\ finish(L, S, st, code, now) \in MailState
         /\ Quiet(L, finish(L, S, st, code, now))
  <1> DEFINE M == finish(L, S, st, code, now)
  <1>1. /\ M \in MailState
        /\ \A a \in Actions :
             /\ a \in S => M.actions[a].state = st
             /\ a \notin S => M.actions[a] = L.actions[a]
             /\ M.actions[a].approval = L.actions[a].approval
    <2>1. st \in Over
      OBVIOUS
    <2>2. M \in MailState
      BY <2>1, FinishType
    <2>3. \A a \in Actions : a \in S => M.actions[a].state = st
      BY <2>1, FinishType
    <2>4. \A a \in Actions : a \notin S => M.actions[a] = L.actions[a]
      BY <2>1, FinishType
    <2>5. \A a \in Actions : M.actions[a].approval = L.actions[a].approval
      BY <2>1, FinishType
    <2> QED BY <2>2, <2>3, <2>4, <2>5
  <1> HIDE DEF M
  <1>2. ASSUME NEW a \in Actions
        PROVE  QuietEntry(L.actions[a], M.actions[a])
    <2>1. CASE a \in S
      <3>1. L.actions[a].state \in Live \ {"executing"}
        BY <2>1 DEF Stoppable
      <3>2. /\ L.actions[a].state \notin Committed
            /\ L.actions[a].state \notin Over
            /\ st \notin {"absent", "approved"} \cup Committed
        BY <3>1 DEF Live, Committed, Over
      <3> QED BY <1>1, <2>1, <3>2 DEF QuietEntry, EntryOK
    <2>2. CASE a \notin S
      BY <1>1, <2>2, QuietItself
    <2> QED BY <2>1, <2>2
  <1> QED BY <1>1, <1>2 DEF Quiet, M

LEMMA EndStates ==
  /\ "denied" \in Over \ Committed
  /\ "cancelled" \in Over \ Committed
  /\ "expired" \in Over \ Committed
  /\ "failed" \in Over \ Committed
  /\ "invalid" \in Over \ Committed
  BY DEF Over, Committed

LEMMA DenyType ==
  ASSUME NEW L \in MailState, NEW codes, NEW ev, NEW owner, NEW now \in Nat,
         NEW p
  PROVE  /\ deny(L, codes, ev, owner, now, p) \in MailState
         /\ Quiet(L, deny(L, codes, ev, owner, now, p))
  BY FinishQuiet, EndStates DEF deny

LEMMA CancelType ==
  ASSUME NEW L \in MailState, NEW S, NEW now \in Nat
  PROVE  cancel(L, S, now) \in MailState /\ Quiet(L, cancel(L, S, now))
  BY FinishQuiet, EndStates DEF cancel

LEMMA ExpireType ==
  ASSUME NEW L \in MailState, NEW now \in Nat
  PROVE  expire(L, now) \in MailState /\ Quiet(L, expire(L, now))
  <1> DEFINE X == Expired(L, now)
             F == [a \in Actions |->
                     IF a \in X THEN end(L.actions[a], "expired", None, now)
                                ELSE L.actions[a]]
             M == [L EXCEPT !.actions = F]
  <1>1. F \in [Actions -> ActionEntry]
    BY EntryType, EndType DEF Over
  <1>2. \A a \in Actions : QuietEntry(L.actions[a], F[a])
    <2>1. \A a \in X : L.actions[a].state \in Live \ {"executing"}
      BY DEF Expired, waiting, Live
    <2> HIDE DEF X
    <2> QED BY <2>1, EndStates, EntryType, EndQuiet, QuietItself
  <1>3. expire(L, now) = finish(M, Stale(L, now), "failed", "stale", now)
    BY DEF expire, Each
  <1>4. \A a \in Stale(L, now) : a \in Actions /\ Stoppable(F[a])
    BY DEF Stale, Expired, waiting, Stoppable, Live
  <1>5. "stale" \in OutcomeCodes \cup {None}
    BY DEF OutcomeCodes
  <1> HIDE DEF F
  <1>6. M \in MailState /\ Quiet(L, M) /\ M.actions = F
    BY <1>1, <1>2, QuietMap
  <1>7. \A a \in Stale(L, now) : a \in Actions => Stoppable(M.actions[a])
    BY <1>4, <1>6
  <1> HIDE DEF M
  <1>8. finish(M, Stale(L, now), "failed", "stale", now) \in MailState
        /\ Quiet(M, finish(M, Stale(L, now), "failed", "stale", now))
    BY <1>5, <1>6, <1>7, EndStates, FinishQuiet
  <1> QED BY <1>3, <1>6, <1>8, QuietTrans

LEMMA SweepType ==
  ASSUME NEW L \in MailState, NEW now \in Nat
  PROVE  sweep_actions(L, now) \in MailState /\ Quiet(L, sweep_actions(L, now))
  <1> DEFINE S == {a \in Actions : tombstone_due(L.actions[a], now)}
             F == [a \in Actions |->
                     IF a \in S THEN [L.actions[a] EXCEPT !.swept = TRUE]
                                ELSE L.actions[a]]
  <1>1. ASSUME NEW e \in ActionEntry
        PROVE  /\ [e EXCEPT !.swept = TRUE] \in ActionEntry
               /\ e.state \in Over => QuietEntry(e, [e EXCEPT !.swept = TRUE])
    BY DEF ActionEntry, QuietEntry, EntryOK
  <1>2. sweep_actions(L, now) = [L EXCEPT !.actions = F]
    BY DEF sweep_actions, Each
  <1>5. \A a \in S : L.actions[a].state \in Over
    BY DEF tombstone_due, terminal
  <1> HIDE DEF S
  <1>3. F \in [Actions -> ActionEntry]
    BY <1>1, EntryType
  <1>4. \A a \in Actions : QuietEntry(L.actions[a], F[a])
    BY <1>1, <1>5, EntryType, QuietItself
  <1> HIDE DEF F
  <1> QED BY <1>2, <1>3, <1>4, QuietMap

-----------------------------------------------------------------------------
(* Approving *)

LedgerOK(L) == \A a \in Actions : EntryOK(L.actions[a])

\* What the bridge knows of the message a command came in.
Evidence(ev) == /\ ev.route \in Routes
                /\ ev.peer \in Peers
                /\ ev.message \in Messages
                /\ ev.sent \in Times

Deliveries == [Routes \X BatchKeys -> Times]

LEMMA QuietOK ==
  ASSUME NEW L, NEW M, LedgerOK(L), Quiet(L, M)
  PROVE  LedgerOK(M)
  BY DEF LedgerOK, Quiet, QuietEntry

LEMMA OneQuiet ==
  ASSUME NEW L \in MailState, NEW a \in Actions, NEW f \in ActionEntry,
         QuietEntry(L.actions[a], f)
  PROVE  /\ [L EXCEPT !.actions[a] = f] \in MailState
         /\ [L EXCEPT !.actions[a] = f].actions[a] = f
         /\ Quiet(L, [L EXCEPT !.actions[a] = f])
  <1> DEFINE M == [L EXCEPT !.actions[a] = f]
  <1>1. M \in MailState /\ M.actions = [L.actions EXCEPT ![a] = f]
    BY OneEntryType
  <1>2. L.actions \in [Actions -> ActionEntry]
    BY DEF MailState
  <1> HIDE DEF M
  <1>3. M.actions[a] = f
    BY <1>1, <1>2
  <1>4. \A b \in Actions : b # a => M.actions[b] = L.actions[b]
    BY <1>1, <1>2
  <1>5. Quiet(L, M)
    BY <1>3, <1>4, QuietItself DEF Quiet
  <1> QED BY <1>1, <1>3, <1>5 DEF M

LEMMA OpenedEntryType ==
  ASSUME NEW e \in ActionEntry, NEW g, NEW delivered \in Deliveries,
         NEW p \in Policy
  PROVE  /\ opened_entry(e, g, delivered, p) \in ActionEntry
         /\ QuietEntry(e, opened_entry(e, g, delivered, p))
  <1> DEFINE at == delivered[<<e.route, e.key>>]
             found == /\ e.state = "previewing" /\ e.generation = g
                      /\ e.route # None /\ e.key # NoKey /\ e.stored
                      /\ at # NoTime
  <1>1. CASE found
    <2>1. e.route \in Routes /\ e.key \in BatchKeys
      BY <1>1 DEF ActionEntry
    <2>2. at \in Nat
      BY <1>1, <2>1 DEF Deliveries, Times
    <2>3. opened_entry(e, g, delivered, p) = open(e, at, p)
      BY <1>1 DEF opened_entry
    <2>4. waiting(e)
      BY <1>1 DEF waiting
    <2> HIDE DEF at, found
    <2>5. /\ open(e, at, p) \in ActionEntry
          /\ open(e, at, p).state = "open"
          /\ open(e, at, p).approval = e.approval
          /\ open(e, at, p).swept = e.swept
      BY <2>2, OpenType
    <2>6. waiting(open(e, at, p))
      BY <2>5 DEF waiting
    <2> QED BY <2>3, <2>4, <2>5, <2>6, WaitQuiet
  <1>2. CASE ~found
    BY <1>2, QuietItself DEF opened_entry
  <1> QED BY <1>1, <1>2

\* Approving one action ends its waiting alternatives and nothing else.
LEMMA RecordApprovalType ==
  ASSUME NEW L \in MailState, LedgerOK(L), NEW a \in Actions, NEW ev,
         Evidence(ev), ev.sent # NoTime, NEW now \in Nat, NEW p,
         L.actions[a].state = "open", may_approve(L, a, ev, now, p)
  PROVE  /\ record_approval(L, a, ev, now) \in MailState
         /\ Quiet(L, record_approval(L, a, ev, now))
  <1> DEFINE given == [route |-> ev.route, peer |-> ev.peer,
                       message |-> ev.message, sent |-> ev.sent, at |-> now]
             by == now + ExecuteSpan
             choose(b, e) ==
               IF b = a
               THEN [e EXCEPT !.state = "approved", !.approval = given,
                              !.executeBy = by, !.notBefore = now]
               ELSE IF e.state \in Live THEN end(e, "superseded", None, now)
               ELSE e
             F == [b \in Actions |-> IF b \in {a} \cup Siblings(a)
                                     THEN choose(b, L.actions[b])
                                     ELSE L.actions[b]]
             held == L.reservations \cup {[id |-> a, at |-> now]}
             M == [L EXCEPT !.actions = F, !.reservations = held]
  <1>1. given \in Approval
    BY DEF Evidence, Approval, Times
  <1>2. by \in Times
    BY MailLedgerConstants, Members
  <1>3. record_approval(L, a, ev, now) = M
    BY DEF record_approval, Each, MailState
  <1>4. held \in SUBSET Reservation
    BY DEF MailState, Reservation
  <1> HIDE DEF given, by, held
  <1>5. ASSUME NEW b \in {a} \cup Siblings(a)
        PROVE  /\ choose(b, L.actions[b]) \in ActionEntry
               /\ QuietEntry(L.actions[b], choose(b, L.actions[b]))
    <2>1. b \in Actions /\ L.actions[b] \in ActionEntry
      BY EntryType DEF Siblings
    <2>2. CASE b = a
      <3> DEFINE f == [L.actions[b] EXCEPT !.state = "approved",
                         !.approval = given, !.executeBy = by,
                         !.notBefore = now]
      <3>1. f \in ActionEntry
        BY <1>1, <1>2, <2>1, StateMembers DEF ActionEntry
      <3>2. /\ f.state = "approved"
            /\ f.approval = given
            /\ f.swept = L.actions[b].swept
        BY <2>1 DEF ActionEntry
      <3>3. choose(b, L.actions[b]) = f
        BY <2>2
      <3>4. given # None
        BY <1>1, NoApproval
      <3> HIDE DEF f
      <3>5. QuietEntry(L.actions[b], f)
        BY <2>2, <3>2, <3>4 DEF QuietEntry, EntryOK, Committed, Over
      <3> QED BY <3>1, <3>3, <3>5
    <2>3. CASE b # a /\ L.actions[b].state \in Live
      <3>1. "superseded" \in Over \ Committed
        BY DEF Over, Committed
      <3>2. L.actions[b].state \in Live \ {"executing"}
        <4>1. ~L.actions[b].swept
          BY <2>1, <2>3 DEF LedgerOK, EntryOK, Live, Over
        <4>2. b \in Siblings(a)
          BY <2>3
        <4> QED BY <2>3, <4>1, <4>2 DEF may_approve
      <3> QED BY <2>1, <2>3, <3>1, <3>2, EndType, EndQuiet
    <2>4. CASE b # a /\ L.actions[b].state \notin Live
      BY <2>1, <2>4, QuietItself
    <2> QED BY <2>2, <2>3, <2>4
  <1> HIDE DEF choose
  <1>6. F \in [Actions -> ActionEntry]
    BY <1>5, EntryType
  <1>7. \A b \in Actions : QuietEntry(L.actions[b], F[b])
    BY <1>5, QuietItself
  <1> HIDE DEF F
  <1>8. M \in MailState /\ M.actions = F
    BY <1>4, <1>6 DEF MailState
  <1> QED BY <1>3, <1>7, <1>8 DEF Quiet

LEMMA ApproveCodeType ==
  ASSUME NEW L \in MailState, LedgerOK(L), NEW c \in Codes, NEW ev,
         Evidence(ev), NEW replayed \in BOOLEAN, NEW owner,
         NEW delivered \in Deliveries, NEW now \in Nat, NEW p \in Policy
  PROVE  LET M == approve_code(L, c, ev, replayed, owner, delivered, now, p)
         IN M \in MailState /\ Quiet(L, M)
  <1> DEFINE M == approve_code(L, c, ev, replayed, owner, delivered, now, p)
             a == c[1]
             e == opened_entry(L.actions[a], c[2], delivered, p)
             opened == [L EXCEPT !.actions[a] = e]
             no == \/ e.generation # c[2] \/ replayed \/ e.state # "open"
                   \/ ~same_chat(e, ev, owner) \/ ~in_order(e, ev)
  <1>1. CASE ~Known(L, c)
    BY <1>1, QuietSame DEF approve_code
  <1>2. CASE Known(L, c)
    <2>1. a \in Actions
      BY DEF Codes
    <2>2. e \in ActionEntry /\ QuietEntry(L.actions[a], e)
      BY <2>1, EntryType, OpenedEntryType
    <2>3. M = IF no THEN opened
              ELSE IF now >= e.expiresAt
              THEN [opened EXCEPT !.actions[a] = end(e, "expired", None, now)]
              ELSE IF may_approve(opened, a, ev, now, p)
              THEN record_approval(opened, a, ev, now)
              ELSE opened
      BY <1>2 DEF approve_code
    <2>4. ~no => e.state = "open" /\ ev.sent # NoTime
      BY DEF in_order
    <2> HIDE DEF M, a, e, no
    <2>5. opened \in MailState /\ opened.actions[a] = e /\ Quiet(L, opened)
      BY <2>1, <2>2, OneQuiet
    <2>6. LedgerOK(opened)
      BY <2>5, QuietOK
    <2> HIDE DEF opened
    <2>7. CASE no \/ (now < e.expiresAt /\ ~may_approve(opened, a, ev, now, p))
      <3>1. e.expiresAt \in Nat
        BY <2>2 DEF ActionEntry
      <3>2. M = opened
        BY <2>3, <2>7, <3>1
      <3> QED BY <2>5, <3>2 DEF M
    <2>8. CASE ~no /\ now >= e.expiresAt
      <3> DEFINE f == end(e, "expired", None, now)
                 X == [opened EXCEPT !.actions[a] = f]
      <3>1. e.state \in Live \ {"executing"}
        BY <2>4, <2>8 DEF Live
      <3>2. f \in ActionEntry /\ QuietEntry(e, f)
        <4>1. "expired" \in Over
          BY DEF Over
        <4> QED BY <2>2, <3>1, <4>1, EndType, EndQuiet, EndStates
      <3>3. M = X
        BY <2>3, <2>8
      <3> HIDE DEF f
      <3>4. X \in MailState /\ Quiet(opened, X)
        BY <2>1, <2>5, <3>2, OneQuiet
      <3> HIDE DEF X
      <3> QED BY <2>5, <3>3, <3>4, QuietTrans DEF M
    <2>9. CASE ~no /\ now < e.expiresAt /\ may_approve(opened, a, ev, now, p)
      <3> DEFINE X == record_approval(opened, a, ev, now)
      <3>1. e.expiresAt \in Nat
        BY <2>2 DEF ActionEntry
      <3>2. M = X
        BY <2>3, <2>9, <3>1
      <3>3. X \in MailState /\ Quiet(opened, X)
        BY <2>1, <2>4, <2>5, <2>6, <2>9, RecordApprovalType
      <3> HIDE DEF X
      <3> QED BY <2>5, <3>2, <3>3, QuietTrans DEF M
    <2>10. e.expiresAt \in Nat
      BY <2>2 DEF ActionEntry
    <2> QED BY <2>7, <2>8, <2>9, <2>10
  <1> QED BY <1>1, <1>2

LEMMA ApproveType ==
  ASSUME NEW L \in MailState, LedgerOK(L), NEW ev, Evidence(ev),
         ev.codes \in Seq(Codes), Len(ev.codes) \in {1, 2}, NEW owner,
         NEW delivered \in Deliveries, NEW now \in Nat, NEW p \in Policy
  PROVE  /\ approve(L, ev, owner, delivered, now, p) \in MailState
         /\ Quiet(L, approve(L, ev, owner, delivered, now, p))
  <1> DEFINE replayed == \E m \in L.approvals : m.message = ev.message
             first == approve_code(L, ev.codes[1], ev, replayed, owner,
                                   delivered, now, p)
             second == approve_code(first, ev.codes[2], ev, replayed, owner,
                                    delivered, now, p)
             all == IF Len(ev.codes) = 1 THEN first ELSE second
             noted == all.approvals \cup {[message |-> ev.message, at |-> now]}
  <1>1. approve(L, ev, owner, delivered, now, p)
          = IF Approved(all) = Approved(L) THEN all
            ELSE [all EXCEPT !.approvals = noted]
    BY DEF approve
  <1>2. replayed \in BOOLEAN
    OBVIOUS
  <1>3. ev.codes[1] \in Codes /\ (Len(ev.codes) # 1 => ev.codes[2] \in Codes)
    OBVIOUS
  <1> HIDE DEF replayed
  <1>4. first \in MailState /\ Quiet(L, first)
    BY <1>2, <1>3, ApproveCodeType
  <1>5. LedgerOK(first)
    BY <1>4, QuietOK
  <1> HIDE DEF first
  <1>6. Len(ev.codes) # 1 => second \in MailState /\ Quiet(first, second)
    BY <1>2, <1>3, <1>4, <1>5, ApproveCodeType
  <1> HIDE DEF second
  <1>7. all \in MailState /\ Quiet(L, all)
    BY <1>4, <1>6, QuietTrans
  <1> HIDE DEF all
  <1>8. noted \in SUBSET Stamped
    BY <1>7 DEF MailState, Stamped, Evidence
  <1> HIDE DEF noted
  <1> DEFINE M == [all EXCEPT !.approvals = noted]
  <1>9. M \in MailState /\ M.actions = all.actions
    BY <1>7, <1>8 DEF MailState
  <1> HIDE DEF M
  <1>10. Quiet(L, M)
    BY <1>7, <1>9 DEF Quiet
  <1> QED BY <1>1, <1>7, <1>9, <1>10 DEF M

-----------------------------------------------------------------------------
(* Recovering *)

LEMMA RecoverType ==
  ASSUME NEW L \in MailState, NEW now \in Nat, NEW p \in Policy
  PROVE  recover(L, now, p) \in MailState /\ Quiet(L, recover(L, now, p))
  <1> DEFINE bound == bind_unassigned(L, p)
             W == Withdrawn(bound, p)
             settled == finish(bound, W, "cancelled", None, now)
             kept(e) ==
               CASE e.state = "open" /\ e.delivered # NoTime ->
                      [e EXCEPT !.expiresAt = min(@, e.delivered + p.window)]
                 [] e.state = "executing" -> [e EXCEPT !.probeAfter = now]
                 [] e.state = "done" /\ e.sentCopy = "pending" ->
                      [e EXCEPT !.sentCopy = "failed"]
                 [] OTHER -> e
             F == [a \in Actions |-> IF a \in Actions \ W
                                     THEN kept(settled.actions[a])
                                     ELSE settled.actions[a]]
             resumed == [settled EXCEPT !.actions = F]
             cut == {a \in Actions : /\ bound.actions[a].state = "done"
                                     /\ bound.actions[a].sentCopy = "pending"}
             told == [a \in Actions |->
                        IF a \in cut
                        THEN tell(resumed.told[a], resumed.actions[a])
                        ELSE resumed.told[a]]
             M == [resumed EXCEPT !.told = told]
  <1>1. recover(L, now, p) = M
    BY DEF recover, Each
  <1>2. bound \in MailState /\ Quiet(L, bound)
    BY BindUnassignedType
  <1>3. \A a \in W : a \in Actions => Stoppable(bound.actions[a])
    BY DEF Withdrawn
  <1>4. ASSUME NEW e \in ActionEntry
        PROVE  kept(e) \in ActionEntry /\ QuietEntry(e, kept(e))
    <2> DEFINE x == min(e.expiresAt, e.delivered + p.window)
               f == [e EXCEPT !.expiresAt = x]
               g == [e EXCEPT !.probeAfter = now]
               h == [e EXCEPT !.sentCopy = "failed"]
    <2>1. e.delivered # NoTime => x \in Nat
      BY DEF ActionEntry, Policy, Times, min
    <2>2. now \in Times /\ "failed" \in SentCopies
      BY Members DEF SentCopies
    <2> HIDE DEF x
    <2>3. e.delivered # NoTime => f \in ActionEntry
      BY <2>1 DEF ActionEntry
    <2>4. g \in ActionEntry /\ h \in ActionEntry
      BY <2>2 DEF ActionEntry
    <2>5. QuietEntry(e, f) /\ QuietEntry(e, g) /\ QuietEntry(e, h)
      BY DEF ActionEntry, QuietEntry, EntryOK
    <2>6. \/ e.delivered # NoTime /\ kept(e) = f
          \/ kept(e) = g
          \/ kept(e) = h
          \/ kept(e) = e
      BY DEF x
    <2> HIDE DEF f, g, h, kept
    <2> QED BY <2>3, <2>4, <2>5, <2>6, QuietItself
  <1> HIDE DEF bound, W, kept
  <1>5. settled \in MailState /\ Quiet(bound, settled)
    BY <1>2, <1>3, EndStates, FinishQuiet
  <1> HIDE DEF settled
  <1>6. F \in [Actions -> ActionEntry]
    BY <1>4, <1>5, EntryType
  <1>7. \A a \in Actions : QuietEntry(settled.actions[a], F[a])
    BY <1>4, <1>5, EntryType, QuietItself
  <1> HIDE DEF F
  <1>8. resumed \in MailState /\ Quiet(settled, resumed)
    BY <1>5, <1>6, <1>7, QuietMap
  <1> HIDE DEF resumed, cut
  <1>9. told \in [Actions -> Texts]
    <2>1. \A a \in Actions : resumed.told[a] \in Texts
      BY <1>8 DEF MailState
    <2> QED BY <1>8, <2>1, EntryType, TellType
  <1> HIDE DEF told
  <1>10. M \in MailState /\ M.actions = resumed.actions
    BY <1>8, <1>9 DEF MailState
  <1> HIDE DEF M
  <1>11. Quiet(resumed, M)
    BY <1>10, QuietSame
  <1> QED BY <1>1, <1>2, <1>5, <1>8, <1>10, <1>11, QuietTrans

-----------------------------------------------------------------------------
(* Carrying out *)

\* Only the action a changed, and kept its approval and its code.
Alone(L, M, a) ==
  /\ SameNotices(L, M)
  /\ \A b \in Actions : b # a => M.actions[b] = L.actions[b]
  /\ M.actions[a].approval = L.actions[a].approval
  /\ M.actions[a].swept = L.actions[a].swept
  /\ M.actions[a].generation = L.actions[a].generation

LEMMA OneAlone ==
  ASSUME NEW L \in MailState, NEW a \in Actions, NEW f \in ActionEntry,
         f.approval = L.actions[a].approval, f.swept = L.actions[a].swept,
         f.generation = L.actions[a].generation
  PROVE  /\ [L EXCEPT !.actions[a] = f] \in MailState
         /\ [L EXCEPT !.actions[a] = f].actions[a] = f
         /\ Alone(L, [L EXCEPT !.actions[a] = f], a)
  <1> DEFINE M == [L EXCEPT !.actions[a] = f]
  <1>1. M \in MailState /\ M.actions = [L.actions EXCEPT ![a] = f]
    BY OneEntryType
  <1>2. L.actions \in [Actions -> ActionEntry]
    BY DEF MailState
  <1> HIDE DEF M
  <1>3. M.actions[a] = f
    BY <1>1, <1>2
  <1>4. \A b \in Actions : b # a => M.actions[b] = L.actions[b]
    BY <1>1, <1>2
  <1>5. SameNotices(L, M)
    BY DEF MailState, SameNotices, M
  <1>6. Alone(L, M, a)
    BY <1>3, <1>4, <1>5 DEF Alone
  <1> QED BY <1>1, <1>3, <1>6 DEF M

LEMMA FinishAlone ==
  ASSUME NEW L \in MailState, NEW a \in Actions, NEW st \in Over,
         NEW code \in OutcomeCodes \cup {None}, NEW now \in Nat
  PROVE  /\ finish(L, {a}, st, code, now) \in MailState
         /\ finish(L, {a}, st, code, now).actions[a].state = st
         /\ Alone(L, finish(L, {a}, st, code, now), a)
  <1> DEFINE S == {a}
             M == finish(L, S, st, code, now)
  <1>1. a \in S /\ \A b \in Actions : b # a => b \notin S
    OBVIOUS
  <1> HIDE DEF S
  <1>2. M \in MailState
    BY FinishType
  <1>3. M.actions[a].state = st
    BY <1>1, FinishType
  <1>4. \A b \in Actions : b # a => M.actions[b] = L.actions[b]
    BY <1>1, FinishType
  <1>5. M.actions[a].approval = L.actions[a].approval
    BY FinishType
  <1>6. /\ M.actions[a].swept = L.actions[a].swept
        /\ M.actions[a].generation = L.actions[a].generation
    BY FinishType
  <1>7. SameNotices(L, M)
    BY FinishType
  <1> HIDE DEF M
  <1>8. Alone(L, M, a)
    BY <1>4, <1>5, <1>6, <1>7 DEF Alone
  <1> QED BY <1>2, <1>3, <1>8 DEF M, S

LEMMA CodeMembers ==
  /\ "applied" \in OutcomeCodes \cup {None}
  /\ "already_done" \in OutcomeCodes \cup {None}
  /\ "gone" \in OutcomeCodes \cup {None}
  /\ "stale" \in OutcomeCodes \cup {None}
  /\ "policy" \in OutcomeCodes \cup {None}
  /\ "mismatch" \in OutcomeCodes \cup {None}
  /\ "refused" \in OutcomeCodes \cup {None}
  /\ "ambiguous" \in OutcomeCodes \cup {None}
  /\ "auth_uncertain" \in OutcomeCodes \cup {None}
  BY DEF OutcomeCodes

LEMMA OverMembers ==
  "done" \in Over /\ "failed" \in Over /\ "unknown" \in Over
  /\ "invalid" \in Over
  BY DEF Over

LEMMA BeginExecutionType ==
  ASSUME NEW L \in MailState, NEW a \in Actions, NEW intact \in BOOLEAN,
         NEW now \in Nat, NEW p \in Policy
  PROVE  /\ begin_execution(L, a, intact, now, p) \in MailState
         /\ Alone(L, begin_execution(L, a, intact, now, p), a)
         /\ Startable(L, a, intact, now, p) =>
              begin_execution(L, a, intact, now, p).actions[a].state
                = "executing"
         /\ ~Startable(L, a, intact, now, p) =>
              \/ begin_execution(L, a, intact, now, p) = L
              \/ /\ L.actions[a].state = "approved"
                 /\ begin_execution(L, a, intact, now, p).actions[a].state
                      \in {"unknown", "failed", "invalid"}
  <1> DEFINE e == L.actions[a]
             M == begin_execution(L, a, intact, now, p)
             n == e.attempts + 1
             f == [e EXCEPT !.state = "executing", !.attempts = n,
                            !.probeAfter = NoTime, !.resume = "none"]
             run == [L EXCEPT !.actions[a] = f]
             end1 == finish(L, {a}, "unknown", "auth_uncertain", now)
             end2 == finish(L, {a}, "failed", "stale", now)
             end3 == finish(L, {a}, "invalid", "mismatch", now)
             end4 == finish(L, {a}, "failed", "policy", now)
  <1>1. e \in ActionEntry
    BY EntryType
  <1>2. n \in Nat
    BY <1>1 DEF ActionEntry
  <1>3. \/ M = L /\ ~Ready(e, now)
        \/ Ready(e, now) /\ e.uncertain /\ M = end1
        \/ /\ Ready(e, now) /\ (e.executeBy = NoTime \/ now > e.executeBy)
           /\ M = end2
        \/ Ready(e, now) /\ ~intact /\ M = end3
        \/ Ready(e, now) /\ ~offers(p, a) /\ M = end4
        \/ /\ Ready(e, now) /\ ~e.uncertain
           /\ ~(e.executeBy = NoTime \/ now > e.executeBy)
           /\ intact /\ offers(p, a)
           /\ M = run
    BY DEF begin_execution
  <1>4. ~(now > e.executeBy) /\ e.executeBy # NoTime => now <= e.executeBy
    BY <1>1 DEF ActionEntry, Times
  <1>5. now <= e.executeBy => ~(now > e.executeBy)
    <2>1. e.executeBy \in Int
      BY <1>1 DEF ActionEntry, Times, NoTime
    <2> QED BY <2>1
  <1> HIDE DEF n
  <1>6. f \in ActionEntry
    <2>1. "none" \in Resumes
      BY DEF Resumes
    <2> QED BY <1>1, <1>2, <2>1, Members, StateMembers DEF ActionEntry
  <1>7. /\ f.state = "executing"
        /\ f.approval = e.approval
        /\ f.swept = e.swept
        /\ f.generation = e.generation
    BY <1>1 DEF ActionEntry
  <1> HIDE DEF f
  <1>8. run \in MailState /\ run.actions[a] = f /\ Alone(L, run, a)
    BY <1>6, <1>7, OneAlone
  <1>9. /\ end1 \in MailState /\ end1.actions[a].state = "unknown"
        /\ Alone(L, end1, a)
    BY FinishAlone, CodeMembers, OverMembers
  <1>10. /\ end2 \in MailState /\ end2.actions[a].state = "failed"
         /\ Alone(L, end2, a)
    BY FinishAlone, CodeMembers, OverMembers
  <1>11. /\ end3 \in MailState /\ end3.actions[a].state = "invalid"
         /\ Alone(L, end3, a)
    BY FinishAlone, CodeMembers, OverMembers
  <1>12. /\ end4 \in MailState /\ end4.actions[a].state = "failed"
         /\ Alone(L, end4, a)
    BY FinishAlone, CodeMembers, OverMembers
  <1>13. Alone(L, L, a)
    BY DEF Alone, SameNotices
  <1>14. Ready(e, now) => e.state = "approved"
    BY DEF Ready
  <1>15. Startable(L, a, intact, now, p)
           <=> /\ Ready(e, now) /\ ~e.uncertain
               /\ e.executeBy # NoTime /\ now <= e.executeBy
               /\ intact /\ offers(p, a)
    BY DEF Startable
  <1> HIDE DEF run, end1, end2, end3, end4
  <1>16. CASE Startable(L, a, intact, now, p)
    <2> HIDE DEF M
    <2>1. M = run
      BY <1>3, <1>5, <1>15, <1>16
    <2> QED BY <1>7, <1>8, <1>16, <2>1 DEF M
  <1>17. CASE ~Startable(L, a, intact, now, p)
    <2> HIDE DEF M
    <2>1. \/ M = L
          \/ Ready(e, now) /\ M \in {end1, end2, end3, end4}
      BY <1>3, <1>4, <1>15, <1>17
    <2>2. M \in MailState /\ Alone(L, M, a)
      BY <1>9, <1>10, <1>11, <1>12, <1>13, <2>1
    <2>3. M # L => /\ e.state = "approved"
                   /\ M.actions[a].state \in {"unknown", "failed", "invalid"}
      BY <1>9, <1>10, <1>11, <1>12, <1>14, <2>1
    <2> QED BY <1>17, <2>2, <2>3 DEF M
  <1> QED BY <1>16, <1>17

LEMMA MarkSentType ==
  ASSUME NEW L \in MailState, NEW a \in Actions, NEW now \in Nat
  PROVE  /\ mark_sent(L, a, now) \in MailState
         /\ Alone(L, mark_sent(L, a, now), a)
         /\ mark_sent(L, a, now).actions[a].state = "done"
  <1> DEFINE e == end(L.actions[a], "done", "applied", now)
             f == [e EXCEPT !.sentCopy = "pending"]
  <1>1. /\ e \in ActionEntry
        /\ e.state = "done"
        /\ e.approval = L.actions[a].approval
        /\ e.swept = L.actions[a].swept
        /\ e.generation = L.actions[a].generation
    <2>1. L.actions[a] \in ActionEntry
      BY EntryType
    <2>2. "done" \in Over /\ "applied" \in OutcomeCodes \cup {None}
      BY CodeMembers, OverMembers
    <2>3. e \in ActionEntry /\ e.state = "done"
      BY <2>1, <2>2, EndType
    <2>4. e.approval = L.actions[a].approval
      BY <2>1, <2>2, EndType
    <2>5. /\ e.swept = L.actions[a].swept
          /\ e.generation = L.actions[a].generation
      BY <2>1, <2>2, EndType
    <2> QED BY <2>3, <2>4, <2>5
  <1>2. mark_sent(L, a, now) = [L EXCEPT !.actions[a] = f]
    BY DEF mark_sent
  <1> HIDE DEF e
  <1>3. f \in ActionEntry
    <2>1. "pending" \in SentCopies
      BY DEF SentCopies
    <2> QED BY <1>1, <2>1 DEF ActionEntry
  <1>4. f.state = "done" /\ f.approval = e.approval /\ f.swept = e.swept
        /\ f.generation = e.generation
    BY <1>1 DEF ActionEntry
  <1> HIDE DEF f
  <1> QED BY <1>1, <1>2, <1>3, <1>4, OneAlone

LEMMA FieldType ==
  ASSUME NEW L \in MailState, NEW a \in Actions
  PROVE  /\ \A copy \in SentCopies :
              /\ [L EXCEPT !.actions[a].sentCopy = copy]
                   = [L EXCEPT !.actions[a] =
                        [L.actions[a] EXCEPT !.sentCopy = copy]]
              /\ [L.actions[a] EXCEPT !.sentCopy = copy] \in ActionEntry
         /\ \A t \in Times :
              /\ [L EXCEPT !.actions[a].probeAfter = t]
                   = [L EXCEPT !.actions[a] =
                        [L.actions[a] EXCEPT !.probeAfter = t]]
              /\ [L.actions[a] EXCEPT !.probeAfter = t] \in ActionEntry
  <1>1. L.actions[a] \in ActionEntry
    BY EntryType
  <1>2. ASSUME NEW copy \in SentCopies
        PROVE  [L.actions[a] EXCEPT !.sentCopy = copy] \in ActionEntry
    BY <1>1 DEF ActionEntry
  <1>3. ASSUME NEW t \in Times
        PROVE  [L.actions[a] EXCEPT !.probeAfter = t] \in ActionEntry
    BY <1>1 DEF ActionEntry
  <1> QED BY <1>2, <1>3

LEMMA FinishAppliedType ==
  ASSUME NEW L \in MailState, NEW a \in Actions, NEW copy \in SentCopies,
         NEW now \in Nat
  PROVE  /\ finish_applied(L, a, copy, now) \in MailState
         /\ Alone(L, finish_applied(L, a, copy, now), a)
         /\ finish_applied(L, a, copy, now).actions[a].state = "done"
  <1>1. CASE L.actions[a].state = "done"
    <2> DEFINE e == [L.actions[a] EXCEPT !.sentCopy = copy]
               t == [L.told EXCEPT ![a] = tell(L.told[a], e)]
               N == [L EXCEPT !.actions[a] = e]
               M == [N EXCEPT !.told = t]
    <2>1. L.actions[a] \in ActionEntry
      BY EntryType
    <2>2. e \in ActionEntry
      BY FieldType
    <2>3. /\ e.state = "done"
          /\ e.approval = L.actions[a].approval
          /\ e.swept = L.actions[a].swept
          /\ e.generation = L.actions[a].generation
      BY <1>1, <2>1 DEF ActionEntry
    <2>4. finish_applied(L, a, copy, now) = M
      BY <1>1 DEF finish_applied, MailState
    <2>5. t \in [Actions -> Texts]
      <3>1. L.told \in [Actions -> Texts]
        BY DEF MailState
      <3> HIDE DEF e
      <3>2. tell(L.told[a], e) \in Texts
        BY <2>2, <3>1, TellType
      <3> QED BY <3>1, <3>2
    <2> HIDE DEF e, t
    <2>6. N \in MailState /\ N.actions[a] = e /\ Alone(L, N, a)
      BY <2>2, <2>3, OneAlone
    <2> HIDE DEF N
    <2>7. /\ M \in MailState /\ M.actions = N.actions
          /\ SameNotices(N, M)
      BY <2>5, <2>6 DEF MailState, SameNotices
    <2> HIDE DEF M
    <2>8. Alone(L, M, a) /\ M.actions[a].state = "done"
      BY <2>3, <2>6, <2>7 DEF Alone, SameNotices
    <2> QED BY <2>4, <2>7, <2>8
  <1>2. CASE L.actions[a].state # "done"
    <2> DEFINE N == finish(L, {a}, "done", "applied", now)
               e == [N.actions[a] EXCEPT !.sentCopy = copy]
               M == [N EXCEPT !.actions[a].sentCopy = copy]
    <2>1. N \in MailState /\ N.actions[a].state = "done" /\ Alone(L, N, a)
      BY FinishAlone, CodeMembers, OverMembers
    <2>2. finish_applied(L, a, copy, now) = M
      BY <1>2 DEF finish_applied
    <2> HIDE DEF N
    <2>3. M = [N EXCEPT !.actions[a] = e] /\ e \in ActionEntry
      BY <2>1, FieldType
    <2>4. N.actions[a] \in ActionEntry
      BY <2>1, EntryType
    <2>5. /\ e.state = "done"
          /\ e.approval = N.actions[a].approval
          /\ e.swept = N.actions[a].swept
          /\ e.generation = N.actions[a].generation
      BY <2>1, <2>4 DEF ActionEntry
    <2> HIDE DEF M, e
    <2>6. M \in MailState /\ M.actions[a] = e /\ Alone(N, M, a)
      BY <2>1, <2>3, <2>5, OneAlone
    <2>7. Alone(L, M, a)
      BY <2>1, <2>6 DEF Alone, SameNotices
    <2> QED BY <2>2, <2>5, <2>6, <2>7
  <1> QED BY <1>1, <1>2

LEMMA FinishNotAppliedType ==
  ASSUME NEW L \in MailState, NEW a \in Actions, NEW retry \in BOOLEAN,
         NEW resume \in Resumes, NEW now \in Nat
  PROVE  /\ finish_not_applied(L, a, retry, resume, now) \in MailState
         /\ Alone(L, finish_not_applied(L, a, retry, resume, now), a)
         /\ finish_not_applied(L, a, retry, resume, now).actions[a].state
              \in {"approved", "failed"}
  <1> DEFINE e == L.actions[a]
             t == now + RetryDelay
             f == [e EXCEPT !.state = "approved", !.notBefore = t,
                            !.resume = resume]
             M == [L EXCEPT !.actions[a] = f]
             N == finish(L, {a}, "failed", "refused", now)
  <1>1. finish_not_applied(L, a, retry, resume, now) \in {M, N}
    BY DEF finish_not_applied
  <1>2. e \in ActionEntry
    BY EntryType
  <1>3. t \in Nat
    BY MailLedgerConstants
  <1> HIDE DEF t
  <1>4. f \in ActionEntry
    BY <1>2, <1>3, StateMembers DEF ActionEntry
  <1>5. f.state = "approved" /\ f.approval = e.approval /\ f.swept = e.swept
        /\ f.generation = e.generation
    BY <1>2 DEF ActionEntry
  <1> HIDE DEF f
  <1>6. M \in MailState /\ M.actions[a] = f /\ Alone(L, M, a)
    BY <1>4, <1>5, OneAlone
  <1>7. N \in MailState /\ N.actions[a].state = "failed" /\ Alone(L, N, a)
    BY FinishAlone, CodeMembers, OverMembers
  <1> HIDE DEF M, N
  <1> QED BY <1>1, <1>5, <1>6, <1>7

\* A request that was applied ends done; one that was not is failed or tried
\* again; of the rest the action stays as it is until a check.
LEMMA FinishExecutionType ==
  ASSUME NEW L \in MailState, NEW a \in Actions,
         NEW x \in {"applied", "not_applied", "retry", "ambiguous",
                    "uncertain"},
         NEW copy \in SentCopies, NEW resume \in Resumes, NEW now \in Nat
  PROVE  /\ finish_execution(L, a, x, copy, resume, now) \in MailState
         /\ Alone(L, finish_execution(L, a, x, copy, resume, now), a)
         /\ x = "applied" =>
              finish_execution(L, a, x, copy, resume, now).actions[a].state
                = "done"
         /\ x \in {"not_applied", "retry"} =>
              finish_execution(L, a, x, copy, resume, now).actions[a].state
                \in {"approved", "failed"}
         /\ x \in {"ambiguous", "uncertain"} =>
              finish_execution(L, a, x, copy, resume, now).actions[a].state
                = L.actions[a].state
  <1> DEFINE M == finish_execution(L, a, x, copy, resume, now)
             e == L.actions[a]
             g == [e EXCEPT !.probeAfter = now]
             h == [e EXCEPT !.uncertain = TRUE, !.probeAfter = now]
  <1>1. e \in ActionEntry /\ now \in Times
    BY EntryType, Members
  <1>2. CASE x = "applied"
    <2>1. M = finish_applied(L, a, copy, now)
      BY <1>2 DEF finish_execution
    <2> HIDE DEF M
    <2> QED BY <1>2, <2>1, FinishAppliedType DEF M
  <1>3. CASE x = "not_applied"
    <2>1. M = finish_not_applied(L, a, FALSE, resume, now)
      BY <1>3 DEF finish_execution
    <2> HIDE DEF M
    <2> QED BY <1>3, <2>1, FinishNotAppliedType DEF M
  <1>4. CASE x = "retry"
    <2>1. M = finish_not_applied(L, a, TRUE, resume, now)
      BY <1>4 DEF finish_execution
    <2> HIDE DEF M
    <2> QED BY <1>4, <2>1, FinishNotAppliedType DEF M
  <1>5. CASE x = "ambiguous"
    <2>1. M = [L EXCEPT !.actions[a].probeAfter = now]
      BY <1>5 DEF finish_execution
    <2>2. M = [L EXCEPT !.actions[a] = g] /\ g \in ActionEntry
      BY <1>1, <2>1, FieldType
    <2>3. g.state = e.state /\ g.approval = e.approval /\ g.swept = e.swept
          /\ g.generation = e.generation
      BY <1>1 DEF ActionEntry
    <2> HIDE DEF M, g
    <2>4. M \in MailState /\ M.actions[a] = g /\ Alone(L, M, a)
      BY <2>2, <2>3, OneAlone
    <2> QED BY <1>5, <2>3, <2>4 DEF M
  <1>6. CASE x = "uncertain"
    <2>1. M = [L EXCEPT !.actions[a] = h]
      BY <1>6 DEF finish_execution
    <2>2. h \in ActionEntry
      BY <1>1 DEF ActionEntry
    <2>3. h.state = e.state /\ h.approval = e.approval /\ h.swept = e.swept
          /\ h.generation = e.generation
      BY <1>1 DEF ActionEntry
    <2> HIDE DEF M, h
    <2>4. M \in MailState /\ M.actions[a] = h /\ Alone(L, M, a)
      BY <2>1, <2>2, <2>3, OneAlone
    <2> QED BY <1>6, <2>3, <2>4 DEF M
  <1> QED BY <1>2, <1>3, <1>4, <1>5, <1>6

LEMMA TryAgainType ==
  ASSUME NEW L \in MailState, NEW a \in Actions, NEW resume \in Resumes,
         NEW now \in Nat
  PROVE  /\ try_again(L, a, resume, now) \in MailState
         /\ Alone(L, try_again(L, a, resume, now), a)
         /\ try_again(L, a, resume, now).actions[a].state = "approved"
  <1> DEFINE e == L.actions[a]
             f == [e EXCEPT !.state = "approved", !.notBefore = now,
                            !.probeAfter = NoTime, !.resume = resume]
  <1>1. e \in ActionEntry
    BY EntryType
  <1>2. f \in ActionEntry
    BY <1>1, Members, StateMembers DEF ActionEntry
  <1>3. f.state = "approved" /\ f.approval = e.approval /\ f.swept = e.swept
        /\ f.generation = e.generation
    BY <1>1 DEF ActionEntry
  <1>4. try_again(L, a, resume, now) = [L EXCEPT !.actions[a] = f]
    BY DEF try_again
  <1> HIDE DEF f
  <1> QED BY <1>2, <1>3, <1>4, OneAlone

\* A check ends only an interrupted action, ends it as done only when it saw
\* it done, and never lets a send be tried again.
LEMMA ProbedType ==
  ASSUME NEW L \in MailState, NEW a \in Actions, NEW now \in Nat,
         NEW probe \in {"done", "not_done", "gone", "unknown", "unreachable",
                        "after_copy", "expunge"},
         NEW M, M = probed(L, a, probe, now)
  PROVE  /\ M \in MailState
         /\ Alone(L, M, a)
         /\ L.actions[a].state # "executing" => M = L
         /\ L.actions[a].state = "executing" =>
              /\ M.actions[a].state
                   \in {"executing", "approved", "failed", "unknown", "done"}
              /\ M.actions[a].state = "done" => probe = "done"
              /\ probe \in {"done", "unknown", "unreachable"}
                   => M.actions[a].state \in Committed
  <1> DEFINE e == L.actions[a]
             code == IF e.uncertain THEN "auth_uncertain" ELSE "ambiguous"
             lost == finish(L, {a}, "unknown", code, now)
             done == finish(L, {a}, "done", "already_done", now)
             gone == finish(L, {a}, "failed", "gone", now)
             stale == finish(L, {a}, "failed", "stale", now)
             again == try_again(L, a, e.resume, now)
             copied == try_again(L, a, "after_copy", now)
             expunge == try_again(L, a, "expunge", now)
             t == now + ProbeDelay
             f == [e EXCEPT !.probeAfter = t]
             later == [L EXCEPT !.actions[a].probeAfter = t]
  <1>1. CASE e.state # "executing"
    <2>1. M = L
      BY <1>1 DEF probed
    <2> QED BY <1>1, <2>1 DEF Alone, SameNotices
  <1>2. CASE e.state = "executing"
    <2>1. /\ probe = "done" => M = done
          /\ probe = "gone" => M \in {lost, gone}
          /\ probe = "not_done" => M \in {lost, again, stale}
          /\ probe = "after_copy" => M \in {lost, copied}
          /\ probe = "expunge" => M \in {lost, expunge}
          /\ probe = "unreachable" => M \in {later, lost}
          /\ probe = "unknown" => M = lost
      BY <1>2 DEF probed
    <2>2. e \in ActionEntry
      BY EntryType
    <2>3. /\ e.resume \in Resumes
          /\ "after_copy" \in Resumes
          /\ "expunge" \in Resumes
      BY <2>2 DEF ActionEntry, Resumes
    <2>4. code \in OutcomeCodes \cup {None}
      BY CodeMembers
    <2>5. t \in Times
      BY MailLedgerConstants, Members
    <2> HIDE DEF code, t
    <2>6. /\ lost \in MailState /\ lost.actions[a].state = "unknown"
          /\ Alone(L, lost, a)
      BY <2>4, FinishAlone, OverMembers
    <2>7. /\ done \in MailState /\ done.actions[a].state = "done"
          /\ Alone(L, done, a)
      BY FinishAlone, CodeMembers, OverMembers
    <2>8. /\ gone \in MailState /\ gone.actions[a].state = "failed"
          /\ Alone(L, gone, a)
      BY FinishAlone, CodeMembers, OverMembers
    <2>9. /\ stale \in MailState /\ stale.actions[a].state = "failed"
          /\ Alone(L, stale, a)
      BY FinishAlone, CodeMembers, OverMembers
    <2>10. /\ again \in MailState /\ again.actions[a].state = "approved"
           /\ Alone(L, again, a)
      BY <2>3, TryAgainType
    <2>11. /\ copied \in MailState /\ copied.actions[a].state = "approved"
           /\ Alone(L, copied, a)
      BY <2>3, TryAgainType
    <2>12. /\ expunge \in MailState /\ expunge.actions[a].state = "approved"
           /\ Alone(L, expunge, a)
      BY <2>3, TryAgainType
    <2>13. later = [L EXCEPT !.actions[a] = f] /\ f \in ActionEntry
      BY <2>5, FieldType
    <2>14. f.state = "executing" /\ f.approval = e.approval
           /\ f.swept = e.swept
           /\ f.generation = e.generation
      BY <1>2, <2>2 DEF ActionEntry
    <2> HIDE DEF f, later
    <2>15. /\ later \in MailState /\ later.actions[a].state = "executing"
           /\ Alone(L, later, a)
      BY <2>13, <2>14, OneAlone
    <2> HIDE DEF lost, done, gone, stale, again, copied, expunge
    <2>16. M \in {lost, done, gone, stale, again, copied, expunge, later}
      BY <2>1
    <2>17. M \in MailState /\ Alone(L, M, a)
      BY <2>6, <2>7, <2>8, <2>9, <2>10, <2>11, <2>12, <2>15, <2>16
    <2>18. /\ M.actions[a].state \in {"executing", "approved", "failed",
                                      "unknown", "done"}
           /\ M.actions[a].state = "done" => probe = "done"
      BY <2>1, <2>6, <2>7, <2>8, <2>9, <2>10, <2>11, <2>12, <2>15
    <2>19. probe \in {"done", "unknown", "unreachable"}
             => M.actions[a].state \in Committed
      BY <2>1, <2>6, <2>7, <2>15 DEF Committed
    <2> QED BY <1>2, <2>17, <2>18, <2>19
  <1> QED BY <1>1, <1>2
=============================================================================
