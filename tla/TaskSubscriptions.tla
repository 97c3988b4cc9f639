------------------------- MODULE TaskSubscriptions -------------------------
(***************************************************************************)
(* A chat thread's subscription to a background job: the record and its    *)
(* history sidecar (two files, two writes), the job ledger's acceptance    *)
(* tokens, and the two callers that decide a follow-up, the bridge that    *)
(* received it and the daemon's retry tick.                                *)
(*                                                                         *)
(* One subscription is modelled, with the thread the owner bound and one   *)
(* extra thread.  A message is its id; its text, reply handles and account *)
(* are one flag, prov, "still known".  Every write may fail and the        *)
(* process may stop before it: an operation of the book is the set of its  *)
(* outcomes, each with the faults it took.                                 *)
(***************************************************************************)
EXTENDS Integers, Sequences, FiniteSets, SequencesExt

CONSTANTS
    Msgs,          \* inbound owner messages
    ExtraMsgs,     \* those that arrive on the extra thread
    Procs,         \* callers of follow_up_in: "bridge", "retry"
    Ops,           \* what else happens: "stop", "dismiss", "rebind", "handback", "finish", "unreadable"
    Reviewed,      \* jobs with a review
    MaxJobs,       \* job 1 is bound first, job 2 may be bound later
    MaxDecisions,  \* MAX_DECISIONS, the record's window
    MaxOffers,     \* MAX_OFFERS
    MaxReturns,    \* MAX_RETURNS
    MaxFails,      \* writes that fail in a behaviour
    MaxCrashes,    \* stops of the process
    MaxForgets     \* ids the channel's seen list drops

SubsAssumption ==
    /\ ExtraMsgs \subseteq Msgs
    /\ {MaxDecisions, MaxOffers, MaxReturns} \subseteq Nat \ {0}
    /\ {MaxFails, MaxCrashes, MaxForgets} \subseteq Nat
    /\ MaxJobs \in Nat \ {0, 1}

VARIABLES
    book,     \* the files (rec, side, jobs) and what the process holds of them
    unrec,    \* unrecorded.held.json
    up,       \* the daemon runs
    proc,     \* each caller: where it is, its message, plan and result
    sending,  \* FollowUps::sending
    seen,     \* bridge: ids marked seen, saved
    claimed,  \* bridge: returns it saved a claim for
    fails, crashes, forgets,
    turns,    \* ordinary turns opened per message
    handed    \* messages a worker handed back

vars == <<book, unrec, up, proc, sending, seen, claimed, fails, crashes,
          forgets, turns, handed>>

Jobs == 1..MaxJobs
None == "none"

\* late is history only: the job was given its message on an overtaken plan.
NoJob == [st |-> "none", here |-> FALSE, gone |-> FALSE, as |-> 0, from |-> 0, tok |-> None,
          late |-> FALSE]

NewRecord == [bound |-> 1, cur |-> 0, stopped |-> FALSE, extra |-> ExtraMsgs # {},
              cursor |-> None, win |-> <<>>, pending |-> <<>>, offers |-> <<>>,
              returns |-> <<>>]

\* late is history only: since this plan was made, the other caller was done
\* with the message, which it gave to a job or withheld.
Idle == [at |-> "idle", m |-> None, tip |-> 0, job |-> 0, res |-> None, late |-> FALSE]

Init ==
    /\ book = [rec |-> NewRecord, side |-> <<>>, mem |-> NewRecord, hist |-> <<>>,
               behind |-> FALSE, bad |-> FALSE,
               jobs |-> [j \in Jobs |-> IF j <= 2 THEN [NoJob EXCEPT !.st = "run", !.here = TRUE]
                                        ELSE NoJob]]
    /\ unrec = {} /\ up = TRUE /\ sending = {} /\ seen = {} /\ claimed = {}
    /\ proc = [p \in Procs |-> Idle]
    /\ fails = 0 /\ crashes = 0 /\ forgets = 0
    /\ turns = [m \in Msgs |-> 0] /\ handed = {}

-----------------------------------------------------------------------------
(* Outcomes of an operation under the book's lock: the book it leaves, how  *)
(* it ended, the writes that failed and the stop it took.                   *)

Out(b, r, n, c) == [b |-> b, r |-> r, n |-> n, c |-> c]

Ok(b) == {Out(b, "ok", 0, 0)}

\* The next operation of a chain runs on what the last one left, if it was Ok.
Then(outs, F(_)) ==
    UNION {IF o.r = "ok" THEN {[x EXCEPT !.n = @ + o.n] : x \in F(o.b)} ELSE {o} : o \in outs}

\* Subscriptions::persist: the record alone.  A failed write reverts memory.
Persist(b, r) ==
    {Out([b EXCEPT !.rec = r, !.mem = r], "ok", 0, 0), Out(b, "store", 1, 0), Out(b, "crash", 0, 1)}

-----------------------------------------------------------------------------
(* Reading the book.                                                        *)

IdsOf(s) == {s[i].m : i \in DOMAIN s}
At(s, m) == CHOOSE i \in DOMAIN s : s[i].m = m
Without(s, m) == SelectSeq(s, LAMBDA x : x.m # m)

Final(j) == j.st \in {"done", "cancelled"}

\* index_of: the bound thread, or the extra one while it is attached.
Index(b, m) == m \notin ExtraMsgs \/ b.mem.extra

\* record_holding: after the thread is no longer a live binding.
Holding(b, m) ==
    m \in IdsOf(b.mem.pending) \cup IdsOf(b.mem.offers) \cup IdsOf(b.mem.returns) \cup IdsOf(b.hist)

FanoutOf(b, m) ==
    IF m \in IdsOf(b.hist) THEN b.hist[At(b.hist, m)].fan
    ELSE IF m \in IdsOf(b.mem.win) THEN b.mem.win[At(b.mem.win, m)].fan
    ELSE IF b.mem.cursor = m THEN "delivered" ELSE None

\* message_text, account_of, reply_of: a held copy, or the sidecar's.
Known(b, m) ==
    \/ \E s \in {b.mem.pending, b.mem.offers} : \E i \in DOMAIN s : s[i].m = m /\ s[i].prov
    \/ \E i \in DOMAIN b.hist : b.hist[i].m = m /\ b.hist[i].prov

\* acting, walk: a dismissed or cancelled bound job withholds; otherwise
\* the last job of the resumed_as links.
Acting(b) ==
    LET walk[j \in Jobs] == IF b.jobs[j].as = 0 THEN j ELSE walk[b.jobs[j].as]
        bound == b.jobs[b.mem.bound]
    IN  IF bound.gone \/ bound.st = "cancelled" THEN b.mem.bound
        ELSE walk[IF b.mem.cur # 0 THEN b.mem.cur ELSE b.mem.bound]

Blocked(b, j) ==
    \/ b.jobs[j].gone \/ b.jobs[j].st = "cancelled"
    \/ j \in Reviewed /\ Final(b.jobs[j])
    \/ b.jobs[j].as # 0 /\ Final(b.jobs[j])

\* The conditions under which decide_account withholds.
Withholds(b) ==
    LET tip == Acting(b)
    IN  b.mem.stopped \/ Blocked(b, tip) \/ (tip \in Reviewed /\ ~Final(b.jobs[tip]))

-----------------------------------------------------------------------------
(* store_decision.                                                          *)

\* The decision in its place, or appended; its text only while it can still
\* be handed back.
Decided(h, m, fan, prov) ==
    LET kept == fan \in {"pending", "delivered"}
        old  == IF m \in IdsOf(h) THEN h[At(h, m)].prov ELSE FALSE
        d    == [m |-> m, fan |-> fan, prov |-> kept /\ (prov \/ old)]
    IN  IF m \in IdsOf(h) THEN [h EXCEPT ![At(h, m)] = d] ELSE Append(h, d)

\* The newest decisions, and always the one this write changed.
Window(h, m) ==
    LET start == IF Len(h) > MaxDecisions THEN Len(h) - MaxDecisions ELSE 0
        older == At(h, m) <= start
        bare  == [i \in DOMAIN h |-> [m |-> h[i].m, fan |-> h[i].fan]]
    IN  IF older THEN <<bare[At(h, m)]>> \o SubSeq(bare, start + 2, Len(h))
        ELSE SubSeq(bare, start + 1, Len(h))

\* A delivery writes the sidecar first.  A rollback that fails leaves the
\* newer sidecar, and memory remembers it.
StoreDelivered(b, r, h) ==
    LET wrote == [b EXCEPT !.side = h, !.behind = FALSE]
        back  == [b EXCEPT !.side = b.hist, !.behind = FALSE]
    IN  {Out([wrote EXCEPT !.rec = r, !.mem = r, !.hist = h], "ok", 0, 0),
         Out(b, "store", 1, 0), Out(b, "crash", 0, 1),
         Out(wrote, "crash", 0, 1), Out(wrote, "crash", 1, 1),
         Out(back, "store", 1, 0), Out([wrote EXCEPT !.hist = h], "store", 2, 0)}

\* Everything else writes the record first, after a sidecar that the last
\* load left behind.  A sidecar that fails puts the old record back if it can.
StoreOther(b, r, h) ==
    LET pre == [b EXCEPT !.side = IF b.behind THEN b.hist ELSE @, !.behind = FALSE]
        rec == [pre EXCEPT !.rec = r]
    IN  {Out([rec EXCEPT !.side = h, !.mem = r, !.hist = h], "ok", 0, 0),
         Out(b, "crash", 0, 1), Out(pre, "store", 1, 0), Out(pre, "crash", 0, 1),
         Out(rec, "crash", 0, 1), Out(rec, "crash", 1, 1), Out(rec, "store", 2, 0)}
        \cup (IF b.behind THEN {Out(b, "store", 1, 0)} ELSE {})

StoreDecision(b, m, fan, prov, new) ==
    LET h == Decided(b.hist, m, fan, prov)
        r == [new EXCEPT !.win = Window(h, m), !.cursor = IF fan = "delivered" THEN m ELSE @]
    IN  IF b.bad THEN {Out(b, "store", 0, 0)}
        ELSE IF fan = "delivered" THEN StoreDelivered(b, r, h) ELSE StoreOther(b, r, h)

-----------------------------------------------------------------------------
(* The operations of the book.                                              *)

RecordPending(b, m) ==
    StoreDecision(b, m, "pending", TRUE,
        [b.mem EXCEPT !.pending = IF m \in IdsOf(@) THEN @ ELSE Append(@, [m |-> m, prov |-> TRUE])])

\* push_offer drops the oldest over the limit.
CommitDelivery(b, m) ==
    LET offers == Append(Without(b.mem.offers, m), [m |-> m, prov |-> Known(b, m)])
        kept   == IF Len(offers) > MaxOffers THEN Tail(offers) ELSE offers
    IN  IF ~Index(b, m) THEN {Out(b, "other", 0, 0)}
        ELSE IF FanoutOf(b, m) \in {"delivered", "handed", "intake"} THEN Ok(b)
        ELSE StoreDecision(b, m, "delivered", Known(b, m),
                 [b.mem EXCEPT !.pending = Without(@, m), !.offers = kept])

\* push_return: queued once; a full queue refuses and nothing changes.
Returned(b, m, fan, new) ==
    LET queued == m \in IdsOf(b.mem.returns)
        full   == ~queued /\ Len(b.mem.returns) >= MaxReturns
        r      == IF queued THEN new
                  ELSE [new EXCEPT !.returns = Append(@, [m |-> m, prov |-> Known(b, m)])]
    IN  IF full THEN {Out(b, "other", 0, 0)} ELSE StoreDecision(b, m, fan, FALSE, r)

\* A message never held is only remembered; a held one goes to the returns.
Withhold(b, m, pending) ==
    IF pending THEN Returned(b, m, "intake", [b.mem EXCEPT !.pending = Without(@, m)])
    ELSE StoreDecision(b, m, "intake", FALSE, b.mem)

HandBackOuts(b, m) ==
    CASE ~Index(b, m) /\ ~Holding(b, m) -> Ok(b)
      [] FanoutOf(b, m) \in {"handed", "intake"} -> Ok(b)
      [] FanoutOf(b, m) = None -> {Out(b, "other", 0, 0)}
      [] b.mem.stopped -> Withhold(b, m, TRUE)
      [] OTHER -> Returned(b, m, "handed",
            [b.mem EXCEPT !.pending = Without(@, m), !.offers = Without(@, m),
                          !.extra = @ /\ m \notin ExtraMsgs])

NoteCurrent(b, j) == Persist(b, [b.mem EXCEPT !.cur = j])

\* ledger::update of the old job's resumed_as, then the subscription's
\* current job; an old record that cannot be written leaves only the latter.
CommitResume(b, old, new) ==
    LET linked == [b EXCEPT !.jobs[old].as = new]
        points == b.mem.cur = old \/ (b.mem.cur = 0 /\ b.mem.bound = old)
    IN  {Out(b, "crash", 0, 1)}
        \cup (IF points THEN NoteCurrent(linked, new) ELSE Ok(linked))
        \cup {[x EXCEPT !.n = @ + 1] : x \in NoteCurrent(b, new)}

TakenBy(b, m) == {j \in Jobs : b.jobs[j].tok = m}

\* find_accepted: some job's record names the message, dismissed or not.
Accepted(b, m) == TakenBy(b, m) # {}

\* settle_if_accepted: a job's record already names the pending message.
SettleAccepted(b, m) ==
    LET new == CHOOSE j \in TakenBy(b, m) : TRUE
        old == b.jobs[new].from
    IN  Then(CommitDelivery(b, m),
             LAMBDA x : {[o EXCEPT !.r = IF @ = "ok" THEN "settled" ELSE @]
                            : o \in CommitResume(x, old, new)})

\* decide_account with Worker::Accept, and what follow_up_in makes of it.
DecideOuts(b, m) ==
    LET fan  == FanoutOf(b, m)
        pend == fan = "pending"
        As(outs, r) == {[o EXCEPT !.r = IF @ = "ok" THEN r ELSE @] : o \in outs}
    IN  CASE fan \in {"delivered", "handed", "intake"} -> As(Ok(b), "settled")
          [] ~Index(b, m) /\ ~Holding(b, m) -> As(Ok(b), "turn")
          [] pend /\ Accepted(b, m) -> SettleAccepted(b, m)
          [] Withholds(b) -> As(Withhold(b, m, pend),
                                IF pend /\ Index(b, m) THEN "settled" ELSE "turn")
          [] pend -> As(Ok(b), "plan")
          [] OTHER -> As(RecordPending(b, m), "plan")

\* bind over a replaceable binding: release_pending, then the new job.
RebindOuts(b, j) ==
    LET Release(outs, x) ==
            Then(outs, LAMBDA y : Returned(y, x.m, "intake",
                                     [y.mem EXCEPT !.pending = Without(@, x.m)]))
    IN  Then(FoldLeft(Release, Ok(b), b.mem.pending),
             LAMBDA y : Persist(y, [y.mem EXCEPT !.extra = FALSE, !.bound = j, !.cur = 0,
                                                 !.offers = <<>>, !.stopped = FALSE]))

-----------------------------------------------------------------------------
(* load_history and repair_loaded.                                          *)

Rank(fan) == CASE fan = "pending" -> 0 [] fan = "delivered" -> 1 [] OTHER -> 2

\* Whichever file is ahead keeps its fan-out; gaps come from held messages.
Merged(rec, base) ==
    LET Step(h, d) ==
            IF d.m \notin IdsOf(h) THEN Append(h, [m |-> d.m, fan |-> d.fan, prov |-> FALSE])
            ELSE IF Rank(d.fan) > Rank(h[At(h, d.m)].fan)
                 THEN [h EXCEPT ![At(h, d.m)].fan = d.fan] ELSE h
        all  == FoldLeft(Step, base, rec.win)
        held == rec.pending \o rec.offers \o rec.returns
        Fill(d) == [d EXCEPT !.prov = @ \/ (d.fan \in {"pending", "delivered"}
                          /\ \E i \in DOMAIN held : held[i].m = d.m /\ held[i].prov)]
    IN  [i \in DOMAIN all |-> Fill(all[i])]

\* A full window with no readable sidecar has older ids nobody can see.
Untrusted(b, readable) == ~readable \/ (b.side = <<>> /\ Len(b.rec.win) >= MaxDecisions)

LoadOuts(b, readable) ==
    LET bad   == Untrusted(b, readable)
        h     == Merged(b.rec, IF ~readable THEN <<>> ELSE b.side)
        gone  == {d.m : d \in {x \in ToSet(h) : x.fan # "pending"}}
        r     == [b.rec EXCEPT !.pending = SelectSeq(@, LAMBDA x : x.m \notin gone)]
        same  == bad \/ h = b.side
        read  == [b EXCEPT !.hist = h, !.bad = bad, !.behind = FALSE, !.mem = r]
        sides == IF same THEN {Out(read, "ok", 0, 0)}
                 ELSE {Out([read EXCEPT !.side = h], "ok", 0, 0),
                       Out([read EXCEPT !.behind = TRUE], "ok", 1, 0)}
    IN  IF r = b.rec THEN sides
        ELSE {[o EXCEPT !.b.rec = r] : o \in sides} \cup {[o EXCEPT !.n = @ + 1] : o \in sides}

-----------------------------------------------------------------------------
(* Actions.                                                                 *)

\* An operation ends; a stop inside it leaves only the files.
Ends(o) ==
    /\ fails + o.n <= MaxFails /\ crashes + o.c <= MaxCrashes
    /\ fails' = fails + o.n /\ crashes' = crashes + o.c
    /\ up' = (o.c = 0)

\* What a stop leaves: the files, and every running job interrupted.
Stopped(b) ==
    [b EXCEPT !.jobs = [j \in Jobs |-> [@[j] EXCEPT !.here = FALSE,
                                          !.st = IF @ = "run" THEN "done" ELSE @]]]

Put(p, x) == proc' = [proc EXCEPT ![p] = x]

\* The caller p goes on with x, and is done with its message before another
\* that still has its plan carried it out.
Overtaking(p, x) ==
    [q \in Procs |->
        IF q = p THEN x
        ELSE [proc[q] EXCEPT !.late = @ \/ (proc[q].m = x.m /\ proc[q].at \in {"plan", "send"})]]

Applied(o, callers) ==
    /\ Ends(o)
    /\ IF o.c = 0 THEN book' = o.b /\ proc' = callers /\ UNCHANGED sending
       ELSE book' = Stopped(o.b) /\ proc' = [q \in Procs |-> Idle] /\ sending' = {}

\* Error::Unreadable and Error::Store, the errors that keep the message.
CannotStore(r) == r = "store"

\* follow_up_in up to the plan.  What could not be stored is remembered, or
\* the caller hears that it is not held.
Decide(p, m) ==
    /\ up /\ proc[p].at = "idle"
    /\ \E o \in DecideOuts(book, m) :
         LET kept(res) == [Idle EXCEPT !.at = "end", !.m = m, !.res = res]
         IN  CASE o.r = "plan" ->
                    /\ Applied(o, [proc EXCEPT ![p] =
                           [Idle EXCEPT !.at = "plan", !.m = m, !.tip = Acting(o.b)]])
                    /\ UNCHANGED unrec
               [] CannotStore(o.r) ->
                    \E saved \in BOOLEAN :
                      LET room == m \in unrec \/ Cardinality(unrec) < MaxReturns
                      IN  /\ saved => room
                          /\ Applied([o EXCEPT !.n = @ + IF ~saved /\ room THEN 1 ELSE 0],
                                     [proc EXCEPT ![p] = kept(IF saved THEN "held" ELSE "unstored")])
                          /\ unrec' = IF saved THEN unrec \cup {m} ELSE unrec
               [] OTHER ->
                    /\ Applied(o, Overtaking(p, kept(IF o.r = "other" THEN "turn" ELSE o.r)))
                    /\ UNCHANGED unrec
    /\ UNCHANGED <<seen, claimed, forgets, turns, handed>>

\* The platform presents a message the bridge has not marked seen.
Present(m) == "bridge" \in Procs /\ m \notin seen /\ Decide("bridge", m)

\* Fault: only what is pending is retried.
RetryRecorded(m) == "retry" \in Procs /\ m \in IdsOf(book.mem.pending) /\ Decide("retry", m)

\* retry_pending: what is pending and what could not be recorded.
Retry(m) ==
    "retry" \in Procs /\ m \in IdsOf(book.mem.pending) \cup unrec /\ Decide("retry", m)

\* Fault: whoever has a plan sends.
BeginUnlooked(p) ==
    /\ up /\ proc[p].at = "plan"
    /\ Put(p, [proc[p] EXCEPT !.at = "send"]) /\ sending' = sending \cup {proc[p].m}
    /\ UNCHANGED <<book, unrec, up, seen, claimed, fails, crashes, forgets, turns, handed>>

\* One sender per message; another caller's copy is held.
Begin(p) ==
    /\ up /\ proc[p].at = "plan"
    /\ IF proc[p].m \in sending
       THEN Put(p, [proc[p] EXCEPT !.at = "end", !.res = "held"]) /\ UNCHANGED sending
       ELSE Put(p, [proc[p] EXCEPT !.at = "send"]) /\ sending' = sending \cup {proc[p].m}
    /\ UNCHANGED <<book, unrec, up, seen, claimed, fails, crashes, forgets, turns, handed>>

\* deliver_to_job while the job's session lives in this process; otherwise
\* resume_once, which refuses a dismissed or cancelled job, and one that some
\* job already names as what it resumes.
Takes(j) ==
    \/ book.jobs[j].here
    \/ /\ ~book.jobs[j].gone /\ book.jobs[j].st = "done" /\ book.jobs[j].as = 0
       /\ \A k \in Jobs : book.jobs[k].from # j

\* deliver, resume: the new job's record names the message before the job is
\* in the table.
Send(p) ==
    /\ up /\ proc[p].at = "send" /\ Takes(proc[p].tip)
    /\ \E j \in Jobs :
         /\ book.jobs[j].st = "none" /\ \A k \in 1..(j - 1) : book.jobs[k].st # "none"
         /\ book' = [book EXCEPT !.jobs[j] = [NoJob EXCEPT !.st = "run", !.here = TRUE,
                                                  !.from = proc[p].tip, !.tok = proc[p].m,
                                                 !.late = proc[p].late]]
         /\ Put(p, [proc[p] EXCEPT !.at = "link", !.job = j])
    /\ UNCHANGED <<unrec, up, sending, seen, claimed, fails, crashes, forgets, turns, handed>>

\* No workbench, no conversation, a record that could not be written, or a
\* conversation that cannot be resumed: nothing started.
SendFails(p) ==
    /\ up /\ proc[p].at = "send"
    /\ IF Takes(proc[p].tip) THEN fails < MaxFails /\ fails' = fails + 1 ELSE UNCHANGED fails
    /\ sending' = sending \ {proc[p].m}
    /\ \E res \in {"held", "unresumable"} : Put(p, [proc[p] EXCEPT !.at = "end", !.res = res])
    /\ UNCHANGED <<book, unrec, up, seen, claimed, crashes, forgets, turns, handed>>

\* The old job's resumed_as, best effort; then the delivery is over.
Link(p) ==
    /\ up /\ proc[p].at = "link"
    /\ \/ book' = [book EXCEPT !.jobs[proc[p].tip].as = proc[p].job] /\ UNCHANGED fails
       \/ fails < MaxFails /\ fails' = fails + 1 /\ UNCHANGED book
    /\ sending' = sending \ {proc[p].m}
    /\ proc' = Overtaking(p, [proc[p] EXCEPT !.at = "commit"])
    /\ UNCHANGED <<unrec, up, seen, claimed, crashes, forgets, turns, handed>>

\* commit_delivery, then note_current, whose failure is only logged.
Commit(p) ==
    LET m == proc[p].m
        outs == Then(CommitDelivery(book, m),
                     LAMBDA b : {[o EXCEPT !.r = IF @ = "crash" THEN @ ELSE "delivered"]
                                    : o \in NoteCurrent(b, proc[p].job)})
    IN  /\ up /\ proc[p].at = "commit"
        /\ \E o \in outs :
             Applied(o, [proc EXCEPT ![p].at = "end",
                              ![p].res = IF o.r = "delivered" THEN "delivered" ELSE "held"])
        /\ UNCHANGED <<unrec, seen, claimed, forgets, turns, handed>>

\* Fault: a message nobody holds is marked seen.
BridgeEndSeen ==
    /\ "bridge" \in Procs /\ up /\ proc["bridge"].at = "end"
    /\ seen' = seen \cup {proc["bridge"].m}
    /\ turns' = [turns EXCEPT ![proc["bridge"].m] = @ + IF proc["bridge"].res = "turn" THEN 1 ELSE 0]
    /\ Put("bridge", Idle)
    /\ UNCHANGED <<book, unrec, up, sending, claimed, fails, crashes, forgets, handed>>

\* job_took: the bridge opens the turn, or marks the message seen; a message
\* nobody holds is left for the platform to present again.
BridgeEnd ==
    /\ "bridge" \in Procs /\ up /\ proc["bridge"].at = "end"
    /\ LET m == proc["bridge"].m  res == proc["bridge"].res
       IN  /\ seen' = IF res = "unstored" THEN seen ELSE seen \cup {m}
           /\ turns' = [turns EXCEPT ![m] = @ + IF res = "turn" THEN 1 ELSE 0]
    /\ Put("bridge", Idle)
    /\ UNCHANGED <<book, unrec, up, sending, claimed, fails, crashes, forgets, handed>>

\* retry_pending after one message: what is stored, or needs no retry, is
\* dropped from the unrecorded list.
RetryEnd ==
    /\ "retry" \in Procs /\ up /\ proc["retry"].at = "end"
    /\ LET m == proc["retry"].m
           over == m \in IdsOf(book.mem.pending)
                   \/ proc["retry"].res \notin {"held", "unstored", "unresumable"}
       IN  unrec' = IF over THEN unrec \ {m} ELSE unrec
    /\ Put("retry", Idle)
    /\ UNCHANGED <<book, up, sending, seen, claimed, fails, crashes, forgets, turns, handed>>

\* enqueue_returned: the claim is saved and its turn will run.
ClaimReturn(m) ==
    /\ up /\ m \in IdsOf(book.mem.returns) /\ m \notin claimed
    /\ claimed' = claimed \cup {m}
    /\ turns' = [turns EXCEPT ![m] = @ + 1]
    /\ UNCHANGED <<book, unrec, up, proc, sending, seen, fails, crashes, forgets, handed>>

\* ack_returns, once the claim is saved.
AckReturn(m) ==
    /\ up /\ m \in claimed /\ m \in IdsOf(book.mem.returns)
    /\ \E o \in Persist(book, [book.mem EXCEPT !.returns = Without(@, m)]) :
         /\ o.r = "ok" /\ Ends(o) /\ book' = o.b
    /\ UNCHANGED <<unrec, proc, sending, seen, claimed, forgets, turns, handed>>

Alone(outs) ==
    /\ up
    /\ \E o \in outs :
         /\ Ends(o)
         /\ IF o.c = 0 THEN book' = o.b /\ UNCHANGED <<proc, sending>>
            ELSE book' = Stopped(o.b) /\ proc' = [q \in Procs |-> Idle] /\ sending' = {}
    /\ UNCHANGED <<unrec, seen, claimed, forgets, turns>>

\* The worker of a job hands back the message that job accepted.
HandBack(m) ==
    /\ "handback" \in Ops /\ \E j \in TakenBy(book, m) : book.jobs[j].st = "run"
    /\ FanoutOf(book, m) \in {"pending", "delivered", None}
    /\ Alone(HandBackOuts(book, m))
    /\ handed' = handed \cup {m}

Stop ==
    /\ "stop" \in Ops /\ ~book.mem.stopped
    /\ Alone(Persist(book, [book.mem EXCEPT !.stopped = TRUE]))
    /\ UNCHANGED handed

\* bind on the bound thread: refused while the binding can still deliver.
Rebind ==
    /\ "rebind" \in Ops /\ book.mem.bound = 1 /\ ~book.jobs[2].gone
    /\ book.mem.stopped \/ Blocked(book, Acting(book))
    /\ Alone(RebindOuts(book, 2))
    /\ UNCHANGED handed

JobStep(j, r) ==
    /\ book' = [book EXCEPT !.jobs[j] = r]
    /\ UNCHANGED <<unrec, up, proc, sending, seen, claimed, fails, crashes, forgets, turns, handed>>

\* The owner dismisses or cancels a job (the ledger's record).
Dismiss(j) ==
    /\ "dismiss" \in Ops /\ up /\ book.jobs[j].st # "none"
    /\ \/ ~book.jobs[j].gone /\ Final(book.jobs[j]) /\ JobStep(j, [book.jobs[j] EXCEPT !.gone = TRUE])
       \/ book.jobs[j].st = "run" /\ JobStep(j, [book.jobs[j] EXCEPT !.st = "cancelled"])

Finish(j) ==
    /\ "finish" \in Ops /\ up /\ book.jobs[j].st = "run"
    /\ JobStep(j, [book.jobs[j] EXCEPT !.st = "done"])

Crash ==
    /\ up /\ crashes < MaxCrashes
    /\ crashes' = crashes + 1 /\ up' = FALSE
    /\ book' = Stopped(book) /\ proc' = [q \in Procs |-> Idle] /\ sending' = {}
    /\ UNCHANGED <<unrec, seen, claimed, fails, forgets, turns, handed>>

\* open at start, reload at every tick; an unreadable sidecar is a fault.
Load ==
    /\ \E readable \in IF "unreadable" \in Ops THEN BOOLEAN ELSE {TRUE} :
       \E o \in LoadOuts(book, readable) :
         LET n == o.n + IF readable THEN 0 ELSE 1
         IN  /\ fails + n <= MaxFails /\ fails' = fails + n
             /\ book' = o.b
             /\ ~up \/ book' # book
    /\ up' = TRUE
    /\ UNCHANGED <<unrec, proc, sending, seen, claimed, crashes, forgets, turns, handed>>

\* The channel's seen list rolls off and the platform presents it again.
ForgetSeen(m) ==
    /\ m \in seen /\ forgets < MaxForgets
    /\ seen' = seen \ {m} /\ forgets' = forgets + 1
    /\ UNCHANGED <<book, unrec, up, proc, sending, claimed, fails, crashes, turns, handed>>

Next ==
    \/ \E m \in Msgs : \/ Present(m) \/ Retry(m) \/ ClaimReturn(m) \/ AckReturn(m)
                       \/ HandBack(m) \/ ForgetSeen(m)
    \/ \E p \in Procs : Begin(p) \/ Send(p) \/ SendFails(p) \/ Link(p) \/ Commit(p)
    \/ \E j \in Jobs : Dismiss(j) \/ Finish(j)
    \/ BridgeEnd \/ RetryEnd \/ Stop \/ Rebind \/ Crash \/ Load

Spec == Init /\ [][Next]_vars

\* The daemon restarts, its tick loads and retries every pending message in
\* turn, started calls go on, and the bridge takes the returns.
Fairness ==
    /\ WF_vars(~up /\ Load) /\ WF_vars(BridgeEnd) /\ WF_vars(RetryEnd)
    /\ \A p \in Procs : WF_vars(Begin(p) \/ Send(p) \/ SendFails(p) \/ Link(p) \/ Commit(p))
    /\ \A m \in Msgs : SF_vars(Retry(m)) /\ WF_vars(ClaimReturn(m))

FairSpec == Spec /\ Fairness

-----------------------------------------------------------------------------
(* Properties.                                                              *)

\* Shapes, and the limits of the window and of the return queue.
TypeOK ==
    /\ \A m \in Msgs : FanoutOf(book, m) \in {None, "pending", "delivered", "handed", "intake"}
    /\ unrec \subseteq Msgs /\ seen \subseteq Msgs /\ claimed \subseteq Msgs /\ sending \subseteq Msgs
    /\ Len(book.rec.win) <= MaxDecisions /\ Len(book.rec.returns) <= MaxReturns
    /\ \A p \in Procs : proc[p].at \in {"idle", "plan", "send", "link", "commit", "end"}
    /\ up \in BOOLEAN /\ \A m \in Msgs : turns[m] \in Nat

\* The jobs that took the message on a plan nobody had overtaken.
TakenInTime(m) == {j \in TakenBy(book, m) : ~book.jobs[j].late}

\* A follow-up is given to a job at most once, over retries, failed writes,
\* crashes between any two writes, two callers, and after the record's window
\* and the channel's seen list forgot it (FollowUps::sending,
\* settle_if_accepted).  The exception: a caller that had its plan before the
\* other one gave the message away, and began after that one had left
\* FollowUps::sending, gives it once more.
GivenOnce ==
    \A m \in Msgs : /\ Cardinality(TakenInTime(m)) <= 1
                    /\ Cardinality(TakenBy(book, m)) <= 2

\* A message opens at most one ordinary turn, whether it was withheld, handed
\* back, or released (withhold, hand_back, release_pending, enqueue_returned).
OneTurn == \A m \in Msgs : turns[m] <= 1

\* A message runs both as a job's follow-up and as an ordinary turn only if
\* the job's worker handed it back, or its caller had its plan before the other
\* one withheld it (decide_account against carry_out).
NotBoth == \A m \in Msgs : turns[m] > 0 /\ TakenInTime(m) # {} => m \in handed

\* A message waiting in the return queue still has its text, its account and
\* its reply handles, after its offer rolled off and after a crash between the
\* record and the sidecar (store_decision, load_history).
ReturnsKnown == \A i \in DOMAIN book.rec.returns : book.rec.returns[i].prov

\* A message the bridge marked seen was run as a turn, or a file still holds it,
\* or a job took it and nothing on disk says it went back (job_took).
NoneLost ==
    \A m \in seen :
        LET h    == Merged(book.rec, book.side)
            back == \E i \in DOMAIN h : h[i].m = m /\ h[i].fan \in {"handed", "intake"}
        IN  \/ turns[m] > 0 \/ (TakenBy(book, m) # {} /\ ~back)
            \/ m \in IdsOf(book.rec.pending) \cup IdsOf(book.rec.returns) \cup unrec

\* A message the bridge marked seen is in the end given to a job or run as an
\* ordinary turn (retry_pending, deliver_returns).
EveryFollowUpEnds ==
    \A m \in Msgs : m \in seen ~> (TakenBy(book, m) # {} \/ turns[m] > 0)
=============================================================================
