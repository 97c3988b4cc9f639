----------------------------- MODULE ReviewedJob -----------------------------
(***************************************************************************)
(* Reviewed jobs (scv-tools/src/delegate/review.rs and review/): a builder *)
(* works, a fresh reviewer on another agent gives a structured verdict,    *)
(* round by round, and the work may land after the approval or before each *)
(* review.                                                                 *)
(*                                                                         *)
(* The loop is one task; every delegated turn is an await. Beside it runs  *)
(* `agent_cancel`, which fires the job's token at any moment and reads the *)
(* live state, frozen from then on. The session may also end and drop the  *)
(* job. Journal writes may fail. What agents answer is chosen freely.      *)
(***************************************************************************)
EXTENDS Naturals, Sequences, FiniteSets

CONSTANTS
    Builders,       \* the agents the call may be routed to
    Offered,        \* the sets of agents a session may offer
    Lands,          \* the landing modes the call may ask for
    Reports,        \* bound: the landing reports a builder's turn may hold
    MaxRounds,      \* bound: the call's round limit, at most MAX_ROUNDS
    JournalFails,   \* bound: journal writes that fail
    Cancels         \* whether agent_cancel and the end of the session happen

Nobody == "nobody"

ReviewAssumption ==
    /\ MaxRounds \in 1 .. 20 /\ JournalFails \in Nat
    /\ Nobody \notin UNION Offered
    /\ Reports \subseteq {"none", "bad", "landed", "not_landed", "failed"}
    /\ Lands \subseteq {"none", "after_approval", "before_review"}
    /\ Cancels \in BOOLEAN

\* A conversation is named by who started it and in which round.
NoConv == <<"none", 0, Nobody>>
CallConv == <<"call", 0, Nobody>>

NoSnapshot == [outcome |-> "none", landing |-> "none", unauthorized |-> FALSE, evidence |-> "none"]

VARIABLES
    plan,       \* the checked call: builder, reviewer order, named, land, session, rounds
    pc,         \* where the loop is
    token,      \* the job's cancellation token fired
    live,       \* the live state that status, cancel, result and journal read
    run,        \* the loop's own variables
    turn,       \* the result of the turn that ended last
    convs,      \* conversations the loop started and has not released
    journal,    \* started, incomplete, verdicts written, review.finished
    seen,       \* what agent_cancel read when it cancelled
    result,     \* the job's result, once it ended
    turns,      \* reviewer turns: round, agent, whether they gave a verdict
    jfails

vars == <<plan, pc, token, live, run, turn, convs, journal, seen, result, turns, jfails>>

-----------------------------------------------------------------------------
(* The plan.                                                               *)

\* The default reviewer order for work by a builder; a fresh conversation of
\* its own agent is the last resort.
DefaultOrder(builder) ==
    LET order == CASE builder \in {"claude", "claude-ai"} -> <<"codex", "grok">>
                   [] builder = "codex" -> <<"claude-ai", "claude", "grok">>
                   [] OTHER -> <<"claude-ai", "claude", "codex", "grok">>
    IN  IF \E i \in DOMAIN order : order[i] = builder THEN order ELSE Append(order, builder)

OfferedOrder(builder, offered) ==
    SelectSeq(DefaultOrder(builder), LAMBDA a : a \in offered)

\* A reviewed call: a reviewer it names is the whole order.
Calls ==
    {c \in [builder : Builders, offered : Offered, reviewer : {Nobody} \cup UNION Offered,
            land : Lands, session : BOOLEAN, rounds : 1 .. MaxRounds] :
        c.builder \in c.offered /\ c.reviewer \in {Nobody} \cup c.offered}

Planned(c) ==
    [builder |-> c.builder, named |-> c.reviewer # Nobody,
     order |-> IF c.reviewer = Nobody THEN OfferedOrder(c.builder, c.offered) ELSE <<c.reviewer>>,
     land |-> c.land, session |-> c.session, rounds |-> c.rounds]

Plans == {Planned(c) : c \in Calls}

-----------------------------------------------------------------------------
(* The live state.                                                         *)

NewLive ==
    [round |-> 0, phase |-> "waiting", fixed |-> Nobody, reviewer |-> Nobody, open |-> {},
     status |-> "unset", reports |-> <<>>, unauthorized |-> FALSE, builderTurns |-> 0]

\* Mutant: a cancelled job still writes its live state.
UpdateAlways(new) == live' = new

\* Live::update: nothing is written once the token fired.
Update(new) == live' = IF token THEN live ELSE new

\* Live::fix: the first outcome stands.
Fixed(l, outcome) == IF l.fixed = Nobody THEN [l EXCEPT !.fixed = outcome] ELSE l

MayLand(kind) ==
    <<plan.land, kind>> \in {<<"before_review", "round">>, <<"after_approval", "landing">>}

\* Landing::record and apply: what a builder turn says it landed. A turn that
\* may not land and reports nothing landed leaves no trace; one that landed
\* and then failed still has its report, with the status unknown.
Recorded(l, kind, t) ==
    LET may    == MayLand(kind)
        report == [kind |-> kind, round |-> l.round, by |-> Nobody,
                   check |-> IF t.status = "completed" THEN "due" ELSE "not_started"]
    IN
    IF t.report \in {"landed", "not_landed", "failed"} /\ (may \/ t.report # "not_landed")
    THEN [l EXCEPT !.unauthorized = @ \/ ~may,
                   !.status = IF t.status = "completed" THEN t.report ELSE "unknown",
                   !.reports = IF t.report = "landed" THEN Append(@, report) ELSE @]
    ELSE IF may THEN [l EXCEPT !.status = "unknown"] ELSE l

Pending == {"not_started", "due", "running"}

ReportsOf(l, kind, check, by, from) ==
    [l EXCEPT !.reports = [i \in DOMAIN @ |->
        IF @[i].kind = kind /\ @[i].round = l.round /\ @[i].check \in from
        THEN [@[i] EXCEPT !.check = check, !.by = by] ELSE @[i]]]

\* Landing::checking, checked and unchecked.
Checking(l, kind, agent)  == ReportsOf(l, kind, "running", agent, Pending)
Checked(l, kind, agent, c) ==
    ReportsOf(l, kind, c, agent, Pending \cup {"covered", "disputed", "no_result"})
Unchecked(l, kind, agent) == ReportsOf(l, kind, "no_result", agent, Pending)

\* Whether this round's turn of a kind reported a landing.
Reported(l, kind) ==
    \E i \in DOMAIN l.reports : l.reports[i].kind = kind /\ l.reports[i].round = l.round

\* Landing::evidence: one disputed landing disputes all, one without a
\* result leaves all unconfirmed.
Evidence(l) ==
    LET checks == {l.reports[i].check : i \in DOMAIN l.reports}
    IN  CASE checks = {} -> "none"
          [] "disputed" \in checks -> "disputed"
          [] checks \cap {"due", "running", "no_result"} # {} -> "unconfirmed"
          [] "not_started" \in checks -> "reported"
          [] OTHER -> "confirmed"

\* Landing::summary: a cancel during a turn that may land leaves it unknown.
LandingStatus(l, outcome, cancelled) ==
    CASE cancelled /\ \/ l.phase = "landing"
                      \/ l.phase = "builder" /\ plan.land = "before_review"
           -> "unknown"
      [] l.status # "unset" -> l.status
      [] plan.land = "none" -> "not_requested"
      [] l.round = 0 \/ l.builderTurns = 0 -> "not_attempted"
      [] plan.land = "after_approval" -> "not_attempted"
      [] OTHER -> "unknown"

\* Live::snapshot: an outcome the loop fixed stands, otherwise stopped.
Snapshot(l, cancelled) ==
    LET outcome == IF l.fixed = Nobody THEN "stopped" ELSE l.fixed
        landing == LandingStatus(l, outcome, cancelled)
    IN  [outcome |-> outcome, landing |-> landing, unauthorized |-> l.unauthorized,
         evidence |-> IF landing = "landed" THEN Evidence(l) ELSE "none"]

-----------------------------------------------------------------------------
NoTurn == [status |-> "none", session |-> FALSE, report |-> "none", verdict |-> "none",
           still |-> {}, blocking |-> FALSE, check |-> "none"]

\* handle: the builder's conversation; held and kept:
\* the reviewer's; next: the next reviewer in the order.
NewRun == [handle |-> NoConv, own |-> FALSE, open |-> {}, skipped |-> {}, refused |-> FALSE,
           held |-> NoConv, kept |-> NoConv, next |-> 1, agent |-> Nobody, halt |-> "none"]

Init ==
    /\ plan \in Plans
    /\ pc = "queued" /\ token = FALSE
    /\ live = NewLive
    /\ run = [NewRun EXCEPT !.handle = IF plan.session THEN CallConv ELSE NoConv]
    /\ turn = NoTurn
    /\ convs = {}
    /\ journal = [incomplete |-> FALSE, verdicts |-> {}, end |-> NoSnapshot]
    /\ seen = NoSnapshot /\ result = NoSnapshot
    /\ turns = <<>>
    /\ jfails = 0

\* One append to the journal; a failure marks it incomplete and halts.
Write(ok) ==
    /\ jfails' = IF ok THEN jfails ELSE jfails + 1
    /\ ok \/ jfails < JournalFails
    /\ journal' = [journal EXCEPT !.incomplete = @ \/ ~ok]

Halted(r, why) == [r EXCEPT !.halt = why]

\* The token is looked at between turns.
Stop(outcome) ==
    /\ pc' = "finish"
    /\ live' = IF token THEN live ELSE Fixed(live, outcome)

Release(h) == convs' = convs \ {h}

-----------------------------------------------------------------------------
(* The builder.                                                            *)

\* A round begins: a later round ends the conversation an earlier one
\* started, before its own; the turn starts once its journal line is written.
StartBuilder(ok) ==
    LET round == live.round + 1
        own   == run.own /\ round > 1
    IN
    /\ pc \in {"queued", "round"}
    /\ Update([live EXCEPT !.round = round, !.builderTurns = @ + 1, !.phase = "builder"])
    /\ convs' = IF own THEN convs \ {run.handle} ELSE convs
    /\ run' = [run EXCEPT !.handle = IF own THEN NoConv ELSE @, !.own = IF round > 1 THEN FALSE ELSE @,
                          !.next = 1, !.halt = IF ok THEN "none" ELSE "journal"]
    /\ Write(ok)
    /\ pc' = IF ok THEN "builder" ELSE "finish"
    /\ UNCHANGED <<plan, token, turn, seen, result, turns>>

\* Only a cancelled job's turns are stopped.
Stopped == IF token THEN {"cancelled"} ELSE {}

\* What a builder turn may end with.
BuilderTurn(s, h, r) == [NoTurn EXCEPT !.status = s, !.session = h, !.report = r]
BuilderTurns ==
    {BuilderTurn(s, h, r) :
        s \in {"completed", "failed"} \cup Stopped, h \in BOOLEAN, r \in Reports}

\* A builder turn ends: its landing report is recorded before anything else,
\* a conversation it started is adopted, then the journal is written.
BuilderEnds(t, ok) ==
    LET kind  == IF pc = "landing" THEN "landing" ELSE "round"
        fresh == pc = "builder" /\ ~(live.round = 1 /\ plan.session)
        h     == <<"builder", live.round, plan.builder>>
        adopt == t.session /\ fresh
    IN
    /\ pc \in {"builder", "landing"}
    /\ t \in BuilderTurns
    /\ Update(Recorded(live, kind, t))
    /\ convs' = IF adopt THEN convs \cup {h} ELSE convs
    /\ run' = [run EXCEPT !.handle = IF adopt THEN h ELSE @, !.own = @ \/ adopt,
                          !.halt = IF ok THEN "none" ELSE "journal"]
    /\ turn' = t
    /\ Write(ok)
    /\ pc' = IF ok THEN (IF kind = "round" THEN "built" ELSE "landed") ELSE "finish"
    /\ UNCHANGED <<plan, token, seen, result, turns>>

\* A turn that did not complete, or whose conversation cannot be continued,
\* stops the job; otherwise its reviewers are asked.
Built ==
    /\ pc = "built"
    /\ IF token THEN pc' = "finish" /\ UNCHANGED live
       ELSE IF turn.status # "completed" \/ run.handle = NoConv THEN Stop("stopped")
       ELSE pc' = "ask" /\ UNCHANGED live
    /\ UNCHANGED <<plan, token, run, turn, convs, journal, seen, result, turns, jfails>>

-----------------------------------------------------------------------------
(* The reviewers.                                                          *)

\* After a refusal only Grok may review, and never as the builder's agent.
MayReview(agent) ==
    /\ agent \notin run.skipped
    /\ run.refused => agent = "grok" /\ agent # plan.builder

Remaining(from) == {i \in DOMAIN plan.order : i >= from /\ MayReview(plan.order[i])}

\* No verdict: what this round landed stays unchecked.
NoVerdict(agent) ==
    /\ pc' = "finish"
    /\ Update(Fixed(Unchecked(live, "round", agent), "no_verdict"))

AskReviewer(ok) ==
    /\ pc = "ask" /\ ~token /\ Remaining(run.next) # {}
    /\ \E i \in Remaining(run.next) :
          LET a == plan.order[i]
          IN
          /\ \A j \in Remaining(run.next) : i <= j
          /\ run' = [run EXCEPT !.next = i + 1, !.agent = a, !.halt = IF ok THEN "none" ELSE "journal"]
          /\ Update(Checking([live EXCEPT !.reviewer = a, !.phase = "reviewer"], "round", a))
    /\ Write(ok)
    /\ pc' = IF ok THEN "reviewer" ELSE "finish"
    /\ UNCHANGED <<plan, token, turn, convs, seen, result, turns>>

\* The order is at its end, or the job was cancelled.
NobodyLeft ==
    /\ pc = "ask" /\ (token \/ Remaining(run.next) = {})
    /\ IF token THEN pc' = "finish" /\ UNCHANGED live ELSE NoVerdict(run.agent)
    /\ UNCHANGED <<plan, token, run, turn, convs, journal, seen, result, turns, jfails>>

\* Verdicts that parse: approve settles every open finding and raises no
\* blocking one, changes leaves or raises one, and a round that landed has a
\* landing check.
Verdicts(open, landed) ==
    {v \in [verdict : {"approve", "changes", "escalate"}, still : SUBSET open, blocking : BOOLEAN,
            check : IF landed THEN {"covered", "disputed", "no_result"} ELSE {"none"}] :
        /\ v.verdict = "approve" => v.still = {} /\ ~v.blocking
        /\ v.verdict = "changes" => v.still # {} \/ v.blocking}

\* How a reviewer's turn may end: with a verdict, however the run ended, or
\* without one.
WithoutVerdict(s, h) == [NoTurn EXCEPT !.status = s, !.session = h]
WithVerdict(s, h, v) == [WithoutVerdict(s, h) EXCEPT !.verdict = v.verdict, !.still = v.still,
                                          !.blocking = v.blocking, !.check = v.check]
ReviewerTurns ==
    {WithVerdict(s, h, v) : s \in {"completed", "timeout"}, h \in BOOLEAN,
                       v \in Verdicts(run.open, Reported(live, "round"))}
    \cup {WithoutVerdict(s, h) :
        s \in {"completed", "timeout", "declined", "unavailable", "no_slot"} \cup Stopped,
        h \in BOOLEAN}

\* A reviewer's turn ends: its conversation is held, its line and its verdict
\* are written.
ReviewerEnds(t, ok) ==
    LET h == <<"reviewer", live.round, run.agent>>
    IN
    /\ pc = "reviewer"
    /\ t \in ReviewerTurns
    /\ convs' = IF t.session /\ ok THEN convs \cup {h} ELSE convs
    /\ run' = [run EXCEPT !.held = IF t.session /\ ok THEN h ELSE NoConv,
                          !.halt = IF ok THEN "none" ELSE "journal"]
    /\ turn' = t
    /\ jfails' = IF ok THEN jfails ELSE jfails + 1
    /\ ok \/ jfails < JournalFails
    /\ journal' = [journal EXCEPT !.incomplete = @ \/ ~ok,
                     !.verdicts = IF ok /\ t.verdict # "none"
                                  THEN @ \cup {<<live.round, run.agent, t.verdict>>} ELSE @]
    /\ turns' = Append(turns, [round |-> live.round, agent |-> run.agent, kind |-> "review",
                               status |-> t.status, verdict |-> t.verdict])
    /\ pc' = IF ok THEN "judge" ELSE "finish"
    /\ UNCHANGED <<plan, token, live, seen, result>>

Drop == /\ Release(run.held)
        /\ run' = [run EXCEPT !.held = NoConv]

\* Mutant: only an approval ends a round.
UsableApproval == turn.verdict = "approve" /\ turn.status = "completed"

\* A usable verdict: negative however the run ended, approving only from a
\* run that completed.
Usable == turn.verdict # "none" /\ (turn.verdict # "approve" \/ turn.status = "completed")

Reviewed ==
    /\ pc \in {"judge", "repaired"} /\ Usable
    /\ pc = "repaired" => ~token
    /\ Update(IF turn.check = "none" THEN live ELSE Checked(live, "round", run.agent, turn.check))
    /\ pc' = "settle"
    /\ UNCHANGED <<plan, token, run, turn, convs, journal, seen, result, turns, jfails>>

\* The turn gave no usable verdict: an approval of a failed run, no
\* conversation slot, an agent that is unavailable, a refusal, a malformed
\* verdict, or a run that ended otherwise.
NotReviewed ==
    LET a        == run.agent
        grokLeft == /\ \E i \in DOMAIN plan.order : plan.order[i] = "grok"
                    /\ a # "grok" /\ plan.builder # "grok" /\ "grok" \notin run.skipped
        skip     == /\ ~plan.named
                    /\ \/ turn.status = "unavailable" /\ ~run.refused
                       \/ turn.status = "declined" /\ grokLeft
    IN
    /\ pc = "judge" /\ ~Usable
    /\ IF turn.verdict = "none" /\ token
       THEN /\ pc' = "finish" /\ Drop /\ UNCHANGED live
       ELSE IF turn.verdict = "none" /\ skip
       THEN /\ pc' = "ask" /\ UNCHANGED live
            /\ Release(run.held)
            /\ run' = [run EXCEPT !.held = NoConv, !.skipped = @ \cup {a},
                                  !.refused = @ \/ turn.status = "declined"]
       ELSE IF turn.verdict = "none" /\ turn.status = "completed" /\ run.held # NoConv
       THEN /\ pc' = "repair" /\ UNCHANGED <<live, convs, run>>
       ELSE /\ NoVerdict(a) /\ Drop
    /\ UNCHANGED <<plan, token, turn, journal, seen, result, turns, jfails>>

\* The one repair turn, in the reviewer's own conversation.
StartRepair(ok) ==
    /\ pc = "repair"
    /\ IF token THEN pc' = "finish" /\ UNCHANGED <<live, journal, jfails, run>>
       ELSE /\ Update([live EXCEPT !.phase = "repair"])
            /\ run' = Halted(run, IF ok THEN "none" ELSE "journal")
            /\ Write(ok)
            /\ pc' = IF ok THEN "repairing" ELSE "finish"
    /\ UNCHANGED <<plan, token, turn, convs, seen, result, turns>>

RepairEnds(t, ok) ==
    /\ pc = "repairing"
    /\ t \in ReviewerTurns /\ t.session /\ t.status # "no_slot"
    /\ turn' = t
    /\ run' = Halted(run, IF ok THEN "none" ELSE "journal")
    /\ jfails' = IF ok THEN jfails ELSE jfails + 1
    /\ ok \/ jfails < JournalFails
    /\ journal' = [journal EXCEPT !.incomplete = @ \/ ~ok,
                     !.verdicts = IF ok /\ t.verdict # "none"
                                  THEN @ \cup {<<live.round, run.agent, t.verdict>>} ELSE @]
    /\ turns' = Append(turns, [round |-> live.round, agent |-> run.agent, kind |-> "repair",
                               status |-> t.status, verdict |-> t.verdict])
    /\ pc' = IF ok THEN "repaired" ELSE "finish"
    /\ UNCHANGED <<plan, token, live, convs, seen, result>>

\* A verdict that stayed malformed asks the next listed reviewer, for this
\* round only; every other end of the repair ends the round.
NotRepaired ==
    /\ pc = "repaired" /\ (token \/ ~Usable)
    /\ IF token THEN pc' = "finish" /\ UNCHANGED live
       ELSE IF turn.status = "completed" /\ Remaining(run.next) # {}
       THEN pc' = "ask" /\ UNCHANGED live
       ELSE NoVerdict(run.agent)
    /\ Drop
    /\ UNCHANGED <<plan, token, turn, journal, seen, result, turns, jfails>>

LastRound == live.round = plan.rounds

\* The findings are settled and the verdict decides. The approving reviewer's
\* conversation is kept for a landing, any other is released.
Settle ==
    LET open == turn.still \cup (IF turn.blocking THEN {live.round} ELSE {})
        l    == [live EXCEPT !.open = open]
        land == turn.verdict = "approve" /\ plan.land = "after_approval"
    IN
    /\ pc = "settle"
    /\ Update(CASE turn.verdict = "approve"  -> Fixed(l, "approved")
                [] turn.verdict = "escalate" -> Fixed(l, "escalated")
                [] LastRound                 -> Fixed(l, "unresolved")
                [] OTHER                     -> l)
    /\ pc' = IF land THEN "land"
             ELSE IF turn.verdict = "changes" /\ ~LastRound THEN "round"
             ELSE "finish"
    /\ convs' = IF land THEN convs ELSE convs \ {run.held}
    /\ run' = [run EXCEPT !.open = open, !.kept = IF land THEN run.held ELSE NoConv, !.held = NoConv]
    /\ UNCHANGED <<plan, token, turn, journal, seen, result, turns, jfails>>

-----------------------------------------------------------------------------
(* Landing after approval.                                                 *)

StartLanding(ok) ==
    /\ pc = "land"
    /\ Update([live EXCEPT !.phase = "landing"])
    /\ run' = Halted(run, IF ok THEN "none" ELSE "journal")
    /\ Write(ok)
    /\ pc' = IF ok THEN "landing" ELSE "finish"
    /\ UNCHANGED <<plan, token, turn, convs, seen, result, turns>>

\* Only a completed turn that reported a landing is confirmed, by the
\* approving reviewer if its conversation can be continued.
Landed(ok) ==
    LET confirm == turn.status = "completed" /\ Reported(live, "landing")
    IN
    /\ pc = "landed"
    /\ IF token \/ ~confirm
       THEN pc' = "finish" /\ ok /\ UNCHANGED <<live, journal, jfails, run>>
       ELSE IF run.kept = NoConv
       THEN /\ Update(Unchecked(live, "landing", run.agent))
            /\ Write(ok) /\ pc' = "finish"
            /\ run' = Halted(run, IF ok THEN "none" ELSE "journal")
       ELSE /\ Update([Checking(live, "landing", run.agent) EXCEPT !.phase = "confirmation"])
            /\ Write(ok) /\ pc' = IF ok THEN "confirming" ELSE "finish"
            /\ run' = Halted(run, IF ok THEN "none" ELSE "journal")
    /\ UNCHANGED <<plan, token, turn, convs, seen, result, turns>>

\* The confirmation: only a run that completed checks anything.
ConfirmEnds(status, check, ok) ==
    /\ pc = "confirming"
    /\ status = "cancelled" => token
    /\ Update(IF status = "completed" /\ check # "malformed"
              THEN Checked(live, "landing", run.agent, check)
              ELSE Unchecked(live, "landing", run.agent))
    /\ run' = Halted(run, IF ok THEN "none" ELSE "journal")
    /\ turns' = Append(turns, [round |-> live.round, agent |-> run.agent, kind |-> "confirmation",
                               status |-> status, verdict |-> check])
    /\ Write(ok)
    /\ pc' = "finish"
    /\ UNCHANGED <<plan, token, turn, convs, seen, result>>

-----------------------------------------------------------------------------
(* The end.                                                                *)

\* The journal's last event, once; the write may fail like any other.
EndJournal(cancelled, ok, l) ==
    /\ jfails' = IF ok THEN jfails ELSE jfails + 1
    /\ ok \/ jfails < JournalFails
    /\ journal' = [journal EXCEPT !.incomplete = @ \/ ~ok,
                                  !.end = IF ok THEN Snapshot(l, cancelled) ELSE @]

\* Run::finish first asks whether the job was cancelled, ...
Finish ==
    /\ pc = "finish"
    /\ Update(IF run.halt = "journal" THEN Fixed(live, "stopped") ELSE live)
    /\ run' = [run EXCEPT !.halt = IF token THEN "cancelled" ELSE "ended"]
    /\ pc' = "ending"
    /\ UNCHANGED <<plan, token, turn, convs, journal, seen, result, turns, jfails>>

\* ... then shows the phase as finished, releases the reviewer it kept, ends
\* the journal and builds the result.
Conclude(ok) ==
    LET cancelled == run.halt = "cancelled"
        l         == IF token THEN live ELSE [live EXCEPT !.phase = "finished"]
    IN
    /\ pc = "ending"
    /\ live' = l
    /\ EndJournal(cancelled, ok, l)
    /\ result' = Snapshot(l, cancelled)
    /\ convs' = convs \ {run.kept, run.held}
    /\ pc' = "done"
    /\ UNCHANGED <<plan, token, run, turn, seen, turns>>

\* Cancelled while it waits in its queue, the loop never runs.
Unstarted(ok) ==
    /\ pc = "queued" /\ token
    /\ EndJournal(TRUE, ok, live)
    /\ result' = Snapshot(live, TRUE)
    /\ pc' = "done"
    /\ UNCHANGED <<plan, token, live, run, turn, convs, seen, turns>>

\* agent_cancel: the token fires and the live state is read at once.
Cancel ==
    /\ Cancels /\ ~token /\ pc # "done"
    /\ token' = TRUE
    /\ seen' = Snapshot(live, TRUE)
    /\ UNCHANGED <<plan, pc, live, run, turn, convs, journal, result, turns, jfails>>

\* The session ends and the job's future is dropped: its guards release what
\* they hold, and the record ends its journal itself.
CutOff(ok) ==
    /\ Cancels /\ pc \notin {"done", "ending"}
    /\ EndJournal(TRUE, ok, live)
    /\ convs' = convs \ {run.held, run.kept}
    /\ pc' = "done"
    /\ UNCHANGED <<plan, token, live, run, turn, seen, result, turns>>

Step(ok) ==
    \/ StartBuilder(ok) \/ \E t \in BuilderTurns : BuilderEnds(t, ok)
    \/ AskReviewer(ok) \/ \E t \in ReviewerTurns : ReviewerEnds(t, ok) \/ RepairEnds(t, ok)
    \/ StartRepair(ok) \/ StartLanding(ok) \/ Landed(ok)
    \/ \E s \in {"completed", "timeout", "cancelled"},
          c \in {"covered", "disputed", "no_result", "malformed"} : ConfirmEnds(s, c, ok)
    \/ Conclude(ok) \/ Unstarted(ok)

Loop == (\E ok \in BOOLEAN : Step(ok)) \/ Built \/ NobodyLeft \/ Reviewed \/ NotReviewed
        \/ NotRepaired \/ Settle \/ Finish

Next == Loop \/ Cancel \/ \E ok \in BOOLEAN : CutOff(ok)

Spec == Init /\ [][Next]_vars

\* Every delegated turn ends (it has a deadline, or the job is cancelled),
\* and the task is polled.
LiveSpec == Spec /\ WF_vars(Loop)

-----------------------------------------------------------------------------
(* Properties.                                                             *)

TypeOK ==
    /\ plan \in Plans /\ token \in BOOLEAN
    /\ live.round \in 0 .. MaxRounds
    /\ live.fixed \in {Nobody, "approved", "escalated", "unresolved", "no_verdict", "stopped"}
    /\ live.open \subseteq 1 .. MaxRounds /\ run.open \subseteq 1 .. MaxRounds
    /\ live.status \in {"unset", "landed", "not_landed", "failed", "unknown"}

\* Only an approving verdict approves: the last reviewer turn before any
\* confirmation said so in a run that completed, the journal holds that
\* verdict, and no finding is open (Run::run_rounds, review, settle, write).
OnlyApprovalApproves ==
    live.fixed = "approved" =>
        /\ live.open = {}
        /\ <<live.round, run.agent, "approve">> \in journal.verdicts
        /\ \E i \in DOMAIN turns : /\ turns[i].round = live.round /\ turns[i].agent = run.agent
                                   /\ turns[i].verdict = "approve" /\ turns[i].status = "completed"
                                   /\ \A j \in i + 1 .. Len(turns) : turns[j].kind = "confirmation"

\* A negative verdict stands: in its round nobody else is asked, and the
\* round does not end approved (Run::review: a fallback never gets around it).
NegativeStands ==
    \A i, j \in DOMAIN turns :
        turns[i].verdict \in {"changes", "escalate"} /\ turns[j].round = turns[i].round
            => j <= i

\* After a reviewer declined its review, only Grok reviews, never as the
\* builder's own agent; and a named reviewer is never swapped.
RefusalsHandedToGrok ==
    \A i, j \in DOMAIN turns : i < j /\ turns[j].kind = "review" =>
        /\ turns[i].kind = "review" /\ turns[i].status = "declined"
           => turns[j].agent = "grok" /\ plan.builder # "grok"
        /\ plan.named => turns[j].agent = turns[i].agent

\* Confirmed means checked: every landing reported by the job was found by a
\* reviewer that is not waiting, disputed or without a result, and a landing
\* no turn was allowed is never shown without saying so (Landing::evidence).
ConfirmedIsChecked ==
    result # NoSnapshot /\ result.evidence = "confirmed" =>
        \A i \in DOMAIN live.reports :
            /\ live.reports[i].check = "covered"
            /\ \E k \in DOMAIN turns : /\ turns[k].round = live.reports[i].round
                                       /\ turns[k].agent = live.reports[i].by
                                       /\ turns[k].kind \in
                                            IF live.reports[i].kind = "landing"
                                            THEN {"confirmation"} ELSE {"review", "repair"}
                                       /\ MayLand(live.reports[i].kind) \/ result.unauthorized

\* The cancel came when Run::finish had already asked whether there was one,
\* and before it showed the job as finished.
CancelledTooLate == token /\ run.halt = "ended"

\* agent_cancel told of a landing under way what the job's own end settled.
OnlyLandingUnknown(told, is) ==
    told = [outcome |-> is.outcome, landing |-> "unknown",
            unauthorized |-> is.unauthorized, evidence |-> "none"]

\* What agent_cancel read, the job's result and its journal agree on the
\* outcome and the landing (Live::update is refused once the token fired); of
\* a job whose end had begun, agent_cancel may only have called the landing
\* unknown.
CancelAgrees ==
    /\ seen # NoSnapshot /\ result # NoSnapshot =>
         \/ result = seen
         \/ CancelledTooLate /\ OnlyLandingUnknown(seen, result)
    /\ result # NoSnapshot /\ journal.end # NoSnapshot => journal.end = result

\* The journal never hides a loss: an ended job's journal has its last event
\* or is marked incomplete, and an approval is in it (Record::append, end).
JournalTells ==
    pc = "done" => journal.end # NoSnapshot \/ journal.incomplete

\* An ended job holds no conversation but the last round's builder's:
\* reviewers' are released on every path, and so are earlier rounds'.
NothingHeld ==
    pc = "done" => convs \subseteq (IF run.own THEN {run.handle} ELSE {})

\* Only an approving verdict approves, and a negative one stands: in its
\* round nobody else is asked; after a refusal only Grok reviews, never as
\* the builder's own agent; and a landing counts as confirmed only when a
\* reviewer found it (Run::run_rounds, review, settle, Landing::evidence).
VerdictsStand ==
    /\ TypeOK
    /\ OnlyApprovalApproves
    /\ NegativeStands
    /\ RefusalsHandedToGrok
    /\ ConfirmedIsChecked

\* What agent_cancel read, the job's result and its journal agree on the
\* outcome and the landing, but for a landing agent_cancel calls unknown when
\* the cancel falls into the job's own end (finish: the token is asked, then
\* the phase is shown as finished); an ended job's journal has its last event
\* or is marked incomplete; and an ended job holds no conversation but the
\* last round's builder's (Live::update, Record::append, end,
\* drop_conversation).
StoriesAgree ==
    /\ CancelAgrees
    /\ JournalTells
    /\ NothingHeld

\* Every reviewed job ends.
EveryJobEnds == <>(pc = "done")

=============================================================================
