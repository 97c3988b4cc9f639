------------------------- MODULE ReviewedJob_proofs -------------------------
(***************************************************************************)
(* Reviewed jobs, for any agents and reviewers offered, any number of      *)
(* rounds and reports, any failing writes and a cancel at any moment.      *)
(*                                                                         *)
(* The inductive invariant IInv says what each place of the loop may find: *)
(* the last reviewer turn while it is judged (JudgedOK), the verdicts of   *)
(* the round (RoundOK, NegativesOK, ApprovedOK), who may review            *)
(* (RefusedOK, NamedOK), what is held (HeldOK), what the landing reports   *)
(* say (ReportsOK), and how the job's stories relate (EndOK, FrozenOK).    *)
(***************************************************************************)
EXTENDS ReviewedJob, SequenceTheorems, TLAPS

Places ==
  {"queued", "builder", "built", "ask", "reviewer", "judge", "repair",
   "repairing", "repaired", "settle", "round", "land", "landing", "landed",
   "confirming", "finish", "ending", "done"}
Over == {"finish", "ending", "done"}
Landings == {"land", "landing", "landed", "confirming"}
\* A reviewer was asked in this round.
Asked == {"reviewer", "judge", "repair", "repairing", "repaired", "settle",
          "round"} \cup Landings
\* A verdict, or the lack of one, is in the loop's hands.
Judging == {"judge", "repaired", "settle"}

Verdict == {"none", "approve", "changes", "escalate"}
Check == {"covered", "disputed", "no_result"} \cup Pending
Ordered == {Nobody} \cup {plan.order[i] : i \in DOMAIN plan.order}
Nexts == {1} \cup {i + 1 : i \in DOMAIN plan.order}
Rounds == 0 .. MaxRounds

Report == [kind : {"round", "landing"}, round : Rounds, by : Ordered,
           check : Check]
Phase == {"waiting", "builder", "reviewer", "repair", "landing",
          "confirmation", "finished"}
LiveType ==
  [round : Rounds, phase : Phase,
   fixed : {Nobody, "approved", "escalated", "unresolved", "no_verdict",
            "stopped"},
   reviewer : Ordered, open : SUBSET (1 .. MaxRounds),
   status : {"unset", "landed", "not_landed", "failed", "unknown"},
   reports : Seq(Report), unauthorized : BOOLEAN, builderTurns : Nat]
Conv == {"none", "call", "builder", "reviewer"} \X Rounds
          \X (Ordered \cup {plan.builder})
RunType ==
  [handle : Conv, own : BOOLEAN, open : SUBSET (1 .. MaxRounds),
   skipped : SUBSET Ordered, refused : BOOLEAN, held : Conv, kept : Conv,
   next : Nexts, agent : Ordered,
   halt : {"none", "journal", "cancelled", "ended"}]
Status == {"none", "completed", "failed", "cancelled", "timeout", "declined",
           "unavailable", "no_slot"}
TurnType ==
  [status : Status, session : BOOLEAN,
   report : {"none", "bad", "landed", "not_landed", "failed"}, verdict : Verdict,
   still : SUBSET (1 .. MaxRounds), blocking : BOOLEAN,
   check : {"none", "covered", "disputed", "no_result"}]
TurnRec == [round : Rounds, agent : Ordered,
            kind : {"review", "repair", "confirmation"}, status : Status,
            verdict : Verdict \cup {"covered", "disputed", "no_result",
                                  "malformed"}]
Outcome == {"stopped", "approved", "escalated", "unresolved", "no_verdict"}
Evident == {"none", "disputed", "unconfirmed", "reported", "confirmed"}
Snap == [outcome : Outcome \cup {"none"},
         landing : {"none", "landed", "not_landed", "failed", "unknown",
                    "not_requested", "not_attempted"},
         unauthorized : BOOLEAN, evidence : Evident]
JournalType == [incomplete : BOOLEAN,
                verdicts : SUBSET (Rounds \X Ordered \X Verdict),
                end : Snap]

Typed ==
  /\ plan \in Plans
  /\ pc \in Places
  /\ token \in BOOLEAN
  /\ live \in LiveType
  /\ run \in RunType
  /\ turn \in TurnType
  /\ journal \in JournalType
  /\ turns \in Seq(TurnRec)

\* The rounds are counted while nobody cancelled.
RoundOK ==
  /\ live.round <= plan.rounds
  /\ pc = "queued" => live.round = 0
  /\ pc \in {"builder", "built"} => token \/ live.round >= 1
  /\ pc \in Asked \cup {"ask"} => live.round >= 1
  /\ pc = "round" => live.round < plan.rounds

\* The turn in the loop's hands is the last one recorded, and its verdict is
\* in the journal.
JudgedOK ==
  /\ pc \in Judging =>
       /\ turns # <<>>
       /\ turns[Len(turns)].round = live.round
       /\ turns[Len(turns)].agent = run.agent
       /\ turns[Len(turns)].status = turn.status
       /\ turns[Len(turns)].verdict = turn.verdict
       /\ turns[Len(turns)].kind \in {"review", "repair"}
       /\ turn.verdict # "none" =>
            /\ <<live.round, run.agent, turn.verdict>> \in journal.verdicts
            /\ turn.status \in {"completed", "timeout"}
       /\ turn.verdict = "approve" => turn.still = {} /\ ~turn.blocking
  /\ pc = "repaired" => turns[Len(turns)].kind = "repair"
  /\ pc = "settle" => Usable

Negative(t) == t.verdict \in {"changes", "escalate"}
\* A negative verdict of this round is the last turn, and ends the round.
NegativesOK ==
  \A i \in 1 .. Len(turns) :
    /\ turns[i].round <= live.round
    /\ Negative(turns[i]) /\ turns[i].round = live.round =>
         /\ i = Len(turns)
         /\ \/ pc \in Judging \cup Over \cup {"round"}
            \/ token /\ pc \in {"builder", "built"}

ApprovedOK ==
  live.fixed = "approved" => pc \in Landings \cup Over

Declined(t) == t.kind = "review" /\ t.status = "declined"
\* A refusal is known to the loop once it was judged.
RefusedOK ==
  /\ \A i \in 1 .. Len(turns) : Declined(turns[i]) =>
       run.refused \/ (pc = "judge" /\ i = Len(turns)) \/ pc \in Over
  /\ run.refused /\ pc = "reviewer" =>
       run.agent = "grok" /\ plan.builder # "grok"

NamedOK ==
  plan.named =>
    /\ \A i \in 1 .. Len(turns) : turns[i].agent = plan.order[1]
    /\ pc \in Asked => run.agent = plan.order[1]

Owned == IF run.own THEN {run.handle} ELSE {}
\* Every conversation the loop started is in its hands, and nowhere else.
HeldOK ==
  /\ convs \subseteq Owned \cup {run.held, run.kept}
  /\ NoConv \notin convs
  /\ pc \in {"queued", "builder"} => ~run.own
  /\ pc \notin Judging \cup Over \cup {"repair", "repairing"} =>
       run.held = NoConv
  /\ pc \notin Landings \cup Over => run.kept = NoConv

\* A landing counts as found only by a reviewer's turn, in its round.
Found(r) ==
  \E k \in 1 .. Len(turns) :
    /\ turns[k].round = r.round
    /\ turns[k].agent = r.by
    /\ turns[k].kind \in IF r.kind = "landing" THEN {"confirmation"}
                         ELSE {"review", "repair"}
ReportsOK ==
  \A i \in 1 .. Len(live.reports) :
    /\ MayLand(live.reports[i].kind) \/ live.unauthorized
    /\ live.reports[i].check = "covered" => Found(live.reports[i])

\* The stories of a job that ended.
EndOK ==
  /\ pc # "done" => result = NoSnapshot /\ journal.end = NoSnapshot
  /\ pc = "done" => journal.end # NoSnapshot \/ journal.incomplete
  /\ pc = "done" => convs \subseteq Owned
  /\ result # NoSnapshot =>
       /\ \E c \in BOOLEAN : result = Snapshot(live, c)
       /\ journal.end # NoSnapshot => journal.end = result

\* What a cancel read is what stands from then on.
FrozenOK ==
  /\ token => seen = Snapshot(live, TRUE)
  /\ ~token => seen = NoSnapshot
  /\ pc = "ending" => run.halt \in {"cancelled", "ended"}
  /\ pc = "ending" /\ run.halt = "cancelled" => token
  /\ result # NoSnapshot /\ token /\ run.halt # "ended" =>
       result = Snapshot(live, TRUE)

Core == RoundOK /\ JudgedOK /\ NegativesOK /\ ApprovedOK /\ RefusedOK
          /\ NamedOK /\ HeldOK /\ ReportsOK /\ EndOK /\ FrozenOK
          /\ OnlyApprovalApproves /\ NegativeStands /\ RefusalsHandedToGrok
IInv == Typed /\ Core
-----------------------------------------------------------------------------
(* The operators                                                           *)

\* What a checked call is.
LEMMA PlanType ==
  ASSUME plan \in Plans
  PROVE  /\ plan.rounds \in 1 .. MaxRounds
         /\ plan.named => DOMAIN plan.order = {1}
  <1>1. PICK c \in Calls : plan = Planned(c)
    BY DEF Plans
  <1>2. c.rounds \in 1 .. MaxRounds
    BY DEF Calls
  <1>3. ASSUME plan.named
        PROVE  DOMAIN plan.order = {1}
    <2>1. c.reviewer # Nobody
      BY <1>1, <1>3 DEF Planned
    <2>2. plan.order = <<c.reviewer>>
      BY <1>1, <2>1 DEF Planned
    <2> QED BY <2>2
  <1> QED BY <1>1, <1>2, <1>3 DEF Planned

\* A sequence that grew by one turn.
LEMMA Grown ==
  ASSUME NEW S, NEW s \in Seq(S), NEW x \in S, NEW t, t = Append(s, x)
  PROVE  /\ t \in Seq(S)
         /\ Len(t) = Len(s) + 1
         /\ Len(s) \in Nat
         /\ \A i \in 1 .. Len(s) : t[i] = s[i] /\ s[i] \in S
         /\ t[Len(t)] = x
         /\ \A i \in 1 .. Len(t) : i \in 1 .. Len(s) \/ i = Len(t)
  BY AppendProperties, ElementOfSeq, LenProperties

LEMMA SeqLen ==
  ASSUME NEW S, NEW s \in Seq(S)
  PROVE  /\ Len(s) \in Nat
         /\ DOMAIN s = 1 .. Len(s)
         /\ \A i \in 1 .. Len(s) : s[i] \in S
  BY ElementOfSeq, LenProperties

\* What a landing adds to the live state.
LEMMA RecordedType ==
  ASSUME NEW l \in LiveType, NEW kind \in {"round", "landing"},
         NEW t \in TurnType, NEW m, m = Recorded(l, kind, t)
  PROVE  /\ m \in LiveType
         /\ m.round = l.round
         /\ m.fixed = l.fixed
         /\ m.open = l.open
         /\ m.phase = l.phase
         /\ l.unauthorized => m.unauthorized
         /\ \/ m.reports = l.reports
            \/ \E r \in Report : /\ m.reports = Append(l.reports, r)
                                 /\ r.check # "covered"
                                 /\ MayLand(r.kind) \/ m.unauthorized
  <1> DEFINE report ==
               [kind |-> kind, round |-> l.round, by |-> Nobody,
                check |-> IF t.status = "completed" THEN "due"
                          ELSE "not_started"]
             unauthorized == l.unauthorized \/ ~MayLand(kind)
             status == IF t.status = "completed" THEN t.report ELSE "unknown"
             grown == Append(l.reports, report)
             landed == [l EXCEPT !.unauthorized = unauthorized,
                                 !.status = status, !.reports = grown]
             other == [l EXCEPT !.unauthorized = unauthorized,
                                !.status = status]
  <1>1. report \in Report /\ report.check # "covered" /\ report.kind = kind
    BY DEF Report, Check, Pending, Ordered, LiveType
  <1>2. grown \in Seq(Report)
    <2>1. l.reports \in Seq(Report)
      BY DEF LiveType
    <2> HIDE DEF report
    <2> QED BY <1>1, <2>1, AppendProperties
  <1>3. unauthorized \in BOOLEAN
    BY DEF LiveType, MayLand
  <1> HIDE DEF report, grown, unauthorized
  <1>4. CASE t.report = "landed"
    <2>1. m = landed
      BY <1>4 DEF Recorded, report, grown, unauthorized
    <2>2. landed \in LiveType
      BY <1>2, <1>3, <1>4 DEF LiveType
    <2>3. /\ landed.round = l.round
          /\ landed.fixed = l.fixed
          /\ landed.open = l.open
          /\ landed.phase = l.phase
          /\ landed.unauthorized = unauthorized
          /\ landed.reports = grown
      BY DEF LiveType
    <2>4. l.unauthorized => unauthorized
      BY DEF unauthorized
    <2>5. MayLand(report.kind) \/ unauthorized
      BY <1>1 DEF unauthorized
    <2> QED BY <1>1, <2>1, <2>2, <2>3, <2>4, <2>5 DEF grown
  <1>5. CASE /\ t.report \in {"not_landed", "failed"}
             /\ MayLand(kind) \/ t.report # "not_landed"
    <2>1. m = other
      BY <1>5 DEF Recorded, unauthorized, LiveType
    <2>2. other \in LiveType
      BY <1>3, <1>5 DEF LiveType
    <2>3. /\ other.round = l.round
          /\ other.fixed = l.fixed
          /\ other.open = l.open
          /\ other.phase = l.phase
          /\ other.unauthorized = unauthorized
          /\ other.reports = l.reports
      BY DEF LiveType
    <2> QED BY <2>1, <2>2, <2>3 DEF unauthorized
  <1>6. CASE ~ (/\ t.report \in {"landed", "not_landed", "failed"}
                /\ MayLand(kind) \/ t.report # "not_landed")
    <2>1. m = l \/ m = [l EXCEPT !.status = "unknown"]
      BY <1>6 DEF Recorded
    <2> QED BY <2>1 DEF LiveType
  <1> QED BY <1>4, <1>5, <1>6

\* m has the reports of l, but for what some say of their check.
Rechecked(l, m, kind, check, by) ==
  /\ m \in LiveType
  /\ m.round = l.round
  /\ m.open = l.open
  /\ m.unauthorized = l.unauthorized
  /\ Len(m.reports) = Len(l.reports)
  /\ \A i \in 1 .. Len(l.reports) :
       /\ m.reports[i].kind = l.reports[i].kind
       /\ \/ m.reports[i] = l.reports[i]
          \/ m.reports[i] = [kind |-> kind, round |-> l.round, by |-> by,
                             check |-> check]

LEMMA ReportsOfType ==
  ASSUME NEW l \in LiveType, NEW kind \in {"round", "landing"},
         NEW check \in Check, NEW by \in Ordered, NEW from,
         NEW m, m = ReportsOf(l, kind, check, by, from)
  PROVE  Rechecked(l, m, kind, check, by) /\ m.fixed = l.fixed
  <1> DEFINE R(i) ==
               IF /\ l.reports[i].kind = kind
                  /\ l.reports[i].round = l.round
                  /\ l.reports[i].check \in from
               THEN [l.reports[i] EXCEPT !.check = check, !.by = by]
               ELSE l.reports[i]
             n == Len(l.reports)
             reports == [i \in 1 .. n |-> R(i)]
  <1>1. /\ l.reports \in Seq(Report)
        /\ n \in Nat
        /\ DOMAIN l.reports = 1 .. n
        /\ \A i \in 1 .. n : l.reports[i] \in Report
    BY SeqLen DEF LiveType
  <1>2. m = [l EXCEPT !.reports = reports]
    <2>1. m = [l EXCEPT !.reports = [i \in DOMAIN l.reports |-> R(i)]]
      BY DEF ReportsOf
    <2> HIDE DEF R
    <2> QED BY <1>1, <2>1
  <1>3. ASSUME NEW i \in 1 .. n
        PROVE  /\ R(i) \in Report
               /\ R(i).kind = l.reports[i].kind
               /\ \/ R(i) = l.reports[i]
                  \/ R(i) = [kind |-> kind, round |-> l.round, by |-> by,
                             check |-> check]
    <2>1. l.reports[i] \in Report
      BY <1>1
    <2> QED BY <2>1 DEF Report
  <1> HIDE DEF R
  <1>4. reports \in Seq(Report) /\ Len(reports) = n
    <2>1. reports \in [1 .. n -> Report]
      BY <1>3
    <2>2. reports \in Seq(Report)
      BY <1>1, <2>1, SeqDef
    <2> QED BY <1>1, <2>1, <2>2, LenProperties
  <1>5. \A i \in 1 .. n : reports[i] = R(i)
    OBVIOUS
  <1> HIDE DEF reports
  <1>6. m \in LiveType
    BY <1>2, <1>4 DEF LiveType
  <1>7. /\ m.round = l.round
        /\ m.fixed = l.fixed
        /\ m.open = l.open
        /\ m.unauthorized = l.unauthorized
        /\ m.reports = reports
    BY <1>2 DEF LiveType
  <1> QED BY <1>3, <1>4, <1>5, <1>6, <1>7 DEF Rechecked

\* Checking, Checked and Unchecked are all such changes.
LEMMA CheckingType ==
  ASSUME NEW l \in LiveType, NEW kind \in {"round", "landing"},
         NEW by \in Ordered
  PROVE  /\ Rechecked(l, Checking(l, kind, by), kind, "running", by)
         /\ Checking(l, kind, by).fixed = l.fixed
         /\ Rechecked(l, Unchecked(l, kind, by), kind, "no_result", by)
         /\ Unchecked(l, kind, by).fixed = l.fixed
         /\ \A check \in {"covered", "disputed", "no_result"} :
              /\ Rechecked(l, Checked(l, kind, by, check), kind, check, by)
              /\ Checked(l, kind, by, check).fixed = l.fixed
  <1>1. /\ {"running", "no_result"} \subseteq Check
        /\ {"covered", "disputed", "no_result"} \subseteq Check
    BY DEF Check, Pending
  <1>2. /\ Rechecked(l, Checking(l, kind, by), kind, "running", by)
        /\ Checking(l, kind, by).fixed = l.fixed
    BY <1>1, ReportsOfType DEF Checking
  <1>3. /\ Rechecked(l, Unchecked(l, kind, by), kind, "no_result", by)
        /\ Unchecked(l, kind, by).fixed = l.fixed
    BY <1>1, ReportsOfType DEF Unchecked
  <1>4. ASSUME NEW check \in {"covered", "disputed", "no_result"}
        PROVE  /\ Rechecked(l, Checked(l, kind, by, check), kind, check, by)
               /\ Checked(l, kind, by, check).fixed = l.fixed
    BY <1>1, ReportsOfType DEF Checked
  <1> QED BY <1>2, <1>3, <1>4

LEMMA FixedType ==
  ASSUME NEW l \in LiveType,
         NEW outcome \in {"approved", "escalated", "unresolved", "no_verdict",
                          "stopped"},
         NEW m, m = Fixed(l, outcome)
  PROVE  /\ m \in LiveType
         /\ m.round = l.round
         /\ m.open = l.open
         /\ m.phase = l.phase
         /\ m.unauthorized = l.unauthorized
         /\ m.reports = l.reports
         /\ m.fixed = l.fixed \/ m.fixed = outcome
  BY DEF Fixed, LiveType

\* The outcome of a snapshot is never "none".
LEMMA SnapshotType ==
  ASSUME NEW l \in LiveType, NEW c \in BOOLEAN
  PROVE  /\ Snapshot(l, c) \in Snap
         /\ Snapshot(l, c) # NoSnapshot
  <1> DEFINE outcome == IF l.fixed = Nobody THEN "stopped" ELSE l.fixed
             landing == LandingStatus(l, outcome, c)
             evidence == IF landing = "landed" THEN Evidence(l) ELSE "none"
  <1>1. landing \in {"landed", "not_landed", "failed", "unknown",
                     "not_requested", "not_attempted"}
    BY DEF LandingStatus, LiveType
  <1>2. evidence \in Evident
    BY DEF Evidence, Evident
  <1>3. outcome \in Outcome
    BY DEF LiveType, Outcome
  <1>4. l.unauthorized \in BOOLEAN
    BY DEF LiveType
  <1>5. Snapshot(l, c) = [outcome |-> outcome, landing |-> landing,
                          unauthorized |-> l.unauthorized,
                          evidence |-> evidence]
    BY DEF Snapshot
  <1> HIDE DEF outcome, landing, evidence
  <1>6. Snapshot(l, c) \in Snap
    BY <1>1, <1>2, <1>3, <1>4, <1>5 DEF Snap
  <1>7. Snapshot(l, c).outcome # "none"
    BY <1>3, <1>5 DEF Outcome
  <1> QED BY <1>6, <1>7 DEF NoSnapshot

\* Confirmed evidence: every report was covered.
LEMMA ConfirmedCovers ==
  ASSUME NEW l \in LiveType, NEW c \in BOOLEAN,
         Snapshot(l, c).evidence = "confirmed"
  PROVE  \A i \in 1 .. Len(l.reports) : l.reports[i].check = "covered"
  <1>1. Evidence(l) = "confirmed"
    BY DEF Snapshot
  <1>2. /\ DOMAIN l.reports = 1 .. Len(l.reports)
        /\ \A i \in 1 .. Len(l.reports) : l.reports[i] \in Report
    BY SeqLen DEF LiveType
  <1>3. SUFFICES ASSUME NEW i \in 1 .. Len(l.reports)
                 PROVE  l.reports[i].check = "covered"
    OBVIOUS
  <1> DEFINE checks == {l.reports[j].check : j \in DOMAIN l.reports}
  <1>4. l.reports[i].check \in checks /\ l.reports[i].check \in Check
    BY <1>2 DEF Report
  <1> HIDE DEF checks
  <1>5. /\ "disputed" \notin checks
        /\ checks \cap {"due", "running", "no_result"} = {}
        /\ "not_started" \notin checks
    BY <1>1 DEF Evidence, checks
  <1> QED BY <1>4, <1>5 DEF Check, Pending

\* How a delegated turn may end.
LEMMA TurnsType ==
  ASSUME ReviewAssumption, Typed
  PROVE  /\ NoTurn \in TurnType
         /\ BuilderTurns \subseteq TurnType
         /\ \A t \in ReviewerTurns :
              /\ t \in TurnType
              /\ t.verdict # "none" => t.status \in {"completed", "timeout"}
              /\ t.verdict = "approve" => t.still = {} /\ ~t.blocking
  <1>1. NoTurn \in TurnType
    BY DEF NoTurn, TurnType, Verdict, Status
  <1>2. ASSUME NEW t \in BuilderTurns
        PROVE  t \in TurnType
    <2>1. PICK s \in {"completed", "failed"} \cup Stopped, h \in BOOLEAN,
               r \in Reports : t = BuilderTurn(s, h, r)
      BY DEF BuilderTurns
    <2>2. r \in {"none", "bad", "landed", "not_landed", "failed"}
      BY DEF ReviewAssumption
    <2>3. s \in Status
      BY DEF Stopped, Status
    <2> QED BY <1>1, <2>1, <2>2, <2>3 DEF TurnType, BuilderTurn
  <1>3. ASSUME NEW t \in ReviewerTurns
        PROVE  /\ t \in TurnType
               /\ t.verdict # "none" => t.status \in {"completed", "timeout"}
               /\ t.verdict = "approve" => t.still = {} /\ ~t.blocking
    <2> DEFINE S == {"completed", "timeout", "declined", "unavailable",
                     "no_slot"} \cup Stopped
               V == Verdicts(run.open, Reported(live, "round"))
               A == {WithVerdict(s, h, v) : s \in {"completed", "timeout"},
                                       h \in BOOLEAN, v \in V}
               B == {WithoutVerdict(s, h) : s \in S, h \in BOOLEAN}
    <2>3. t \in A \cup B
      BY DEF ReviewerTurns
    <2>4. S \subseteq Status
      BY DEF Status, Stopped
    <2> HIDE DEF S, V
    <2>1. CASE t \in A
      <3>1. PICK s \in {"completed", "timeout"}, h \in BOOLEAN, v \in V :
              t = WithVerdict(s, h, v)
        BY <2>1
      <3>2. run.open \subseteq 1 .. MaxRounds
        BY DEF Typed, RunType
      <3>3. /\ v.verdict \in {"approve", "changes", "escalate"}
            /\ v.still \subseteq 1 .. MaxRounds
            /\ v.blocking \in BOOLEAN
            /\ v.check \in {"none", "covered", "disputed", "no_result"}
            /\ v.verdict = "approve" => v.still = {} /\ ~v.blocking
        BY <3>2 DEF Verdicts, V
      <3>4. /\ t.status = s
            /\ t.verdict = v.verdict
            /\ t.still = v.still
            /\ t.blocking = v.blocking
        BY <1>1, <3>1 DEF TurnType, WithVerdict, WithoutVerdict
      <3>5. t \in TurnType
        BY <1>1, <3>1, <3>3 DEF TurnType, Verdict, Status, WithVerdict, WithoutVerdict
      <3> QED BY <3>3, <3>4, <3>5
    <2>2. CASE t \in B
      <3>1. PICK s \in S, h \in BOOLEAN : t = WithoutVerdict(s, h)
        BY <2>2
      <3>2. t \in TurnType
        BY <1>1, <2>4, <3>1 DEF TurnType, WithoutVerdict
      <3>3. t.verdict = "none"
        BY <1>1, <3>1 DEF NoTurn, WithoutVerdict
      <3> QED BY <3>2, <3>3
    <2> QED BY <2>1, <2>2, <2>3
  <1> QED BY <1>1, <1>2, <1>3

-----------------------------------------------------------------------------
(* What a step may do to the live state, and what follows                  *)

LEMMA TypedNext ==
  ASSUME plan' = plan, plan \in Plans, pc' \in Places, token' \in BOOLEAN,
         live' \in LiveType, run' \in RunType, turn' \in TurnType,
         journal' \in JournalType, turns' \in Seq(TurnRec)
  PROVE  Typed'
  <1>1. Ordered' = Ordered
    BY DEF Ordered
  <1>2. Report' = Report /\ Conv' = Conv /\ TurnRec' = TurnRec
    BY <1>1 DEF Report, Conv, TurnRec
  <1>3. LiveType' = LiveType /\ RunType' = RunType
    BY <1>1, <1>2 DEF LiveType, RunType, Nexts
  <1>4. JournalType' = JournalType
    BY <1>1 DEF JournalType
  <1>5. plan' \in Plans'
    OBVIOUS
  <1> QED BY <1>2, <1>3, <1>4, <1>5 DEF Typed

\* A step that approves nothing and counts no landing as found.
Calm ==
  /\ live' \in LiveType
  /\ live'.round = live.round
  /\ live'.fixed = "approved" =>
       live.fixed = "approved" /\ live'.open = live.open
  /\ token => live' = live
  /\ ReportsOK'

\* Turns are only added.
Longer ==
  /\ Len(turns) <= Len(turns')
  /\ \A i \in 1 .. Len(turns) : turns'[i] = turns[i]

LEMMA FoundKept ==
  ASSUME Typed, turns' \in Seq(TurnRec), Longer, NEW r, Found(r)
  PROVE  Found(r)'
  <1>1. Len(turns) \in Nat /\ Len(turns') \in Nat
    BY SeqLen DEF Typed
  <1>2. PICK k \in 1 .. Len(turns) :
          /\ turns[k].round = r.round
          /\ turns[k].agent = r.by
          /\ turns[k].kind \in IF r.kind = "landing" THEN {"confirmation"}
                               ELSE {"review", "repair"}
    BY DEF Found
  <1>3. k \in 1 .. Len(turns') /\ turns'[k] = turns[k]
    BY <1>1 DEF Longer
  <1> QED BY <1>2, <1>3 DEF Found

\* Whatever has the reports it had keeps them in order.
LEMMA ReportsSame ==
  ASSUME Typed, ReportsOK, plan' = plan, turns' \in Seq(TurnRec), Longer,
         live'.reports = live.reports,
         live'.unauthorized = live.unauthorized
  PROVE  ReportsOK'
  <1> SUFFICES ASSUME NEW i \in 1 .. Len(live.reports)
               PROVE  /\ MayLand(live.reports[i].kind) \/ live.unauthorized
                      /\ live.reports[i].check = "covered"
                           => Found(live.reports[i])'
    BY DEF ReportsOK, MayLand, Found
  <1>1. /\ MayLand(live.reports[i].kind) \/ live.unauthorized
        /\ live.reports[i].check = "covered" => Found(live.reports[i])
    BY DEF ReportsOK
  <1> QED BY <1>1, FoundKept

LEMMA ReportsRechecked ==
  ASSUME Typed, ReportsOK, plan' = plan, turns' \in Seq(TurnRec), Longer,
         NEW kind, NEW check, NEW by,
         Rechecked(live, live', kind, check, by),
         check = "covered" =>
           Found([kind |-> kind, round |-> live.round, by |-> by,
                  check |-> check])'
  PROVE  ReportsOK'
  <1> SUFFICES ASSUME NEW i \in 1 .. Len(live'.reports)
               PROVE  /\ MayLand(live'.reports[i].kind) \/ live'.unauthorized
                      /\ live'.reports[i].check = "covered"
                           => Found(live.reports[i])'
    BY DEF ReportsOK, MayLand
  <1>1. /\ i \in 1 .. Len(live.reports)
        /\ live'.reports[i].kind = live.reports[i].kind
        /\ live'.unauthorized = live.unauthorized
        /\ live'.round = live.round
        /\ \/ live'.reports[i] = live.reports[i]
           \/ live'.reports[i] = [kind |-> kind, round |-> live.round,
                                  by |-> by, check |-> check]
    BY DEF Rechecked
  <1>2. /\ MayLand(live.reports[i].kind) \/ live.unauthorized
        /\ live.reports[i].check = "covered" => Found(live.reports[i])
    BY <1>1 DEF ReportsOK
  <1>3. live'.reports[i].check = "covered" => Found(live.reports[i])'
    <2>1. CASE live'.reports[i] = live.reports[i]
      <3>1. live.reports[i].check = "covered" => Found(live.reports[i])
        BY <1>2
      <3> DEFINE r == live.reports[i]
      <3>2. ASSUME r.check = "covered"
            PROVE  \E k \in 1 .. Len(turns') :
                     /\ turns'[k].round = r.round
                     /\ turns'[k].agent = r.by
                     /\ turns'[k].kind \in
                          IF r.kind = "landing" THEN {"confirmation"}
                          ELSE {"review", "repair"}
        <4>1. Found(r)
          BY <3>1, <3>2
        <4>2. PICK k \in 1 .. Len(turns) :
                /\ turns[k].round = r.round
                /\ turns[k].agent = r.by
                /\ turns[k].kind \in IF r.kind = "landing"
                                     THEN {"confirmation"}
                                     ELSE {"review", "repair"}
          BY <4>1 DEF Found
        <4>3. Len(turns) \in Nat /\ Len(turns') \in Nat
          BY SeqLen DEF Typed
        <4>4. k \in 1 .. Len(turns') /\ turns'[k] = turns[k]
          BY <4>3 DEF Longer
        <4> QED BY <4>2, <4>4
      <3> QED BY <2>1, <3>2 DEF Found
    <2>2. CASE live'.reports[i] = [kind |-> kind, round |-> live.round,
                                   by |-> by, check |-> check]
      BY <1>1, <2>2 DEF Found
    <2> QED BY <1>1, <2>1, <2>2
  <1> QED BY <1>1, <1>2, <1>3 DEF MayLand
\* A landing that a turn reported is not yet found.
LEMMA ReportsRecorded ==
  ASSUME Typed, ReportsOK, plan' = plan, turns' = turns,
         NEW kind \in {"round", "landing"}, NEW t \in TurnType,
         live' = Recorded(live, kind, t)
  PROVE  ReportsOK'
  <1>1. live \in LiveType /\ turns \in Seq(TurnRec)
    BY DEF Typed
  <1>2. /\ live.unauthorized => live'.unauthorized
        /\ \/ live'.reports = live.reports
           \/ \E r \in Report : /\ live'.reports = Append(live.reports, r)
                                /\ r.check # "covered"
                                /\ MayLand(r.kind) \/ live'.unauthorized
    <2> DEFINE m == Recorded(live, kind, t)
    <2>1. /\ live.unauthorized => m.unauthorized
          /\ \/ m.reports = live.reports
             \/ \E r \in Report : /\ m.reports = Append(live.reports, r)
                                  /\ r.check # "covered"
                                  /\ MayLand(r.kind) \/ m.unauthorized
      BY ONLY <1>1, RecordedType, kind \in {"round", "landing"},
              t \in TurnType
    <2>2. live' = m
      OBVIOUS
    <2> HIDE DEF m
    <2> QED BY <2>1, <2>2
  <1>3. \/ live'.reports = live.reports
        \/ \E r \in Report : /\ live'.reports = Append(live.reports, r)
                             /\ r.check # "covered"
                             /\ MayLand(r.kind) \/ live'.unauthorized
    BY <1>2
  <1> SUFFICES ASSUME NEW i \in 1 .. Len(live'.reports)
               PROVE  /\ MayLand(live'.reports[i].kind) \/ live'.unauthorized
                      /\ live'.reports[i].check = "covered"
                           => Found(live'.reports[i])
    BY DEF ReportsOK, MayLand, Found
  <1>4. ASSUME i \in 1 .. Len(live.reports),
               live'.reports[i] = live.reports[i]
        PROVE  /\ MayLand(live'.reports[i].kind) \/ live'.unauthorized
               /\ live'.reports[i].check = "covered" => Found(live'.reports[i])
    BY <1>2, <1>4 DEF ReportsOK
  <1>5. CASE live'.reports = live.reports
    BY <1>4, <1>5
  <1>6. ASSUME NEW r \in Report, live'.reports = Append(live.reports, r),
               r.check # "covered", MayLand(r.kind) \/ live'.unauthorized
        PROVE  /\ MayLand(live'.reports[i].kind) \/ live'.unauthorized
               /\ live'.reports[i].check = "covered" => Found(live'.reports[i])
    <2>1. live.reports \in Seq(Report)
      BY <1>1 DEF LiveType
    <2>2. /\ \A k \in 1 .. Len(live.reports) : live'.reports[k] = live.reports[k]
          /\ live'.reports[Len(live'.reports)] = r
          /\ i \in 1 .. Len(live.reports) \/ i = Len(live'.reports)
      BY <1>6, <2>1, Grown
    <2> QED BY <1>4, <1>6, <2>2
  <1> QED BY <1>3, <1>5, <1>6

\* The stories of a job that goes on.
LEMMA Ongoing ==
  ASSUME EndOK, FrozenOK, UNCHANGED <<plan, token, seen, result>>,
         pc \notin {"ending", "done"}, pc' \notin {"ending", "done"},
         token => live' = live,
         journal'.end = journal.end
  PROVE  EndOK' /\ FrozenOK'
  <1>1. result' = NoSnapshot /\ journal'.end = NoSnapshot
    BY DEF EndOK
  <1>2. Snapshot(live, TRUE)' = Snapshot(live', TRUE)
    BY DEF Snapshot, LandingStatus, Evidence
  <1>3. EndOK'
    BY <1>1 DEF EndOK
  <1>4. token => seen' = Snapshot(live', TRUE)
    BY DEF FrozenOK
  <1>5. FrozenOK'
    BY <1>1, <1>2, <1>4 DEF FrozenOK
  <1> QED BY <1>3, <1>5

\* A step that asks nobody keeps what is said of the turns.
LEMMA SameTurns ==
  ASSUME UNCHANGED <<plan, turns>>, NegativeStands, RefusalsHandedToGrok
  PROVE  NegativeStands' /\ RefusalsHandedToGrok'
  BY DEF NegativeStands, RefusalsHandedToGrok

\* Nothing is approved by a calm step.
LEMMA CalmApproves ==
  ASSUME Calm, UNCHANGED turns, ApprovedOK, OnlyApprovalApproves,
         journal.verdicts \subseteq journal'.verdicts,
         pc \in Landings \cup Over =>
           pc' \in Landings \cup Over /\ run'.agent = run.agent
  PROVE  ApprovedOK' /\ OnlyApprovalApproves'
  <1>1. SUFFICES ASSUME live'.fixed = "approved"
                 PROVE  ApprovedOK' /\ OnlyApprovalApproves'
    BY DEF ApprovedOK, OnlyApprovalApproves
  <1>2. /\ live.fixed = "approved"
        /\ live'.open = live.open
        /\ live'.round = live.round
        /\ pc \in Landings \cup Over
    BY <1>1 DEF Calm, ApprovedOK
  <1>3. ApprovedOK'
    BY <1>2 DEF ApprovedOK
  <1>4. OnlyApprovalApproves'
    BY <1>2 DEF OnlyApprovalApproves
  <1> QED BY <1>3, <1>4

LEMMA CalmSame ==
  ASSUME Typed, ReportsOK, UNCHANGED <<plan, turns>>, NEW m, Update(m),
         m \in LiveType,
         m.round = live.round,
         m.reports = live.reports,
         m.unauthorized = live.unauthorized,
         m.fixed = "approved" => live.fixed = "approved" /\ m.open = live.open
  PROVE  Calm
  <1>1. live' \in {live, m} /\ (token => live' = live)
    BY DEF Update
  <1>2. Longer /\ turns' \in Seq(TurnRec)
    <2>1. Len(turns) \in Nat
      BY SeqLen DEF Typed
    <2> QED BY <2>1 DEF Longer, Typed
  <1>3. live \in LiveType
    BY DEF Typed
  <1>4. /\ live'.reports = live.reports
        /\ live'.unauthorized = live.unauthorized
    BY <1>1
  <1>5. ReportsOK'
    BY <1>2, <1>4, ReportsSame
  <1> QED BY <1>1, <1>3, <1>5 DEF Calm

LEMMA CalmRechecked ==
  ASSUME Typed, ReportsOK, plan' = plan, turns' \in Seq(TurnRec), Longer,
         NEW m, Update(m), NEW kind, NEW check, NEW by,
         Rechecked(live, m, kind, check, by),
         m.fixed = "approved" => live.fixed = "approved",
         check = "covered" =>
           Found([kind |-> kind, round |-> live.round, by |-> by,
                  check |-> check])'
  PROVE  Calm
  <1>1. live' \in {live, m} /\ (token => live' = live)
    BY DEF Update
  <1>2. live \in LiveType
    BY DEF Typed
  <1>3. CASE live' = live
    <2>1. ReportsOK'
      BY <1>3, ReportsSame
    <2> QED BY <1>2, <1>3, <2>1 DEF Calm
  <1>4. CASE live' = m
    <2>1. ReportsOK'
      BY <1>4, ReportsRechecked
    <2> QED BY <1>1, <1>4, <2>1 DEF Calm, Rechecked
  <1> QED BY <1>1, <1>3, <1>4

LEMMA CalmRecorded ==
  ASSUME Typed, ReportsOK, UNCHANGED <<plan, turns>>,
         NEW kind \in {"round", "landing"}, NEW t \in TurnType,
         Update(Recorded(live, kind, t))
  PROVE  Calm
  <1>1. live' \in {live, Recorded(live, kind, t)} /\ (token => live' = live)
    BY DEF Update
  <1>2. live \in LiveType
    BY DEF Typed
  <1>3. CASE live' = live
    <2>1. Longer /\ turns' \in Seq(TurnRec)
      <3>1. Len(turns) \in Nat
        BY SeqLen DEF Typed
      <3> QED BY <3>1 DEF Longer, Typed
    <2>2. ReportsOK'
      BY <1>3, <2>1, ReportsSame
    <2> QED BY <1>2, <1>3, <2>2 DEF Calm
  <1>4. CASE live' = Recorded(live, kind, t)
    <2>1. ReportsOK'
      BY <1>4, ReportsRecorded
    <2>2. /\ live' \in LiveType
          /\ live'.round = live.round
          /\ live'.fixed = live.fixed
          /\ live'.open = live.open
      BY <1>2, <1>4, RecordedType
    <2> QED BY <1>1, <2>1, <2>2 DEF Calm
  <1> QED BY <1>1, <1>3, <1>4

LEMMA WriteType ==
  ASSUME Typed, NEW ok \in BOOLEAN, Write(ok)
  PROVE  /\ journal' \in JournalType
         /\ journal'.end = journal.end
         /\ journal'.verdicts = journal.verdicts
  BY DEF Typed, Write, JournalType
-----------------------------------------------------------------------------
(* The builder                                                             *)

LEMMA StartBuilderStep ==
  ASSUME ReviewAssumption, IInv, NEW ok \in BOOLEAN, StartBuilder(ok)
  PROVE  IInv'
  <1> USE DEF IInv, Core
  <1>1. /\ pc \in {"queued", "round"} /\ pc' \in {"builder", "finish"}
        /\ UNCHANGED <<plan, token, turn, seen, result, turns>>
    BY DEF StartBuilder
  <1>2. /\ journal' \in JournalType
        /\ journal'.end = journal.end
        /\ journal'.verdicts = journal.verdicts
    BY WriteType DEF StartBuilder
  <1>t. /\ live \in LiveType /\ run \in RunType /\ plan \in Plans
        /\ turns \in Seq(TurnRec)
    BY DEF Typed
  <1>3. /\ live.round \in Nat
        /\ live.round < plan.rounds
        /\ plan.rounds \in 1 .. MaxRounds
        /\ pc = "round" => live.round >= 1
        /\ live.fixed # "approved"
    BY <1>1, <1>t, PlanType
       DEF RoundOK, LiveType, Rounds, Asked, ApprovedOK, Landings, Over
  <1>4. /\ live' \in LiveType
        /\ live'.fixed = live.fixed
        /\ live'.reports = live.reports
        /\ live'.unauthorized = live.unauthorized
        /\ IF token THEN live' = live ELSE live'.round = live.round + 1
    <2> DEFINE m == [live EXCEPT !.round = live.round + 1,
                                 !.builderTurns = @ + 1, !.phase = "builder"]
    <2>1. live' = IF token THEN live ELSE m
      BY DEF StartBuilder, Update
    <2>2. live.round + 1 \in Rounds
      BY <1>3 DEF Rounds, ReviewAssumption
    <2>3. /\ m \in LiveType
          /\ m.fixed = live.fixed
          /\ m.reports = live.reports
          /\ m.unauthorized = live.unauthorized
          /\ m.round = live.round + 1
      <3> DEFINE n == live.builderTurns + 1
                 k == live.round + 1
      <3>1. n \in Nat /\ k \in Rounds /\ "builder" \in Phase
        BY <1>t, <2>2 DEF LiveType, Phase
      <3> HIDE DEF n, k
      <3>2. m = [live EXCEPT !.round = k, !.builderTurns = n,
                             !.phase = "builder"]
        BY DEF n, k
      <3> HIDE DEF m
      <3>3. m \in LiveType
        BY <1>t, <3>1, <3>2 DEF LiveType
      <3>4. /\ m.fixed = live.fixed
            /\ m.reports = live.reports
            /\ m.unauthorized = live.unauthorized
            /\ m.round = k
        BY <1>t, <3>2 DEF LiveType
      <3> QED BY <3>3, <3>4 DEF k
    <2> HIDE DEF m
    <2> QED BY <1>t, <2>1, <2>3
  <1>5. /\ run' \in RunType
        /\ run'.refused = run.refused
        /\ run'.agent = run.agent
        /\ run'.held = run.held
        /\ run'.kept = run.kept
        /\ run'.own = FALSE
        /\ convs' \subseteq {run.held, run.kept} /\ NoConv \notin convs'
    <2> DEFINE round == live.round + 1
               own == run.own /\ round > 1
    <2>1. NoConv \in Conv
      BY DEF NoConv, Conv, Rounds, Ordered, ReviewAssumption
    <2>2. /\ run' = [run EXCEPT
                       !.handle = IF own THEN NoConv ELSE @,
                       !.own = IF round > 1 THEN FALSE ELSE @,
                       !.next = 1, !.halt = IF ok THEN "none" ELSE "journal"]
          /\ convs' = IF own THEN convs \ {run.handle} ELSE convs
      BY DEF StartBuilder
    <2>3. run' \in RunType
      <3> DEFINE h == IF own THEN NoConv ELSE run.handle
                 o == IF round > 1 THEN FALSE ELSE run.own
                 w == IF ok THEN "none" ELSE "journal"
      <3>1. /\ h \in Conv
            /\ o \in BOOLEAN
            /\ w \in {"none", "journal", "cancelled", "ended"}
        BY <1>t, <2>1 DEF RunType
      <3>2. run' = [run EXCEPT !.handle = h, !.own = o, !.next = 1,
                               !.halt = w]
        BY <2>2
      <3> HIDE DEF h, o, w
      <3>3. 1 \in Nexts
        BY DEF Nexts
      <3> QED BY <1>t, <3>1, <3>2, <3>3 DEF RunType
    <2>4. /\ run'.refused = run.refused
          /\ run'.agent = run.agent
          /\ run'.held = run.held
          /\ run'.kept = run.kept
          /\ run'.own = IF round > 1 THEN FALSE ELSE run.own
      BY <1>t, <2>2 DEF RunType
    <2>5. run.own \in BOOLEAN /\ (pc = "queued" => ~run.own)
      BY <1>t DEF RunType, HeldOK
    <2>6. pc = "round" => round > 1
      BY <1>3
    <2>7. run'.own = FALSE
      BY <1>1, <2>4, <2>5, <2>6
    <2>8. convs \subseteq Owned \cup {run.held, run.kept} /\ NoConv \notin convs
      BY DEF HeldOK
    <2>9. own <=> run.own
      BY <1>1, <2>5, <2>6
    <2> HIDE DEF own, round
    <2>10. convs' \subseteq {run.held, run.kept} /\ NoConv \notin convs'
      BY <2>2, <2>8, <2>9 DEF Owned
    <2> QED BY <2>3, <2>4, <2>7, <2>10
  <1>6. Typed'
    <2>1. pc' \in Places
      BY <1>1 DEF Places
    <2> QED BY <1>1, <1>2, <1>4, <1>5, <1>t, <2>1, TypedNext DEF Typed
  <1>7. RoundOK'
    BY <1>1, <1>3, <1>4, <1>t DEF RoundOK, Asked, Landings, LiveType
  <1>8. JudgedOK'
    BY <1>1 DEF JudgedOK, Judging
  <1>9. NegativesOK'
    <2>1. \A i \in 1 .. Len(turns) : turns[i].round \in Nat
      <3>1. \A i \in 1 .. Len(turns) : turns[i] \in TurnRec
        BY <1>t, SeqLen
      <3> QED BY <3>1 DEF TurnRec, Rounds
    <2> QED BY <1>1, <1>3, <1>4, <2>1 DEF NegativesOK, Judging, Over
  <1>10. ApprovedOK' /\ OnlyApprovalApproves'
    BY <1>3, <1>4 DEF ApprovedOK, OnlyApprovalApproves
  <1>11. RefusedOK'
    BY <1>1, <1>5 DEF RefusedOK, Over
  <1>12. NamedOK'
    BY <1>1, <1>5 DEF NamedOK, Asked, Landings
  <1>13. HeldOK'
    BY <1>1, <1>5 DEF HeldOK, Owned, Judging, Over, Landings
  <1>14. ReportsOK'
    <2>1. Longer /\ turns' \in Seq(TurnRec)
      <3>1. Len(turns) \in Nat
        BY <1>t, SeqLen
      <3> QED BY <1>1, <1>t, <3>1 DEF Longer
    <2> QED BY <1>1, <1>4, <2>1, ReportsSame
  <1>15. EndOK' /\ FrozenOK'
    BY <1>1, <1>2, <1>4, Ongoing
  <1>16. NegativeStands' /\ RefusalsHandedToGrok'
    BY <1>1, SameTurns
  <1> QED BY <1>6, <1>7, <1>8, <1>9, <1>10, <1>11, <1>12, <1>13, <1>14,
             <1>15, <1>16

\* What one change does to the loop's own variables.
LEMMA HaltedType ==
  ASSUME NEW r \in RunType, NEW w \in {"none", "journal", "cancelled", "ended"}
  PROVE  /\ Halted(r, w) \in RunType
         /\ Halted(r, w).handle = r.handle
         /\ Halted(r, w).own = r.own
         /\ Halted(r, w).refused = r.refused
         /\ Halted(r, w).held = r.held
         /\ Halted(r, w).kept = r.kept
         /\ Halted(r, w).agent = r.agent
         /\ Halted(r, w).halt = w
  BY DEF Halted, RunType

\* Nothing is held, released or adopted, nobody is asked.
SameHands ==
  /\ run'.handle = run.handle
  /\ run'.own = run.own
  /\ run'.held = run.held
  /\ run'.kept = run.kept
  /\ convs' = convs
  /\ run'.refused = run.refused
  /\ run'.agent = run.agent

LEMMA BuilderEndsStep ==
  ASSUME ReviewAssumption, IInv, NEW ok \in BOOLEAN,
         NEW t \in BuilderTurns, BuilderEnds(t, ok)
  PROVE  IInv'
  <1> USE DEF IInv, Core
  <1>1. /\ \/ pc = "builder" /\ pc' \in {"built", "finish"}
           \/ pc = "landing" /\ pc' \in {"landed", "finish"}
        /\ UNCHANGED <<plan, token, seen, result, turns>>
        /\ turn' = t
    BY DEF BuilderEnds
  <1>2. /\ journal' \in JournalType
        /\ journal'.end = journal.end
        /\ journal'.verdicts = journal.verdicts
    BY WriteType DEF BuilderEnds
  <1>t. /\ live \in LiveType /\ run \in RunType /\ plan \in Plans
        /\ turns \in Seq(TurnRec)
        /\ t \in TurnType
    BY TurnsType DEF Typed
  <1>3. Calm
    BY <1>1, <1>t, CalmRecorded DEF BuilderEnds
  <1>4. /\ run' \in RunType
        /\ run'.refused = run.refused
        /\ run'.agent = run.agent
        /\ run'.held = run.held
        /\ run'.kept = run.kept
        /\ convs' \subseteq Owned' \cup {run.held, run.kept}
        /\ NoConv \notin convs'
    <2> DEFINE fresh == pc = "builder" /\ ~(live.round = 1 /\ plan.session)
               h == <<"builder", live.round, plan.builder>>
               adopt == t.session /\ fresh
               handle == IF adopt THEN h ELSE run.handle
               own == run.own \/ adopt
               w == IF ok THEN "none" ELSE "journal"
    <2>1. /\ run' = [run EXCEPT !.handle = handle, !.own = own, !.halt = w]
          /\ convs' = IF adopt THEN convs \cup {h} ELSE convs
      BY DEF BuilderEnds
    <2>2. h \in Conv /\ h # NoConv
      BY <1>t DEF Conv, LiveType, NoConv
    <2>3. adopt => ~run.own
      BY DEF HeldOK
    <2>4. run.own \in BOOLEAN /\ run.handle \in Conv
      BY <1>t DEF RunType
    <2>5. convs \subseteq Owned \cup {run.held, run.kept} /\ NoConv \notin convs
      BY DEF HeldOK
    <2>6. t.session \in BOOLEAN
      BY <1>t DEF TurnType
    <2> HIDE DEF fresh, h
    <2>7. handle \in Conv /\ own \in BOOLEAN
          /\ w \in {"none", "journal", "cancelled", "ended"}
      BY <2>2, <2>4
    <2>8. /\ run' \in RunType
          /\ run'.refused = run.refused
          /\ run'.agent = run.agent
          /\ run'.held = run.held
          /\ run'.kept = run.kept
          /\ run'.own = own
          /\ run'.handle = handle
      <3> HIDE DEF handle, own, w
      <3> QED BY <1>t, <2>1, <2>7 DEF RunType
    <2>9. convs' \subseteq Owned' \cup {run.held, run.kept}
      <3>1. CASE adopt
        <4>1. Owned = {} /\ Owned' = {h}
          BY <2>3, <2>8, <3>1 DEF Owned
        <4> QED BY <2>1, <2>5, <3>1, <4>1
      <3>2. CASE ~adopt
        <4>1. Owned' = Owned
          BY <2>8, <3>2 DEF Owned
        <4> QED BY <2>1, <2>5, <3>2, <4>1
      <3> QED BY <3>1, <3>2
    <2>10. NoConv \notin convs'
      BY <2>1, <2>2, <2>5
    <2> QED BY <2>8, <2>9, <2>10
  <1>6. Typed'
    <2>1. pc' \in Places
      BY <1>1 DEF Places
    <2> QED BY <1>1, <1>2, <1>3, <1>4, <1>t, <2>1, TypedNext DEF Typed, Calm
  <1>7. RoundOK'
    BY <1>1, <1>3 DEF RoundOK, Asked, Landings, Calm
  <1>8. JudgedOK'
    BY <1>1 DEF JudgedOK, Judging
  <1>9. NegativesOK'
    BY <1>1, <1>3 DEF NegativesOK, Judging, Over, Calm
  <1>10. ApprovedOK' /\ OnlyApprovalApproves'
    BY <1>1, <1>2, <1>3, <1>4, CalmApproves DEF Landings, Over
  <1>11. RefusedOK'
    BY <1>1, <1>4 DEF RefusedOK, Over
  <1>12. NamedOK'
    BY <1>1, <1>4 DEF NamedOK, Asked, Landings
  <1>13. HeldOK'
    BY <1>1, <1>4 DEF HeldOK, Judging, Over, Landings
  <1>14. ReportsOK'
    BY <1>3 DEF Calm
  <1>15. EndOK' /\ FrozenOK'
    BY <1>1, <1>2, <1>3, Ongoing DEF Calm
  <1>16. NegativeStands' /\ RefusalsHandedToGrok'
    BY <1>1, SameTurns
  <1> QED BY <1>6, <1>7, <1>8, <1>9, <1>10, <1>11, <1>12, <1>13, <1>14,
             <1>15, <1>16

LEMMA BuiltStep ==
  ASSUME ReviewAssumption, IInv, Built
  PROVE  IInv'
  <1> USE DEF IInv, Core
  <1>1. /\ pc = "built" /\ pc' \in {"ask", "finish"}
        /\ pc' = "ask" => ~token
        /\ UNCHANGED <<plan, token, seen, result, turns, turn, run, convs,
                       journal>>
    BY DEF Built, Stop
  <1>t. live \in LiveType
    BY DEF Typed
  <1>3. Calm
    <2>1. live' = live \/ Update(Fixed(live, "stopped"))
      BY DEF Built, Stop, Update
    <2>2. CASE live' = live
      BY <1>1, <1>t, <2>2, CalmSame DEF Update
    <2>3. CASE Update(Fixed(live, "stopped"))
      <3> DEFINE m == Fixed(live, "stopped")
      <3>1. /\ m \in LiveType
            /\ m.round = live.round
            /\ m.open = live.open
            /\ m.unauthorized = live.unauthorized
            /\ m.reports = live.reports
            /\ m.fixed = live.fixed \/ m.fixed = "stopped"
        BY <1>t, FixedType
      <3> HIDE DEF m
      <3> QED BY <1>1, <2>3, <3>1, CalmSame DEF m
    <2> QED BY <2>1, <2>2, <2>3
  <1>6. Typed'
    <2>1. pc' \in Places
      BY <1>1 DEF Places
    <2> QED BY <1>1, <1>3, <2>1, TypedNext DEF Typed, Calm
  <1>7. RoundOK'
    BY <1>1, <1>3 DEF RoundOK, Asked, Landings, Calm
  <1>8. JudgedOK'
    BY <1>1 DEF JudgedOK, Judging
  <1>9. NegativesOK'
    BY <1>1, <1>3 DEF NegativesOK, Judging, Over, Calm
  <1>10. ApprovedOK' /\ OnlyApprovalApproves'
    BY <1>1, <1>3, CalmApproves DEF Landings, Over
  <1>11. RefusedOK'
    BY <1>1 DEF RefusedOK, Over
  <1>12. NamedOK'
    BY <1>1 DEF NamedOK, Asked, Landings
  <1>13. HeldOK'
    BY <1>1 DEF HeldOK, Owned, Judging, Over, Landings
  <1>14. ReportsOK'
    BY <1>3 DEF Calm
  <1>15. EndOK' /\ FrozenOK'
    BY <1>1, <1>3, Ongoing DEF Calm
  <1>16. NegativeStands' /\ RefusalsHandedToGrok'
    BY <1>1, SameTurns
  <1> QED BY <1>6, <1>7, <1>8, <1>9, <1>10, <1>11, <1>12, <1>13, <1>14,
             <1>15, <1>16
-----------------------------------------------------------------------------
(* The reviewers                                                           *)

LEMMA AskReviewerStep ==
  ASSUME ReviewAssumption, IInv, NEW ok \in BOOLEAN, AskReviewer(ok)
  PROVE  IInv'
  <1> USE DEF IInv, Core
  <1>1. /\ pc = "ask" /\ pc' \in {"reviewer", "finish"}
        /\ UNCHANGED <<plan, token, seen, result, turns, turn, convs>>
    BY DEF AskReviewer
  <1>2. /\ journal' \in JournalType
        /\ journal'.end = journal.end
        /\ journal'.verdicts = journal.verdicts
    BY WriteType DEF AskReviewer
  <1>t. /\ live \in LiveType /\ run \in RunType /\ plan \in Plans
        /\ turns \in Seq(TurnRec)
    BY DEF Typed
  <1>i. PICK i \in Remaining(run.next) :
          /\ run' = [run EXCEPT !.next = i + 1, !.agent = plan.order[i],
                                !.halt = IF ok THEN "none" ELSE "journal"]
          /\ Update(Checking([live EXCEPT !.reviewer = plan.order[i],
                                          !.phase = "reviewer"],
                             "round", plan.order[i]))
    BY DEF AskReviewer
  <1> DEFINE a == plan.order[i]
             n == i + 1
             w == IF ok THEN "none" ELSE "journal"
  <1>a. /\ a \in Ordered
        /\ n \in Nexts
        /\ MayReview(a)
        /\ plan.named => a = plan.order[1]
        /\ w \in {"none", "journal", "cancelled", "ended"}
    BY <1>t, PlanType DEF Remaining, Ordered, Nexts
  <1>b. /\ run' = [run EXCEPT !.next = n, !.agent = a, !.halt = w]
        /\ Update(Checking([live EXCEPT !.reviewer = a, !.phase = "reviewer"],
                           "round", a))
    BY <1>i
  <1> HIDE DEF a, n, w
  <1>3. Calm
    <2> DEFINE l == [live EXCEPT !.reviewer = a, !.phase = "reviewer"]
               m == Checking(l, "round", a)
    <2>1. /\ l \in LiveType
          /\ l.round = live.round
          /\ l.open = live.open
          /\ l.fixed = live.fixed
          /\ l.unauthorized = live.unauthorized
          /\ l.reports = live.reports
      BY <1>a, <1>t DEF LiveType, Phase
    <2> HIDE DEF l
    <2>2. Rechecked(l, m, "round", "running", a) /\ m.fixed = l.fixed
      BY <1>a, <2>1, CheckingType
    <2> HIDE DEF m
    <2>3. Rechecked(live, m, "round", "running", a) /\ m.fixed = live.fixed
      BY <2>1, <2>2 DEF Rechecked
    <2>4. Update(m)
      BY <1>b DEF l, m
    <2>5. Longer /\ turns' \in Seq(TurnRec)
      <3>1. Len(turns) \in Nat
        BY <1>t, SeqLen
      <3> QED BY <1>1, <1>t, <3>1 DEF Longer
    <2> QED BY <1>1, <2>3, <2>4, <2>5, CalmRechecked
  <1>4. /\ run' \in RunType
        /\ run'.handle = run.handle
        /\ run'.own = run.own
        /\ run'.held = run.held
        /\ run'.kept = run.kept
        /\ run'.refused = run.refused
        /\ run'.agent = a
    BY <1>a, <1>b, <1>t DEF RunType
  <1>6. Typed'
    <2>1. pc' \in Places
      BY <1>1 DEF Places
    <2> QED BY <1>1, <1>2, <1>3, <1>4, <2>1, TypedNext DEF Typed, Calm
  <1>7. RoundOK'
    BY <1>1, <1>3 DEF RoundOK, Asked, Landings, Calm
  <1>8. JudgedOK'
    BY <1>1 DEF JudgedOK, Judging
  <1>9. NegativesOK'
    BY <1>1, <1>3 DEF NegativesOK, Judging, Over, Calm
  <1>10. ApprovedOK' /\ OnlyApprovalApproves'
    BY <1>1, <1>2, <1>3, CalmApproves DEF Landings, Over
  <1>11. RefusedOK'
    BY <1>1, <1>4, <1>a DEF RefusedOK, Over, MayReview
  <1>12. NamedOK'
    BY <1>1, <1>4, <1>a DEF NamedOK, Asked, Landings
  <1>13. HeldOK'
    BY <1>1, <1>4 DEF HeldOK, Owned, Judging, Over, Landings
  <1>14. ReportsOK'
    BY <1>3 DEF Calm
  <1>15. EndOK' /\ FrozenOK'
    BY <1>1, <1>2, <1>3, Ongoing DEF Calm
  <1>16. NegativeStands' /\ RefusalsHandedToGrok'
    BY <1>1, SameTurns
  <1> QED BY <1>6, <1>7, <1>8, <1>9, <1>10, <1>11, <1>12, <1>13, <1>14,
             <1>15, <1>16

\* The round is given up.
LEMMA NoVerdictCalm ==
  ASSUME Typed, ReportsOK, UNCHANGED <<plan, turns>>, NEW a \in Ordered,
         NoVerdict(a)
  PROVE  Calm /\ pc' = "finish"
  <1> DEFINE l == Unchecked(live, "round", a)
             m == Fixed(l, "no_verdict")
  <1>t. live \in LiveType /\ turns \in Seq(TurnRec)
    BY DEF Typed
  <1>1. Rechecked(live, l, "round", "no_result", a) /\ l.fixed = live.fixed
    BY <1>t, CheckingType
  <1> HIDE DEF l
  <1>2. /\ m \in LiveType
        /\ m.round = l.round
        /\ m.open = l.open
        /\ m.unauthorized = l.unauthorized
        /\ m.reports = l.reports
        /\ m.fixed = l.fixed \/ m.fixed = "no_verdict"
    BY <1>1, FixedType DEF Rechecked
  <1>3. Update(m) /\ pc' = "finish"
    BY DEF NoVerdict, l
  <1> HIDE DEF m
  <1>4. Rechecked(live, m, "round", "no_result", a)
    BY <1>1, <1>2 DEF Rechecked
  <1>5. Longer /\ turns' \in Seq(TurnRec)
    <2>1. Len(turns) \in Nat
      BY <1>t, SeqLen
    <2> QED BY <1>t, <2>1 DEF Longer
  <1>6. m.fixed = "approved" => live.fixed = "approved"
    BY <1>1, <1>2
  <1>7. Calm
    BY <1>3, <1>4, <1>5, <1>6, CalmRechecked
  <1> QED BY <1>3, <1>7

LEMMA NobodyLeftStep ==
  ASSUME ReviewAssumption, IInv, NobodyLeft
  PROVE  IInv'
  <1> USE DEF IInv, Core
  <1>1. /\ pc = "ask" /\ pc' = "finish"
        /\ UNCHANGED <<plan, token, seen, result, turns, turn, run, convs,
                       journal>>
    BY DEF NobodyLeft, NoVerdict
  <1>t. live \in LiveType /\ run.agent \in Ordered
    BY DEF Typed, RunType
  <1>3. Calm
    <2>1. CASE live' = live
      BY <1>1, <1>t, <2>1, CalmSame DEF Update
    <2>2. CASE NoVerdict(run.agent)
      BY <1>1, <1>t, <2>2, NoVerdictCalm
    <2> QED BY <2>1, <2>2 DEF NobodyLeft
  <1>6. Typed'
    <2>1. pc' \in Places
      BY <1>1 DEF Places
    <2> QED BY <1>1, <1>3, <2>1, TypedNext DEF Typed, Calm
  <1>7. RoundOK'
    BY <1>1, <1>3 DEF RoundOK, Asked, Landings, Calm
  <1>8. JudgedOK'
    BY <1>1 DEF JudgedOK, Judging
  <1>9. NegativesOK'
    BY <1>1, <1>3 DEF NegativesOK, Judging, Over, Calm
  <1>10. ApprovedOK' /\ OnlyApprovalApproves'
    BY <1>1, <1>3, CalmApproves DEF Landings, Over
  <1>11. RefusedOK'
    BY <1>1 DEF RefusedOK, Over
  <1>12. NamedOK'
    BY <1>1 DEF NamedOK, Asked, Landings
  <1>13. HeldOK'
    BY <1>1 DEF HeldOK, Owned, Judging, Over, Landings
  <1>14. ReportsOK'
    BY <1>3 DEF Calm
  <1>15. EndOK' /\ FrozenOK'
    BY <1>1, <1>3, Ongoing DEF Calm
  <1>16. NegativeStands' /\ RefusalsHandedToGrok'
    BY <1>1, SameTurns
  <1> QED BY <1>6, <1>7, <1>8, <1>9, <1>10, <1>11, <1>12, <1>13, <1>14,
             <1>15, <1>16

\* A turn is added while no verdict is in the loop's hands.
LEMMA TurnAdded ==
  ASSUME IInv, plan' = plan, NEW x \in TurnRec, turns' = Append(turns, x),
         x.round = live.round,
         pc \in {"reviewer", "repairing", "confirming"},
         x.kind = "review" =>
           /\ run.refused => x.agent = "grok" /\ plan.builder # "grok"
           /\ plan.named => x.agent = plan.order[1]
  PROVE  /\ turns' \in Seq(TurnRec)
         /\ Longer
         /\ Len(turns') = Len(turns) + 1
         /\ turns'[Len(turns')] = x
         /\ NegativeStands'
         /\ RefusalsHandedToGrok'
  <1> USE DEF IInv, Core
  <1> DEFINE n == Len(turns)
             m == Len(turns')
  <1>1. /\ turns \in Seq(TurnRec)
        /\ n \in Nat
        /\ DOMAIN turns = 1 .. n
    BY SeqLen DEF Typed
  <1>2. /\ turns' \in Seq(TurnRec)
        /\ m = n + 1
        /\ \A i \in 1 .. n : turns'[i] = turns[i] /\ turns[i] \in TurnRec
        /\ turns'[m] = x
        /\ \A i \in 1 .. m : i \in 1 .. n \/ i = m
    BY <1>1, Grown
  <1>3. DOMAIN turns' = 1 .. m
    BY <1>2, SeqLen
  <1>4. Longer
    BY <1>1, <1>2 DEF Longer
  <1>5. \A i \in 1 .. n : Negative(turns[i]) => turns[i].round # live.round
    BY DEF NegativesOK, Judging, Over
  <1>6. NegativeStands'
    <2> SUFFICES ASSUME NEW i \in 1 .. m, NEW j \in 1 .. m,
                        turns'[i].verdict \in {"changes", "escalate"},
                        turns'[j].round = turns'[i].round
                 PROVE  j <= i
      BY <1>3 DEF NegativeStands
    <2>1. CASE i = m
      BY <1>1, <1>2, <2>1
    <2>2. CASE i \in 1 .. n /\ j = m
      <3>1. Negative(turns[i]) /\ turns[i].round = live.round
        BY <1>2, <2>2 DEF Negative
      <3> QED BY <1>5, <2>2, <3>1
    <2>3. CASE i \in 1 .. n /\ j \in 1 .. n
      <3>1. /\ turns[i].verdict \in {"changes", "escalate"}
            /\ turns[j].round = turns[i].round
        BY <1>2, <2>3
      <3> QED BY <1>1, <2>3, <3>1 DEF NegativeStands
    <2> QED BY <1>2, <2>1, <2>2, <2>3
  <1>7. RefusalsHandedToGrok'
    <2> SUFFICES ASSUME NEW i \in 1 .. m, NEW j \in 1 .. m,
                        i < j, turns'[j].kind = "review"
                 PROVE  /\ turns'[i].kind = "review"
                             /\ turns'[i].status = "declined"
                           => turns'[j].agent = "grok" /\ plan.builder # "grok"
                        /\ plan.named => turns'[j].agent = turns'[i].agent
      BY <1>3 DEF RefusalsHandedToGrok
    <2>1. i \in 1 .. n
      BY <1>1, <1>2
    <2>2. CASE j = m
      <3>1. Declined(turns[i]) => run.refused
        BY <2>1 DEF RefusedOK, Over
      <3>2. plan.named => turns[i].agent = plan.order[1]
        BY <2>1 DEF NamedOK
      <3>3. turns'[i] = turns[i] /\ turns'[j] = x
        BY <1>2, <2>1, <2>2
      <3> QED BY <3>1, <3>2, <3>3 DEF Declined
    <2>3. CASE j \in 1 .. n
      BY <1>1, <1>2, <2>1, <2>3 DEF RefusalsHandedToGrok
    <2> QED BY <1>2, <2>2, <2>3
  <1> QED BY <1>2, <1>4, <1>6, <1>7

\* What the verdict that a turn gave adds to the journal.
LEMMA VerdictWritten ==
  ASSUME Typed, NEW t \in TurnType, NEW ok \in BOOLEAN,
         journal' = [journal EXCEPT
                       !.incomplete = @ \/ ~ok,
                       !.verdicts =
                         IF ok /\ t.verdict # "none"
                         THEN @ \cup {<<live.round, run.agent, t.verdict>>}
                         ELSE @]
  PROVE  /\ journal' \in JournalType
         /\ journal'.end = journal.end
         /\ journal.verdicts \subseteq journal'.verdicts
         /\ ok /\ t.verdict # "none" =>
              <<live.round, run.agent, t.verdict>> \in journal'.verdicts
  <1> DEFINE v == <<live.round, run.agent, t.verdict>>
             vs == IF ok /\ t.verdict # "none" THEN journal.verdicts \cup {v}
                   ELSE journal.verdicts
  <1>1. v \in Rounds \X Ordered \X Verdict
    BY DEF Typed, LiveType, RunType, TurnType
  <1>2. journal \in JournalType
    BY DEF Typed
  <1>3. /\ vs \in SUBSET (Rounds \X Ordered \X Verdict)
        /\ journal.verdicts \subseteq vs
        /\ ok /\ t.verdict # "none" => v \in vs
    BY <1>1, <1>2 DEF JournalType
  <1>4. journal' = [journal EXCEPT !.incomplete = journal.incomplete \/ ~ok,
                                   !.verdicts = vs]
    OBVIOUS
  <1> HIDE DEF vs
  <1>5. journal' \in JournalType /\ journal'.end = journal.end
        /\ journal'.verdicts = vs
    BY <1>2, <1>3, <1>4 DEF JournalType
  <1> QED BY <1>3, <1>5

LEMMA ReviewerEndsStep ==
  ASSUME ReviewAssumption, IInv, NEW ok \in BOOLEAN,
         NEW t \in ReviewerTurns, ReviewerEnds(t, ok)
  PROVE  IInv'
  <1> USE DEF IInv, Core
  <1>1. /\ pc = "reviewer" /\ pc' = IF ok THEN "judge" ELSE "finish"
        /\ UNCHANGED <<plan, token, live, seen, result>>
        /\ turn' = t
    BY DEF ReviewerEnds
  <1>t. /\ live \in LiveType /\ run \in RunType
        /\ t \in TurnType
        /\ t.verdict # "none" => t.status \in {"completed", "timeout"}
        /\ t.verdict = "approve" => t.still = {} /\ ~t.blocking
    BY TurnsType DEF Typed
  <1>2. /\ journal' \in JournalType
        /\ journal'.end = journal.end
        /\ journal.verdicts \subseteq journal'.verdicts
        /\ ok /\ t.verdict # "none" =>
             <<live.round, run.agent, t.verdict>> \in journal'.verdicts
    BY <1>t, VerdictWritten DEF ReviewerEnds
  <1> DEFINE x == [round |-> live.round, agent |-> run.agent,
                   kind |-> "review", status |-> t.status,
                   verdict |-> t.verdict]
  <1>x. x \in TurnRec /\ turns' = Append(turns, x)
    <2>1. x \in TurnRec
      BY <1>t DEF TurnRec, LiveType, RunType, TurnType
    <2> QED BY <2>1 DEF ReviewerEnds
  <1>3. /\ turns' \in Seq(TurnRec)
        /\ Longer
        /\ Len(turns') = Len(turns) + 1
        /\ turns'[Len(turns')] = x
        /\ NegativeStands'
        /\ RefusalsHandedToGrok'
    <2>1. run.refused => run.agent = "grok" /\ plan.builder # "grok"
      BY <1>1 DEF RefusedOK
    <2>2. plan.named => run.agent = plan.order[1]
      BY <1>1 DEF NamedOK, Asked
    <2>3. /\ x.round = live.round
          /\ x.agent = run.agent
      OBVIOUS
    <2> HIDE DEF x
    <2> QED BY <1>1, <1>x, <2>1, <2>2, <2>3, TurnAdded
  <1>n. /\ Len(turns) \in Nat
        /\ \A i \in 1 .. Len(turns') : i \in 1 .. Len(turns) \/ i = Len(turns')
        /\ \A i \in 1 .. Len(turns) : turns'[i] = turns[i]
        /\ turns' # <<>>
    BY <1>3, SeqLen DEF Typed, Longer
  <1>4. /\ run' \in RunType
        /\ run'.handle = run.handle
        /\ run'.own = run.own
        /\ run'.kept = run.kept
        /\ run'.refused = run.refused
        /\ run'.agent = run.agent
        /\ convs' \subseteq Owned' \cup {run'.held, run'.kept}
        /\ NoConv \notin convs'
    <2> DEFINE h == <<"reviewer", live.round, run.agent>>
               held == IF t.session /\ ok THEN h ELSE NoConv
               w == IF ok THEN "none" ELSE "journal"
    <2>1. /\ run' = [run EXCEPT !.held = held, !.halt = w]
          /\ convs' = IF t.session /\ ok THEN convs \cup {h} ELSE convs
      BY DEF ReviewerEnds
    <2>2. h \in Conv /\ h # NoConv
      BY <1>t DEF Conv, LiveType, RunType, NoConv
    <2>3. NoConv \in Conv
      BY DEF NoConv, Conv, Rounds, Ordered, ReviewAssumption
    <2>4. held \in Conv /\ w \in {"none", "journal", "cancelled", "ended"}
      BY <2>2, <2>3
    <2>5. convs \subseteq Owned \cup {NoConv} /\ NoConv \notin convs
      BY <1>1 DEF HeldOK, Judging, Over, Landings
    <2> HIDE DEF h
    <2>6. /\ run' \in RunType
          /\ run'.handle = run.handle
          /\ run'.own = run.own
          /\ run'.kept = run.kept
          /\ run'.refused = run.refused
          /\ run'.agent = run.agent
          /\ run'.held = held
      <3> HIDE DEF held, w
      <3> QED BY <1>t, <2>1, <2>4 DEF RunType
    <2>7. Owned' = Owned
      BY <2>6 DEF Owned
    <2>8. convs' \subseteq Owned \cup {held}
      BY <2>1, <2>5
    <2>9. NoConv \notin convs'
      BY <2>1, <2>2, <2>5
    <2> QED BY <2>6, <2>7, <2>8, <2>9
  <1>6. Typed'
    <2>1. pc' \in Places
      BY <1>1 DEF Places
    <2> QED BY <1>1, <1>2, <1>3, <1>4, <1>t, <2>1, TypedNext DEF Typed
  <1>7. RoundOK'
    BY <1>1 DEF RoundOK, Asked, Landings
  <1>8. JudgedOK'
    BY <1>1, <1>2, <1>3, <1>4, <1>n, <1>t DEF JudgedOK, Judging
  <1>9. NegativesOK'
    <2>1. live.round \in Nat
      BY <1>t DEF LiveType, Rounds, ReviewAssumption
    <2>2. \A i \in 1 .. Len(turns) :
            turns[i].round <= live.round
              /\ ~(Negative(turns[i]) /\ turns[i].round = live.round)
      BY <1>1 DEF NegativesOK, Judging, Over
    <2>3. x.round = live.round
      OBVIOUS
    <2>4. pc' \in Judging \cup Over
      BY <1>1 DEF Judging, Over
    <2> HIDE DEF x
    <2> QED BY <1>1, <1>3, <1>n, <2>1, <2>2, <2>3, <2>4
            DEF NegativesOK, Negative
  <1>10. ApprovedOK' /\ OnlyApprovalApproves'
    BY <1>1 DEF ApprovedOK, OnlyApprovalApproves, Landings, Over
  <1>11. RefusedOK'
    BY <1>1, <1>4, <1>n DEF RefusedOK, Declined, Over
  <1>12. NamedOK'
    <2>1. x.agent = run.agent
      OBVIOUS
    <2> HIDE DEF x
    <2> QED BY <1>1, <1>3, <1>4, <1>n, <2>1 DEF NamedOK, Asked, Landings
  <1>13. HeldOK'
    BY <1>1, <1>4 DEF HeldOK, Judging, Over, Landings
  <1>14. ReportsOK'
    BY <1>1, <1>3, ReportsSame
  <1>15. EndOK' /\ FrozenOK'
    BY <1>1, <1>2, Ongoing
  <1> QED BY <1>3, <1>6, <1>7, <1>8, <1>9, <1>10, <1>11, <1>12, <1>13, <1>14,
             <1>15

\* The turn in the loop's hands.
LEMMA LastTurn ==
  ASSUME IInv, pc \in Judging
  PROVE  /\ Len(turns) \in 1 .. Len(turns)
         /\ turns[Len(turns)].round = live.round
         /\ turns[Len(turns)].agent = run.agent
         /\ turns[Len(turns)].status = turn.status
         /\ turns[Len(turns)].verdict = turn.verdict
         /\ turns[Len(turns)].kind \in {"review", "repair"}
         /\ turn.verdict # "none" =>
              /\ <<live.round, run.agent, turn.verdict>> \in journal.verdicts
              /\ turn.status \in {"completed", "timeout"}
         /\ turn.verdict = "approve" => turn.still = {} /\ ~turn.blocking
         /\ turn.verdict = "none" =>
              \A i \in 1 .. Len(turns) :
                ~(Negative(turns[i]) /\ turns[i].round = live.round)
  <1>1. Len(turns) \in 1 .. Len(turns)
    <2>1. turns \in Seq(TurnRec) /\ turns # <<>>
      BY DEF IInv, Core, Typed, JudgedOK
    <2>2. Len(turns) \in Nat /\ Len(turns) # 0
      BY <2>1, SeqLen, EmptySeq
    <2> QED BY <2>2
  <1>2. turn.verdict = "none" =>
          \A i \in 1 .. Len(turns) :
            ~(Negative(turns[i]) /\ turns[i].round = live.round)
    <2>1. turns[Len(turns)].verdict = turn.verdict
      BY DEF IInv, Core, JudgedOK
    <2> QED BY <2>1 DEF IInv, Core, NegativesOK, Negative
  <1> QED BY <1>1, <1>2 DEF IInv, Core, JudgedOK

LEMMA ReviewedStep ==
  ASSUME ReviewAssumption, IInv, Reviewed
  PROVE  IInv'
  <1> USE DEF IInv, Core
  <1>1. /\ pc \in {"judge", "repaired"} /\ pc' = "settle"
        /\ Usable
        /\ UNCHANGED <<plan, token, seen, result, turns, turn, run, convs,
                       journal>>
    BY DEF Reviewed
  <1>t. /\ live \in LiveType /\ run.agent \in Ordered
        /\ turns \in Seq(TurnRec)
        /\ turn.check \in {"none", "covered", "disputed", "no_result"}
    BY DEF Typed, RunType, TurnType
  <1>l. /\ Len(turns) \in 1 .. Len(turns)
        /\ turns[Len(turns)].round = live.round
        /\ turns[Len(turns)].agent = run.agent
        /\ turns[Len(turns)].status = turn.status
        /\ turns[Len(turns)].kind \in {"review", "repair"}
        /\ turn.verdict # "none" => turn.status \in {"completed", "timeout"}
    BY <1>1, LastTurn DEF Judging
  <1>3. Calm
    <2>1. CASE live' = live
      BY <1>1, <1>t, <2>1, CalmSame DEF Update
    <2>2. CASE turn.check # "none"
      <3> DEFINE m == Checked(live, "round", run.agent, turn.check)
      <3>1. Rechecked(live, m, "round", turn.check, run.agent)
              /\ m.fixed = live.fixed
        BY <1>t, <2>2, CheckingType
      <3>2. Update(m)
        BY <2>2 DEF Reviewed
      <3> HIDE DEF m
      <3>3. Longer /\ turns' \in Seq(TurnRec)
        BY <1>1, <1>t, <1>l DEF Longer
      <3>4. Rechecked(live, live, "round", turn.check, run.agent)
        BY <1>t DEF Rechecked
      <3>5. live'.round = live.round
        BY <3>1, <3>2 DEF Update, Rechecked
      <3> DEFINE k == Len(turns)
      <3>6. ASSUME NEW check
            PROVE  Found([kind |-> "round", round |-> live.round,
                          by |-> run.agent, check |-> check])'
        BY <1>1, <1>l, <3>5 DEF Found
      <3> QED BY <1>1, <3>1, <3>2, <3>3, <3>6, CalmRechecked
    <2> QED BY <2>1, <2>2 DEF Reviewed, Update
  <1>6. Typed'
    <2>1. pc' \in Places
      BY <1>1 DEF Places
    <2> QED BY <1>1, <1>3, <2>1, TypedNext DEF Typed, Calm
  <1>7. RoundOK'
    BY <1>1, <1>3 DEF RoundOK, Asked, Landings, Calm
  <1>8. JudgedOK'
    BY <1>1, <1>3 DEF JudgedOK, Judging, Usable, Calm
  <1>9. NegativesOK'
    BY <1>1, <1>3 DEF NegativesOK, Judging, Over, Calm
  <1>10. ApprovedOK' /\ OnlyApprovalApproves'
    BY <1>1, <1>3, CalmApproves DEF Landings, Over
  <1>11. RefusedOK'
    BY <1>1, <1>l DEF RefusedOK, Over, Usable, Declined
  <1>12. NamedOK'
    BY <1>1 DEF NamedOK, Asked, Landings
  <1>13. HeldOK'
    BY <1>1 DEF HeldOK, Owned, Judging, Over, Landings
  <1>14. ReportsOK'
    BY <1>3 DEF Calm
  <1>15. EndOK' /\ FrozenOK'
    BY <1>1, <1>3, Ongoing DEF Calm
  <1>16. NegativeStands' /\ RefusalsHandedToGrok'
    BY <1>1, SameTurns
  <1> QED BY <1>6, <1>7, <1>8, <1>9, <1>10, <1>11, <1>12, <1>13, <1>14,
             <1>15, <1>16

LEMMA DropType ==
  ASSUME ReviewAssumption, Typed, HeldOK, Drop
  PROVE  /\ run' \in RunType
         /\ run'.handle = run.handle
         /\ run'.own = run.own
         /\ run'.kept = run.kept
         /\ run'.refused = run.refused
         /\ run'.agent = run.agent
         /\ run'.held = NoConv
         /\ convs' \subseteq Owned' \cup {run'.kept}
         /\ NoConv \notin convs'
  <1>1. NoConv \in Conv
    BY DEF NoConv, Conv, Rounds, Ordered, ReviewAssumption
  <1>2. /\ run' = [run EXCEPT !.held = NoConv]
        /\ convs' = convs \ {run.held}
    BY DEF Drop, Release
  <1>3. run \in RunType
    BY DEF Typed
  <1>4. /\ run' \in RunType
        /\ run'.handle = run.handle
        /\ run'.own = run.own
        /\ run'.kept = run.kept
        /\ run'.refused = run.refused
        /\ run'.agent = run.agent
        /\ run'.held = NoConv
    BY <1>1, <1>2, <1>3 DEF RunType
  <1>5. Owned' = Owned
    BY <1>4 DEF Owned
  <1>6. convs \subseteq Owned \cup {run.held, run.kept} /\ NoConv \notin convs
    BY DEF HeldOK
  <1> QED BY <1>2, <1>4, <1>5, <1>6

LEMMA NotReviewedStep ==
  ASSUME ReviewAssumption, IInv, NotReviewed
  PROVE  IInv'
  <1> USE DEF IInv, Core
  <1>1. /\ pc = "judge" /\ pc' \in {"finish", "ask", "repair"}
        /\ UNCHANGED <<plan, token, seen, result, turns, turn, journal>>
    BY DEF NotReviewed, NoVerdict
  <1>t. live \in LiveType /\ run \in RunType /\ run.agent \in Ordered
    BY DEF Typed, RunType
  <1>c. \/ pc' = "finish" /\ Drop /\ live' = live
        \/ /\ pc' = "ask" /\ live' = live
           /\ turn.verdict = "none"
           /\ convs' = convs \ {run.held}
           /\ run' = [run EXCEPT !.held = NoConv,
                                 !.skipped = @ \cup {run.agent},
                                 !.refused = @ \/ turn.status = "declined"]
        \/ /\ pc' = "repair" /\ UNCHANGED <<live, convs, run>>
           /\ turn.verdict = "none" /\ turn.status = "completed"
        \/ pc' = "finish" /\ NoVerdict(run.agent) /\ Drop
    BY DEF NotReviewed, Release, NoVerdict
  <1>l. /\ Len(turns) \in 1 .. Len(turns)
        /\ turns[Len(turns)].status = turn.status
        /\ turn.verdict = "none" =>
             \A i \in 1 .. Len(turns) :
               ~(Negative(turns[i]) /\ turns[i].round = live.round)
    BY <1>1, LastTurn DEF Judging
  <1>3. Calm
    <2>1. CASE live' = live
      BY <1>1, <1>t, <2>1, CalmSame DEF Update
    <2>2. CASE NoVerdict(run.agent)
      BY <1>1, <1>t, <2>2, NoVerdictCalm
    <2> QED BY <1>c, <2>1, <2>2
  <1>4. /\ run' \in RunType
        /\ run'.kept = run.kept
        /\ run'.agent = run.agent
        /\ pc' # "repair" => run'.held = NoConv
        /\ convs' \subseteq Owned' \cup {run'.held, run'.kept}
        /\ NoConv \notin convs'
        /\ pc' # "finish" =>
             (run'.refused <=> run.refused \/ turn.status = "declined")
    <2>1. CASE Drop /\ pc' = "finish"
      BY <2>1, DropType
    <2>2. CASE /\ pc' = "repair" /\ UNCHANGED <<convs, run>>
               /\ turn.status = "completed"
      BY <1>t, <2>2 DEF HeldOK, Owned
    <2>3. CASE /\ pc' = "ask"
               /\ convs' = convs \ {run.held}
               /\ run' = [run EXCEPT !.held = NoConv,
                                     !.skipped = @ \cup {run.agent},
                                     !.refused = @ \/ turn.status = "declined"]
      <3>1. NoConv \in Conv
        BY DEF NoConv, Conv, Rounds, Ordered, ReviewAssumption
      <3> DEFINE skipped == run.skipped \cup {run.agent}
                 refused == run.refused \/ turn.status = "declined"
      <3>2. skipped \in SUBSET Ordered /\ refused \in BOOLEAN
        BY <1>t DEF RunType
      <3>3. run' = [run EXCEPT !.held = NoConv, !.skipped = skipped,
                               !.refused = refused]
        BY <2>3
      <3>4. refused <=> run.refused \/ turn.status = "declined"
        OBVIOUS
      <3> HIDE DEF skipped, refused
      <3>5. /\ run' \in RunType
            /\ run'.handle = run.handle
            /\ run'.own = run.own
            /\ run'.kept = run.kept
            /\ run'.agent = run.agent
            /\ run'.held = NoConv
            /\ run'.refused = refused
        BY <1>t, <3>1, <3>2, <3>3 DEF RunType
      <3>6. Owned' = Owned
        BY <3>5 DEF Owned
      <3>7. /\ convs \subseteq Owned \cup {run.held, run.kept}
            /\ NoConv \notin convs
        BY DEF HeldOK
      <3> QED BY <2>3, <3>4, <3>5, <3>6, <3>7
    <2> QED BY <1>c, <2>1, <2>2, <2>3
  <1>6. Typed'
    <2>1. pc' \in Places
      BY <1>1 DEF Places
    <2> QED BY <1>1, <1>3, <1>4, <2>1, TypedNext DEF Typed, Calm
  <1>7. RoundOK'
    BY <1>1, <1>3 DEF RoundOK, Asked, Landings, Calm
  <1>8. JudgedOK'
    BY <1>1 DEF JudgedOK, Judging
  <1>9. NegativesOK'
    <2>1. turn.verdict = "none" \/ pc' = "finish"
      BY <1>c
    <2> QED BY <1>1, <1>3, <1>l, <2>1 DEF NegativesOK, Judging, Over, Calm
  <1>10. ApprovedOK' /\ OnlyApprovalApproves'
    BY <1>1, <1>3, CalmApproves DEF Landings, Over
  <1>11. RefusedOK'
    BY <1>1, <1>4, <1>l DEF RefusedOK, Over, Declined
  <1>12. NamedOK'
    BY <1>1, <1>4 DEF NamedOK, Asked, Landings
  <1>13. HeldOK'
    BY <1>1, <1>4 DEF HeldOK, Judging, Over, Landings
  <1>14. ReportsOK'
    BY <1>3 DEF Calm
  <1>15. EndOK' /\ FrozenOK'
    BY <1>1, <1>3, Ongoing DEF Calm
  <1>16. NegativeStands' /\ RefusalsHandedToGrok'
    BY <1>1, SameTurns
  <1> QED BY <1>6, <1>7, <1>8, <1>9, <1>10, <1>11, <1>12, <1>13, <1>14,
             <1>15, <1>16

LEMMA StartRepairStep ==
  ASSUME ReviewAssumption, IInv, NEW ok \in BOOLEAN, StartRepair(ok)
  PROVE  IInv'
  <1> USE DEF IInv, Core
  <1>1. /\ pc = "repair" /\ pc' \in {"repairing", "finish"}
        /\ UNCHANGED <<plan, token, seen, result, turns, turn, convs>>
    BY DEF StartRepair
  <1>t. live \in LiveType /\ run \in RunType /\ journal \in JournalType
    BY DEF Typed
  <1>2. /\ journal' \in JournalType
        /\ journal'.end = journal.end
        /\ journal'.verdicts = journal.verdicts
    <2>1. journal' = journal \/ Write(ok)
      BY DEF StartRepair
    <2> QED BY <1>t, <2>1, WriteType
  <1>3. Calm
    <2>1. CASE live' = live
      BY <1>1, <1>t, <2>1, CalmSame DEF Update
    <2>2. CASE Update([live EXCEPT !.phase = "repair"])
      <3> DEFINE m == [live EXCEPT !.phase = "repair"]
      <3>1. /\ m \in LiveType
            /\ m.round = live.round
            /\ m.open = live.open
            /\ m.fixed = live.fixed
            /\ m.unauthorized = live.unauthorized
            /\ m.reports = live.reports
        BY <1>t DEF LiveType, Phase
      <3> HIDE DEF m
      <3> QED BY <1>1, <2>2, <3>1, CalmSame DEF m
    <2> QED BY <2>1, <2>2 DEF StartRepair
  <1>4. /\ run' \in RunType
        /\ SameHands
    <2>1. CASE run' = run
      BY <1>1, <1>t, <2>1 DEF SameHands
    <2>2. CASE run' = Halted(run, IF ok THEN "none" ELSE "journal")
      BY <1>1, <1>t, <2>2, HaltedType DEF SameHands
    <2> QED BY <2>1, <2>2 DEF StartRepair
  <1>6. Typed'
    <2>1. pc' \in Places
      BY <1>1 DEF Places
    <2> QED BY <1>1, <1>2, <1>3, <1>4, <2>1, TypedNext DEF Typed, Calm
  <1>7. RoundOK'
    BY <1>1, <1>3 DEF RoundOK, Asked, Landings, Calm
  <1>8. JudgedOK'
    BY <1>1 DEF JudgedOK, Judging
  <1>9. NegativesOK'
    BY <1>1, <1>3 DEF NegativesOK, Judging, Over, Calm
  <1>10. ApprovedOK' /\ OnlyApprovalApproves'
    BY <1>1, <1>2, <1>3, CalmApproves DEF Landings, Over
  <1>11. RefusedOK'
    BY <1>1, <1>4 DEF RefusedOK, Over, SameHands
  <1>12. NamedOK'
    BY <1>1, <1>4 DEF NamedOK, Asked, Landings, SameHands
  <1>13. HeldOK'
    BY <1>1, <1>4 DEF HeldOK, Owned, Judging, Over, Landings, SameHands
  <1>14. ReportsOK'
    BY <1>3 DEF Calm
  <1>15. EndOK' /\ FrozenOK'
    BY <1>1, <1>2, <1>3, Ongoing DEF Calm
  <1>16. NegativeStands' /\ RefusalsHandedToGrok'
    BY <1>1, SameTurns
  <1> QED BY <1>6, <1>7, <1>8, <1>9, <1>10, <1>11, <1>12, <1>13, <1>14,
             <1>15, <1>16

LEMMA RepairEndsStep ==
  ASSUME ReviewAssumption, IInv, NEW ok \in BOOLEAN,
         NEW t \in ReviewerTurns, RepairEnds(t, ok)
  PROVE  IInv'
  <1> USE DEF IInv, Core
  <1>1. /\ pc = "repairing" /\ pc' = IF ok THEN "repaired" ELSE "finish"
        /\ UNCHANGED <<plan, token, live, seen, result, convs>>
        /\ turn' = t
        /\ run' = Halted(run, IF ok THEN "none" ELSE "journal")
    BY DEF RepairEnds
  <1>t. /\ live \in LiveType /\ run \in RunType
        /\ t \in TurnType
        /\ t.verdict # "none" => t.status \in {"completed", "timeout"}
        /\ t.verdict = "approve" => t.still = {} /\ ~t.blocking
    BY TurnsType DEF Typed
  <1>2. /\ journal' \in JournalType
        /\ journal'.end = journal.end
        /\ journal.verdicts \subseteq journal'.verdicts
        /\ ok /\ t.verdict # "none" =>
             <<live.round, run.agent, t.verdict>> \in journal'.verdicts
    BY <1>t, VerdictWritten DEF RepairEnds
  <1> DEFINE x == [round |-> live.round, agent |-> run.agent,
                   kind |-> "repair", status |-> t.status,
                   verdict |-> t.verdict]
  <1>x. x \in TurnRec /\ turns' = Append(turns, x)
    <2>1. x \in TurnRec
      BY <1>t DEF TurnRec, LiveType, RunType, TurnType
    <2> QED BY <2>1 DEF RepairEnds
  <1>3. /\ turns' \in Seq(TurnRec)
        /\ Longer
        /\ Len(turns') = Len(turns) + 1
        /\ turns'[Len(turns')] = x
        /\ NegativeStands'
        /\ RefusalsHandedToGrok'
    <2>1. x.round = live.round /\ x.kind # "review"
      OBVIOUS
    <2> HIDE DEF x
    <2> QED BY <1>1, <1>x, <2>1, TurnAdded
  <1>n. /\ Len(turns) \in Nat
        /\ \A i \in 1 .. Len(turns') : i \in 1 .. Len(turns) \/ i = Len(turns')
        /\ \A i \in 1 .. Len(turns) : turns'[i] = turns[i]
        /\ turns' # <<>>
    BY <1>3, SeqLen DEF Typed, Longer
  <1>4. /\ run' \in RunType
        /\ SameHands
    BY <1>1, <1>t, HaltedType DEF SameHands
  <1>6. Typed'
    <2>1. pc' \in Places
      BY <1>1 DEF Places
    <2> QED BY <1>1, <1>2, <1>3, <1>4, <1>t, <2>1, TypedNext DEF Typed
  <1>7. RoundOK'
    BY <1>1 DEF RoundOK, Asked, Landings
  <1>8. JudgedOK'
    BY <1>1, <1>2, <1>3, <1>4, <1>n, <1>t DEF JudgedOK, Judging, SameHands
  <1>9. NegativesOK'
    <2>1. live.round \in Nat
      BY <1>t DEF LiveType, Rounds, ReviewAssumption
    <2>2. \A i \in 1 .. Len(turns) :
            turns[i].round <= live.round
              /\ ~(Negative(turns[i]) /\ turns[i].round = live.round)
      BY <1>1 DEF NegativesOK, Judging, Over
    <2>3. x.round = live.round
      OBVIOUS
    <2>4. pc' \in Judging \cup Over
      BY <1>1 DEF Judging, Over
    <2> HIDE DEF x
    <2> QED BY <1>1, <1>3, <1>n, <2>1, <2>2, <2>3, <2>4
            DEF NegativesOK, Negative
  <1>10. ApprovedOK' /\ OnlyApprovalApproves'
    BY <1>1 DEF ApprovedOK, OnlyApprovalApproves, Landings, Over
  <1>11. RefusedOK'
    BY <1>1, <1>3, <1>4, <1>n DEF RefusedOK, Declined, Over, SameHands
  <1>12. NamedOK'
    <2>1. x.agent = run.agent
      OBVIOUS
    <2> HIDE DEF x
    <2> QED BY <1>1, <1>3, <1>4, <1>n, <2>1
            DEF NamedOK, Asked, Landings, SameHands
  <1>13. HeldOK'
    BY <1>1, <1>4 DEF HeldOK, Owned, Judging, Over, Landings, SameHands
  <1>14. ReportsOK'
    BY <1>1, <1>3, ReportsSame
  <1>15. EndOK' /\ FrozenOK'
    BY <1>1, <1>2, Ongoing
  <1> QED BY <1>3, <1>6, <1>7, <1>8, <1>9, <1>10, <1>11, <1>12, <1>13, <1>14,
             <1>15

LEMMA NotRepairedStep ==
  ASSUME ReviewAssumption, IInv, NotRepaired
  PROVE  IInv'
  <1> USE DEF IInv, Core
  <1>1. /\ pc = "repaired" /\ pc' \in {"finish", "ask"}
        /\ UNCHANGED <<plan, token, seen, result, turns, turn, journal>>
        /\ Drop
    BY DEF NotRepaired, NoVerdict
  <1>t. live \in LiveType /\ run \in RunType /\ run.agent \in Ordered
        /\ turn \in TurnType
    BY DEF Typed, RunType
  <1>l. turn.verdict = "none" =>
          \A i \in 1 .. Len(turns) :
            ~(Negative(turns[i]) /\ turns[i].round = live.round)
    BY <1>1, LastTurn DEF Judging
  <1>c. pc' = "ask" => turn.verdict = "none"
    BY <1>1 DEF NotRepaired, Usable, NoVerdict
  <1>3. Calm
    <2>1. CASE live' = live
      BY <1>1, <1>t, <2>1, CalmSame DEF Update
    <2>2. CASE NoVerdict(run.agent)
      BY <1>1, <1>t, <2>2, NoVerdictCalm
    <2> QED BY <2>1, <2>2 DEF NotRepaired
  <1>4. /\ run' \in RunType
        /\ run'.kept = run.kept
        /\ run'.refused = run.refused
        /\ run'.agent = run.agent
        /\ run'.held = NoConv
        /\ convs' \subseteq Owned' \cup {run'.kept}
        /\ NoConv \notin convs'
    BY <1>1, DropType
  <1>6. Typed'
    <2>1. pc' \in Places
      BY <1>1 DEF Places
    <2> QED BY <1>1, <1>3, <1>4, <2>1, TypedNext DEF Typed, Calm
  <1>7. RoundOK'
    BY <1>1, <1>3 DEF RoundOK, Asked, Landings, Calm
  <1>8. JudgedOK'
    BY <1>1 DEF JudgedOK, Judging
  <1>9. NegativesOK'
    BY <1>1, <1>3, <1>c, <1>l DEF NegativesOK, Judging, Over, Calm
  <1>10. ApprovedOK' /\ OnlyApprovalApproves'
    BY <1>1, <1>3, CalmApproves DEF Landings, Over
  <1>11. RefusedOK'
    BY <1>1, <1>4 DEF RefusedOK, Over
  <1>12. NamedOK'
    BY <1>1, <1>4 DEF NamedOK, Asked, Landings
  <1>13. HeldOK'
    BY <1>1, <1>4 DEF HeldOK, Judging, Over, Landings
  <1>14. ReportsOK'
    BY <1>3 DEF Calm
  <1>15. EndOK' /\ FrozenOK'
    BY <1>1, <1>3, Ongoing DEF Calm
  <1>16. NegativeStands' /\ RefusalsHandedToGrok'
    BY <1>1, SameTurns
  <1> QED BY <1>6, <1>7, <1>8, <1>9, <1>10, <1>11, <1>12, <1>13, <1>14,
             <1>15, <1>16

LEMMA SettleStep ==
  ASSUME ReviewAssumption, IInv, Settle
  PROVE  IInv'
  <1> USE DEF IInv, Core
  <1> DEFINE open == turn.still \cup
                       (IF turn.blocking THEN {live.round} ELSE {})
             land == turn.verdict = "approve" /\ plan.land = "after_approval"
             l == [live EXCEPT !.open = open]
             m == CASE turn.verdict = "approve"  -> Fixed(l, "approved")
                    [] turn.verdict = "escalate" -> Fixed(l, "escalated")
                    [] LastRound                 -> Fixed(l, "unresolved")
                    [] OTHER                     -> l
             held == IF land THEN run.held ELSE NoConv
  <1>1. /\ pc = "settle"
        /\ \/ pc' = "land" /\ turn.verdict = "approve"
           \/ pc' = "round" /\ live.round # plan.rounds
           \/ pc' = "finish"
        /\ turn.verdict = "approve" => pc' \in {"land", "finish"}
        /\ pc' = "land" <=> land
        /\ UNCHANGED <<plan, token, seen, result, turns, turn, journal>>
        /\ Update(m)
        /\ convs' = IF land THEN convs ELSE convs \ {run.held}
        /\ run' = [run EXCEPT !.open = open, !.kept = held, !.held = NoConv]
    BY DEF Settle, LastRound
  <1>t. /\ live \in LiveType /\ run \in RunType /\ turn \in TurnType
        /\ plan \in Plans /\ turns \in Seq(TurnRec)
    BY DEF Typed
  <1>l. /\ Len(turns) \in 1 .. Len(turns)
        /\ turns[Len(turns)].round = live.round
        /\ turns[Len(turns)].agent = run.agent
        /\ turns[Len(turns)].status = turn.status
        /\ turns[Len(turns)].verdict = turn.verdict
        /\ <<live.round, run.agent, turn.verdict>> \in journal.verdicts
        /\ turn.verdict = "approve" => turn.still = {} /\ ~turn.blocking
        /\ turn.verdict = "approve" => turn.status = "completed"
    BY <1>1, LastTurn DEF Judging, JudgedOK, Usable
  <1>o. /\ open \in SUBSET (1 .. MaxRounds)
        /\ turn.verdict = "approve" => open = {}
    <2>1. live.round \in 1 .. MaxRounds
      <3>1. live.round >= 1
        BY <1>1 DEF RoundOK, Asked
      <3> QED BY <1>t, <3>1 DEF LiveType, Rounds, ReviewAssumption
    <2>2. turn.still \in SUBSET (1 .. MaxRounds)
      BY <1>t DEF TurnType
    <2> QED BY <1>l, <2>1, <2>2
  <1>f. live.fixed # "approved"
    BY <1>1 DEF ApprovedOK, Landings, Over
  <1> HIDE DEF open
  <1>m. /\ m \in LiveType
        /\ m.round = live.round
        /\ m.open = open
        /\ m.unauthorized = live.unauthorized
        /\ m.reports = live.reports
        /\ m.fixed = "approved" => turn.verdict = "approve"
    <2>1. /\ l \in LiveType
          /\ l.round = live.round
          /\ l.open = open
          /\ l.unauthorized = live.unauthorized
          /\ l.reports = live.reports
          /\ l.fixed = live.fixed
      BY <1>t, <1>o DEF LiveType
    <2> HIDE DEF l
    <2>2. \/ m = Fixed(l, "approved") /\ turn.verdict = "approve"
          \/ m = Fixed(l, "escalated")
          \/ m = Fixed(l, "unresolved")
          \/ m = l
      OBVIOUS
    <2> HIDE DEF m
    <2>3. CASE m = Fixed(l, "approved") /\ turn.verdict = "approve"
      BY <2>1, <2>3, FixedType
    <2>4. CASE m = Fixed(l, "escalated")
      BY <1>f, <2>1, <2>4, FixedType
    <2>5. CASE m = Fixed(l, "unresolved")
      BY <1>f, <2>1, <2>5, FixedType
    <2>6. CASE m = l
      BY <1>f, <2>1, <2>6
    <2> QED BY <2>2, <2>3, <2>4, <2>5, <2>6
  <1> HIDE DEF m
  <1>3. /\ live' \in LiveType
        /\ live'.round = live.round
        /\ live'.unauthorized = live.unauthorized
        /\ live'.reports = live.reports
        /\ token => live' = live
        /\ live'.fixed = "approved" =>
             turn.verdict = "approve" /\ live'.open = {}
    BY <1>1, <1>t, <1>o, <1>f, <1>m DEF Update
  <1>4. /\ run' \in RunType
        /\ run'.handle = run.handle
        /\ run'.own = run.own
        /\ run'.refused = run.refused
        /\ run'.agent = run.agent
        /\ run'.held = NoConv
        /\ run'.kept = held
    <2>1. NoConv \in Conv
      BY DEF NoConv, Conv, Rounds, Ordered, ReviewAssumption
    <2>2. held \in Conv
      BY <1>t, <2>1 DEF RunType
    <2> HIDE DEF held
    <2> QED BY <1>1, <1>t, <1>o, <2>1, <2>2 DEF RunType
  <1>5. convs' \subseteq Owned' \cup {run'.kept} /\ NoConv \notin convs'
    <2>1. convs \subseteq Owned \cup {run.held, NoConv} /\ NoConv \notin convs
      BY <1>1 DEF HeldOK, Landings, Over
    <2>2. Owned' = Owned
      BY <1>4 DEF Owned
    <2> HIDE DEF land
    <2> QED BY <1>1, <1>4, <2>1, <2>2
  <1>6. Typed'
    <2>1. pc' \in Places
      BY <1>1 DEF Places
    <2> QED BY <1>1, <1>3, <1>4, <2>1, TypedNext DEF Typed
  <1>7. RoundOK'
    <2>1. plan.rounds \in Nat /\ live.round \in Nat
      BY <1>t, PlanType DEF ReviewAssumption, LiveType, Rounds
    <2> QED BY <1>1, <1>3, <2>1 DEF RoundOK, Asked, Landings
  <1>8. JudgedOK'
    BY <1>1 DEF JudgedOK, Judging
  <1>9. NegativesOK'
    <2>1. turn.verdict # "approve" => pc' \in {"round", "finish"}
      BY <1>1
    <2>2. ASSUME turn.verdict = "approve"
          PROVE  \A i \in 1 .. Len(turns) :
                   ~(Negative(turns[i]) /\ turns[i].round = live.round)
      BY <1>l, <2>2 DEF NegativesOK, Negative
    <2> QED BY <1>1, <1>3, <2>1, <2>2 DEF NegativesOK, Judging, Over
  <1>10. ApprovedOK'
    BY <1>1, <1>3 DEF ApprovedOK, Landings, Over
  <1>17. OnlyApprovalApproves'
    <2> SUFFICES ASSUME live'.fixed = "approved"
                 PROVE  OnlyApprovalApproves'
      BY DEF OnlyApprovalApproves
    <2>1. turn.verdict = "approve" /\ live'.open = {}
      BY <1>3
    <2>2. DOMAIN turns = 1 .. Len(turns)
      BY <1>t, SeqLen
    <2>3. \A j \in Len(turns) + 1 .. Len(turns) :
            turns[j].kind = "confirmation"
      BY <1>l
    <2> QED BY <1>1, <1>3, <1>4, <1>l, <2>1, <2>2, <2>3
            DEF OnlyApprovalApproves
  <1>11. RefusedOK'
    BY <1>1, <1>4 DEF RefusedOK, Over
  <1>12. NamedOK'
    BY <1>1, <1>4 DEF NamedOK, Asked, Landings
  <1>13. HeldOK'
    <2>1. pc' \notin Landings \cup Over => ~land
      BY <1>1 DEF Landings, Over
    <2> QED BY <1>1, <1>4, <1>5, <2>1 DEF HeldOK
  <1>14. ReportsOK'
    <2>1. Longer /\ turns' \in Seq(TurnRec)
      BY <1>1, <1>t, <1>l DEF Longer
    <2> QED BY <1>1, <1>3, <2>1, ReportsSame
  <1>15. EndOK' /\ FrozenOK'
    BY <1>1, <1>3, Ongoing
  <1>16. NegativeStands' /\ RefusalsHandedToGrok'
    BY <1>1, SameTurns
  <1> QED BY <1>6, <1>7, <1>8, <1>9, <1>10, <1>11, <1>12, <1>13, <1>14,
             <1>15, <1>16, <1>17
-----------------------------------------------------------------------------
(* Landing after approval                                                  *)

LEMMA StartLandingStep ==
  ASSUME ReviewAssumption, IInv, NEW ok \in BOOLEAN, StartLanding(ok)
  PROVE  IInv'
  <1> USE DEF IInv, Core
  <1>1. /\ pc = "land" /\ pc' \in {"landing", "finish"}
        /\ UNCHANGED <<plan, token, seen, result, turns, turn, convs>>
        /\ run' = Halted(run, IF ok THEN "none" ELSE "journal")
    BY DEF StartLanding
  <1>t. live \in LiveType /\ run \in RunType
    BY DEF Typed
  <1>2. /\ journal' \in JournalType
        /\ journal'.end = journal.end
        /\ journal'.verdicts = journal.verdicts
    BY WriteType DEF StartLanding
  <1>3. Calm
    <2> DEFINE m == [live EXCEPT !.phase = "landing"]
    <2>1. /\ m \in LiveType
          /\ m.round = live.round
          /\ m.open = live.open
          /\ m.fixed = live.fixed
          /\ m.unauthorized = live.unauthorized
          /\ m.reports = live.reports
      BY <1>t DEF LiveType, Phase
    <2>2. Update(m)
      BY DEF StartLanding
    <2> HIDE DEF m
    <2> QED BY <1>1, <2>1, <2>2, CalmSame
  <1>4. /\ run' \in RunType
        /\ SameHands
    BY <1>1, <1>t, HaltedType DEF SameHands
  <1>6. Typed'
    <2>1. pc' \in Places
      BY <1>1 DEF Places
    <2> QED BY <1>1, <1>2, <1>3, <1>4, <2>1, TypedNext DEF Typed, Calm
  <1>7. RoundOK'
    BY <1>1, <1>3 DEF RoundOK, Asked, Landings, Calm
  <1>8. JudgedOK'
    BY <1>1 DEF JudgedOK, Judging
  <1>9. NegativesOK'
    BY <1>1, <1>3 DEF NegativesOK, Judging, Over, Calm
  <1>10. ApprovedOK' /\ OnlyApprovalApproves'
    BY <1>1, <1>2, <1>3, <1>4, CalmApproves DEF Landings, Over, SameHands
  <1>11. RefusedOK'
    BY <1>1, <1>4 DEF RefusedOK, Over, SameHands
  <1>12. NamedOK'
    BY <1>1, <1>4 DEF NamedOK, Asked, Landings, SameHands
  <1>13. HeldOK'
    BY <1>1, <1>4 DEF HeldOK, Owned, Judging, Over, Landings, SameHands
  <1>14. ReportsOK'
    BY <1>3 DEF Calm
  <1>15. EndOK' /\ FrozenOK'
    BY <1>1, <1>2, <1>3, Ongoing DEF Calm
  <1>16. NegativeStands' /\ RefusalsHandedToGrok'
    BY <1>1, SameTurns
  <1> QED BY <1>6, <1>7, <1>8, <1>9, <1>10, <1>11, <1>12, <1>13, <1>14,
             <1>15, <1>16

LEMMA LandedStep ==
  ASSUME ReviewAssumption, IInv, NEW ok \in BOOLEAN, Landed(ok)
  PROVE  IInv'
  <1> USE DEF IInv, Core
  <1>1. /\ pc = "landed" /\ pc' \in {"confirming", "finish"}
        /\ UNCHANGED <<plan, token, seen, result, turns, turn, convs>>
        /\ run' \in {run, Halted(run, IF ok THEN "none" ELSE "journal")}
    BY DEF Landed
  <1>t. /\ live \in LiveType /\ run \in RunType /\ journal \in JournalType
        /\ turns \in Seq(TurnRec)
        /\ run.agent \in Ordered
    BY DEF Typed, RunType
  <1>2. /\ journal' \in JournalType
        /\ journal'.end = journal.end
        /\ journal'.verdicts = journal.verdicts
    <2>1. journal' = journal \/ Write(ok)
      BY DEF Landed
    <2> QED BY <1>t, <2>1, WriteType
  <1>s. Longer /\ turns' \in Seq(TurnRec)
    <2>1. Len(turns) \in Nat
      BY <1>t, SeqLen
    <2> QED BY <1>1, <1>t, <2>1 DEF Longer
  <1>3. Calm
    <2>1. CASE live' = live
      BY <1>1, <1>t, <2>1, CalmSame DEF Update
    <2>2. CASE Update(Unchecked(live, "landing", run.agent))
      <3> DEFINE m == Unchecked(live, "landing", run.agent)
      <3>1. Rechecked(live, m, "landing", "no_result", run.agent)
              /\ m.fixed = live.fixed
        BY <1>t, CheckingType
      <3> HIDE DEF m
      <3> QED BY <1>1, <1>s, <2>2, <3>1, CalmRechecked DEF m
    <2>3. CASE Update([Checking(live, "landing", run.agent)
                         EXCEPT !.phase = "confirmation"])
      <3> DEFINE l == Checking(live, "landing", run.agent)
                 m == [l EXCEPT !.phase = "confirmation"]
      <3>1. Rechecked(live, l, "landing", "running", run.agent)
              /\ l.fixed = live.fixed
        BY <1>t, CheckingType
      <3> HIDE DEF l
      <3>2. /\ m \in LiveType
            /\ m.round = l.round
            /\ m.open = l.open
            /\ m.fixed = l.fixed
            /\ m.unauthorized = l.unauthorized
            /\ m.reports = l.reports
        BY <3>1 DEF LiveType, Phase, Rechecked
      <3>3. Update(m)
        BY <2>3 DEF l
      <3> HIDE DEF m
      <3>4. Rechecked(live, m, "landing", "running", run.agent)
              /\ m.fixed = live.fixed
        BY <3>1, <3>2 DEF Rechecked
      <3> QED BY <1>1, <1>s, <3>3, <3>4, CalmRechecked
    <2> QED BY <2>1, <2>2, <2>3 DEF Landed
  <1>4. /\ run' \in RunType
        /\ SameHands
    BY <1>1, <1>t, HaltedType DEF SameHands
  <1>6. Typed'
    <2>1. pc' \in Places
      BY <1>1 DEF Places
    <2> QED BY <1>1, <1>2, <1>3, <1>4, <2>1, TypedNext DEF Typed, Calm
  <1>7. RoundOK'
    BY <1>1, <1>3 DEF RoundOK, Asked, Landings, Calm
  <1>8. JudgedOK'
    BY <1>1 DEF JudgedOK, Judging
  <1>9. NegativesOK'
    BY <1>1, <1>3 DEF NegativesOK, Judging, Over, Calm
  <1>10. ApprovedOK' /\ OnlyApprovalApproves'
    BY <1>1, <1>2, <1>3, <1>4, CalmApproves DEF Landings, Over, SameHands
  <1>11. RefusedOK'
    BY <1>1, <1>4 DEF RefusedOK, Over, SameHands
  <1>12. NamedOK'
    BY <1>1, <1>4 DEF NamedOK, Asked, Landings, SameHands
  <1>13. HeldOK'
    BY <1>1, <1>4 DEF HeldOK, Owned, Judging, Over, Landings, SameHands
  <1>14. ReportsOK'
    BY <1>3 DEF Calm
  <1>15. EndOK' /\ FrozenOK'
    BY <1>1, <1>2, <1>3, Ongoing DEF Calm
  <1>16. NegativeStands' /\ RefusalsHandedToGrok'
    BY <1>1, SameTurns
  <1> QED BY <1>6, <1>7, <1>8, <1>9, <1>10, <1>11, <1>12, <1>13, <1>14,
             <1>15, <1>16

LEMMA ConfirmEndsStep ==
  ASSUME ReviewAssumption, IInv, NEW ok \in BOOLEAN,
         NEW status \in {"completed", "timeout", "cancelled"},
         NEW check \in {"covered", "disputed", "no_result", "malformed"},
         ConfirmEnds(status, check, ok)
  PROVE  IInv'
  <1> USE DEF IInv, Core
  <1> DEFINE x == [round |-> live.round, agent |-> run.agent,
                   kind |-> "confirmation", status |-> status,
                   verdict |-> check]
  <1>1. /\ pc = "confirming" /\ pc' = "finish"
        /\ UNCHANGED <<plan, token, seen, result, turn, convs>>
        /\ run' = Halted(run, IF ok THEN "none" ELSE "journal")
        /\ turns' = Append(turns, x)
    BY DEF ConfirmEnds
  <1>t. /\ live \in LiveType /\ run \in RunType /\ run.agent \in Ordered
        /\ turns \in Seq(TurnRec)
    BY DEF Typed, RunType
  <1>2. /\ journal' \in JournalType
        /\ journal'.end = journal.end
        /\ journal'.verdicts = journal.verdicts
    BY WriteType DEF ConfirmEnds
  <1>x. /\ x \in TurnRec
        /\ x.round = live.round
        /\ x.agent = run.agent
        /\ x.kind = "confirmation"
    BY <1>t DEF TurnRec, LiveType, Status
  <1> HIDE DEF x
  <1>n. /\ turns' \in Seq(TurnRec)
        /\ Longer
        /\ Len(turns') = Len(turns) + 1
        /\ turns'[Len(turns')] = x
        /\ NegativeStands'
        /\ RefusalsHandedToGrok'
    BY <1>1, <1>x, TurnAdded
  <1>e. /\ Len(turns) \in Nat
        /\ \A i \in 1 .. Len(turns') : i \in 1 .. Len(turns) \/ i = Len(turns')
        /\ \A i \in 1 .. Len(turns) : turns'[i] = turns[i]
        /\ DOMAIN turns = 1 .. Len(turns)
        /\ DOMAIN turns' = 1 .. Len(turns')
    BY <1>n, <1>t, SeqLen DEF Longer
  <1>3. Calm
    <2>1. CASE status = "completed" /\ check # "malformed"
      <3> DEFINE m == Checked(live, "landing", run.agent, check)
      <3>1. Rechecked(live, m, "landing", check, run.agent)
              /\ m.fixed = live.fixed
        BY <1>t, <2>1, CheckingType
      <3>2. Update(m)
        BY <2>1 DEF ConfirmEnds
      <3> HIDE DEF m
      <3>3. live'.round = live.round
        BY <3>1, <3>2 DEF Update, Rechecked
      <3>4. run'.agent = run.agent
        BY <1>1, <1>t, HaltedType
      <3>5. Found([kind |-> "landing", round |-> live.round,
                   by |-> run.agent, check |-> check])'
        <4>1. Len(turns') \in 1 .. Len(turns')
          BY <1>e, <1>n
        <4> QED BY <1>n, <1>x, <3>3, <3>4, <4>1 DEF Found
      <3> QED BY <1>1, <1>n, <3>1, <3>2, <3>4, <3>5, CalmRechecked
    <2>2. CASE ~(status = "completed" /\ check # "malformed")
      <3> DEFINE m == Unchecked(live, "landing", run.agent)
      <3>1. Rechecked(live, m, "landing", "no_result", run.agent)
              /\ m.fixed = live.fixed
        BY <1>t, CheckingType
      <3>2. Update(m)
        BY <2>2 DEF ConfirmEnds
      <3> HIDE DEF m
      <3> QED BY <1>1, <1>n, <3>1, <3>2, CalmRechecked
    <2> QED BY <2>1, <2>2
  <1>4. /\ run' \in RunType
        /\ SameHands
    BY <1>1, <1>t, HaltedType DEF SameHands
  <1>6. Typed'
    <2>1. pc' \in Places
      BY <1>1 DEF Places
    <2> QED BY <1>1, <1>2, <1>3, <1>4, <1>n, <2>1, TypedNext DEF Typed, Calm
  <1>7. RoundOK'
    BY <1>1, <1>3 DEF RoundOK, Asked, Landings, Calm
  <1>8. JudgedOK'
    BY <1>1 DEF JudgedOK, Judging
  <1>9. NegativesOK'
    <2>1. \A i \in 1 .. Len(turns) :
            turns[i].round <= live.round
              /\ ~(Negative(turns[i]) /\ turns[i].round = live.round)
      BY <1>1 DEF NegativesOK, Judging, Over
    <2>2. live.round \in Nat
      BY <1>t DEF LiveType, Rounds, ReviewAssumption
    <2>3. pc' \in Judging \cup Over /\ live'.round = live.round
      BY <1>1, <1>3 DEF Over, Calm
    <2> SUFFICES ASSUME NEW i \in 1 .. Len(turns')
                 PROVE  /\ turns'[i].round <= live.round
                        /\ Negative(turns'[i]) /\ turns'[i].round = live.round
                             => i = Len(turns')
      BY <2>3 DEF NegativesOK, Negative
    <2>4. CASE i \in 1 .. Len(turns)
      <3>1. turns'[i] = turns[i]
        BY <1>e, <2>4
      <3> QED BY <2>1, <2>4, <3>1
    <2>5. CASE i = Len(turns')
      BY <1>n, <1>x, <2>2, <2>5
    <2> QED BY <1>e, <2>4, <2>5
  <1>10. ApprovedOK'
    BY <1>1 DEF ApprovedOK, Over
  <1>17. OnlyApprovalApproves'
    <2> SUFFICES ASSUME live'.fixed = "approved"
                 PROVE  OnlyApprovalApproves'
      BY DEF OnlyApprovalApproves
    <2>1. /\ live.fixed = "approved"
          /\ live'.open = live.open
          /\ live'.round = live.round
      BY <1>3 DEF Calm
    <2>2. run'.agent = run.agent
      BY <1>4 DEF SameHands
    <2>3. PICK i \in 1 .. Len(turns) :
            /\ turns[i].round = live.round /\ turns[i].agent = run.agent
            /\ turns[i].verdict = "approve" /\ turns[i].status = "completed"
            /\ \A j \in i + 1 .. Len(turns) : turns[j].kind = "confirmation"
      BY <1>e, <2>1 DEF OnlyApprovalApproves
    <2>4. i \in 1 .. Len(turns') /\ turns'[i] = turns[i]
      BY <1>e, <1>n, <2>3
    <2>5. \A j \in i + 1 .. Len(turns') : turns'[j].kind = "confirmation"
      BY <1>e, <1>n, <1>x, <2>3
    <2>6. /\ live.open = {}
          /\ <<live.round, run.agent, "approve">> \in journal.verdicts
      BY <2>1 DEF OnlyApprovalApproves
    <2> QED BY <1>2, <1>e, <2>1, <2>2, <2>3, <2>4, <2>5, <2>6
            DEF OnlyApprovalApproves
  <1>11. RefusedOK'
    BY <1>1 DEF RefusedOK, Over
  <1>12. NamedOK'
    BY <1>1, <1>4, <1>e, <1>n, <1>x
       DEF NamedOK, Asked, Landings, SameHands
  <1>13. HeldOK'
    BY <1>1, <1>4 DEF HeldOK, Owned, Judging, Over, Landings, SameHands
  <1>14. ReportsOK'
    BY <1>3 DEF Calm
  <1>15. EndOK' /\ FrozenOK'
    BY <1>1, <1>2, <1>3, Ongoing DEF Calm
  <1> QED BY <1>6, <1>7, <1>8, <1>9, <1>10, <1>11, <1>12, <1>13, <1>14,
             <1>15, <1>17, <1>n
-----------------------------------------------------------------------------
(* The end                                                                 *)

LEMMA FinishStep ==
  ASSUME ReviewAssumption, IInv, Finish
  PROVE  IInv'
  <1> USE DEF IInv, Core
  <1>1. /\ pc = "finish" /\ pc' = "ending"
        /\ UNCHANGED <<plan, token, seen, result, turns, turn, convs, journal>>
        /\ run' = Halted(run, IF token THEN "cancelled" ELSE "ended")
    BY DEF Finish, Halted
  <1>t. live \in LiveType /\ run \in RunType
    BY DEF Typed
  <1>3. Calm
    <2> DEFINE m == IF run.halt = "journal" THEN Fixed(live, "stopped")
                    ELSE live
    <2>1. /\ m \in LiveType
          /\ m.round = live.round
          /\ m.open = live.open
          /\ m.unauthorized = live.unauthorized
          /\ m.reports = live.reports
          /\ m.fixed = live.fixed \/ m.fixed = "stopped"
      BY <1>t, FixedType
    <2>2. Update(m)
      BY DEF Finish
    <2> HIDE DEF m
    <2> QED BY <1>1, <2>1, <2>2, CalmSame
  <1>4. /\ run' \in RunType
        /\ SameHands
        /\ run'.halt = IF token THEN "cancelled" ELSE "ended"
    BY <1>1, <1>t, HaltedType DEF SameHands
  <1>6. Typed'
    <2>1. pc' \in Places
      BY <1>1 DEF Places
    <2> QED BY <1>1, <1>3, <1>4, <2>1, TypedNext DEF Typed, Calm
  <1>7. RoundOK'
    BY <1>1, <1>3 DEF RoundOK, Asked, Landings, Calm
  <1>8. JudgedOK'
    BY <1>1 DEF JudgedOK, Judging
  <1>9. NegativesOK'
    BY <1>1, <1>3 DEF NegativesOK, Judging, Over, Calm
  <1>10. ApprovedOK' /\ OnlyApprovalApproves'
    BY <1>1, <1>3, <1>4, CalmApproves DEF Landings, Over, SameHands
  <1>11. RefusedOK'
    BY <1>1 DEF RefusedOK, Over
  <1>12. NamedOK'
    BY <1>1, <1>4 DEF NamedOK, Asked, Landings, SameHands
  <1>13. HeldOK'
    BY <1>1, <1>4 DEF HeldOK, Owned, Judging, Over, Landings, SameHands
  <1>14. ReportsOK'
    BY <1>3 DEF Calm
  <1>15. EndOK' /\ FrozenOK'
    <2>1. result' = NoSnapshot /\ journal'.end = NoSnapshot
      BY <1>1 DEF EndOK
    <2>2. Snapshot(live, TRUE)' = Snapshot(live', TRUE)
      BY <1>1 DEF Snapshot, LandingStatus, Evidence
    <2>3. EndOK'
      BY <1>1, <2>1 DEF EndOK
    <2>4. token => seen' = Snapshot(live', TRUE)
      BY <1>1, <1>3 DEF FrozenOK, Calm
    <2>5. /\ run'.halt \in {"cancelled", "ended"}
          /\ run'.halt = "cancelled" => token'
      BY <1>1, <1>4
    <2>6. ~token => seen' = NoSnapshot
      BY <1>1 DEF FrozenOK
    <2>7. FrozenOK'
      BY <1>1, <2>1, <2>2, <2>4, <2>5, <2>6 DEF FrozenOK
    <2> QED BY <2>3, <2>7
  <1>16. NegativeStands' /\ RefusalsHandedToGrok'
    BY <1>1, SameTurns
  <1> QED BY <1>6, <1>7, <1>8, <1>9, <1>10, <1>11, <1>12, <1>13, <1>14,
             <1>15, <1>16

\* The journal's last event.
LEMMA EndJournalType ==
  ASSUME Typed, journal.end = NoSnapshot,
         NEW cancelled \in BOOLEAN, NEW ok \in BOOLEAN, NEW l \in LiveType,
         EndJournal(cancelled, ok, l)
  PROVE  /\ journal' \in JournalType
         /\ journal'.verdicts = journal.verdicts
         /\ journal'.end = NoSnapshot \/ journal'.end = Snapshot(l, cancelled)
         /\ journal'.end # NoSnapshot \/ journal'.incomplete
  <1> DEFINE end == IF ok THEN Snapshot(l, cancelled) ELSE journal.end
             incomplete == journal.incomplete \/ ~ok
  <1>1. journal \in JournalType
    BY DEF Typed
  <1>2. journal' = [journal EXCEPT !.incomplete = incomplete, !.end = end]
    BY DEF EndJournal
  <1>3. /\ end \in Snap
        /\ end = NoSnapshot \/ end = Snapshot(l, cancelled)
        /\ end # NoSnapshot \/ incomplete
    BY <1>1, SnapshotType DEF JournalType
  <1>4. incomplete \in BOOLEAN
    BY <1>1 DEF JournalType
  <1> HIDE DEF end, incomplete
  <1>5. /\ journal' \in JournalType
        /\ journal'.verdicts = journal.verdicts
        /\ journal'.end = end
        /\ journal'.incomplete = incomplete
    BY <1>1, <1>2, <1>3, <1>4 DEF JournalType
  <1> QED BY <1>3, <1>5

\* What an ended job's invariant asks besides its stories.
LEMMA Ended ==
  ASSUME IInv, pc' = "done", UNCHANGED <<plan, run, turn, turns>>,
         token' \in BOOLEAN, journal' \in JournalType, Calm,
         journal'.verdicts = journal.verdicts,
         convs' \subseteq Owned, NoConv \notin convs'
  PROVE  /\ Typed' /\ RoundOK' /\ JudgedOK' /\ NegativesOK' /\ ApprovedOK'
         /\ RefusedOK' /\ NamedOK' /\ HeldOK' /\ ReportsOK'
         /\ OnlyApprovalApproves' /\ NegativeStands' /\ RefusalsHandedToGrok'
  <1> USE DEF IInv, Core
  <1>6. Typed'
    <2>1. pc' \in Places
      BY DEF Places
    <2> QED BY <2>1, TypedNext DEF Typed, Calm
  <1>7. RoundOK'
    BY DEF RoundOK, Asked, Landings, Calm
  <1>8. JudgedOK'
    BY DEF JudgedOK, Judging
  <1>9. NegativesOK'
    BY DEF NegativesOK, Judging, Over, Calm
  <1>10. ApprovedOK' /\ OnlyApprovalApproves'
    BY CalmApproves DEF Over
  <1>11. RefusedOK'
    BY DEF RefusedOK, Over
  <1>12. NamedOK'
    BY DEF NamedOK, Asked, Landings
  <1>13. HeldOK'
    BY DEF HeldOK, Owned, Judging, Over, Landings
  <1>14. ReportsOK'
    BY DEF Calm
  <1>16. NegativeStands' /\ RefusalsHandedToGrok'
    BY SameTurns
  <1> QED BY <1>6, <1>7, <1>8, <1>9, <1>10, <1>11, <1>12, <1>13, <1>14,
             <1>16

LEMMA ConcludeStep ==
  ASSUME ReviewAssumption, IInv, NEW ok \in BOOLEAN, Conclude(ok)
  PROVE  IInv'
  <1> USE DEF IInv, Core
  <1> DEFINE cancelled == run.halt = "cancelled"
             l == IF token THEN live ELSE [live EXCEPT !.phase = "finished"]
  <1>1. /\ pc = "ending" /\ pc' = "done"
        /\ UNCHANGED <<plan, token, run, turn, seen, turns>>
        /\ live' = l
        /\ EndJournal(cancelled, ok, l)
        /\ result' = Snapshot(l, cancelled)
        /\ convs' = convs \ {run.kept, run.held}
    BY DEF Conclude
  <1>t. live \in LiveType /\ cancelled \in BOOLEAN /\ token \in BOOLEAN
    BY DEF Typed
  <1>2. /\ l \in LiveType
        /\ l.round = live.round
        /\ l.open = live.open
        /\ l.fixed = live.fixed
        /\ l.unauthorized = live.unauthorized
        /\ l.reports = live.reports
    BY <1>t DEF LiveType, Phase
  <1>3. Update(l)
    BY <1>1 DEF Update
  <1>4. token => l = live
    OBVIOUS
  <1> HIDE DEF l
  <1>5. Calm
    BY <1>1, <1>2, <1>3, CalmSame
  <1>e. result = NoSnapshot /\ journal.end = NoSnapshot
    BY <1>1 DEF EndOK
  <1>6. /\ journal' \in JournalType
        /\ journal'.verdicts = journal.verdicts
        /\ journal'.end = NoSnapshot \/ journal'.end = Snapshot(l, cancelled)
        /\ journal'.end # NoSnapshot \/ journal'.incomplete
    BY <1>1, <1>2, <1>e, <1>t, EndJournalType
  <1>7. convs' \subseteq Owned /\ NoConv \notin convs'
    BY <1>1 DEF HeldOK
  <1>8. /\ Typed' /\ RoundOK' /\ JudgedOK' /\ NegativesOK' /\ ApprovedOK'
        /\ RefusedOK' /\ NamedOK' /\ HeldOK' /\ ReportsOK'
        /\ OnlyApprovalApproves' /\ NegativeStands' /\ RefusalsHandedToGrok'
    BY <1>1, <1>5, <1>6, <1>7, <1>t, Ended
  <1>9. \A c \in BOOLEAN : Snapshot(live, c)' = Snapshot(live', c)
    BY <1>1 DEF Snapshot, LandingStatus, Evidence
  <1>10. EndOK'
    <2>1. Owned' = Owned
      BY <1>1 DEF Owned
    <2>2. \E c \in BOOLEAN : result' = Snapshot(live, c)'
      BY <1>1, <1>9, <1>t
    <2> QED BY <1>1, <1>6, <1>7, <2>1, <2>2 DEF EndOK
  <1>11. FrozenOK'
    <2>1. token => seen' = Snapshot(live', TRUE)
      BY <1>1, <1>4 DEF FrozenOK
    <2>2. token /\ run.halt # "ended" => result' = Snapshot(live', TRUE)
      BY <1>1, <1>4 DEF FrozenOK
    <2> QED BY <1>1, <1>9, <2>1, <2>2 DEF FrozenOK
  <1> QED BY <1>8, <1>10, <1>11

LEMMA UnstartedStep ==
  ASSUME ReviewAssumption, IInv, NEW ok \in BOOLEAN, Unstarted(ok)
  PROVE  IInv'
  <1> USE DEF IInv, Core
  <1>1. /\ pc = "queued" /\ token /\ pc' = "done"
        /\ UNCHANGED <<plan, token, live, run, turn, convs, seen, turns>>
        /\ EndJournal(TRUE, ok, live)
        /\ result' = Snapshot(live, TRUE)
    BY DEF Unstarted
  <1>t. live \in LiveType /\ token \in BOOLEAN
    BY DEF Typed
  <1>5. Calm
    BY <1>1, <1>t, CalmSame DEF Update
  <1>e. result = NoSnapshot /\ journal.end = NoSnapshot
    BY <1>1 DEF EndOK
  <1>6. /\ journal' \in JournalType
        /\ journal'.verdicts = journal.verdicts
        /\ journal'.end = NoSnapshot \/ journal'.end = Snapshot(live, TRUE)
        /\ journal'.end # NoSnapshot \/ journal'.incomplete
    BY <1>1, <1>e, <1>t, EndJournalType
  <1>7. convs' \subseteq Owned /\ NoConv \notin convs'
    BY <1>1 DEF HeldOK, Judging, Over, Landings
  <1>8. /\ Typed' /\ RoundOK' /\ JudgedOK' /\ NegativesOK' /\ ApprovedOK'
        /\ RefusedOK' /\ NamedOK' /\ HeldOK' /\ ReportsOK'
        /\ OnlyApprovalApproves' /\ NegativeStands' /\ RefusalsHandedToGrok'
    BY <1>1, <1>5, <1>6, <1>7, <1>t, Ended
  <1>9. Snapshot(live, TRUE)' = Snapshot(live', TRUE)
    BY <1>1 DEF Snapshot, LandingStatus, Evidence
  <1>10. EndOK'
    <2>1. Owned' = Owned
      BY <1>1 DEF Owned
    <2>2. \E c \in BOOLEAN : result' = Snapshot(live, c)'
      <3>1. \A c \in BOOLEAN : Snapshot(live, c)' = Snapshot(live', c)
        BY <1>1 DEF Snapshot, LandingStatus, Evidence
      <3> QED BY <1>1, <3>1
    <2> QED BY <1>1, <1>6, <1>7, <2>1, <2>2 DEF EndOK
  <1>11. FrozenOK'
    BY <1>1, <1>9 DEF FrozenOK
  <1> QED BY <1>8, <1>10, <1>11

LEMMA CutOffStep ==
  ASSUME ReviewAssumption, IInv, NEW ok \in BOOLEAN, CutOff(ok)
  PROVE  IInv'
  <1> USE DEF IInv, Core
  <1>1. /\ pc \notin {"done", "ending"} /\ pc' = "done"
        /\ UNCHANGED <<plan, token, live, run, turn, seen, result, turns>>
        /\ EndJournal(TRUE, ok, live)
        /\ convs' = convs \ {run.held, run.kept}
    BY DEF CutOff
  <1>t. live \in LiveType /\ token \in BOOLEAN
    BY DEF Typed
  <1>5. Calm
    BY <1>1, <1>t, CalmSame DEF Update
  <1>e. result = NoSnapshot /\ journal.end = NoSnapshot
    BY <1>1 DEF EndOK
  <1>6. /\ journal' \in JournalType
        /\ journal'.verdicts = journal.verdicts
        /\ journal'.end # NoSnapshot \/ journal'.incomplete
    BY <1>1, <1>e, <1>t, EndJournalType
  <1>7. convs' \subseteq Owned /\ NoConv \notin convs'
    BY <1>1 DEF HeldOK
  <1>8. /\ Typed' /\ RoundOK' /\ JudgedOK' /\ NegativesOK' /\ ApprovedOK'
        /\ RefusedOK' /\ NamedOK' /\ HeldOK' /\ ReportsOK'
        /\ OnlyApprovalApproves' /\ NegativeStands' /\ RefusalsHandedToGrok'
    BY <1>1, <1>5, <1>6, <1>7, <1>t, Ended
  <1>9. Snapshot(live, TRUE)' = Snapshot(live', TRUE)
    BY <1>1 DEF Snapshot, LandingStatus, Evidence
  <1>10. EndOK'
    <2>1. Owned' = Owned
      BY <1>1 DEF Owned
    <2> QED BY <1>1, <1>6, <1>7, <1>e, <2>1 DEF EndOK
  <1>11. FrozenOK'
    BY <1>1, <1>9, <1>e DEF FrozenOK
  <1> QED BY <1>8, <1>10, <1>11

LEMMA CancelStep ==
  ASSUME ReviewAssumption, IInv, Cancel
  PROVE  IInv'
  <1> USE DEF IInv, Core
  <1>1. /\ ~token /\ token' = TRUE /\ pc # "done"
        /\ seen' = Snapshot(live, TRUE)
        /\ UNCHANGED <<plan, pc, live, run, turn, convs, journal, result,
                       turns>>
    BY DEF Cancel
  <1>6. Typed'
    BY <1>1, TypedNext DEF Typed
  <1>7. RoundOK'
    BY <1>1 DEF RoundOK
  <1>8. JudgedOK'
    BY <1>1 DEF JudgedOK, Usable
  <1>9. NegativesOK'
    BY <1>1 DEF NegativesOK
  <1>10. ApprovedOK' /\ OnlyApprovalApproves'
    BY <1>1 DEF ApprovedOK, OnlyApprovalApproves
  <1>11. RefusedOK'
    BY <1>1 DEF RefusedOK
  <1>12. NamedOK'
    BY <1>1 DEF NamedOK
  <1>13. HeldOK'
    BY <1>1 DEF HeldOK, Owned
  <1>14. ReportsOK'
    BY <1>1 DEF ReportsOK, Found, MayLand
  <1>15. EndOK' /\ FrozenOK'
    <2>1. result' = NoSnapshot /\ journal'.end = NoSnapshot
      BY <1>1 DEF EndOK
    <2>2. Snapshot(live, TRUE)' = Snapshot(live', TRUE)
      BY <1>1 DEF Snapshot, LandingStatus, Evidence
    <2>3. EndOK'
      BY <1>1, <2>1 DEF EndOK
    <2>4. FrozenOK'
      BY <1>1, <2>1, <2>2 DEF FrozenOK
    <2> QED BY <2>3, <2>4
  <1>16. NegativeStands' /\ RefusalsHandedToGrok'
    BY <1>1, SameTurns
  <1> QED BY <1>6, <1>7, <1>8, <1>9, <1>10, <1>11, <1>12, <1>13, <1>14,
             <1>15, <1>16
-----------------------------------------------------------------------------
(* The theorems                                                            *)

LEMMA Initially ==
  ASSUME ReviewAssumption, Init
  PROVE  IInv
  <1>1. /\ pc = "queued" /\ token = FALSE /\ live = NewLive
        /\ turn = NoTurn /\ convs = {} /\ turns = <<>> /\ plan \in Plans
        /\ seen = NoSnapshot /\ result = NoSnapshot
        /\ journal = [incomplete |-> FALSE, verdicts |-> {},
                      end |-> NoSnapshot]
        /\ run = [NewRun EXCEPT
                    !.handle = IF plan.session THEN CallConv ELSE NoConv]
    BY DEF Init
  <1>2. /\ plan.rounds \in 1 .. MaxRounds
        /\ MaxRounds \in Nat
    <2>1. plan.rounds \in 1 .. MaxRounds
      BY <1>1, PlanType
    <2>2. MaxRounds \in Nat
      BY DEF ReviewAssumption
    <2> QED BY <2>1, <2>2
  <1>3. /\ Nobody \in Ordered
        /\ 0 \in Rounds
        /\ NoConv \in Conv /\ CallConv \in Conv
        /\ 1 \in Nexts
    BY <1>2 DEF Ordered, Rounds, NoConv, CallConv, Conv, Nexts
  <1>4. turns \in Seq(TurnRec) /\ live.reports = <<>> /\ Len(turns) = 0
    BY <1>1 DEF NewLive
  <1>5. live \in LiveType
    <2>1. <<>> \in Seq(Report)
      OBVIOUS
    <2> QED BY <1>1, <1>3, <2>1 DEF NewLive, LiveType, Phase
  <1>6. run \in RunType
    <2> DEFINE h == IF plan.session THEN CallConv ELSE NoConv
    <2>1. h \in Conv
      BY <1>3
    <2>2. run = [NewRun EXCEPT !.handle = h]
      BY <1>1
    <2> HIDE DEF h
    <2> QED BY <1>3, <2>1, <2>2 DEF NewRun, RunType
  <1>7. turn \in TurnType
    BY <1>1 DEF NoTurn, TurnType, Status, Verdict
  <1>8. journal \in JournalType
    <2>1. NoSnapshot \in Snap
      BY DEF NoSnapshot, Snap, Outcome, Evident
    <2> QED BY <1>1, <2>1 DEF JournalType
  <1>9. Typed
    BY <1>1, <1>4, <1>5, <1>6, <1>7, <1>8 DEF Typed, Places
  <1>10. RoundOK
    BY <1>1, <1>2 DEF RoundOK, NewLive, Asked, Landings
  <1>11. JudgedOK /\ RefusedOK /\ NegativesOK
    BY <1>1, <1>4 DEF JudgedOK, Judging, RefusedOK, NegativesOK
  <1>12. ApprovedOK /\ OnlyApprovalApproves
    BY <1>1 DEF ApprovedOK, OnlyApprovalApproves, NewLive, Nobody
  <1>13. NamedOK
    BY <1>1, <1>4 DEF NamedOK, Asked, Landings
  <1>14. HeldOK
    <2>1. run.held = NoConv /\ run.kept = NoConv /\ run.own = FALSE
      BY <1>1 DEF NewRun
    <2> QED BY <1>1, <2>1 DEF HeldOK
  <1>15. ReportsOK
    BY <1>4 DEF ReportsOK
  <1>16. EndOK
    BY <1>1 DEF EndOK
  <1>17. FrozenOK
    BY <1>1 DEF FrozenOK
  <1>18. NegativeStands /\ RefusalsHandedToGrok
    BY <1>1 DEF NegativeStands, RefusalsHandedToGrok
  <1> QED BY <1>9, <1>10, <1>11, <1>12, <1>13, <1>14, <1>15, <1>16, <1>17,
             <1>18 DEF IInv, Core

LEMMA Stuttering ==
  ASSUME IInv, UNCHANGED vars
  PROVE  IInv'
  <1> USE DEF IInv, Core, vars
  <1>1. Typed'
    BY TypedNext DEF Typed
  <1>2. RoundOK' /\ NegativesOK' /\ ApprovedOK' /\ OnlyApprovalApproves'
    BY DEF RoundOK, NegativesOK, ApprovedOK, OnlyApprovalApproves
  <1>3. JudgedOK'
    BY DEF JudgedOK, Usable
  <1>4. RefusedOK' /\ NamedOK'
    BY DEF RefusedOK, NamedOK
  <1>5. HeldOK'
    BY DEF HeldOK, Owned
  <1>6. ReportsOK'
    BY DEF ReportsOK, Found, MayLand
  <1>7. \A c \in BOOLEAN : Snapshot(live, c)' = Snapshot(live, c)
    BY DEF Snapshot, LandingStatus, Evidence
  <1>8. EndOK' /\ FrozenOK'
    BY <1>7 DEF EndOK, FrozenOK, Owned
  <1>9. NegativeStands' /\ RefusalsHandedToGrok'
    BY SameTurns
  <1> QED BY <1>1, <1>2, <1>3, <1>4, <1>5, <1>6, <1>8, <1>9

LEMMA NextKeeps ==
  ASSUME ReviewAssumption, IInv, [Next]_vars
  PROVE  IInv'
  <1>1. CASE UNCHANGED vars
    BY <1>1, Stuttering
  <1>2. ASSUME NEW ok \in BOOLEAN, Step(ok)
        PROVE  IInv'
    <2>1. CASE StartBuilder(ok)
      BY <2>1, StartBuilderStep
    <2>2. CASE \E t \in BuilderTurns : BuilderEnds(t, ok)
      BY <2>2, BuilderEndsStep
    <2>3. CASE AskReviewer(ok)
      BY <2>3, AskReviewerStep
    <2>4. CASE \E t \in ReviewerTurns : ReviewerEnds(t, ok) \/ RepairEnds(t, ok)
      BY <2>4, ReviewerEndsStep, RepairEndsStep
    <2>5. CASE StartRepair(ok)
      BY <2>5, StartRepairStep
    <2>6. CASE StartLanding(ok)
      BY <2>6, StartLandingStep
    <2>7. CASE Landed(ok)
      BY <2>7, LandedStep
    <2>8. CASE \E s \in {"completed", "timeout", "cancelled"},
                  c \in {"covered", "disputed", "no_result", "malformed"} :
                 ConfirmEnds(s, c, ok)
      BY <2>8, ConfirmEndsStep
    <2>9. CASE Conclude(ok)
      BY <2>9, ConcludeStep
    <2>10. CASE Unstarted(ok)
      BY <2>10, UnstartedStep
    <2> QED BY <1>2, <2>1, <2>2, <2>3, <2>4, <2>5, <2>6, <2>7, <2>8, <2>9,
               <2>10 DEF Step
  <1>3. CASE Built
    BY <1>3, BuiltStep
  <1>4. CASE NobodyLeft
    BY <1>4, NobodyLeftStep
  <1>5. CASE Reviewed
    BY <1>5, ReviewedStep
  <1>6. CASE NotReviewed
    BY <1>6, NotReviewedStep
  <1>7. CASE NotRepaired
    BY <1>7, NotRepairedStep
  <1>8. CASE Settle
    BY <1>8, SettleStep
  <1>9. CASE Finish
    BY <1>9, FinishStep
  <1>10. CASE Cancel
    BY <1>10, CancelStep
  <1>11. CASE \E ok \in BOOLEAN : CutOff(ok)
    BY <1>11, CutOffStep
  <1> QED BY <1>1, <1>2, <1>3, <1>4, <1>5, <1>6, <1>7, <1>8, <1>9, <1>10,
             <1>11 DEF Next, Loop

\* The inductive invariant holds of every reviewed job, whoever builds and
\* reviews, whatever the agents answer, and whenever the job is cancelled or
\* its session ends.
THEOREM ReviewInvariance ==
  ASSUME ReviewAssumption
  PROVE  Spec => []IInv
  <1>1. Init => IInv
    BY Initially
  <1>2. IInv /\ [Next]_vars => IInv'
    BY NextKeeps
  <1> QED BY <1>1, <1>2, PTL DEF Spec

\* A confirmed result: some reviewer found every landing.
LEMMA ConfirmedHolds ==
  ASSUME ReviewAssumption, IInv
  PROVE  ConfirmedIsChecked
  <1> SUFFICES ASSUME result # NoSnapshot, result.evidence = "confirmed",
                      NEW i \in DOMAIN live.reports
               PROVE  /\ live.reports[i].check = "covered"
                      /\ \E k \in DOMAIN turns :
                           /\ turns[k].round = live.reports[i].round
                           /\ turns[k].agent = live.reports[i].by
                           /\ turns[k].kind \in
                                IF live.reports[i].kind = "landing"
                                THEN {"confirmation"} ELSE {"review", "repair"}
                           /\ \/ MayLand(live.reports[i].kind)
                              \/ result.unauthorized
    BY DEF ConfirmedIsChecked
  <1>1. PICK c \in BOOLEAN : result = Snapshot(live, c)
    BY DEF IInv, Core, EndOK
  <1>2. /\ live \in LiveType
        /\ live.reports \in Seq(Report)
        /\ turns \in Seq(TurnRec)
    BY DEF IInv, Typed, LiveType
  <1>3. i \in 1 .. Len(live.reports) /\ DOMAIN turns = 1 .. Len(turns)
    BY <1>2, SeqLen
  <1>4. live.reports[i].check = "covered"
    BY <1>1, <1>2, <1>3, ConfirmedCovers
  <1>5. result.unauthorized = live.unauthorized
    BY <1>1 DEF Snapshot
  <1>6. /\ MayLand(live.reports[i].kind) \/ live.unauthorized
        /\ Found(live.reports[i])
    BY <1>3, <1>4 DEF IInv, Core, ReportsOK
  <1> QED BY <1>3, <1>4, <1>5, <1>6 DEF Found

\* Only an approving verdict of a run that completed approves, a negative one
\* ends its round, a refused review goes to Grok alone, and a landing counts
\* as confirmed only when a reviewer's turn found it.
THEOREM VerdictsAlwaysStand ==
  ASSUME ReviewAssumption
  PROVE  Spec => []VerdictsStand
  <1>1. IInv => VerdictsStand
    <2> SUFFICES ASSUME IInv
                 PROVE  VerdictsStand
      OBVIOUS
    <2>1. TypeOK
      BY DEF IInv, Typed, TypeOK, LiveType, RunType, Rounds
    <2>2. ConfirmedIsChecked
      BY ConfirmedHolds
    <2> QED BY <2>1, <2>2 DEF VerdictsStand, IInv, Core
  <1> QED BY <1>1, ReviewInvariance, PTL

\* What a cancel reads and what the result holds, once nothing is written any
\* more, differ at most in a landing the cancel calls unknown.
LEMMA SnapshotsDiffer ==
  ASSUME NEW c \in BOOLEAN
  PROVE  \/ Snapshot(live, c) = Snapshot(live, TRUE)
         \/ OnlyLandingUnknown(Snapshot(live, TRUE), Snapshot(live, c))
  <1> DEFINE o == IF live.fixed = Nobody THEN "stopped" ELSE live.fixed
             u == live.unauthorized
             e(z) == IF z = "landed" THEN Evidence(live) ELSE "none"
             S(z) == [outcome |-> o, landing |-> z, unauthorized |-> u,
                      evidence |-> e(z)]
             x == LandingStatus(live, o, c)
             y == LandingStatus(live, o, TRUE)
  <1>1. y = x \/ y = "unknown"
    BY DEF LandingStatus
  <1>2. Snapshot(live, c) = S(x) /\ Snapshot(live, TRUE) = S(y)
    BY DEF Snapshot
  <1>3. OnlyLandingUnknown(S("unknown"), S(x))
    <2>1. e("unknown") = "none"
      OBVIOUS
    <2> HIDE DEF o, u, e, x
    <2> QED BY <2>1 DEF OnlyLandingUnknown
  <1> HIDE DEF S, x, y
  <1>4. CASE y = x
    BY <1>2, <1>4
  <1>5. CASE y = "unknown"
    BY <1>2, <1>3, <1>5
  <1> QED BY <1>1, <1>4, <1>5

\* The stories of the job agree: what agent_cancel read is the result and the
\* journal's last event, and when the cancel came while the job ended, they
\* differ at most in a landing agent_cancel calls unknown.
THEOREM StoriesAlwaysAgree ==
  ASSUME ReviewAssumption
  PROVE  Spec => []StoriesAgree
  <1>1. IInv => StoriesAgree
    <2> SUFFICES ASSUME IInv
                 PROVE  StoriesAgree
      OBVIOUS
    <2>1. CancelAgrees
      <3>1. result # NoSnapshot /\ journal.end # NoSnapshot
              => journal.end = result
        BY DEF IInv, Core, EndOK
      <3>2. ASSUME seen # NoSnapshot, result # NoSnapshot
            PROVE  \/ result = seen
                   \/ CancelledTooLate /\ OnlyLandingUnknown(seen, result)
        <4>1. token /\ seen = Snapshot(live, TRUE)
          BY <3>2 DEF IInv, Core, FrozenOK, Typed
        <4>2. CASE run.halt # "ended"
          BY <3>2, <4>1, <4>2 DEF IInv, Core, FrozenOK
        <4>3. CASE run.halt = "ended"
          <5>1. PICK c \in BOOLEAN : result = Snapshot(live, c)
            BY <3>2 DEF IInv, Core, EndOK
          <5> QED BY <4>1, <4>3, <5>1, SnapshotsDiffer DEF CancelledTooLate
        <4> QED BY <4>2, <4>3
      <3> QED BY <3>1, <3>2 DEF CancelAgrees
    <2>2. JournalTells
      BY DEF JournalTells, IInv, Core, EndOK
    <2>3. NothingHeld
      BY DEF NothingHeld, IInv, Core, EndOK, Owned
    <2> QED BY <2>1, <2>2, <2>3 DEF StoriesAgree
  <1> QED BY <1>1, ReviewInvariance, PTL

\* Once the token fired, nothing is written to the live state any more: what
\* a cancel, the status and the result read is the same (Live::update).
THEOREM CancelFreezes ==
  ASSUME ReviewAssumption
  PROVE  Spec => [][token => token' /\ live' = live]_vars
  <1>1. ASSUME IInv, [Next]_vars
        PROVE  [token => token' /\ live' = live]_vars
    <2> SUFFICES ASSUME Next, token
                 PROVE  token' /\ live' = live
      BY <1>1
    <2> USE DEF Update
    <2>1. CASE \E ok \in BOOLEAN : Step(ok)
      <3> PICK ok \in BOOLEAN : Step(ok)
        BY <2>1
      <3>1. CASE StartBuilder(ok) \/ AskReviewer(ok)
        BY <3>1 DEF StartBuilder, AskReviewer
      <3>2. CASE \E t \in BuilderTurns : BuilderEnds(t, ok)
        BY <3>2 DEF BuilderEnds
      <3>3. CASE \E t \in ReviewerTurns : ReviewerEnds(t, ok) \/ RepairEnds(t, ok)
        BY <3>3 DEF ReviewerEnds, RepairEnds
      <3>4. CASE StartRepair(ok) \/ StartLanding(ok)
        BY <3>4 DEF StartRepair, StartLanding
      <3>5. CASE Landed(ok)
        BY <3>5 DEF Landed
      <3>6. CASE \E s \in {"completed", "timeout", "cancelled"},
                    c \in {"covered", "disputed", "no_result", "malformed"} :
                   ConfirmEnds(s, c, ok)
        BY <3>6 DEF ConfirmEnds
      <3>7. CASE Conclude(ok) \/ Unstarted(ok)
        BY <3>7 DEF Conclude, Unstarted
      <3> QED BY <3>1, <3>2, <3>3, <3>4, <3>5, <3>6, <3>7 DEF Step
    <2>2. CASE Built \/ NobodyLeft \/ Reviewed
      BY <2>2 DEF Built, NobodyLeft, Reviewed, Stop
    <2>3. CASE NotReviewed \/ NotRepaired
      BY <2>3 DEF NotReviewed, NotRepaired, NoVerdict
    <2>4. CASE Settle \/ Finish
      BY <2>4 DEF Settle, Finish
    <2>5. CASE Cancel \/ \E ok \in BOOLEAN : CutOff(ok)
      BY <2>5 DEF Cancel, CutOff
    <2> QED BY <2>1, <2>2, <2>3, <2>4, <2>5 DEF Next, Loop
  <1> QED BY <1>1, ReviewInvariance, PTL DEF Spec
=============================================================================
