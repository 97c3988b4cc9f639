------------------------------ MODULE Takeover ------------------------------
(***************************************************************************)
(* The owner takes a delegated conversation over in its agent's terminal   *)
(* (scv-tools/src/workbench.rs, delegate/takeover.rs, the lanes of         *)
(* delegate/background/lane.rs, and the calls of background.rs).           *)
(*                                                                         *)
(* Calls to a conversation stand in its lane and only the first runs a     *)
(* turn. A takeover takes the lane of an idle conversation, or a place     *)
(* right behind the running turn of a background job, which it then stops. *)
(* Clients, jobs, the agent's process, the end of the session and the stop *)
(* of the daemon interleave at every await and between the locks: of       *)
(* reserve_takeover, the lane, with what forbids a takeover read just      *)
(* before, is one step and the conversation's store the next. All          *)
(* conversations are of one session, and none is forgotten.                *)
(***************************************************************************)
EXTENDS Naturals, Sequences, FiniteSets, SequencesExt

CONSTANTS
    Convs, Clients, Jobs,
    Kinds,       \* the calls made: "job" in the background, "call" in the foreground
    Births,      \* how conversations are at first: "old", "first" turn, "review" turn
    MAX_TAKEOVERS,
    Asks         \* bound: approval requests of each job

TakeoverAssumption ==
    /\ IsFiniteSet(Convs) /\ IsFiniteSet(Clients) /\ IsFiniteSet(Jobs)
    /\ Kinds \subseteq {"job", "call"} /\ Births \subseteq {"old", "first", "review"}
    /\ MAX_TAKEOVERS \in Nat \ {0} /\ Asks \in Nat

VARIABLES
    lane,       \* places of each conversation's lane: <<kind, who>>
    busy,       \* ConversationStore: what keeps it busy: none, turn, own or taken
    sess,       \* the agent's session ID is known
    review,     \* a reviewed job pins the conversation
    kept,       \* its live ACP server between turns
    job,        \* calls
    ask,        \* the approval request of each job
    term,       \* the agent's terminal process: none, running, exited
    ending,     \* it was asked to end
    held,       \* Workbench::takeovers
    req,        \* attach requests
    lock,       \* Workbench::attaching
    live,       \* the session is registered
    stop        \* the daemon: no, cancelled, closing

vars == <<lane, busy, sess, review, kept, job, ask, term, ending, held, req, lock, live, stop>>
convVars == <<lane, busy, sess, review, kept>>
termVars == <<term, ending, held>>

NoJob == [st |-> "none", conv |-> CHOOSE c \in Convs : TRUE, kind |-> "job", cancelled |-> FALSE,
          waits |-> FALSE]
NoAsk == [st |-> "none", said |-> "none", got |-> "none", n |-> 0]
NotHeld == [on |-> FALSE, lease |-> FALSE, by |-> CHOOSE k \in Clients : TRUE, finished |-> FALSE]
NoReq == [pc |-> "idle", conv |-> CHOOSE c \in Convs : TRUE, interrupt |-> FALSE, stops |-> FALSE,
          job |-> CHOOSE j \in Jobs : TRUE]

Init ==
    \E birth \in [Convs -> Births] :
        /\ lane = [c \in Convs |-> << >>]
        /\ busy = [c \in Convs |-> IF birth[c] = "old" THEN "none" ELSE "own"]
        /\ sess = [c \in Convs |-> birth[c] = "old"]
        /\ review = [c \in Convs |-> birth[c] = "review"]
        /\ kept = [c \in Convs |-> FALSE]
        /\ job = [j \in Jobs |-> NoJob] /\ ask = [j \in Jobs |-> NoAsk]
        /\ term = [c \in Convs |-> "none"] /\ ending = [c \in Convs |-> FALSE]
        /\ held = [c \in Convs |-> NotHeld]
        /\ req = [k \in Clients |-> NoReq] /\ lock = FALSE /\ live = TRUE /\ stop = "no"

-----------------------------------------------------------------------------
(* Lanes.                                                                  *)

Take(k) == <<"take", k>>
Place(j) == <<job[j].kind, j>>
Joined(c, p) == [lane EXCEPT ![c] = Append(@, p)]
Left(c, p) == [lane EXCEPT ![c] = RemoveFirst(@, p)]
IsFirst(c, p) == lane[c] # << >> /\ Head(lane[c]) = p

IsTake(p) == p[1] = "take"

\* Lanes::has_takeover
HasTakeover(c) == \E i \in DOMAIN lane[c] : IsTake(lane[c][i])

\* Lanes::front
Foremost(c) == IF lane[c] = << >> THEN <<"none", 0>> ELSE Head(lane[c])

\* Mutant: the place is the last of the lane.
ReservedLast(c, k) == Joined(c, Take(k))

\* Lanes::reserve_takeover: right behind the first call.
Reserved(c, k) ==
    [lane EXCEPT ![c] = IF @ = << >> THEN <<Take(k)>> ELSE <<Head(@), Take(k)>> \o Tail(@)]

-----------------------------------------------------------------------------
(* Calls.                                                                  *)

\* A call to the conversation: it takes its place, and runs next when the lane
\* was empty and no turn ran, else waits (a background job is queued, a
\* foreground call holds its caller). Refused at agent.max_queued_turns.
Send(j, c, kind) ==
    LET next == lane[c] = << >> /\ busy[c] = "none"
    IN
    /\ live /\ job[j].st = "none"
    /\ job' = [job EXCEPT ![j] = [NoJob EXCEPT !.conv = c, !.kind = kind, !.waits = ~next,
                                               !.st = IF next THEN "ready" ELSE "queued"]]
    /\ lane' = Joined(c, <<kind, j>>)
    /\ UNCHANGED <<busy, sess, review, kept, ask, termVars, req, lock, live, stop>>

\* Place::wait_first
First(j) ==
    /\ job[j].st = "queued" /\ IsFirst(job[j].conv, Place(j))
    /\ job' = [job EXCEPT ![j].st = "ready"]
    /\ UNCHANGED <<convVars, ask, termVars, req, lock, live, stop>>

\* ConversationStore::begin; one that waited also waits for the store.
Begin(j) ==
    LET c == job[j].conv
        runs == busy[c] = "none" /\ sess[c] /\ ~job[j].cancelled
    IN
    /\ job[j].st = "ready"
    /\ job[j].waits => busy[c] = "none" \/ job[j].cancelled
    /\ job' = [job EXCEPT ![j].st = IF runs THEN "turn" ELSE "over"]
    /\ busy' = IF runs THEN [busy EXCEPT ![c] = "turn"] ELSE busy
    /\ UNCHANGED <<lane, sess, review, kept, ask, termVars, req, lock, live, stop>>

\* The turn ends by itself or stopped; an ACP server may be kept.
EndTurn(j, keeps) ==
    LET c == job[j].conv
    IN
    /\ job[j].st = "turn" /\ ask[j].st \in {"none", "over"}
    /\ job' = [job EXCEPT ![j].st = "over"]
    /\ busy' = [busy EXCEPT ![c] = "none"]
    /\ kept' = [kept EXCEPT ![c] = keeps]
    /\ UNCHANGED <<lane, sess, review, ask, termVars, req, lock, live, stop>>

\* The place is dropped before the result is visible.
Leave(j) ==
    /\ job[j].st = "over" \/ (job[j].st = "queued" /\ job[j].cancelled)
    /\ lane' = Left(job[j].conv, Place(j))
    /\ job' = [job EXCEPT ![j].st = "done"]
    /\ UNCHANGED <<busy, sess, review, kept, ask, termVars, req, lock, live, stop>>

Active(j) == job[j].st \notin {"none", "done"}

\* BackgroundJobs::cancel_for_owner, agent_cancel, or the caller's own cancel.
Cancel(j) ==
    /\ Active(j) /\ ~job[j].cancelled
    /\ job' = [job EXCEPT ![j].cancelled = TRUE]
    /\ UNCHANGED <<convVars, ask, termVars, req, lock, live, stop>>

\* A new conversation's first turn, and a reviewed job's turns in it, have no
\* place in the lane.
OwnTurnEnds(c) ==
    /\ busy[c] = "own"
    /\ busy' = [busy EXCEPT ![c] = "none"] /\ sess' = [sess EXCEPT ![c] = TRUE]
    /\ UNCHANGED <<lane, review, kept, job, ask, termVars, req, lock, live, stop>>

ReviewTurn(c) ==
    /\ review[c] /\ busy[c] = "none"
    /\ busy' = [busy EXCEPT ![c] = "own"]
    /\ UNCHANGED <<lane, sess, review, kept, job, ask, termVars, req, lock, live, stop>>

ReviewEnds(c) ==
    /\ review[c] /\ busy[c] # "own"
    /\ review' = [review EXCEPT ![c] = FALSE]
    /\ UNCHANGED <<lane, busy, sess, kept, job, ask, termVars, req, lock, live, stop>>

-----------------------------------------------------------------------------
(* Attended approvals.                                                     *)

\* AttendedGate::approve and Workbench::ask, while the owner watches.
Ask(j) ==
    /\ job[j].st = "turn" /\ job[j].kind = "job" /\ ask[j].st \in {"none", "over"}
    /\ ask[j].n < Asks /\ ~job[j].cancelled
    /\ ask' = [ask EXCEPT ![j] = [NoAsk EXCEPT !.st = "open", !.n = ask[j].n + 1]]
    /\ UNCHANGED <<convVars, job, termVars, req, lock, live, stop>>

\* Workbench::approve takes the sender under the lock, then sends: refused
\* when the waiter has closed its end.
Approve(j) ==
    /\ ask[j].st = "open"
    /\ ask' = [ask EXCEPT ![j].st = "taken"]
    /\ UNCHANGED <<convVars, job, termVars, req, lock, live, stop>>

Answer(j, yes) ==
    /\ ask[j].st = "taken"
    /\ ask' = [ask EXCEPT ![j].st = "sent", ![j].said = yes]
    /\ UNCHANGED <<convVars, job, termVars, req, lock, live, stop>>

AnswerRefused(j) ==
    /\ ask[j].st = "closed"
    /\ ask' = [ask EXCEPT ![j].st = "over"]
    /\ UNCHANGED <<convVars, job, termVars, req, lock, live, stop>>

\* The waiter's select: the answer; at the deadline or the cancellation it
\* closes its end and takes what was already sent.
Decided(a) == IF a.st = "sent" THEN {a.said} ELSE {"no"}

Decide(j) ==
    /\ ask[j].st \in {"open", "taken", "sent"}
    /\ \E got \in Decided(ask[j]) :
          ask' = [ask EXCEPT ![j].st = IF @ = "taken" THEN "closed" ELSE "over",
                             ![j].got = IF job[j].cancelled /\ ask[j].st # "sent"
                                         THEN "cancelled" ELSE got]
    /\ UNCHANGED <<convVars, job, termVars, req, lock, live, stop>>

Pending(j) == ask[j].st \in {"open", "taken", "sent"}

-----------------------------------------------------------------------------
(* Decisions of attach.                                                    *)

\* obstacles: what keeps a conversation from being taken over, besides a turn
\* that runs.
Others(c) == busy[c] = "taken" \/ review[c] \/ ~sess[c]
Obstacles(c) == Others(c) \/ busy[c] # "none"

\* BackgroundCapable::take_over, when nothing is to be stopped.
Free(c) == lane[c] = << >> /\ ~Obstacles(c)

\* BackgroundCapable::reserve_takeover takes its place: nothing is in the way,
\* and the call ahead, if any, is a job's.
Placeable(c) == ~Others(c) /\ ~HasTakeover(c) /\ Foremost(c)[1] \in {"none", "job"}

\* It keeps the place when that job's turn runs, and none does without a job.
Reservable(c) == Placeable(c) /\ (Foremost(c)[1] = "job") = (busy[c] # "none")

RunningTakeovers == Cardinality({c \in Convs : held[c].on /\ ~held[c].finished})

\* Mutant: the offer forgets that a reviewed job holds the conversation.
OfferUnreviewed(c) ==
    IF busy[c] = "taken" \/ HasTakeover(c) THEN "taken over"
    ELSE IF ~sess[c] THEN "no"
    ELSE IF Foremost(c)[1] = "none" /\ busy[c] = "none"
         THEN IF RunningTakeovers >= MAX_TAKEOVERS THEN "no" ELSE "ready"
    ELSE IF Foremost(c)[1] = "job" /\ busy[c] # "none" /\ ~Pending(Foremost(c)[2])
         THEN IF RunningTakeovers >= MAX_TAKEOVERS THEN "no" ELSE "interrupt"
    ELSE "no"

\* BackgroundCapable::attach_offer with the workbench's settle_offer.
Offer(c) ==
    IF busy[c] = "taken" \/ HasTakeover(c) THEN "taken over"
    ELSE IF Others(c) THEN "no"
    ELSE LET starts == CASE Foremost(c)[1] = "none" /\ busy[c] = "none" -> "ready"
                         [] Foremost(c)[1] = "job" /\ busy[c] # "none" /\ ~Pending(Foremost(c)[2])
                              -> "interrupt"
                         [] OTHER -> "no"
         IN IF RunningTakeovers >= MAX_TAKEOVERS THEN "no" ELSE starts

-----------------------------------------------------------------------------
(* Workbench::take_terminal.                                               *)

Refuse(k) == req' = [req EXCEPT ![k] = NoReq] /\ lock' = FALSE

\* attach_running: the terminal goes to this client; one that closed is
\* forgotten.
Attaches(k, c) == held' = [held EXCEPT ![c].lease = TRUE, ![c].by = k]
Runs(c) == held[c].on /\ ~held[c].finished

Attach(k, c, interrupt) ==
    /\ stop = "no" /\ req[k].pc = "idle"
    /\ IF Runs(c) THEN Attaches(k, c) /\ UNCHANGED req
       ELSE /\ held' = [held EXCEPT ![c] = NotHeld]
            /\ req' = [req EXCEPT ![k] = [NoReq EXCEPT !.pc = "wait", !.conv = c,
                                                       !.interrupt = interrupt]]
    /\ UNCHANGED <<convVars, job, ask, term, ending, lock, live, stop>>

MayStart == stop # "closing" /\ RunningTakeovers < MAX_TAKEOVERS /\ live

\* With the attaching lock: the checks, and the place in the lane. What is in
\* the way only ends meanwhile, so it is read with the lane.
Reserve(k) ==
    LET c == req[k].conv
        go == MayStart /\ IF req[k].interrupt THEN Placeable(c) ELSE lane[c] = << >>
        stops == Foremost(c)[1] = "job"
    IN
    /\ req[k].pc = "wait" /\ ~lock
    /\ \/ Runs(c) /\ Attaches(k, c) /\ Refuse(k) /\ UNCHANGED lane
       \/ ~Runs(c) /\ ~go /\ Refuse(k) /\ UNCHANGED <<held, lane>>
       \/ /\ ~Runs(c) /\ go
          /\ lane' = Reserved(c, k)
          /\ req' = [req EXCEPT ![k].pc = IF req[k].interrupt THEN "placed" ELSE "reserved",
                                ![k].stops = stops, ![k].job = IF stops THEN Foremost(c)[2] ELSE @]
          /\ lock' = TRUE /\ UNCHANGED held
    /\ UNCHANGED <<busy, sess, review, kept, job, ask, term, ending, live, stop>>

\* With the place held: the turn it is to stop runs, and no other.
Seat(k) ==
    LET c == req[k].conv
    IN
    /\ req[k].pc = "placed"
    /\ IF req[k].stops = (busy[c] # "none")
       THEN req' = [req EXCEPT ![k].pc = "reserved"] /\ UNCHANGED <<lock, lane>>
       ELSE Refuse(k) /\ lane' = Left(c, Take(k))
    /\ UNCHANGED <<busy, sess, review, kept, job, ask, termVars, live, stop>>

\* A job that waits for the owner's approval, or is not the one named, is not
\* stopped.
Confirm(k) ==
    /\ req[k].pc = "reserved" /\ req[k].stops
    /\ \/ /\ ~Pending(req[k].job)
          /\ req' = [req EXCEPT ![k].pc = "confirmed"]
          /\ UNCHANGED <<lock, lane>>
       \/ Refuse(k) /\ lane' = Left(req[k].conv, Take(k))
    /\ UNCHANGED <<busy, sess, review, kept, job, ask, termVars, live, stop>>

\* cancel_for_owner; one that finished meanwhile has let its turn go.
StopJob(k) ==
    LET r == req[k]
    IN
    /\ r.pc = "confirmed"
    /\ job' = IF Active(r.job) THEN [job EXCEPT ![r.job].cancelled = TRUE] ELSE job
    /\ req' = [req EXCEPT ![k].pc = "first"]
    /\ UNCHANGED <<convVars, ask, termVars, lock, live, stop>>

\* The conversation is held: at once with no job to stop, else after
\* wait_first and wait_idle.
TakeOver(k) ==
    LET c == req[k].conv
    IN
    /\ \/ req[k].pc = "reserved" /\ ~req[k].stops
       \/ req[k].pc = "first" /\ IsFirst(c, Take(k)) /\ busy[c] = "none"
    /\ IF Obstacles(c)
       THEN Refuse(k) /\ lane' = Left(c, Take(k)) /\ UNCHANGED busy
       ELSE /\ busy' = [busy EXCEPT ![c] = "taken"]
            /\ req' = [req EXCEPT ![k].pc = "open"] /\ UNCHANGED <<lane, lock>>
    /\ UNCHANGED <<sess, review, kept, job, ask, termVars, live, stop>>

\* INTERRUPT_WAIT has passed.
WaitedTooLong(k) ==
    /\ req[k].pc = "first"
    /\ Refuse(k) /\ lane' = Left(req[k].conv, Take(k))
    /\ UNCHANGED <<busy, sess, review, kept, job, ask, termVars, live, stop>>

\* Mutant: the kept server is left to the conversation.
StopKeptNot(k) ==
    /\ req[k].pc = "open"
    /\ req' = [req EXCEPT ![k].pc = "start"]
    /\ UNCHANGED <<convVars, job, ask, termVars, lock, live, stop>>

\* open_terminal: what the conversation kept is stopped first.
StopKept(k) ==
    /\ req[k].pc = "open"
    /\ kept' = [kept EXCEPT ![req[k].conv] = FALSE]
    /\ req' = [req EXCEPT ![k].pc = "start"]
    /\ UNCHANGED <<lane, busy, sess, review, job, ask, termVars, lock, live, stop>>

\* takeover::start; a failure lets hold and place go.
StartTerminal(k, ok) ==
    LET c == req[k].conv
    IN
    /\ req[k].pc = "start"
    /\ IF ok
       THEN /\ term' = [term EXCEPT ![c] = "running"] /\ ending' = [ending EXCEPT ![c] = FALSE]
            /\ req' = [req EXCEPT ![k].pc = "started"] /\ UNCHANGED <<lane, busy, lock>>
       ELSE /\ Refuse(k) /\ lane' = Left(c, Take(k)) /\ busy' = [busy EXCEPT ![c] = "none"]
            /\ UNCHANGED <<term, ending>>
    /\ UNCHANGED <<sess, review, kept, job, ask, held, live, stop>>

\* It is kept unless SCV began stopping meanwhile.
Keep(k) ==
    LET c == req[k].conv
    IN
    /\ req[k].pc = "started"
    /\ IF stop # "closing"
       THEN /\ held' = [held EXCEPT ![c] = [NotHeld EXCEPT !.on = TRUE, !.lease = TRUE, !.by = k,
                                                           !.finished = term[c] = "none"]]
            /\ UNCHANGED ending
       ELSE ending' = [ending EXCEPT ![c] = TRUE] /\ UNCHANGED held
    /\ Refuse(k)
    /\ UNCHANGED <<convVars, job, ask, term, live, stop>>

\* The daemon's stop drops requests at their awaits, with what they hold.
DropRequest(k) ==
    LET c == req[k].conv
    IN
    /\ stop # "no" /\ req[k].pc \in {"wait", "first", "open", "start"}
    /\ req' = [req EXCEPT ![k] = NoReq]
    /\ lock' = IF req[k].pc = "wait" THEN lock ELSE FALSE
    /\ lane' = Left(c, IF req[k].pc = "wait" THEN <<"none", 0>> ELSE Take(k))
    /\ busy' = IF req[k].pc \in {"open", "start"} THEN [busy EXCEPT ![c] = "none"] ELSE busy
    /\ UNCHANGED <<sess, review, kept, job, ask, termVars, live, stop>>

-----------------------------------------------------------------------------
(* The terminal and its clients.                                           *)

\* The agent's UI exits, by itself, hung up or killed.
Exit(c) ==
    /\ term[c] = "running"
    /\ term' = [term EXCEPT ![c] = "exited"]
    /\ UNCHANGED <<convVars, job, ask, ending, held, req, lock, live, stop>>

\* reap: the group is stopped, and only then the conversation is let go.
Reap(c) ==
    /\ term[c] = "exited"
    /\ term' = [term EXCEPT ![c] = "none"]
    /\ busy' = [busy EXCEPT ![c] = "none"]
    /\ lane' = [lane EXCEPT ![c] = RemoveFirstMatch(@, IsTake)]
    /\ held' = [held EXCEPT ![c].finished = held[c].on]
    /\ UNCHANGED <<sess, review, kept, job, ask, ending, req, lock, live, stop>>

\* end_takeover: removed, then ended.
EndTakeover(c) ==
    /\ held[c].on
    /\ held' = [held EXCEPT ![c] = NotHeld]
    /\ ending' = [ending EXCEPT ![c] = @ \/ ~held[c].finished]
    /\ UNCHANGED <<convVars, job, ask, term, req, lock, live, stop>>

\* detach, and a lease not read for ATTACH_LEASE.
Detach(c) ==
    /\ Runs(c) /\ held[c].lease
    /\ held' = [held EXCEPT ![c].lease = FALSE]
    /\ UNCHANGED <<convVars, job, ask, term, ending, req, lock, live, stop>>

\* expire_takeovers: closed for CLOSED_KEPT.
Expire(c) ==
    /\ held[c].on /\ held[c].finished
    /\ held' = [held EXCEPT ![c] = NotHeld]
    /\ UNCHANGED <<convVars, job, ask, term, ending, req, lock, live, stop>>

EndAll ==
    /\ ending' = [c \in Convs |-> ending[c] \/ Runs(c)]
    /\ held' = [c \in Convs |-> NotHeld]

\* SessionHandle's drop: its takeovers are ended, its jobs stopped.
EndSession ==
    /\ live /\ live' = FALSE
    /\ EndAll
    /\ job' = [j \in Jobs |-> [job[j] EXCEPT !.cancelled = @ \/ Active(j)]]
    /\ UNCHANGED <<convVars, ask, term, req, lock, stop>>

Stop ==
    /\ stop = "no" /\ stop' = "cancelled"
    /\ UNCHANGED <<convVars, job, ask, termVars, req, lock, live>>

\* end_takeovers, with the takeovers' lock held over the flag.
Close ==
    /\ stop = "cancelled" /\ stop' = "closing"
    /\ EndAll
    /\ UNCHANGED <<convVars, job, ask, term, req, lock, live>>

-----------------------------------------------------------------------------
Calls == \E j \in Jobs : First(j) \/ Begin(j) \/ Leave(j) \/ Decide(j) \/ AnswerRefused(j)
                         \/ \E keeps \in BOOLEAN : EndTurn(j, keeps)
OwnTurns == \E c \in Convs : OwnTurnEnds(c) \/ ReviewTurn(c) \/ ReviewEnds(c)
Taking(k) == Reserve(k) \/ Seat(k) \/ Confirm(k) \/ StopJob(k) \/ TakeOver(k) \/ WaitedTooLong(k)
             \/ StopKept(k) \/ Keep(k) \/ \E ok \in BOOLEAN : StartTerminal(k, ok)

Next ==
    \/ \E j \in Jobs, c \in Convs, kind \in Kinds : Send(j, c, kind)
    \/ \E j \in Jobs : Cancel(j) \/ Ask(j) \/ Approve(j) \/ \E yes \in {"yes", "no"} : Answer(j, yes)
    \/ Calls \/ OwnTurns
    \/ \E k \in Clients, c \in Convs, interrupt \in BOOLEAN : Attach(k, c, interrupt)
    \/ \E k \in Clients : Taking(k) \/ DropRequest(k)
    \/ \E c \in Convs : Exit(c) \/ Reap(c) \/ EndTakeover(c) \/ Detach(c) \/ Expire(c)
    \/ EndSession \/ Stop \/ Close

Spec == Init /\ [][Next]_vars

\* Turns end and waiters run; a terminal asked to end is hung up and killed;
\* a review has a bounded number of rounds.
LiveSpec ==
    /\ Spec
    /\ \A j \in Jobs : /\ WF_vars(First(j)) /\ WF_vars(Begin(j)) /\ WF_vars(Leave(j))
                       /\ WF_vars(Decide(j)) /\ WF_vars(AnswerRefused(j))
                       /\ WF_vars(\E keeps \in BOOLEAN : EndTurn(j, keeps))
    /\ \A c \in Convs : /\ WF_vars(OwnTurnEnds(c)) /\ SF_vars(ReviewEnds(c)) /\ WF_vars(Reap(c))
                        /\ WF_vars(ending[c] /\ Exit(c))
    /\ \A k \in Clients : WF_vars(Taking(k))

-----------------------------------------------------------------------------
(* Properties.                                                             *)

TypeOK ==
    /\ busy \in [Convs -> {"none", "turn", "own", "taken"}]
    /\ term \in [Convs -> {"none", "running", "exited"}]
    /\ \A c \in Convs : IsInjective(lane[c])
    /\ lock \in BOOLEAN /\ stop \in {"no", "cancelled", "closing"}

\* Two processes never drive one agent session: while the terminal's process
\* is there, no turn runs in the conversation and no server of it is kept
\* (begin against take_over, open_terminal).
DrivenAlone ==
    \A c \in Convs : term[c] # "none" =>
        busy[c] = "taken" /\ ~kept[c] /\ ~ \E j \in Jobs : job[j].conv = c /\ job[j].st = "turn"

\* From the reservation until the takeover opens or gives up, no other prompt
\* starts a turn in the conversation (reserve_takeover).
NothingBetweenStep ==
    \A k \in Clients, j \in Jobs :
          /\ req[k].pc \in {"reserved", "confirmed", "first"} /\ req[k].conv = job[j].conv
          => ~(job[j].st # "turn" /\ job'[j].st = "turn")
NothingBetween == [][NothingBetweenStep]_vars

\* A takeover's place in the lane, and the hold on the conversation, belong to
\* a request under way or to a process not yet reaped: however an attach
\* fails, the conversation is let go.
NothingLeft ==
    \A c \in Convs :
        LET taking(pcs) == \E k \in Clients : req[k].conv = c /\ req[k].pc \in pcs
        IN /\ HasTakeover(c) => term[c] # "none"
                                \/ taking({"placed", "reserved", "confirmed", "first",
                                           "open", "start", "started"})
           /\ busy[c] = "taken" => term[c] # "none" \/ taking({"open", "start"})

\* What the dashboard offers is what attach would do now: attach_offer and
\* settle_offer decide as take_over and reserve_takeover do.
OfferIsReal ==
    \A c \in Convs :
        LET room == RunningTakeovers < MAX_TAKEOVERS
        IN /\ Offer(c) = "ready" <=> Free(c) /\ room
           /\ Offer(c) = "interrupt" <=>
                /\ Reservable(c) /\ Foremost(c)[1] = "job" /\ room
                /\ ~Pending(Foremost(c)[2])

\* The answer that approve reported to the owner is the one the job got, even
\* when the deadline or a cancel comes with it.
AnswerStands == \A j \in Jobs : ask[j].st = "over" /\ ask[j].said # "none" => ask[j].got = ask[j].said

\* What the owner is shown is so: the offer, and the answer he gave.
OfferAgrees == OfferIsReal /\ AnswerStands

\* At most MAX_TAKEOVERS run (take_terminal counts them with attaching held).
Capped == RunningTakeovers <= MAX_TAKEOVERS

\* A conversation has one driver, it is let go, and the terminals are capped.
OneDriver == DrivenAlone /\ NothingLeft /\ Capped

\* Once the daemon closes takeovers, every terminal ends.
AllEnd == stop = "closing" ~> [](\A c \in Convs : term[c] = "none")

\* A queued prompt runs, or is withdrawn, or the owner has the conversation
\* in its terminal.
PromptRuns ==
    \A j \in Jobs : job[j].st = "queued" ~> job[j].st # "queued" \/ term[job[j].conv] = "running"

\* A takeover does not withdraw an approval request: a job is not stopped for
\* one while its request waits for the owner.
NoneWithdrawn == [][\A k \in Clients : StopJob(k) => ~Pending(req[k].job)]_vars

\* A terminal goes with its session.
EndsWithSession == \A c \in Convs : held[c].on /\ ~held[c].finished => live

=============================================================================
