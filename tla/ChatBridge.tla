----------------------------- MODULE ChatBridge -----------------------------
(***************************************************************************)
(* The bridge of one ordinary chat account (crates/scv-channels/src/lib.rs *)
(* with intake.rs and state.rs): it claims what the platform presents,     *)
(* runs each conversation's turns in order, and delivers the replies.      *)
(*                                                                         *)
(* `disk' is BridgeState, changed and saved under one lock; everything     *)
(* else but the platform's own state is memory that a crash loses.  A save *)
(* that fails ends the run, so it is a crash before or after the save.     *)
(*                                                                         *)
(* Text is counted in units: an answer is a sequence of pieces, one a      *)
(* unit, MaxReply of which fill one message of the platform.               *)
(***************************************************************************)
EXTENDS Naturals, FiniteSets, Sequences, SequencesExt

CONSTANTS
    Messages,       \* what senders write, numbered in the platform's order
    Chats,          \* conversations: direct chats, threads, senders in groups
    Chat,           \* Chat[m] is the conversation m belongs to
    Dismissed,      \* messages only marked seen: strangers', or nothing to answer
    Unheard,        \* voice messages without a transcript
    Offered,        \* owner messages a task subscription may take
    Returned,       \* messages a job's worker handed back, under their own IDs
    Jobs,           \* background jobs turns may start
    None,           \* no message, no chat
    BatchMax,       \* most messages of one poll
    Checkpoints,    \* TRUE if the transport keeps a cursor, FALSE if it is None
    MaxClaims,      \* MAX_CLAIMS
    MaxQueued,      \* MAX_QUEUED_PER_CONVERSATION
    MaxSessions,    \* MAX_SESSIONS
    MaxTurns,       \* MAX_CONCURRENT_TURNS
    MaxSeen,        \* IDs kept by mark_seen
    MaxReply,       \* MAX_REPLY_BYTES, in units
    MaxHeld,        \* MAX_HELD_REPLY_BYTES, in units
    AnswerUnits,    \* the lengths an answer may have
    MaxFiles,       \* most files attached to an answer
    HeldAge,        \* HELD_MAX_AGE, in ticks
    HeldPerChat,    \* HELD_MAX_PER_CONVERSATION
    HeldUnits,      \* HELD_MAX_BYTES_PER_CONVERSATION, in units
    HeldTotal,      \* HELD_MAX_TOTAL
    Idles,          \* TRUE if conversations may idle out
    Keyed,          \* TRUE if the platform takes a part once under its client ID
    MaxTime,        \* bound on the clock
    MaxCrashes      \* bound on crashes

BridgeConstants ==
    /\ Messages \subseteq Nat \ {0}
    /\ Chat \in [Messages -> Chats]
    /\ UNION {Dismissed, Unheard, Offered, Returned} \subseteq Messages
    /\ None \notin Messages \cup Chats
    /\ {BatchMax, MaxClaims, MaxQueued, MaxSessions, MaxTurns, MaxSeen,
        MaxReply, MaxHeld, HeldPerChat, HeldTotal} \subseteq Nat \ {0}
    /\ AnswerUnits \subseteq Nat \ {0}
    /\ {MaxFiles, HeldAge, HeldUnits, MaxTime, MaxCrashes} \subseteq Nat
    /\ {Checkpoints, Idles, Keyed} \subseteq BOOLEAN

VARIABLES
    disk,       \* BridgeState, as saved
    phase,      \* "down", "backlog" (delivering what was left), or "up"
    poll,       \* the poller: the batch it holds, its checkpoint, its claim
    open,       \* the poller's conversations, least recently used first
    conv,       \* the conversation futures, by chat
    leaving,    \* chats whose evicted conversation has not returned yet
    work,       \* background jobs of each chat's session
    watched,    \* chats whose conversation last told the poller of such work
    offers,     \* returned messages the bridge has not acknowledged
    now,        \* the clock
    crashes,    \* crashes so far
    taken,      \* the platform took the part at hand, unrecorded by SCV
    unanswered, \* pieces of the parts it ever took so
    shown,      \* pieces the platform showed
    repeated,   \* pieces it showed again
    dropped,    \* pieces SCV gave up by one of its limits, and says so
    turns,      \* turns run for each message
    written     \* pieces of the answers written so far

platform == <<taken, unanswered, shown, repeated>>
history == <<dropped, turns, written>>
vars == <<disk, phase, poll, open, conv, leaving, work, watched, offers, now, crashes,
          platform, history>>

(***************************************************************************)
(* Texts.                                                                  *)
(***************************************************************************)

\* The pieces of an answer of n units to m, or about a job.
Pieces(of, n) == [i \in 1..n |-> <<of, i>>]

PieceSets(seqs) == UNION {Range(seqs[i].text) : i \in DOMAIN seqs}

\* How many messages of the platform a reply takes (text_chunks).
Chunks(p) ==
    IF p.text = <<>> /\ p.files > 0 THEN 0
    ELSE IF p.text = <<>> THEN 1
    ELSE (Len(p.text) + MaxReply - 1) \div MaxReply

\* The pieces of a reply from its part k (counted from 0) to its part j.
PartsText(p, k, j) ==
    SubSeq(p.text, k * MaxReply + 1,
           IF j * MaxReply < Len(p.text) THEN j * MaxReply ELSE Len(p.text))

\* A pending delivery; msg is None for one that answers no message.
NewPending(msg, chat, text, transient) ==
    [msg |-> msg, chat |-> chat, text |-> text, next |-> 0, files |-> 0,
     nextFile |-> 0, carried |-> <<>>, own |-> <<>>, transient |-> transient]

(***************************************************************************)
(* BridgeState's helpers.                                                  *)
(***************************************************************************)

InFlightIds(d) == Range(d.inFlight)
PendingIds(d) == {d.pending[i].msg : i \in DOMAIN d.pending}
SeenIds(d) == Range(d.seen)

MarkSeen(seen, m) ==
    LET last == Append(Remove(seen, m), m)
    IN  IF Len(last) > MaxSeen THEN SubSeq(last, Len(last) - MaxSeen + 1, Len(last))
        ELSE last

\* prune_held: the newest replies within the age and the three limits.
PruneHeld(held) ==
    LET Units(kept) == FoldLeft(LAMBDA a, h : a + Len(h.text), 0, kept)
        Fits(h, kept) ==
            LET same == SelectSeq(kept, LAMBDA k : k.chat = h.chat)
            IN  /\ Len(kept) < HeldTotal
                /\ Len(same) < HeldPerChat
                /\ Units(same) + Len(h.text) <= HeldUnits
    IN  FoldRight(LAMBDA h, kept : IF Fits(h, kept) THEN <<h>> \o kept ELSE kept,
                  SelectSeq(held, LAMBDA h : now - h.at < HeldAge),
                  <<>>)

\* compose_pending: earlier refused replies of the chat ride ahead of `own',
\* oldest first, as long as all of it is one message.
Carry(held, chat, own) ==
    FoldLeft(LAMBDA a, h :
        IF h.chat # chat \/ a.full THEN [a EXCEPT !.rest = Append(@, h)]
        ELSE IF Len(a.body) + Len(h.text) + Len(own) > MaxReply
        THEN [a EXCEPT !.full = TRUE, !.rest = Append(@, h)]
        ELSE [a EXCEPT !.body = @ \o h.text, !.carried = Append(@, h)],
        [full |-> FALSE, body |-> <<>>, carried |-> <<>>, rest |-> <<>>],
        held)

ComposePending(d, m, own, files) ==
    LET c == Carry(PruneHeld(d.held), Chat[m], own)
        p == [NewPending(m, Chat[m], c.body \o own, FALSE) EXCEPT !.files = files]
    IN  [d EXCEPT !.held = c.rest,
                  !.pending = Append(@, IF c.carried = <<>> THEN p
                              ELSE [p EXCEPT !.carried = c.carried, !.own = own])]

\* A held reply fits beside a new one.
TruncateHeld(text) == IF Len(text) <= MaxHeld THEN text ELSE SubSeq(text, 1, MaxHeld)

\* held, sorted by age; a stable sort.
ByAge(held) ==
    FlattenSeq([t \in 1..(MaxTime + 1) |-> SelectSeq(held, LAMBDA h : h.at = t - 1)])

\* hold_refused: what of a refused reply waits for the chat's next one.
HoldRefused(held, p) ==
    IF p.transient THEN held
    ELSE LET back == IF p.next = 0 THEN p.carried ELSE <<>>
             text == IF p.next > 0 THEN PartsText(p, p.next, Chunks(p))
                     ELSE IF p.carried # <<>> THEN p.own ELSE p.text
             hold == [chat |-> p.chat, text |-> TruncateHeld(text), at |-> now]
         IN  PruneHeld(ByAge(Append(held \o back, hold)))

\* Pieces the limits on held replies give up.
Pruned(held) == PieceSets(held) \ PieceSets(PruneHeld(held))

\* Pieces a refusal gives up: a transient notice, what is cut off, and what
\* the limits on held replies leave no room for.
GivenUp(held, p) ==
    LET rest == PartsText(p, p.next, Chunks(p))
        own == IF p.next = 0 /\ p.carried # <<>> THEN p.own ELSE rest
        back == IF p.next = 0 THEN p.carried ELSE <<>>
        kept == Append(held \o back,
                       [chat |-> p.chat, text |-> TruncateHeld(own), at |-> now])
    IN  IF p.transient THEN Range(rest)
        ELSE (Range(own) \ Range(TruncateHeld(own))) \cup Pruned(ByAge(kept))

(***************************************************************************)
(* Initial state.                                                          *)
(***************************************************************************)

EmptyState == [cursor |-> 0, seen |-> <<>>, pending |-> <<>>, inFlight |-> <<>>,
               held |-> <<>>, jobs |-> [c \in Chats |-> {}]]

NoPoll == [busy |-> FALSE, taking |-> FALSE, batch |-> <<>>, next |-> 0,
           claim |-> None, evict |-> None]
NoConv == [live |-> "none", queue |-> <<>>, turn |-> None]

Memory0 ==
    /\ poll' = NoPoll
    /\ open' = <<>>
    /\ conv' = [c \in Chats |-> NoConv]
    /\ leaving' = {}
    /\ work' = [c \in Chats |-> {}] /\ watched' = {}

Init ==
    /\ disk = EmptyState
    /\ phase = "down"
    /\ poll = NoPoll
    /\ open = <<>>
    /\ conv = [c \in Chats |-> NoConv]
    /\ leaving = {}
    /\ work = [c \in Chats |-> {}] /\ watched = {}
    /\ offers = Returned
    /\ now = 0 /\ crashes = 0
    /\ taken = FALSE /\ unanswered = {} /\ shown = {} /\ repeated = {}
    /\ dropped = {} /\ written = {}
    /\ turns = [m \in Messages |-> 0]

(***************************************************************************)
(* Starting: serve, recover_interrupted_after, deliver_backlog.            *)
(***************************************************************************)

\* Every claim an earlier run left gets the failure reply; a chat whose
\* recorded jobs it left running is told which stopped.
Recover(d) ==
    LET answered == FoldLeft(LAMBDA a, m : ComposePending(a, m, Pieces(m, 1), 0),
                             [d EXCEPT !.inFlight = <<>>], d.inFlight)
        stopped == {c \in Chats : d.jobs[c] # {}}
        notices == [i \in 1..Cardinality(stopped) |->
                       NewPending(None, SetToSeq(stopped)[i],
                                  <<<<SetToSeq(stopped)[i], crashes>>>>, FALSE)]
    IN  [answered EXCEPT !.pending = @ \o notices,
                         !.jobs = [c \in Chats |-> {}]]

Start ==
    /\ phase = "down"
    /\ phase' = "backlog"
    /\ disk' = Recover(disk)
    /\ written' = written \cup UNION {Range(Pieces(m, 1)) : m \in InFlightIds(disk)}
    /\ dropped' = dropped \cup (IF disk.inFlight = <<>> THEN {} ELSE Pruned(disk.held))
    /\ UNCHANGED <<poll, open, conv, leaving, work, watched, offers, now, crashes,
                   platform, turns>>

\* The first poll waits until nothing is left to deliver.
BeginPolling ==
    /\ phase = "backlog"
    /\ disk.pending = <<>>
    /\ phase' = "up"
    /\ UNCHANGED <<disk, poll, open, conv, leaving, work, watched, offers, now, crashes,
                   platform, history>>

(***************************************************************************)
(* The poller: poll, accept, enqueue_returned.                             *)
(***************************************************************************)

\* The platform presents messages after the cursor, any it presented before
\* among them; an empty batch still lets returned messages be taken.
Receive ==
    /\ phase = "up"
    /\ ~poll.busy
    /\ \E S \in SUBSET {m \in Messages \ Returned : m > disk.cursor} :
           /\ Cardinality(S) <= BatchMax
           /\ S # {} \/ offers # {}
           /\ Checkpoints => \A m \in Messages \ Returned :
                                 m > disk.cursor /\ (\E n \in S : m < n) => m \in S
           /\ poll' = [NoPoll EXCEPT !.busy = TRUE, !.taking = TRUE,
                          !.batch = SetToSortSeq(S, <),
                          !.next = IF Checkpoints /\ S # {} THEN Max(S) ELSE disk.cursor]
    /\ open' = SelectSeq(open, LAMBDA c : conv[c].live # "none")
    /\ UNCHANGED <<disk, phase, conv, leaving, work, watched, offers, now, crashes,
                   platform, history>>

Waiting(c) == Cardinality({i \in DOMAIN disk.inFlight : Chat[disk.inFlight[i]] = c})

\* The conversation a full table closes: the least recently used that is idle,
\* as far as it told.
Evictable == SelectSeq(open, LAMBDA c : Waiting(c) = 0 /\ c \notin watched)

Room(c) ==
    /\ Len(disk.inFlight) < MaxClaims
    /\ Waiting(c) < MaxQueued
    /\ c \in Range(open) \/ Len(open) < MaxSessions \/ Evictable # <<>>

Claimed(m) == m \in InFlightIds(disk) \cup PendingIds(disk)

\* The message at hand is one to answer, and nobody has it yet.
AtHand(m) ==
    /\ phase = "up"
    /\ poll.busy /\ ~poll.taking /\ poll.claim = None /\ poll.batch # <<>>
    /\ m = Head(poll.batch)

New(m) == AtHand(m) /\ m \notin SeenIds(disk) /\ ~Claimed(m) /\ m \notin Dismissed

NextMessage == poll' = [poll EXCEPT !.batch = Tail(@)]

Accepted == UNCHANGED <<phase, open, conv, leaving, work, watched, offers, now, crashes,
                        platform, turns>>

\* Verdict::Ignore and Verdict::Stranger.
AcceptSeen(m) ==
    /\ AtHand(m)
    /\ m \in SeenIds(disk) \/ (~Claimed(m) /\ m \in Dismissed)
    /\ disk' = [disk EXCEPT !.seen = MarkSeen(@, m)]
    /\ NextMessage
    /\ Accepted /\ UNCHANGED <<dropped, written>>

\* Verdict::Claimed.
AcceptClaimed(m) ==
    /\ AtHand(m)
    /\ m \notin SeenIds(disk) /\ Claimed(m)
    /\ NextMessage
    /\ Accepted /\ UNCHANGED <<disk, dropped, written>>

\* job_took: a subscribed job has it, or the subscription holds it to retry.
GiveToJob(m) ==
    /\ New(m) /\ m \in Offered \ Unheard
    /\ disk' = [disk EXCEPT !.seen = MarkSeen(@, m)]
    /\ NextMessage
    /\ Accepted /\ UNCHANGED <<dropped, written>>

\* FollowUp::Unresumable: seen, and told so in a fixed notice.
TellUnresumable(m) ==
    /\ New(m) /\ m \in Offered \ Unheard
    /\ disk' = [disk EXCEPT !.seen = MarkSeen(@, m),
                            !.pending = Append(@, NewPending(m, Chat[m], Pieces(m, 1), TRUE))]
    /\ written' = written \cup Range(Pieces(m, 1))
    /\ NextMessage
    /\ Accepted /\ UNCHANGED dropped

\* Verdict::Busy and Verdict::Unheard: a fixed notice instead of a turn.
AcceptNotice(m) ==
    /\ New(m)
    /\ m \in Unheard \/ ~Room(Chat[m])
    /\ disk' = [disk EXCEPT !.pending = Append(@, NewPending(m, Chat[m], Pieces(m, 1), TRUE))]
    /\ written' = written \cup Range(Pieces(m, 1))
    /\ NextMessage
    /\ Accepted /\ UNCHANGED dropped

\* Verdict::Turn: the claim is durable before anything runs.  A full table
\* chooses what it will close now.
Claim(m) ==
    /\ New(m) /\ m \notin Unheard
    /\ Room(Chat[m])
    /\ disk' = [disk EXCEPT !.inFlight = Append(@, m)]
    /\ poll' = [poll EXCEPT !.batch = Tail(@), !.claim = m,
                   !.evict = IF Chat[m] \in Range(open) \/ Len(open) < MaxSessions
                             THEN None ELSE Head(Evictable)]
    /\ Accepted /\ UNCHANGED <<dropped, written>>

\* enqueue_returned: claimed under its own ID unless it was before.
ClaimReturned(m) ==
    /\ poll.taking /\ poll.claim = None
    /\ m \in offers
    /\ IF m \in SeenIds(disk) \/ Claimed(m)
       THEN offers' = offers \ {m} /\ UNCHANGED <<disk, poll>>
       ELSE /\ disk' = [disk EXCEPT !.inFlight = Append(@, m)]
            /\ poll' = [poll EXCEPT !.claim = m]
            /\ UNCHANGED offers
    /\ UNCHANGED <<phase, open, conv, leaving, work, watched, now, crashes, platform,
                   history>>

EndReturns ==
    /\ poll.taking /\ poll.claim = None /\ offers = {}
    /\ poll' = [poll EXCEPT !.taking = FALSE]
    /\ UNCHANGED <<disk, phase, open, conv, leaving, work, watched, offers, now, crashes,
                   platform, history>>

\* Fault: a new conversation although one is alive.
Enqueue_Fault(m) ==
    LET c == Chat[m]
        kept == Remove(open, poll.evict)
    IN  /\ poll.claim = m
        /\ poll' = [poll EXCEPT !.claim = None, !.evict = None]
        /\ offers' = offers \ {m}
        /\ open' = Append(Remove(kept, c), c)
        /\ conv' = [conv EXCEPT ![c] = [live |-> "run", queue |-> <<m>>, turn |-> None]]
        /\ UNCHANGED <<disk, phase, leaving, work, watched, now, crashes, platform,
                       history>>

\* The claimed message goes to its conversation's queue, or to a new one's if
\* it has none or its future is gone.  A returned one is acknowledged first.
\* The jobs of a conversation the table closes stop with its session.
Enqueue(m) ==
    LET c == Chat[m]
        kept == Remove(open, poll.evict)
        alive == c \in Range(kept) /\ conv[c].live # "none"
    IN  /\ poll.claim = m
        /\ poll' = [poll EXCEPT !.claim = None, !.evict = None]
        /\ offers' = offers \ {m}
        /\ open' = Append(Remove(kept, c), c)
        /\ leaving' = IF poll.evict # None /\ conv[poll.evict].live # "none"
                      THEN leaving \cup {poll.evict} ELSE leaving
        /\ conv' = [d \in Chats |->
                       IF d = c /\ alive THEN [conv[c] EXCEPT !.queue = Append(@, m)]
                       ELSE IF d = c THEN [live |-> "run", queue |-> <<m>>, turn |-> None]
                       ELSE IF d = poll.evict THEN NoConv
                       ELSE conv[d]]
        /\ work' = [d \in Chats |-> IF d = poll.evict THEN {} ELSE work[d]]
        /\ watched' = watched \ ({poll.evict} \cup (IF alive THEN {} ELSE {c}))
        /\ UNCHANGED <<disk, phase, now, crashes, platform, history>>

\* Fault: the cursor is stored as soon as a batch arrives.
CommitCursor_Fault ==
    /\ phase = "up" /\ poll.busy
    /\ disk.cursor # poll.next
    /\ disk' = [disk EXCEPT !.cursor = poll.next]
    /\ UNCHANGED <<phase, poll, open, conv, leaving, work, watched, offers, now, crashes,
                   platform, history>>

\* The cursor moves past a batch once all of it is claimed or seen.
CommitCursor ==
    /\ phase = "up"
    /\ poll.busy /\ ~poll.taking /\ poll.claim = None /\ poll.batch = <<>>
    /\ disk' = [disk EXCEPT !.cursor = poll.next]
    /\ poll' = NoPoll
    /\ UNCHANGED <<phase, open, conv, leaving, work, watched, offers, now, crashes,
                   platform, history>>

(***************************************************************************)
(* Conversations: converse, record_jobs, queue_unprompted.                 *)
(***************************************************************************)

AtTop(c) == conv[c].live = "run" /\ conv[c].turn = None

Watching(c) == work[c] # {}

Recorded(c) == disk.jobs[c] = work[c] /\ (c \in watched <=> Watching(c))

\* At the top of its loop a conversation's jobs are recorded as they are, and
\* the poller is told whether it has any; until then it sees what was.
RecordJobs(c) ==
    /\ AtTop(c) /\ ~Recorded(c)
    /\ disk' = [disk EXCEPT !.jobs[c] = work[c]]
    /\ watched' = IF Watching(c) THEN watched \cup {c} ELSE watched \ {c}
    /\ UNCHANGED <<phase, poll, open, conv, leaving, work, offers, now, crashes,
                   platform, history>>

Running == {c \in Chats : conv[c].turn # None}

StartTurn(c) ==
    /\ AtTop(c) /\ Recorded(c)
    /\ conv[c].queue # <<>>
    /\ Cardinality(Running) < MaxTurns
    /\ LET m == Head(conv[c].queue)
       IN  /\ conv' = [conv EXCEPT ![c].queue = Tail(@), ![c].turn = m]
           /\ turns' = [turns EXCEPT ![m] = @ + 1]
    /\ UNCHANGED <<disk, phase, poll, open, leaving, work, watched, offers, now, crashes,
                   platform, dropped, written>>

\* The answer, or the failure reply, takes the claim's place in one save.  The
\* turn may have started jobs; a broken session loses the ones it ran.
EndTurn(c) ==
    LET m == conv[c].turn
        d == [disk EXCEPT !.inFlight = Remove(@, m)]
        free == {j \in Jobs : <<j, 1>> \notin written /\ \A e \in Chats : j \notin work[e]}
    IN  /\ m # None
        /\ m \in InFlightIds(disk)
        /\ \E n \in AnswerUnits, f \in 0..MaxFiles :
               /\ disk' = ComposePending(d, m, Pieces(m, n), f)
               /\ written' = written \cup Range(Pieces(m, n))
        /\ \E started \in SUBSET free, broken \in BOOLEAN :
               work' = [work EXCEPT ![c] = IF broken THEN {} ELSE @ \cup started]
        /\ dropped' = dropped \cup Pruned(disk.held)
        /\ conv' = [conv EXCEPT ![c].turn = None]
        /\ UNCHANGED <<phase, poll, open, leaving, watched, offers, now, crashes,
                       platform, turns>>

\* A finished job's report, sent without being asked.
Report(c, j) ==
    /\ AtTop(c)
    /\ j \in work[c]
    /\ disk' = [disk EXCEPT !.pending = Append(@, NewPending(None, c, Pieces(j, 1), FALSE))]
    /\ work' = [work EXCEPT ![c] = @ \ {j}]
    /\ written' = written \cup Range(Pieces(j, 1))
    /\ UNCHANGED <<phase, poll, open, conv, leaving, watched, offers, now, crashes,
                   platform, dropped, turns>>

\* Reading a report failed: the session is dropped.
LoseSession(c) ==
    /\ AtTop(c) /\ Recorded(c)
    /\ Watching(c)
    /\ work' = [work EXCEPT ![c] = {}]
    /\ UNCHANGED <<disk, phase, poll, open, conv, leaving, watched, offers, now, crashes,
                   platform, history>>

\* SESSION_IDLE passed with nothing to do.  The future still awaits the state
\* lock before it returns, with its queue alive.
IdleOut(c) ==
    /\ Idles
    /\ AtTop(c) /\ Recorded(c)
    /\ conv[c].queue = <<>> /\ ~Watching(c)
    /\ conv' = [conv EXCEPT ![c].live = "idle"]
    /\ UNCHANGED <<disk, phase, poll, open, leaving, work, watched, offers, now, crashes,
                   platform, history>>

\* It records that it runs no job and returns, dropping its queue.
CloseIdle(c) ==
    /\ conv[c].live = "idle"
    /\ disk' = [disk EXCEPT !.jobs[c] = {}]
    /\ conv' = [conv EXCEPT ![c] = NoConv]
    /\ UNCHANGED <<phase, poll, open, leaving, work, watched, offers, now, crashes,
                   platform, history>>

\* So does an evicted one, whose queue the poller closed.
CloseEvicted(c) ==
    /\ c \in leaving
    /\ disk' = [disk EXCEPT !.jobs[c] = {}]
    /\ leaving' = leaving \ {c}
    /\ UNCHANGED <<phase, poll, open, conv, work, watched, offers, now, crashes,
                   platform, history>>

(***************************************************************************)
(* Delivery: deliver_backlog, deliver, deliver_next.                       *)
(***************************************************************************)

Sending(p) ==
    /\ phase \in {"backlog", "up"}
    /\ disk.pending # <<>>
    /\ p = Head(disk.pending)

Delivery == UNCHANGED <<poll, open, conv, leaving, work, watched, offers, now, crashes,
                        turns, written>>

Part(p) == Range(PartsText(p, p.next, p.next + 1))

\* The platform shows a part; one it already took under the same client ID
\* it only acknowledges, if it knows client IDs at all.
Show(p) ==
    IF taken /\ Keyed THEN UNCHANGED <<shown, repeated>>
    ELSE /\ shown' = shown \cup Part(p)
         /\ repeated' = repeated \cup (Part(p) \cap shown)

SendPart(p) ==
    /\ Sending(p) /\ p.next < Chunks(p)
    /\ Show(p)
    /\ taken' = FALSE /\ UNCHANGED unanswered
    /\ disk' = [disk EXCEPT !.pending[1].next = @ + 1]
    /\ Delivery /\ UNCHANGED <<phase, dropped>>

\* The answer is lost, or the run ends before it is recorded.  Before polling
\* a part that cannot be sent ends the run.
SendUnanswered(p) ==
    /\ Sending(p) /\ p.next < Chunks(p)
    /\ ~taken
    /\ Show(p)
    /\ taken' = TRUE /\ unanswered' = unanswered \cup Part(p)
    /\ phase' = IF phase = "backlog" THEN "down" ELSE phase
    /\ Delivery /\ UNCHANGED <<disk, dropped>>

\* Files follow a delivered text; a refused file is skipped.
SendFile(p) ==
    /\ Sending(p) /\ p.next = Chunks(p)
    /\ p.nextFile < p.files
    /\ disk' = [disk EXCEPT !.pending[1].nextFile = @ + 1]
    /\ Delivery /\ UNCHANGED <<phase, platform, dropped>>

\* Fault: forgets the ID of a message whose reply went out.
Settled_Fault(p) == [disk EXCEPT !.pending = Tail(@)]

Settled(p) ==
    [disk EXCEPT !.pending = Tail(@),
                 !.seen = IF p.msg = None THEN @ ELSE MarkSeen(@, p.msg)]

Settle(p) ==
    /\ Sending(p) /\ p.next = Chunks(p) /\ p.nextFile = p.files
    /\ disk' = Settled(p)
    /\ Delivery /\ UNCHANGED <<phase, platform, dropped>>

\* The platform refuses a part: what is left of the reply is held, its files
\* are dropped.
Refuse(p) ==
    /\ Sending(p) /\ p.next < Chunks(p)
    /\ taken => ~Keyed
    /\ taken' = FALSE
    /\ disk' = [Settled(p) EXCEPT !.held = HoldRefused(@, p)]
    /\ dropped' = dropped \cup GivenUp(disk.held, p)
    /\ Delivery /\ UNCHANGED <<phase, unanswered, shown, repeated>>

(***************************************************************************)
(* Time and crashes.                                                       *)
(***************************************************************************)

Tick ==
    /\ now < MaxTime
    /\ now' = now + 1
    /\ UNCHANGED <<disk, phase, poll, open, conv, leaving, work, watched, offers, crashes,
                   platform, history>>

\* The run ends: a crash, a failed save, a follow-up that could not be stored.
Crash ==
    /\ phase # "down" /\ crashes < MaxCrashes
    /\ phase' = "down"
    /\ crashes' = crashes + 1
    /\ Memory0
    /\ UNCHANGED <<disk, offers, now, platform, history>>

Poller ==
    \/ Receive \/ EndReturns \/ CommitCursor
    \/ \E m \in Messages :
           \/ AcceptSeen(m) \/ AcceptClaimed(m) \/ AcceptNotice(m) \/ Claim(m)
           \/ GiveToJob(m) \/ TellUnresumable(m)
           \/ ClaimReturned(m) \/ Enqueue(m)

Converse(c) ==
    \/ RecordJobs(c) \/ StartTurn(c) \/ EndTurn(c) \/ CloseIdle(c) \/ CloseEvicted(c)

Deliver ==
    disk.pending # <<>> /\ LET p == Head(disk.pending) IN
        SendPart(p) \/ SendFile(p) \/ Settle(p) \/ Refuse(p)

Next ==
    \/ Start \/ BeginPolling \/ Poller
    \/ \E c \in Chats : Converse(c) \/ LoseSession(c) \/ IdleOut(c)
    \/ \E c \in Chats, j \in Jobs : Report(c, j)
    \/ Deliver
    \/ (disk.pending # <<>> /\ SendUnanswered(Head(disk.pending)))
    \/ Tick \/ Crash

Spec == Init /\ [][Next]_vars

\* The run's futures are polled side by side, a turn has a time limit, a
\* delivery is retried for ever, and the supervisor starts a failed run again.
\* Nothing is assumed of the platform, the senders or the session's jobs.
FairSpec ==
    /\ Spec
    /\ WF_vars(Start) /\ WF_vars(BeginPolling) /\ WF_vars(Deliver)
    /\ WF_vars(\E m \in Messages : Enqueue(m))
    /\ \A c \in Chats : WF_vars(Converse(c))

(***************************************************************************)
(* Properties.                                                             *)
(***************************************************************************)

TypeOK ==
    /\ disk.cursor \in Nat
    /\ disk.seen \in Seq(Messages) /\ disk.inFlight \in Seq(Messages)
    /\ \A i \in DOMAIN disk.pending :
           /\ disk.pending[i].msg \in Messages \cup {None}
           /\ disk.pending[i].chat \in Chats
           /\ disk.pending[i].next \in 0..Chunks(disk.pending[i])
           /\ disk.pending[i].nextFile \in 0..disk.pending[i].files
    /\ \A i \in DOMAIN disk.held : disk.held[i].at <= now
    /\ disk.jobs \in [Chats -> SUBSET Jobs] /\ work \in [Chats -> SUBSET Jobs]
    /\ phase \in {"down", "backlog", "up"}
    /\ Range(open) \subseteq Chats /\ leaving \subseteq Chats
    /\ conv \in [Chats -> [live : {"none", "run", "idle"}, queue : Seq(Messages),
                           turn : Messages \cup {None}]]
    /\ offers \subseteq Returned
    /\ now \in 0..MaxTime /\ crashes \in 0..MaxCrashes
    /\ taken \in BOOLEAN /\ watched \subseteq Chats
    /\ turns \in [Messages -> Nat]

\* No message runs two turns, whatever is presented again and wherever the
\* bridge crashes (docs/channels.md: a message already claimed or awaiting
\* delivery never starts a second turn; recovery never resubmits).
NoSecondTurn == \A m \in Messages : turns[m] <= 1

\* The cursor never passes a message nobody has: one behind it is claimed, its
\* reply waits, or it is done with, and then it was answered, dismissed or
\* taken by a job.
PassedIsSettled ==
    \A m \in Messages \ Returned : m <= disk.cursor =>
        \/ Claimed(m)
        \/ m \in SeenIds(disk) /\ (m \in Dismissed \cup Offered \/ <<m, 1>> \in written)

\* What pending replies have not delivered yet.
Undelivered == UNION {Range(PartsText(disk.pending[i], disk.pending[i].next,
                                      Chunks(disk.pending[i]))) : i \in DOMAIN disk.pending}

\* Every piece of every answer is shown, or waits in a pending or a held
\* reply, or fell to a limit: none is lost between refusal, carrying and crash.
NothingLost == written \subseteq shown \cup dropped \cup Undelivered \cup PieceSets(disk.held)

\* The platform shows a piece twice only if it has no client IDs and its answer
\* to a part with that piece was lost: neither a crash in the middle of a reply
\* nor a refusal of one that carried earlier ones repeats anything else.
NothingTwice == repeated \subseteq (IF Keyed THEN {} ELSE unanswered)

\* A conversation runs its messages in the order it claimed them.
TurnsInOrder ==
    \A c \in Chats : conv[c].turn # None =>
        conv[c].turn = Head(SelectSeq(disk.inFlight, LAMBDA m : Chat[m] = c))

\* At most MaxClaims messages are claimed at once, MaxQueued of a conversation,
\* beyond what was handed back, and no more than MaxTurns turns run.
WithinLimits ==
    /\ Cardinality(InFlightIds(disk) \ Returned) <= MaxClaims
    /\ \A c \in Chats :
           Cardinality({m \in InFlightIds(disk) \ Returned : Chat[m] = c}) <= MaxQueued
    /\ Cardinality(Running) <= MaxTurns
    /\ Len(open) > MaxSessions => Returned # {}

\* A claimed message's reply is delivered or refused in the end.
EveryClaimSettles ==
    \A m \in Messages : m \in InFlightIds(disk) ~> m \in SeenIds(disk) /\ ~Claimed(m)

=============================================================================
