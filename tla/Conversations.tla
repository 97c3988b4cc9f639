---------------------------- MODULE Conversations ----------------------------
(***************************************************************************)
(* One session's conversations with one delegated agent: ConversationStore *)
(* of scv-tools/src/delegate/conversation.rs, the turns, pins and takeover *)
(* holds its callers keep, the marker files that tell `scv agents gc`      *)
(* which transcripts are in use, and the pass of `gc` itself.              *)
(*                                                                         *)
(* Everything a method does under the store's lock is one step.  Where the *)
(* code drops the lock before it touches the marker directory, the marker  *)
(* operations wait in the caller's `io` and each is a step of its own; the *)
(* caller notifies the waiters last, when its guard drops.                 *)
(* A caller without a guard (release, adopt) notifies nobody.               *)
(*                                                                         *)
(* The daemon may crash between any two steps; the session then comes back *)
(* under its ID, as the workbench's does.  Marker writes are taken to      *)
(* succeed: the code ignores their failure.                                *)
(***************************************************************************)
EXTENDS Naturals, Sequences, FiniteSets, SequencesExt, FiniteSetsExt

CONSTANTS
    Calls,          \* callers: tool calls, jobs, reviews, the owner
    Dirs,           \* working directories
    Vendors,        \* session IDs of the agent's own
    NoId,           \* no session ID
    Limit,            \* ConversationLimits.max
    MaxHandles,     \* bound: handles issued
    MaxTurns,       \* bound: turns of one conversation
    Crashes,        \* bound: crashes of the daemon
    Adopts          \* whether interrupted jobs are resumed here

ConversationConstants ==
    /\ Limit \in Nat \ {0}
    /\ {MaxHandles, MaxTurns, Crashes} \subseteq Nat
    /\ Adopts \in BOOLEAN
    /\ NoId \notin Vendors

VARIABLES
    convs,      \* handle -> conversation, for the handles known
    order,      \* known handles, least recently used first
    next,       \* number of the newest handle
    calls,      \* what each caller holds and still has to do
    live,       \* markers owned by this daemon
    stale,      \* markers whose owner no longer runs
    files,      \* transcript of each session ID
    named,      \* handles a run's state names
    past,       \* session IDs from before the last crash
    gc,         \* the pass of `scv agents gc`
    crossed,    \* marker operations done when the store had moved on
    crashed     \* crashes so far

vars == <<convs, order, next, calls, live, stale, files, named, past, gc,
          crossed, crashed>>

Handles == 1..MaxHandles
Known == DOMAIN convs
Empty == [h \in {} |-> 0]

NoCall == [kind |-> "none", h |-> 0, turn |-> 0, vendor |-> NoId, cli |-> NoId,
           att |-> FALSE, named |-> FALSE, io |-> <<>>]

NewConv(d, v, turns, busy) ==
    [cwd |-> d, vendor |-> v, turns |-> turns, busy |-> busy, pins |-> 0,
     released |-> FALSE, taken |-> FALSE, att |-> FALSE, past |-> FALSE]

\* kept: the markers found; sure: the sessions that this pass must leave alone,
\* and after it those of them it removed.
GcOff == [pc |-> "off", kept |-> {}, sure |-> {}]

Init ==
    /\ convs = Empty /\ order = <<>> /\ next = 0
    /\ calls = [c \in Calls |-> NoCall]
    /\ live = {} /\ stale = {}
    /\ files = [v \in Vendors |-> "none"]
    /\ named = {} /\ past = {} /\ gc = GcOff /\ crossed = {} /\ crashed = 0

(* ---- markers and the store's bookkeeping ---- *)

Ids(hs) == {convs[h].vendor : h \in hs} \ {NoId}

Without(cs, hs) == [h \in DOMAIN cs \ hs |-> cs[h]]

Unlisted(hs) == SelectSeq(order, LAMBDA h : h \notin hs)

Used(h) == Append(Unlisted({h}), h)

WriteMarker(v) == live' = live \cup {v} /\ stale' = stale \ {v}

RemoveMarkers(vs) == live' = live \ vs /\ stale' = stale \ vs

Evictable_NoPins == {h \in Known : ~convs[h].busy}

(* A conversation in use is neither evicted nor expired. *)
Evictable == {h \in Known : ~convs[h].busy /\ convs[h].pins = 0}

Expired == {h \in Evictable : convs[h].past}

LessRecent(k, h) ==
    \E i, j \in 1..Len(order) : i < j /\ order[i] = k /\ order[j] = h

(* The least recently used idle conversations that make room for one more
   once `gone` are out; all of them when that is too few. *)
Oldest(gone) ==
    LET idle == Evictable \ gone
        over == Cardinality(Known \ gone) - Limit
    IN  {h \in idle : Cardinality({k \in idle : LessRecent(k, h)}) <= over}
(* The loop that makes room has ended with room made. *)
HasRoom(gone) == Cardinality(Known \ gone) < Limit

Forget(gone) ==
    /\ convs' = Without(convs, gone)
    /\ order' = Unlisted(gone)
    /\ RemoveMarkers(Ids(gone))

Hold(c, call) == calls' = [calls EXCEPT ![c] = call]

Idle(c) == calls[c].kind = "none"

(* ---- turns ---- *)

(* begin without a handle, then start: the expired go, and the oldest idle
   conversation when the session is full.  The ID the agent will write its
   transcript under is `v`; `assign` when SCV chose it. *)
Start(c, d, v, assign) ==
    LET gone == Expired \cup Oldest(Expired)
        h == next + 1
    IN  /\ Idle(c) /\ h \in Handles
        /\ files[v] = "none"
        /\ HasRoom(gone)
        /\ next' = h
        /\ convs' = [k \in (Known \ gone) \cup {h} |->
                        IF k = h THEN NewConv(d, NoId, 0, TRUE) ELSE convs[k]]
        /\ order' = Append(Unlisted(gone), h)
        /\ live' = (live \ Ids(gone)) \cup (IF assign THEN {v} ELSE {})
        /\ stale' = stale \ (Ids(gone) \cup {v})
        /\ files' = [files EXCEPT ![v] = "young"]
        /\ Hold(c, [NoCall EXCEPT !.kind = "turn", !.h = h, !.turn = 1, !.cli = v,
                                  !.vendor = IF assign THEN v ELSE NoId])
        /\ UNCHANGED <<named, past, gc, crossed, crashed>>

(* begin refused, for whatever reason: what it expired (and, for a new
   conversation, what it evicted in vain) stays gone. *)
Refused(c, evicts) ==
    LET gone == Expired \cup (IF evicts THEN Oldest(Expired) ELSE {})
    IN  /\ Idle(c) /\ gone # {}
        /\ evicts => ~HasRoom(gone)
        /\ Forget(gone)
        /\ UNCHANGED <<next, calls, files, named, past, gc, crossed, crashed>>

Continue_Taken(c, h, d, v) ==
    /\ Idle(c) /\ h \in Known \ Expired
    /\ convs[h].busy => convs[h].taken
    /\ convs[h].cwd = d
    /\ convs[h].vendor # NoId
    /\ convs[h].turns < MaxTurns
    /\ v = convs[h].vendor \/ files[v] = "none"
    /\ convs' = [Without(convs, Expired) EXCEPT ![h].busy = TRUE, ![h].past = FALSE]
    /\ order' = Append(Unlisted(Expired \cup {h}), h)
    /\ RemoveMarkers(Ids(Expired))
    /\ files' = [files EXCEPT ![v] = IF @ = "gone" THEN @ ELSE "young"]
    /\ Hold(c, [NoCall EXCEPT !.kind = "turn", !.h = h, !.turn = convs[h].turns + 1,
                              !.vendor = convs[h].vendor, !.cli = v,
                              !.att = convs[h].att])
    /\ UNCHANGED <<next, named, past, gc, crossed, crashed>>

(* begin with a handle: the next turn of conversation h.  The agent keeps
   its session ID, or forks a new one, `v`. *)
Continue(c, h, d, v) ==
    /\ Idle(c) /\ h \in Known \ Expired
    /\ ~convs[h].taken /\ ~convs[h].busy
    /\ convs[h].cwd = d
    /\ convs[h].vendor # NoId
    /\ convs[h].turns < MaxTurns
    /\ v = convs[h].vendor \/ files[v] = "none"
    /\ convs' = [Without(convs, Expired) EXCEPT ![h].busy = TRUE, ![h].past = FALSE]
    /\ order' = Append(Unlisted(Expired \cup {h}), h)
    /\ RemoveMarkers(Ids(Expired))
    /\ files' = [files EXCEPT ![v] = IF @ = "gone" THEN @ ELSE "young"]
    /\ Hold(c, [NoCall EXCEPT !.kind = "turn", !.h = h, !.turn = convs[h].turns + 1,
                              !.vendor = convs[h].vendor, !.cli = v,
                              !.att = convs[h].att])
    /\ UNCHANGED <<next, named, past, gc, crossed, crashed>>

(* The turn's run writes its state, which names the conversation. *)
OpenActivity(c) ==
    /\ calls[c].kind = "turn" /\ ~calls[c].named
    /\ calls' = [calls EXCEPT ![c].named = TRUE]
    /\ named' = named \cup {calls[c].h}
    /\ UNCHANGED <<convs, order, next, live, stale, files, past, gc, crossed, crashed>>

(* The turn started a child the conversation is to keep. *)
Attach(c) ==
    /\ calls[c].kind = "turn" /\ calls[c].named /\ ~calls[c].att
    /\ calls' = [calls EXCEPT ![c].att = TRUE]
    /\ UNCHANGED <<convs, order, next, live, stale, files, named, past, gc, crossed, crashed>>

Mark_Assigned(op, v) == IF v = NoId \/ op = "write" THEN <<>> ELSE <<<<op, v>>>>

(* A marker operation, when there is a session ID to do it for. *)
Mark(op, v) == IF v = NoId THEN <<>> ELSE <<<<op, v>>>>

(* The caller's guard is spent; these marker operations are still to come. *)
Ending(c, io) ==
    Hold(c, [NoCall EXCEPT !.kind = "end", !.h = calls[c].h, !.io = io])

\* The same of a caller that has no guard.
Marking(c, io) ==
    Hold(c, [NoCall EXCEPT !.kind = "mark", !.h = calls[c].h, !.io = io])

Drops(h) == convs' = Without(convs, {h}) /\ order' = Unlisted({h})

(* TurnGuard::finish, the first turn failing before the agent reported a
   session. *)
FinishUnknown(c) ==
    /\ calls[c].kind = "turn" /\ calls[c].turn = 1
    /\ Drops(calls[c].h)
    /\ Ending(c, Mark("remove", calls[c].vendor))
    /\ UNCHANGED <<next, live, stale, files, named, past, gc, crossed, crashed>>

(* The conversation after turn t, in the agent's session v. *)
Finished(conv, t, v) ==
    [conv EXCEPT !.att = @ \/ t.att, !.busy = FALSE, !.turns = t.turn,
                 !.past = FALSE, !.vendor = v]

(* TurnGuard::finish otherwise, `reported` or not. *)
Finish(c, reported) ==
    LET t == calls[c]
        h == t.h
        v == IF reported THEN t.cli ELSE t.vendor
    IN  /\ t.kind = "turn" /\ h \in Known
        /\ IF convs[h].released
           THEN /\ Drops(h)
                /\ Ending(c, Mark("remove", convs[h].vendor) \o Mark("remove", v))
           ELSE /\ convs' = [convs EXCEPT ![h] = Finished(convs[h], t, v)]
                /\ order' = Used(h)
                /\ Ending(c, (IF convs[h].vendor # v
                              THEN Mark("remove", convs[h].vendor) ELSE <<>>)
                             \o Mark("write", v))
        /\ UNCHANGED <<next, live, stale, files, named, past, gc, crossed, crashed>>

(* TurnGuard::forget: the live child exited. *)
ForgetTurn(c) ==
    /\ calls[c].kind = "turn"
    /\ Drops(calls[c].h)
    /\ Ending(c, (IF calls[c].h \in Known
                  THEN Mark("remove", convs[calls[c].h].vendor) ELSE <<>>)
                 \o Mark("remove", calls[c].vendor))
    /\ UNCHANGED <<next, live, stale, files, named, past, gc, crossed, crashed>>

(* TurnGuard dropped: the call was cancelled or abandoned.  The time it was
   last used stays the turn's start. *)
DropTurn(c) ==
    LET t == calls[c]
        h == t.h
    IN  /\ t.kind = "turn"
        /\ \/ /\ t.turn = 1
              /\ Drops(h)
              /\ Ending(c, Mark("remove", t.vendor))
           \/ /\ t.turn # 1 /\ h \in Known
              /\ IF convs[h].released
                 THEN /\ Drops(h)
                      /\ Ending(c, Mark("remove", convs[h].vendor))
                 ELSE /\ convs' = [convs EXCEPT ![h].busy = FALSE]
                      /\ Ending(c, <<>>)
                      /\ UNCHANGED order
        /\ UNCHANGED <<next, live, stale, files, named, past, gc, crossed, crashed>>

(* ---- pins, releases, takeovers ---- *)

Pin(c, h) ==
    /\ Idle(c) /\ h \in Known
    /\ convs' = [convs EXCEPT ![h].pins = @ + 1]
    /\ Hold(c, [NoCall EXCEPT !.kind = "pin", !.h = h])
    /\ UNCHANGED <<order, next, live, stale, files, named, past, gc, crossed, crashed>>

Unpin(c) ==
    /\ calls[c].kind = "pin"
    /\ convs' = [h \in Known |-> IF h = calls[c].h
                                 THEN [convs[h] EXCEPT !.pins = @ - 1] ELSE convs[h]]
    /\ calls' = [calls EXCEPT ![c] = NoCall]
    /\ UNCHANGED <<order, next, live, stale, files, named, past, gc, crossed, crashed>>

(* A reviewed job ends a conversation it started: its pin goes, then the
   conversation does, at once or with the turn it runs. *)
Release(c) ==
    LET h == calls[c].h
    IN  /\ calls[c].kind = "pin"
        /\ \/ /\ h \in Known /\ convs[h].busy
              /\ convs' = [convs EXCEPT ![h].released = TRUE, ![h].pins = @ - 1]
              /\ calls' = [calls EXCEPT ![c] = NoCall]
              /\ UNCHANGED order
           \/ /\ h \in Known /\ ~convs[h].busy
              /\ Drops(h)
              /\ Marking(c, Mark("remove", convs[h].vendor))
           \/ /\ h \notin Known
              /\ calls' = [calls EXCEPT ![c] = NoCall]
              /\ UNCHANGED <<convs, order>>
        /\ UNCHANGED <<next, live, stale, files, named, past, gc, crossed, crashed>>

(* take_over: the owner opens the conversation in the agent's own terminal,
   and the child it kept is taken out to be stopped. *)
TakeOver(c, h) ==
    /\ Idle(c) /\ h \in Known
    /\ ~convs[h].taken /\ ~convs[h].busy /\ convs[h].pins = 0
    /\ convs[h].vendor # NoId
    /\ convs' = [convs EXCEPT ![h] =
                    [@ EXCEPT !.busy = TRUE, !.taken = TRUE, !.att = FALSE,
                              !.past = FALSE]]
    /\ order' = Used(h)
    /\ Hold(c, [NoCall EXCEPT !.kind = "hold", !.h = h])
    /\ UNCHANGED <<next, live, stale, files, named, past, gc, crossed, crashed>>

(* TakeoverHold::drop. *)
EndTakeover(c) ==
    LET h == calls[c].h
    IN  /\ calls[c].kind = "hold" /\ h \in Known
        /\ IF convs[h].released
           THEN /\ Drops(h)
                /\ Ending(c, Mark("remove", convs[h].vendor))
           ELSE /\ convs' = [convs EXCEPT ![h] =
                        [@ EXCEPT !.busy = FALSE, !.taken = FALSE, !.past = FALSE]]
                /\ order' = Used(h)
                /\ Ending(c, <<>>)
        /\ UNCHANGED <<next, live, stale, files, named, past, gc, crossed, crashed>>

(* The conversation that already has session v in directory d. *)
HeldAs(v, d) == {k \in Known : convs[k].vendor = v /\ convs[k].cwd = d}

(* adopt: an interrupted job's session is taken in under a new handle, or
   is the handle that has it already. *)
Adopt(c, d, v) ==
    LET gone == Oldest({})
        h == next + 1
        held == HeldAs(v, d)
    IN  /\ Adopts /\ Idle(c) /\ v \in past
        /\ \/ /\ held # {}
              /\ \E k \in held :
                    /\ convs' = [convs EXCEPT ![k].past = FALSE]
                    /\ order' = Used(k)
              /\ UNCHANGED <<next, calls, live, stale>>
           \/ /\ held = {} /\ h \in Handles
              /\ HasRoom(gone)
              /\ next' = h
              /\ convs' = [k \in (Known \ gone) \cup {h} |->
                              IF k = h THEN NewConv(d, v, 1, FALSE) ELSE convs[k]]
              /\ order' = Append(Unlisted(gone), h)
              /\ RemoveMarkers(Ids(gone))
              /\ Hold(c, [NoCall EXCEPT !.kind = "mark", !.io = Mark("write", v)])
        /\ UNCHANGED <<files, named, past, gc, crossed, crashed>>

(* ---- after the lock: markers, then the waiters ---- *)

\* A marker operation the conversations no longer call for: one written for a
\* session that no conversation has any more, one removed that another took.
Crosses(op) == op[1] = "write" <=> op[2] \notin Ids(Known)

MarkerIo(c) ==
    LET op == Head(calls[c].io)
    IN  /\ calls[c].kind \in {"end", "mark"} /\ calls[c].io # <<>>
        /\ IF op[1] = "write" THEN WriteMarker(op[2]) ELSE RemoveMarkers({op[2]})
        /\ crossed' = IF Crosses(op) THEN crossed \cup {op} ELSE crossed
        /\ calls' = [calls EXCEPT ![c].io = Tail(@)]
        /\ UNCHANGED <<convs, order, next, files, named, past, gc, crashed>>

Woken_None(cs) == cs

(* notify_waiters: every sleeping waiter looks again. *)
Woken(cs) == [c \in Calls |-> IF cs[c].kind = "asleep"
                              THEN [cs[c] EXCEPT !.kind = "wait"] ELSE cs[c]]

Ended(c) ==
    /\ calls[c].kind \in {"end", "mark"} /\ calls[c].io = <<>>
    /\ LET done == [calls EXCEPT ![c] = NoCall]
       IN  calls' = IF calls[c].kind = "end" THEN Woken(done) ELSE done
    /\ UNCHANGED <<convs, order, next, live, stale, files, named, past, gc, crossed, crashed>>

(* wait_idle: the waiter is registered before it looks. *)
WaitIdle(c, h) ==
    /\ Idle(c) /\ h \in Known
    /\ Hold(c, [NoCall EXCEPT !.kind = "wait", !.h = h])
    /\ UNCHANGED <<convs, order, next, live, stale, files, named, past, gc, crossed, crashed>>

Look(c) ==
    LET h == calls[c].h
    IN  /\ calls[c].kind = "wait"
        /\ calls' = [calls EXCEPT ![c] =
                        IF h \in Known /\ convs[h].busy
                        THEN [@ EXCEPT !.kind = "asleep"] ELSE NoCall]
        /\ UNCHANGED <<convs, order, next, live, stale, files, named, past, gc, crossed, crashed>>

(* ---- time, gc, crashes ---- *)

(* The idle limit passes for h, and so for all used before it. *)
TimePasses(h) ==
    /\ h \in Known /\ ~convs[h].past
    /\ \A i \in 1..Len(order) :
          \A j \in 1..(i - 1) : order[i] = h => convs[order[j]].past
    /\ convs' = [convs EXCEPT ![h].past = TRUE]
    /\ UNCHANGED <<order, next, calls, live, stale, files, named, past, gc, crossed, crashed>>

(* A transcript passes the age `gc` was given: no turn writes it. *)
Ages(v) ==
    /\ files[v] = "young" /\ \A c \in Calls : calls[c].cli # v
    /\ files' = [files EXCEPT ![v] = "old"]
    /\ UNCHANGED <<convs, order, next, calls, live, stale, named, past, gc, crossed, crashed>>

(* A caller has yet to write or remove the marker of session v. *)
Pending(v) ==
    \E c \in Calls : \E i \in DOMAIN calls[c].io : calls[c].io[i][2] = v

(* The conversations' sessions whose marker is not on its way and was not
   removed for an earlier conversation, if they have a transcript yet. *)
Settled ==
    {v \in Ids(Known) : /\ ~Pending(v) /\ <<"remove", v>> \notin crossed
                        /\ files[v] # "gone"}

(* live_sessions: the markers of running owners; the others go. *)
GcLive ==
    /\ gc.pc = "off" /\ \E v \in Vendors : files[v] = "old"
    /\ gc' = [pc |-> "walk", kept |-> live, sure |-> Settled]
    /\ stale' = {}
    /\ UNCHANGED <<convs, order, next, calls, live, files, named, past, crossed, crashed>>

(* The old transcripts no live conversation uses are removed. *)
GcRemove ==
    /\ gc.pc = "walk"
    /\ files' = [v \in Vendors |-> IF files[v] = "old" /\ v \notin gc.kept
                                   THEN "gone" ELSE files[v]]
    /\ gc' = [GcOff EXCEPT !.sure = {v \in gc.sure : files'[v] = "gone"}]
    /\ UNCHANGED <<convs, order, next, calls, live, stale, named, past, crossed, crashed>>

(* Handles are numbered on from the newest a run names. *)
Renumbered ==
    /\ named = {} => next' = 0
    /\ named # {} => next' \in named /\ \A m \in named : m <= next'

(* The daemon dies and the session comes back under its ID: new handles are
   numbered after the ones its runs name.  Its reconcile pass removes the
   markers of the dead owner at some later time. *)
Crash ==
    /\ crashed < Crashes /\ crashed' = crashed + 1
    /\ convs' = Empty /\ order' = <<>>
    /\ Renumbered
    /\ calls' = [c \in Calls |-> NoCall]
    /\ live' = {} /\ stale' = stale \cup live
    /\ past' = {v \in Vendors : files[v] # "none"}
    /\ gc' = GcOff /\ crossed' = {}
    /\ UNCHANGED <<files, named>>

(* remove_stale_markers, from the reconcile pass. *)
RemoveStaleMarkers ==
    /\ stale # {} /\ stale' = {}
    /\ UNCHANGED <<convs, order, next, calls, live, files, named, past, gc, crossed, crashed>>

(* The session ends: the last reference to its store drops. *)
EndSession ==
    /\ Known # {} /\ \A c \in Calls : Idle(c)
    /\ convs' = Empty /\ order' = <<>>
    /\ Renumbered
    /\ RemoveMarkers(Ids(Known))
    /\ UNCHANGED <<calls, files, named, past, gc, crossed, crashed>>

CallStep(c) ==
    \/ \E d \in Dirs, v \in Vendors :
          \/ \E assign \in BOOLEAN : Start(c, d, v, assign)
          \/ \E h \in Handles : Continue(c, h, d, v)
          \/ Adopt(c, d, v)
    \/ \E evicts \in BOOLEAN : Refused(c, evicts)
    \/ \E h \in Handles : Pin(c, h) \/ TakeOver(c, h) \/ WaitIdle(c, h)
    \/ OpenActivity(c) \/ Attach(c) \/ Unpin(c) \/ Release(c)

TurnEnds(c) ==
    \/ FinishUnknown(c) \/ ForgetTurn(c) \/ DropTurn(c) \/ EndTakeover(c)
    \/ \E reported \in BOOLEAN : Finish(c, reported)

Settles(c) == MarkerIo(c) \/ Ended(c) \/ Look(c)

Next ==
    \/ \E c \in Calls : CallStep(c) \/ TurnEnds(c) \/ Settles(c)
    \/ \E h \in Handles : TimePasses(h)
    \/ \E v \in Vendors : Ages(v)
    \/ GcLive \/ GcRemove \/ RemoveStaleMarkers \/ Crash \/ EndSession

Spec == Init /\ [][Next]_vars

(* ---- properties ---- *)

TypeOK ==
    /\ Known \subseteq Handles /\ Range(order) = Known
    /\ Len(order) = Cardinality(Known)
    /\ next \in 0..MaxHandles
    /\ \A h \in Known : convs[h].pins \in 0..Cardinality(Calls)
    /\ live \cap stale = {}

Users(h) == {c \in Calls : calls[c].kind \in {"turn", "hold"} /\ calls[c].h = h}

(* A turn in progress, or the owner's takeover, always has its conversation,
   alone: no eviction, expiry, release or second call takes it away, two
   never run in the one agent session, and while the owner is in the
   agent's terminal no child of SCV's is kept beside it. *)
UsedAlone ==
    /\ \A h \in Handles : Cardinality(Users(h)) <= 1
    /\ \A h \in Handles : Users(h) # {} => h \in Known /\ convs[h].busy
    /\ \A h \in Known : convs[h].busy => Users(h) # {}
    /\ \A h \in Known : convs[h].taken => ~convs[h].att

(* One session of the agent's own, in one directory, is one conversation: a
   second resume of a job finds the first's handle and queues behind it
   rather than run a second process in the session. *)
OneHandle ==
    \A h, k \in Known :
        convs[h].vendor = convs[k].vendor /\ convs[h].vendor # NoId
            /\ convs[h].cwd = convs[k].cwd => h = k

(* A session never remembers more conversations than its limit. *)
WithinLimit == Cardinality(Known) <= Limit

(* Nothing but its own turn's end, its release, or the session's end takes
   away a conversation that runs a turn or that a reviewed job holds. *)
InUseStaysStep ==
    \A h \in Known :
          h \notin DOMAIN convs' =>
             \/ ~convs[h].busy /\ convs[h].pins = 0
             \/ \E c \in Calls : calls[c].h = h /\ calls'[c] # calls[c]
             \/ crashed' # crashed

(* A conversation its reviewed job released does not outlive the turn it
   was running. *)
ReleasedGoes == \A h \in Known : convs[h].released => convs[h].busy

(* A handle the session gives a new conversation names no other: no run's
   state on disk, of this life of the session or an earlier one, has it. *)
HandleIsNewStep == \A h \in DOMAIN convs' \ Known : h \notin named

(* A step takes away no conversation in use, and gives no handle twice. *)
InUseStays == [][InUseStaysStep /\ HandleIsNewStep]_vars

(* What a turn, a takeover and a reviewed job rely on: the conversation is
   theirs alone, it is the only one with its session, the session is bounded,
   and a released conversation does not outlive its turn (begin,
   continue_in, take_over, adopt, evict, release). *)
OneUser == UsedAlone /\ OneHandle /\ WithinLimit /\ ReleasedGoes

(* A conversation the session can continue has its marker, or the marker is
   on its way, or a removal asked for an earlier conversation of the same
   session took it; and a marker belongs to a conversation or to its first
   turn, or an operation is on its way, or it was written for a conversation
   that had gone. *)
Marked ==
    /\ \A v \in Ids(Known) : v \in live \/ Pending(v) \/ <<"remove", v>> \in crossed
    /\ \A v \in live : \/ v \in Ids(Known) \/ Pending(v) \/ <<"write", v>> \in crossed
                       \/ \E c \in Calls : calls[c].kind = "turn" /\ calls[c].vendor = v

(* gc never removes the transcript of a conversation whose marker it could
   see: one that was there, its marker written, when the pass began. *)
TranscriptKept == \A v \in gc.sure : files[v] # "gone"

(* A caller waiting for a conversation to run no turn is not left asleep:
   while it sleeps the turn is still running, or is about to notify it. *)
NoLostWakeup ==
    \A c \in Calls : calls[c].kind = "asleep" =>
        \/ calls[c].h \in Known /\ convs[calls[c].h].busy
        \/ \E b \in Calls : calls[b].kind = "end" /\ calls[b].h = calls[c].h
=============================================================================
