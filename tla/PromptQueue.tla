----------------------------- MODULE PromptQueue -----------------------------
(***************************************************************************)
(* A session's queued prompts and their saved copy: the queue              *)
(* (crates/scv-server/src/session/queue.rs), the file that keeps it        *)
(* (session/persist.rs) and the connection that changes, restores and      *)
(* drops it (connection.rs).                                               *)
(*                                                                         *)
(* Connections of one daemon run concurrently.  A change of a queue and    *)
(* its save are one step: it is announced only afterwards, and a crash     *)
(* before the save undoes a change nobody saw.  The writes of a restore    *)
(* and of a leaving client are steps of their own.                         *)
(***************************************************************************)
EXTENDS Naturals, FiniteSets, Sequences, SequencesExt

CONSTANTS
    Sessions,   \* session IDs
    Prompts,
    None,
    MaxItems,   \* MAX_QUEUE_ITEMS
    MaxCrashes, \* bound on the daemon's stops
    MaxFailed   \* bound on saves that fail

QueueConstants ==
    /\ None \notin Sessions /\ None \notin Prompts
    /\ {MaxItems, MaxCrashes, MaxFailed} \subseteq Nat

VARIABLES
    disk,       \* the saved queues: entries, running prompt, owning daemon
    daemon,     \* the daemon's incarnation
    stage,      \* of each connection and its session
    from,       \* the session it restores
    old,        \* Restored.old, until the client speaks
    queue, active, paused,
    claims,     \* RESTORING
    failed,
    accepted,   \* prompts announced as queued or running, not removed since
    cut,        \* how often a stop left a prompt in two records
    ran         \* how many turns a prompt had

vars == <<disk, daemon, stage, from, old, queue, active, paused, claims, failed,
          accepted, cut, ran>>

NoRecord == [entries |-> <<>>, active |-> None, owner |-> 0]

Init ==
    /\ disk = [s \in Sessions |-> NoRecord]
    /\ daemon = 1
    /\ stage = [s \in Sessions |-> "none"]
    /\ from = [s \in Sessions |-> None] /\ old = [s \in Sessions |-> NoRecord]
    /\ queue = [s \in Sessions |-> <<>>] /\ active = [s \in Sessions |-> None]
    /\ paused = [s \in Sessions |-> FALSE]
    /\ claims = {} /\ failed = 0
    /\ accepted = {}
    /\ cut = [p \in Prompts |-> 0] /\ ran = [p \in Prompts |-> 0]

Record(s, q, a) == IF q = <<>> /\ a = None THEN NoRecord
                   ELSE [entries |-> q, active |-> a, owner |-> daemon]

\* save, which removes an empty queue's file; a failed write is only logged.
Save(s, q, a) ==
    \/ disk' = [disk EXCEPT ![s] = Record(s, q, a)] /\ UNCHANGED failed
    \/ /\ failed < MaxFailed /\ failed' = failed + 1
       /\ UNCHANGED disk

(***************************************************************************)
(* session_start, with or without a restore.                               *)
(***************************************************************************)

Start(s) ==
    /\ stage[s] = "none"
    /\ stage' = [stage EXCEPT ![s] = "open"]
    /\ UNCHANGED <<disk, daemon, from, old, queue, active, paused, claims, failed,
                   accepted, ran, cut>>

\* persist::stopped: the process that owns the record is gone.
Stopped(record) == record # NoRecord /\ record.owner # daemon

\* restore_queue: the queued prompts join paused, the one that ran is only
\* named.
Claim(s, o) ==
    /\ stage[s] = "none" /\ o # s
    /\ o \notin claims
    /\ Stopped(disk[o])
    /\ claims' = claims \cup {o}
    /\ stage' = [stage EXCEPT ![s] = "loaded"]
    /\ from' = [from EXCEPT ![s] = o] /\ old' = [old EXCEPT ![s] = disk[o]]
    /\ queue' = [queue EXCEPT ![s] = disk[o].entries]
    /\ paused' = [paused EXCEPT ![s] = disk[o].entries # <<>>]
    /\ UNCHANGED <<disk, daemon, active, failed, accepted, ran, cut>>

\* The restored queue is kept under the new session before the old record goes.
SaveNew(s) ==
    /\ stage[s] = "loaded"
    /\ Save(s, queue[s], None)
    /\ stage' = [stage EXCEPT ![s] = "kept"]
    /\ UNCHANGED <<daemon, from, old, queue, active, paused, claims, accepted, ran, cut>>

\* Claim::remove; the session is announced.
RemoveOld(s) ==
    /\ stage[s] = "kept"
    /\ disk' = [disk EXCEPT ![from[s]] = NoRecord]
    /\ claims' = claims \ {from[s]}
    /\ stage' = [stage EXCEPT ![s] = "open"]
    /\ UNCHANGED <<daemon, from, old, queue, active, paused, failed, accepted, ran, cut>>

(***************************************************************************)
(* The client's messages; the first one after a restore shows it has the   *)
(* session.                                                                *)
(***************************************************************************)

Heard(s) ==
    /\ stage[s] = "open"
    /\ old' = [old EXCEPT ![s] = NoRecord]
    /\ from' = [from EXCEPT ![s] = None]

Room(s) == Len(queue[s]) < MaxItems

\* turn_start: the prompt runs, paused or not, or joins the queue.
TurnStart(s, p) ==
    /\ Heard(s)
    /\ p \notin accepted /\ ran[p] = 0
    /\ \A t \in Sessions : p \notin ToSet(disk[t].entries) \cup ToSet(queue[t])
    /\ accepted' = accepted \cup {p}
    /\ IF active[s] = None
       THEN /\ active' = [active EXCEPT ![s] = p]
            /\ ran' = [ran EXCEPT ![p] = @ + 1]
            /\ UNCHANGED queue
       ELSE /\ Room(s)
            /\ queue' = [queue EXCEPT ![s] = Append(@, p)]
            /\ UNCHANGED <<active, ran>>
    /\ Save(s, queue'[s], active'[s])
    /\ UNCHANGED <<daemon, stage, paused, claims, cut>>

\* queue_move, to the front.
QueueMove(s, p) ==
    /\ Heard(s)
    /\ p \in ToSet(queue[s])
    /\ queue' = [queue EXCEPT ![s] = <<p>> \o SelectSeq(@, LAMBDA x : x # p)]
    /\ Save(s, queue'[s], active[s])
    /\ UNCHANGED <<daemon, stage, active, paused, claims, accepted, ran, cut>>

\* queue_remove
QueueRemove(s, p) ==
    /\ Heard(s)
    /\ p \in ToSet(queue[s])
    /\ queue' = [queue EXCEPT ![s] = SelectSeq(@, LAMBDA x : x # p)]
    /\ accepted' = accepted \ {p}
    /\ Save(s, queue'[s], active[s])
    /\ UNCHANGED <<daemon, stage, active, paused, claims, ran, cut>>

\* session_clear, between turns.
Clear(s) ==
    /\ Heard(s)
    /\ active[s] = None /\ queue[s] # <<>>
    /\ queue' = [queue EXCEPT ![s] = <<>>]
    /\ accepted' = accepted \ ToSet(queue[s])
    /\ Save(s, <<>>, None)
    /\ UNCHANGED <<daemon, stage, active, paused, claims, ran, cut>>

Pause(s) ==
    /\ Heard(s) /\ ~paused[s]
    /\ paused' = [paused EXCEPT ![s] = TRUE]
    /\ Save(s, queue[s], active[s])
    /\ UNCHANGED <<daemon, stage, queue, active, claims, accepted, ran, cut>>

\* start_queued, the next prompt of a resumed or idle session: recorded as
\* running, and no longer queued, before either is announced.
RunNext(s) ==
    /\ active' = [active EXCEPT ![s] = Head(queue[s])]
    /\ queue' = [queue EXCEPT ![s] = Tail(@)]
    /\ ran' = [ran EXCEPT ![Head(queue[s])] = @ + 1]
    /\ Save(s, Tail(queue[s]), Head(queue[s]))

Resume(s) ==
    /\ Heard(s) /\ paused[s]
    /\ paused' = [paused EXCEPT ![s] = FALSE]
    /\ IF active[s] = None /\ queue[s] # <<>>
       THEN RunNext(s)
       ELSE Save(s, queue[s], active[s]) /\ UNCHANGED <<queue, active, ran>>
    /\ UNCHANGED <<daemon, stage, claims, accepted, cut>>

\* on_turn_done: recorded as over, then the next prompt starts.
TurnDone(s) ==
    /\ stage[s] = "open" /\ active[s] # None
    /\ IF ~paused[s] /\ queue[s] # <<>>
       THEN RunNext(s)
       ELSE /\ active' = [active EXCEPT ![s] = None]
            /\ Save(s, queue[s], None)
            /\ UNCHANGED <<queue, ran>>
    /\ UNCHANGED <<daemon, stage, from, old, paused, claims, accepted, cut>>

(***************************************************************************)
(* Endings.                                                                *)
(***************************************************************************)

\* leave, of a client that went.  A restored queue it never saw goes back
\* before the new record goes; any other queue is unwanted.
Leave(s) ==
    /\ stage[s] = "open"
    /\ stage' = [stage EXCEPT ![s] = "leaving"]
    /\ IF old[s] # NoRecord
       THEN disk' = [disk EXCEPT ![from[s]] = old[s]] /\ UNCHANGED accepted
       ELSE accepted' = accepted \ ToSet(queue[s]) /\ UNCHANGED disk
    /\ UNCHANGED <<daemon, from, old, queue, active, paused, claims, failed, ran, cut>>

LeaveRemove(s) ==
    /\ stage[s] = "leaving"
    /\ disk' = [disk EXCEPT ![s] = NoRecord]
    /\ stage' = [stage EXCEPT ![s] = "over"]
    /\ queue' = [queue EXCEPT ![s] = <<>>] /\ active' = [active EXCEPT ![s] = None]
    /\ UNCHANGED <<daemon, from, old, paused, claims, failed, accepted, ran, cut>>

\* The prompts a restore or a return of one has in two records just now.
Between(s) ==
    IF stage[s] = "kept" \/ (stage[s] = "leaving" /\ old[s] # NoRecord)
    THEN ToSet(disk[s].entries) ELSE {}

\* The daemon stops or crashes: files stay, and the new process owns none.
Crash ==
    /\ daemon <= MaxCrashes
    /\ daemon' = daemon + 1
    /\ stage' = [s \in Sessions |-> IF stage[s] = "none" THEN "none" ELSE "over"]
    /\ queue' = [s \in Sessions |-> <<>>] /\ active' = [s \in Sessions |-> None]
    /\ claims' = {}
    /\ cut' = [p \in Prompts |->
                  cut[p] + Cardinality({s \in Sessions : p \in Between(s)})]
    /\ UNCHANGED <<disk, from, old, paused, failed, accepted, ran>>

Next ==
    \/ \E s \in Sessions :
        \/ Start(s) \/ SaveNew(s) \/ RemoveOld(s) \/ Clear(s) \/ Pause(s) \/ Resume(s)
        \/ TurnDone(s) \/ Leave(s) \/ LeaveRemove(s)
        \/ \E o \in Sessions : Claim(s, o)
        \/ \E p \in Prompts : TurnStart(s, p) \/ QueueMove(s, p) \/ QueueRemove(s, p)
    \/ Crash

Spec == Init /\ [][Next]_vars

(***************************************************************************)
(* Properties.                                                             *)
(***************************************************************************)

TypeOK ==
    /\ \A s \in Sessions : /\ disk[s].owner \in 0..daemon
                           /\ ToSet(disk[s].entries) \subseteq Prompts
                           /\ Len(queue[s]) <= MaxItems
                           /\ from[s] \in Sessions \cup {None}
    /\ stage \in [Sessions -> {"none", "loaded", "kept", "open", "leaving", "over"}]
    /\ claims \subseteq Sessions /\ accepted \subseteq Prompts

\* A prompt runs at most once, whoever restores its queue and however often
\* (persist.rs claim: "so it is restored at most once"; the prompt whose turn
\* was running "is never sent again"); and again only for each stop that came
\* between the two writes of a restore or of its return, which leave it in two
\* records rather than in none, and for each save that failed.
RunOnce == \A p \in Prompts : ran[p] <= 1 + cut[p] + failed

\* A prompt that was announced as queued and not removed is never lost: it
\* ran, waits in a session, or can be restored; through daemon stops at every
\* step of a restore and of a leave (connection.rs session_start, leave: "a
\* crash in between loses neither").
NoneLost ==
    \A p \in accepted :
        \/ ran[p] > 0
        \/ \E s \in Sessions : p \in ToSet(queue[s]) \cup ToSet(disk[s].entries)

\* What a crash would leave on disk is what its clients were shown: every
\* queued prompt of a served session is saved there (connection.rs save_queue:
\* "a client that saw it knows it is kept").
ShownIsKept ==
    \A s \in Sessions : stage[s] = "open" =>
        /\ disk[s].entries = queue[s]
        /\ disk[s].active = active[s]
=============================================================================
