---------------------------- MODULE OwnerQuestion ----------------------------
(***************************************************************************)
(* Yes/no questions to the account's owner in one direct chat: the asker   *)
(* (crates/scv-server/src/confirm.rs), the slot the hub holds for the chat *)
(* (crates/scv-channels/src/hub.rs) and what the chat's bridge does with a *)
(* question's text and with the owner's messages (lib.rs, intake.rs).      *)
(*                                                                         *)
(* The asker's task, the bridge's poller, its store of notices and its     *)
(* delivery are tasks of one process; each action below runs between two   *)
(* awaits.  The outbox and the handled messages are durable; questions,    *)
(* notices and answers are not.                                            *)
(***************************************************************************)
EXTENDS Naturals, FiniteSets, Sequences

CONSTANTS
    Questions,      \* question IDs
    Replies,        \* the owner's messages
    None,           \* no question, no message, no time
    Seconds,        \* a question's time to live, in ticks
    MaxTime,        \* bound on the clock
    MaxStops        \* bound on the bridge's stops and the daemon's restarts

QuestionConstants ==
    /\ None \notin Questions \cup Replies \cup Nat
    /\ None \notin [kind : {"ask", "over"}, id : Questions]
    /\ {Seconds, MaxTime, MaxStops} \subseteq Nat

Open == "Pending"
Ends == {"Yes", "No", "Failed", "Expired", "Withdrawn"}

VARIABLES
    entry,      \* Confirmer.entries: the state the asker can read
    due,        \* its deadline
    polled,     \* the asker still follows it
    heard,      \* what ask_owner returned
    task,       \* the question's follow task
    slot,       \* Hub.questions of this chat: the ID and when it was delivered
    channel,    \* the answer's oneshot: "open", the answer, or "lost"
    notices,    \* notices queued to the bridge
    awaited,    \* notices whose sender still waits for them to be stored
    outbox,     \* durable: what waits to be delivered
    storing,    \* the notice that is being stored, under the state lock
    sent,       \* how far the delivery of the outbox's head is
    handled,    \* durable: the owner's messages seen or with a reply waiting
    taking,     \* the poller's acknowledgement before its save
    up,         \* the bridge runs
    now, stops,
    shown,      \* when the owner first saw each question
    wrote,      \* the owner's messages: what and when
    told,       \* how the chat was told a question ended
    turns,      \* messages that ran as ordinary turns
    unsent      \* questions withdrawn as never seen

asker == <<entry, due, polled, heard, task>>
hub == <<slot, channel, notices, awaited>>
bridge == <<outbox, storing, sent, handled, taking, up>>
owner == <<shown, wrote, told, turns, unsent>>
vars == <<asker, hub, bridge, now, stops, owner>>

NoSlot == [id |-> None, at |-> None]
NoTaking == [msg |-> None, id |-> None]

Init ==
    /\ entry = [q \in Questions |-> "none"] /\ due = [q \in Questions |-> 0]
    /\ polled = [q \in Questions |-> TRUE]
    /\ heard = [q \in Questions |-> "waits"]
    /\ task = [q \in Questions |-> "none"]
    /\ slot = NoSlot
    /\ channel = [q \in Questions |-> "open"]
    /\ notices = <<>> /\ awaited = {}
    /\ outbox = <<>> /\ storing = None /\ sent = "idle" /\ handled = {} /\ taking = NoTaking
    /\ up = TRUE
    /\ now = 0 /\ stops = 0
    /\ shown = [q \in Questions |-> None]
    /\ wrote = [m \in Replies |-> [yes |-> FALSE, at |-> None]]
    /\ told = [q \in Questions |-> {}]
    /\ turns = {} /\ unsent = {}

(***************************************************************************)
(* The asker: Confirmer::ask_in, follow, ask_owner.                        *)
(***************************************************************************)

\* One question at a time per chat; its text is queued to the running bridge,
\* or the task fails at once.
Ask(q) ==
    /\ entry[q] = "none"
    /\ slot.id = None
    /\ up
    /\ now + Seconds <= MaxTime
    /\ slot' = [id |-> q, at |-> None]
    /\ entry' = [entry EXCEPT ![q] = Open]
    /\ due' = [due EXCEPT ![q] = now + Seconds]
    /\ task' = [task EXCEPT ![q] = "begin"]
    /\ UNCHANGED <<polled, heard, channel, notices, awaited, bridge, now, stops, owner>>

\* Hub::withdraw: what becomes of the slot.
Withdrawn(q) == IF slot.id = q THEN NoSlot ELSE slot

\* Its sender is dropped with the slot.
Dropped(q) == IF slot.id = q THEN [channel EXCEPT ![q] = "lost"] ELSE channel

Settle(q, state) ==
    /\ entry' = IF entry[q] = "gone" THEN entry ELSE [entry EXCEPT ![q] = state]
    /\ task' = [task EXCEPT ![q] = "over"]

SendQuestion(q) ==
    /\ task[q] = "begin"
    /\ IF up
       THEN /\ notices' = Append(notices, [kind |-> "ask", id |-> q])
            /\ awaited' = awaited \cup {<<"ask", q>>}
            /\ task' = [task EXCEPT ![q] = "sending"]
            /\ UNCHANGED <<entry, slot, channel>>
       ELSE /\ slot' = Withdrawn(q) /\ channel' = Dropped(q)
            /\ Settle(q, "Failed")
            /\ UNCHANGED <<notices, awaited>>
    /\ UNCHANGED <<due, polled, heard, bridge, now, stops, owner>>

\* NOTIFY_TIMEOUT passed, or the bridge dropped the notice.
NotStored(q) ==
    /\ task[q] = "sending" /\ <<"ask", q>> \in awaited
    /\ awaited' = awaited \ {<<"ask", q>>}
    /\ slot' = Withdrawn(q) /\ channel' = Dropped(q)
    /\ Settle(q, "Failed")
    /\ UNCHANGED <<due, polled, heard, notices, bridge, now, stops, owner>>

Stored(q) ==
    /\ task[q] = "sending" /\ <<"ask", q>> \notin awaited
    /\ task' = [task EXCEPT ![q] = "following"]
    /\ UNCHANGED <<entry, due, polled, heard, hub, bridge, now, stops, owner>>

Receive(q) ==
    /\ task[q] = "following"
    /\ channel[q] # "open"
    /\ Settle(q, IF channel[q] = "lost" THEN "Failed" ELSE channel[q])
    /\ UNCHANGED <<due, polled, heard, hub, bridge, now, stops, owner>>

\* overdue: the deadline passed, or nobody follows the question any more.
Overdue(q) ==
    IF entry[q] = "gone" THEN None
    ELSE IF now >= due[q] THEN "Expired"
    ELSE IF ~polled[q] THEN "Withdrawn" ELSE None

\* An overdue question is withdrawn.  One that is taken or refused has its end
\* on its way; one the owner saw gets a last word; one that was not delivered
\* counts as never asked.
GiveUp(q) ==
    /\ task[q] = "following" /\ channel[q] = "open"
    /\ Overdue(q) # None
    /\ slot.id = q
    /\ slot' = NoSlot /\ channel' = Dropped(q)
    /\ IF slot.at # None
       THEN /\ Settle(q, Overdue(q))
            /\ notices' = IF up THEN Append(notices, [kind |-> "over", id |-> q]) ELSE notices
            /\ awaited' = IF up THEN awaited \cup {<<"over", q>>} ELSE awaited
            /\ UNCHANGED unsent
       ELSE /\ Settle(q, IF Overdue(q) = "Expired" THEN "Failed" ELSE Overdue(q))
            /\ unsent' = unsent \cup {q}
            /\ UNCHANGED <<notices, awaited>>
    /\ UNCHANGED <<due, polled, heard, bridge, now, stops, shown, wrote, told, turns>>

\* The last word's own time-out.
StopWaiting(q) ==
    /\ <<"over", q>> \in awaited
    /\ awaited' = awaited \ {<<"over", q>>}
    /\ UNCHANGED <<asker, slot, channel, notices, bridge, now, stops, owner>>

\* ask_owner reads the state once a second; cancelled, it is a no.
Hear(q) ==
    /\ polled[q] /\ heard[q] = "waits"
    /\ entry[q] \in Ends \cup {"gone"}
    /\ heard' = [heard EXCEPT ![q] = IF entry[q] = "Yes" THEN "yes" ELSE "no"]
    /\ UNCHANGED <<entry, due, polled, task, hub, bridge, now, stops, owner>>

Cancel(q) ==
    /\ entry[q] = Open /\ polled[q] /\ heard[q] = "waits"
    /\ polled' = [polled EXCEPT ![q] = FALSE]
    /\ heard' = [heard EXCEPT ![q] = "no"]
    /\ UNCHANGED <<entry, due, task, hub, bridge, now, stops, owner>>

(***************************************************************************)
(* The bridge: store_notice, deliver_next, accept, acknowledge.            *)
(***************************************************************************)

\* The poller between taking a question and saving its acknowledgement, and a
\* notice being saved, hold the lock on the bridge's state.
Unlocked == up /\ storing = None /\ taking = NoTaking

\* A notice whose sender stopped waiting is dropped.
TakeNotice ==
    /\ Unlocked /\ notices # <<>>
    /\ notices' = Tail(notices)
    /\ storing' = IF <<Head(notices).kind, Head(notices).id>> \in awaited
                  THEN Head(notices) ELSE None
    /\ UNCHANGED <<asker, slot, channel, awaited, outbox, sent, handled, taking, up, now,
                   stops, owner>>

\* Saved, and its sender told if it still waits.
StoreNotice ==
    /\ up /\ storing # None
    /\ outbox' = Append(outbox, storing)
    /\ awaited' = awaited \ {<<storing.kind, storing.id>>}
    /\ storing' = None
    /\ UNCHANGED <<asker, slot, channel, notices, sent, handled, taking, up, now, stops,
                   owner>>

First == Head(outbox)
Delivering(stage) == up /\ outbox # <<>> /\ sent = stage

\* Delivery looks at the oldest: a question nobody waits for is dropped.
CheckFirst ==
    /\ Unlocked /\ Delivering("idle")
    /\ IF First.kind = "ask" /\ slot.id # First.id
       THEN outbox' = Tail(outbox) /\ UNCHANGED sent
       ELSE sent' = "checked" /\ UNCHANGED outbox
    /\ UNCHANGED <<asker, hub, storing, handled, taking, up, now, stops, owner>>

\* The platform takes the text; its answer is still to come.
Send ==
    /\ Delivering("checked")
    /\ sent' = "taken"
    /\ shown' = IF First.kind = "ask" /\ shown[First.id] = None
                THEN [shown EXCEPT ![First.id] = now] ELSE shown
    /\ told' = IF First.kind = "over"
               THEN [told EXCEPT ![First.id] = @ \cup {"over"}] ELSE told
    /\ UNCHANGED <<asker, hub, outbox, storing, handled, taking, up, now, stops, wrote,
                   turns, unsent>>

\* No answer, or a lost one: later the same text goes again under its client ID.
Retry ==
    /\ Delivering("checked") \/ Delivering("taken")
    /\ sent' = "idle"
    /\ UNCHANGED <<asker, hub, outbox, storing, handled, taking, up, now, stops, owner>>

\* Delivered: question_delivered opens the question, as of its first delivery.
Delivered ==
    /\ Unlocked /\ Delivering("taken")
    /\ sent' = "done"
    /\ slot' = IF First.kind = "ask" /\ slot.id = First.id /\ slot.at = None
               THEN [slot EXCEPT !.at = now] ELSE slot
    /\ UNCHANGED <<asker, channel, notices, awaited, outbox, storing, handled, taking, up,
                   now, stops, owner>>

\* Refused: question_undelivered drops the question.
Refuse ==
    /\ Delivering("checked")
    /\ First.kind = "ask" => shown[First.id] = None
    /\ sent' = "done"
    /\ IF First.kind = "ask" /\ slot.id = First.id
       THEN slot' = NoSlot /\ channel' = [channel EXCEPT ![First.id] = "lost"]
       ELSE UNCHANGED <<slot, channel>>
    /\ UNCHANGED <<asker, notices, awaited, outbox, storing, handled, taking, up, now,
                   stops, owner>>

\* The write that ends a delivery.
RemoveFirst ==
    /\ Unlocked /\ Delivering("done")
    /\ outbox' = Tail(outbox) /\ sent' = "idle"
    /\ UNCHANGED <<asker, hub, storing, handled, taking, up, now, stops, owner>>

\* The message is the owner's and new, and the poller has no other at hand.
AtHand(m) ==
    /\ Unlocked
    /\ wrote[m].at # None /\ m \notin handled

\* Fault: any yes or no answers an open question, whenever it was sent.
Answers_Fault(m) == slot.id # None /\ slot.at # None

\* classify and take_question: sent once the question was delivered.
Answers(m) == slot.id # None /\ slot.at # None /\ wrote[m].at >= slot.at

\* take_question empties the slot; the acknowledgement is not saved yet.
TakeAnswer(m) ==
    /\ AtHand(m) /\ Answers(m)
    /\ taking' = [msg |-> m, id |-> slot.id]
    /\ slot' = NoSlot
    /\ UNCHANGED <<asker, channel, notices, awaited, outbox, storing, sent, handled, up,
                   now, stops, owner>>

\* The reply is durable; then the asker hears the answer.
Acknowledge(m) ==
    /\ taking.msg = m
    /\ outbox' = Append(outbox, [kind |-> "ack", id |-> taking.id])
    /\ handled' = handled \cup {m}
    /\ told' = [told EXCEPT ![taking.id] = @ \cup {"ack"}]
    /\ channel' = [channel EXCEPT ![taking.id] = IF wrote[m].yes THEN "Yes" ELSE "No"]
    /\ taking' = NoTaking
    /\ UNCHANGED <<asker, slot, notices, awaited, storing, sent, up, now, stops, shown,
                   wrote, turns, unsent>>

\* Anything else the owner wrote is an ordinary message.
RunTurn(m) ==
    /\ AtHand(m) /\ ~Answers(m)
    /\ handled' = handled \cup {m}
    /\ turns' = turns \cup {m}
    /\ UNCHANGED <<asker, hub, outbox, storing, sent, taking, up, now, stops, shown, wrote, told,
                   unsent>>

\* The bridge stops: a failed save, a lost connection, a settings change.  The
\* supervisor starts it again; its registration takes the hub's queue with it.
Stop ==
    /\ up /\ stops < MaxStops
    /\ up' = FALSE /\ stops' = stops + 1
    /\ taking' = NoTaking /\ storing' = None /\ sent' = "idle"
    /\ channel' = IF taking.id = None THEN channel
                  ELSE [channel EXCEPT ![taking.id] = "lost"]
    /\ notices' = <<>>
    /\ UNCHANGED <<asker, slot, awaited, outbox, handled, now, owner>>

Start ==
    /\ ~up
    /\ up' = TRUE
    /\ UNCHANGED <<asker, hub, outbox, storing, sent, handled, taking, now, stops, owner>>

\* The daemon restarts: what was only in memory is gone, and a question asked
\* before is unknown to confirm_status.
Restart ==
    /\ stops < MaxStops
    /\ stops' = stops + 1
    /\ entry' = [q \in Questions |-> IF entry[q] = "none" THEN "none" ELSE "gone"]
    /\ task' = [q \in Questions |-> IF task[q] = "none" THEN "none" ELSE "over"]
    /\ slot' = NoSlot
    /\ channel' = [q \in Questions |-> IF entry[q] = "none" THEN "open" ELSE "lost"]
    /\ notices' = <<>> /\ awaited' = {}
    /\ taking' = NoTaking /\ storing' = None /\ sent' = "idle" /\ up' = FALSE
    /\ UNCHANGED <<due, polled, heard, outbox, handled, now, owner>>

(***************************************************************************)
(* The owner and the clock.                                                *)
(***************************************************************************)

Write(m, yes) ==
    /\ wrote[m].at = None
    /\ wrote' = [wrote EXCEPT ![m] = [yes |-> yes, at |-> now]]
    /\ UNCHANGED <<asker, hub, bridge, now, stops, shown, told, turns, unsent>>

Tick ==
    /\ now < MaxTime
    /\ now' = now + 1
    /\ UNCHANGED <<asker, hub, bridge, stops, owner>>

Follow(q) ==
    \/ SendQuestion(q) \/ NotStored(q) \/ Stored(q) \/ Receive(q) \/ GiveUp(q) \/ Hear(q)

Deliver == CheckFirst \/ Send \/ Retry \/ Delivered \/ Refuse \/ RemoveFirst

Accept(m) == TakeAnswer(m) \/ Acknowledge(m) \/ RunTurn(m)

Next ==
    \/ \E q \in Questions : Ask(q) \/ Follow(q) \/ StopWaiting(q) \/ Cancel(q)
    \/ \E m \in Replies : Accept(m) \/ Write(m, TRUE) \/ Write(m, FALSE)
    \/ TakeNotice \/ StoreNotice \/ Deliver
    \/ Stop \/ Start \/ Restart \/ Tick

Spec == Init /\ [][Next]_vars

\* The asker's task wakes every second and its waits have time limits, a save
\* ends, and the clock runs.  Nothing is assumed of the platform or the owner.
FairSpec ==
    /\ Spec
    /\ WF_vars(Tick)
    /\ \A q \in Questions : WF_vars(Follow(q))
    /\ \A m \in Replies : WF_vars(Acknowledge(m))

(***************************************************************************)
(* Properties.                                                             *)
(***************************************************************************)

TypeOK ==
    /\ entry \in [Questions -> Ends \cup {"none", "gone", Open}]
    /\ heard \in [Questions -> {"waits", "yes", "no"}]
    /\ task \in [Questions -> {"none", "begin", "sending", "following", "over"}]
    /\ slot.id \in Questions \cup {None} /\ slot.at \in 0..MaxTime \cup {None}
    /\ channel \in [Questions -> {"open", "lost", "Yes", "No"}]
    /\ \A i \in DOMAIN outbox : outbox[i].kind \in {"ask", "over", "ack"}
    /\ handled \subseteq Replies /\ turns \subseteq handled
    /\ taking.msg \in Replies \cup {None}
    /\ now \in 0..MaxTime /\ stops \in 0..MaxStops

\* A gated call goes ahead only on a yes the owner wrote after the question's
\* text reached the chat, and whose acknowledgement is durable (confirm.rs,
\* lib.rs acknowledge): no replayed message, no answer to an earlier question,
\* no time-out counts as one.
YesWasGiven ==
    \A q \in Questions : heard[q] = "yes" =>
        /\ shown[q] # None
        /\ "ack" \in told[q]
        /\ \E m \in handled \ turns : wrote[m].yes /\ wrote[m].at >= shown[q]

\* The asker and the chat never hear two ends: a question the chat was told
\* is over was not acknowledged, and one that was acknowledged is heard as the
\* answer or, if the daemon or the bridge went down in between, not at all.
OneEnd ==
    \A q \in Questions :
        /\ ~({"ack", "over"} \subseteq told[q])
        /\ "ack" \in told[q] => entry[q] \notin {"Expired", "Withdrawn", "Failed"}

\* A yes is the owner's, and a question has one end.
YesIsTheOwners == YesWasGiven /\ OneEnd

\* Every question ends, by an answer, its time limit, its asker's leaving, a
\* refusal or a failure to store it.
EveryQuestionEnds == \A q \in Questions : entry[q] = Open ~> entry[q] # Open

\* confirm.rs, of a question withdrawn before the bridge recorded it delivered:
\* "The owner never saw it, and the bridge drops it unsent: nothing was asked."
UnsentWasNeverSeen == \A q \in unsent : shown[q] = None

=============================================================================
