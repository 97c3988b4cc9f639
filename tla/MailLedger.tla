----------------------------- MODULE MailLedger -----------------------------
(***************************************************************************)
(* The mail account's persisted state, as far as its actions go, and every *)
(* change the ledger commits to it (scv-channels/src/email/ledger.rs and   *)
(* ledger/actions.rs).                                                     *)
(*                                                                         *)
(* Ledger::commit copies the state, changes the copy, saves it and only    *)
(* then publishes it, so every change is one atomic step: an operator from *)
(* a MailState to the next.  The processes that call these operators, the  *)
(* crashes between two commits and the world outside are in MailActions.   *)
(*                                                                         *)
(* Abstractions: a code is the pair <<action, generation>>, because codes  *)
(* are drawn fresh (Actions::draw_code); a time is a natural number of     *)
(* ticks, with no difference between host seconds and milliseconds; the    *)
(* words the owner is told are one of five texts.                          *)
(***************************************************************************)
EXTENDS Integers, Sequences, FiniteSets

CONSTANTS
  Actions,        \* action IDs; an ID is drawn once (content.rs, random)
  Kind,           \* the kind of each action
  Group,          \* the alternatives of one mail share a group, else None
  Origin,         \* the chat its owner asked in, or None (a triage suggestion)
  Copied,         \* the sends SCV itself copies to Sent (sent_copy = "append")
  Routes,         \* chats the account may report to
  Peers,          \* chat users
  Messages,       \* platform message IDs of the owner's commands
  None,           \* Option::None
  BatchKeys,      \* keys of the notices handed to a chat
  HardSpan,       \* max_pending_hours
  ExecuteSpan,    \* execute_minutes
  RetryDelay,     \* backoff of a failed try
  ProbeDelay,     \* backoff of an unreachable check
  ProbeGrace,     \* PROBE_GRACE
  Day,            \* the window of the daily limits
  ApprovalKeep,   \* APPROVAL_SECONDS
  UnknownKeep,    \* unknown_keep_days
  MaxAttempts,    \* MAX_ATTEMPTS
  MaxReissues,    \* MAX_REISSUES
  MaxOpen,        \* mail.actions.max_open
  DailyLimit      \* max_sends_per_day and the like, one number for each kind

Kinds == {"send", "draft", "move"}
NoTime == -1      \* Option::None of a time
NoKey == 0        \* Option::None of a notice key

ASSUME MailLedgerConstants ==
  /\ None \notin Routes \cup Peers \cup Messages
  /\ Kind \in [Actions -> Kinds]
  /\ Group \in [Actions -> Actions \cup {None}]
  /\ Origin \in [Actions -> Routes \cup {None}]
  /\ Copied \subseteq {a \in Actions : Kind[a] = "send"}
  /\ BatchKeys \subseteq Nat \ {NoKey}
  /\ {HardSpan, ExecuteSpan, RetryDelay, ProbeDelay, ProbeGrace, Day,
      ApprovalKeep, UnknownKeep, MaxAttempts, MaxReissues, MaxOpen}
       \subseteq Nat
  /\ DailyLimit \in [Kinds -> Nat]

-----------------------------------------------------------------------------
(* Types *)

Live == {"proposed", "previewing", "open", "approved", "executing"}
Over == {"done", "failed", "unknown", "denied", "expired", "superseded",
         "cancelled", "invalid"}
States == {"absent"} \cup Live \cup Over
OutcomeCodes == {"applied", "already_done", "gone", "stale", "policy",
                 "mismatch", "refused", "ambiguous", "auth_uncertain"}
Resumes == {"none", "after_copy", "expunge"}
SentCopies == {"none", "pending", "saved", "failed"}
\* What the owner is told of an approved action's end.
Texts == {"none", "done", "done_copy_failed", "not_done", "lost_track",
          "auth_refused"}

Times == Nat \cup {NoTime}

Approval == [route : Routes, peer : Peers, message : Messages,
             sent : Nat, at : Nat]

\* Option::None of an approval.
ASSUME NoApproval == None \notin Approval

ActionEntry ==
  [state : States,
   generation : Nat,              \* which code approves it; reissues + 1
   key : BatchKeys \cup {NoKey},  \* preview.key
   route : Routes \cup {None},    \* preview.route
   peer : Peers \cup {None},      \* preview.peer
   stored : BOOLEAN,              \* preview.stored_at is set
   delivered : Times,             \* preview.delivered_ms
   hardExpiry : Nat,
   expiresAt : Nat,
   approval : Approval \cup {None},
   executeBy : Times,
   attempts : Nat,
   notBefore : Nat,
   probeAfter : Times,
   uncertain : BOOLEAN,
   resume : Resumes,
   outcome : OutcomeCodes \cup {None},
   sentCopy : SentCopies,
   terminalAt : Times,
   swept : BOOLEAN]               \* only its tombstone is left

Codes == Actions \X Nat
\* A queued notice that previews actions, showing a code of each; its key is
\* preview:<head>:<generation>.
Item == [head : Actions, generation : Nat, codes : SUBSET Codes]
Reservation == [id : Actions, at : Nat]
Stamped == [message : Messages, at : Nat]
Batch == [key : BatchKeys, items : SUBSET Item]

\* Option::None of a batch.
ASSUME NoBatch == None \notin Batch

Watched == [key : BatchKeys, route : Routes]

MailState ==
  [actions : [Actions -> ActionEntry],
   reservations : SUBSET Reservation,
   approvals : SUBSET Stamped,
   told : [Actions -> Texts],
   queue : SUBSET Item,
   sentKeys : SUBSET Codes,
   batch : Batch \cup {None},
   watched : SUBSET Watched]

\* The settings the account started with, and the kinds the provider can do.
Policy == [allows : SUBSET Kinds, possible : SUBSET Kinds,
           routes : Seq(Routes), window : Nat]

absent_entry ==
  [state |-> "absent", generation |-> 0, key |-> NoKey, route |-> None,
   peer |-> None, stored |-> FALSE, delivered |-> NoTime, hardExpiry |-> 0,
   expiresAt |-> 0, approval |-> None, executeBy |-> NoTime, attempts |-> 0,
   notBefore |-> 0, probeAfter |-> NoTime, uncertain |-> FALSE,
   resume |-> "none", outcome |-> None, sentCopy |-> "none",
   terminalAt |-> NoTime, swept |-> FALSE]

EmptyState ==
  [actions |-> [a \in Actions |-> absent_entry], reservations |-> {},
   approvals |-> {}, told |-> [a \in Actions |-> "none"], queue |-> {},
   sentKeys |-> {}, batch |-> None, watched |-> {}]

-----------------------------------------------------------------------------
(* Helpers of one entry *)

waiting(e) == e.state \in {"proposed", "previewing", "open"}
terminal(e) == e.state \in Over

allows(p, a) == Kind[a] \in p.allows
offers(p, a) == Kind[a] \in p.allows \cap p.possible
RoutesOf(p) == {p.routes[i] : i \in DOMAIN p.routes}
min(x, y) == IF x <= y THEN x ELSE y

\* ActionEntry::end: the outcome's sent_copy is kept.
end(e, st, code, now) ==
  [e EXCEPT !.state = st, !.terminalAt = now,
            !.outcome = IF code = None THEN @ ELSE code]

open(e, at, p) ==
  [e EXCEPT !.state = "open", !.delivered = at,
            !.expiresAt = min(e.hardExpiry, at + p.window)]

\* NewAction::entry
new_entry(now) ==
  [absent_entry EXCEPT !.state = "proposed", !.generation = 1,
                       !.hardExpiry = now + HardSpan,
                       !.expiresAt = now + HardSpan]

\* The chat that may deny an action before a preview of it is stored.
intended_route(a, p) ==
  IF Origin[a] \in RoutesOf(p) THEN Origin[a]
  ELSE IF p.routes = <<>> THEN None ELSE p.routes[1]

bind(e, a, p) ==
  IF e.route = None /\ e.state \in {"proposed", "previewing"}
  THEN [e EXCEPT !.route = intended_route(a, p)]
  ELSE e

bind_unassigned(L, p) ==
  [L EXCEPT !.actions = [a \in Actions |-> bind(L.actions[a], a, p)]]

\* Apply f to the entries of the actions in S.
Each(L, S, f(_, _)) ==
  [L EXCEPT !.actions = [a \in Actions |-> IF a \in S THEN f(a, L.actions[a])
                                                      ELSE L.actions[a]]]

Previews(item) == {c[1] : c \in item.codes}

\* push_item_with: unless its key is queued or was sent.
push_item(L, item) ==
  LET key == <<item.head, item.generation>>
      known == {<<i.head, i.generation>> : i \in L.queue} \cup L.sentKeys
  IN IF key \in known THEN L ELSE [L EXCEPT !.queue = @ \cup {item}]

-----------------------------------------------------------------------------
(* The end of an action *)

outcome_text(e) ==
  CASE e.state = "done" ->
         IF e.sentCopy = "failed" THEN "done_copy_failed" ELSE "done"
    [] e.state \in {"failed", "invalid"} -> "not_done"
    [] e.state = "unknown" ->
         IF e.outcome = "auth_uncertain" THEN "auth_refused" ELSE "lost_track"
    [] OTHER -> "none"

\* tell: the notice outcome:<id> is queued once, so the first text stays.
tell(told, e) == IF told = "none" THEN outcome_text(e) ELSE told

\* Fault: only an end that leaves doubt is told.
finish_quiet(L, S, st, code, now) ==
  LET ended == [a \in Actions |-> IF a \in S
                                  THEN end(L.actions[a], st, code, now)
                                  ELSE L.actions[a]]
  IN [L EXCEPT
        !.actions = ended,
        !.reservations = IF st \in {"done", "unknown"} THEN @
                         ELSE {r \in @ : r.id \notin S},
        !.told = [a \in Actions |->
                    IF a \in S /\ st = "unknown" /\ L.actions[a].approval # None
                    THEN tell(@[a], ended[a]) ELSE @[a]]]

\* Fault: what nobody knows of is given back.
finish_gives_back(L, S, st, code, now) ==
  LET ended == [a \in Actions |-> IF a \in S
                                  THEN end(L.actions[a], st, code, now)
                                  ELSE L.actions[a]]
  IN [L EXCEPT
        !.actions = ended,
        !.reservations = IF st = "done" THEN @
                         ELSE {r \in @ : r.id \notin S},
        !.told = [a \in Actions |->
                    IF a \in S /\ L.actions[a].approval # None
                    THEN tell(@[a], ended[a]) ELSE @[a]]]

\* finish, of every action in S: the reservation goes unless the action may
\* have happened, and the owner is told when it had been approved.
finish(L, S, st, code, now) ==
  LET ended == [a \in Actions |-> IF a \in S
                                  THEN end(L.actions[a], st, code, now)
                                  ELSE L.actions[a]]
  IN [L EXCEPT
        !.actions = ended,
        !.reservations = IF st \in {"done", "unknown"} THEN @
                         ELSE {r \in @ : r.id \notin S},
        !.told = [a \in Actions |->
                    IF a \in S /\ L.actions[a].approval # None
                    THEN tell(@[a], ended[a]) ELSE @[a]]]

\* actions::prune
prune(L, now) ==
  [L EXCEPT !.approvals = {m \in @ : now - m.at < ApprovalKeep},
            !.reservations = {r \in @ : now - r.at < Day}]

-----------------------------------------------------------------------------
(* Proposals *)

LiveActions(L) == {a \in Actions : L.actions[a].state \in Live}

add_proposed(L, new, now, p) ==
  bind_unassigned(Each(L, new, LAMBDA a, e : new_entry(now)), p)

\* Ledger::propose, for one request: the refusals Duplicate, Started and Full
\* leave the state as it was.
Refused(L, new, revised) ==
  \/ \E a \in new : L.actions[a].state # "absent"
  \/ \E a \in revised : ~L.actions[a].swept
                     /\ ~waiting(L.actions[a])
                     /\ L.actions[a].state \notin {"absent", "superseded"}
  \/ Cardinality(LiveActions(L) \ {a \in revised : waiting(L.actions[a])})
       + Cardinality(new) > MaxOpen

propose(L, new, revised, head, now, p) ==
  IF Refused(L, new, revised) THEN L
  ELSE LET replaced == {a \in revised : waiting(L.actions[a])}
           freed == Each(L, replaced,
                         LAMBDA a, e : end(e, "superseded", None, now))
       IN push_item(add_proposed(freed, new, now, p),
                    [head |-> head, generation |-> 1,
                     codes |-> {<<a, 1>> : a \in new}])

\* record, of a report that suggests one action (the worker asked
\* Preparer::full first).
record_report(L, a, now, p) ==
  prune(push_item(add_proposed(L, {a}, now, p),
                  [head |-> a, generation |-> 1, codes |-> {<<a, 1>>}]),
        now)

-----------------------------------------------------------------------------
(* Previews *)

begin_batch(L, key, items, p) ==
  LET ids == UNION {Previews(i) : i \in items}
      hand(a, e) ==
        IF e.state \in {"proposed", "previewing"}
        THEN [e EXCEPT !.state = "previewing", !.key = key,
                       !.stored = FALSE, !.delivered = NoTime]
        ELSE e
  IN bind_unassigned([Each(L, ids, hand) EXCEPT
                        !.batch = [key |-> key, items |-> items]], p)

Previewing(L, key) ==
  {a \in Actions : L.actions[a].state = "previewing" /\ L.actions[a].key = key}

batch_stored(L, route, peer, now) ==
  LET stored == Each(L, Previewing(L, L.batch.key),
                     LAMBDA a, e : [e EXCEPT !.route = route, !.peer = peer,
                                             !.stored = TRUE])
  IN prune([stored EXCEPT
              !.batch = None,
              !.queue = @ \ L.batch.items,
              !.sentKeys = @ \cup {<<i.head, i.generation>> :
                                     i \in L.batch.items},
              !.watched = @ \cup {[key |-> L.batch.key, route |-> route]}],
           now)

\* Ledger::batch_dissolve and actions::previews_lost
batch_dissolve(L, now) ==
  LET lost == Each(L, Previewing(L, L.batch.key),
                   LAMBDA a, e : end(e, "expired", None, now))
  IN [lost EXCEPT !.batch = None, !.queue = @ \ L.batch.items]

\* The platform took the notice of a key k with taken[k] # NoTime, then.
previews_delivered(L, taken, p) ==
  Each(L, {a \in Actions : /\ L.actions[a].state = "previewing"
                           /\ L.actions[a].key # NoKey /\ L.actions[a].stored
                           /\ taken[L.actions[a].key] # NoTime},
       LAMBDA a, e : open(e, taken[e.key], p))

\* Offered again under a new code, or expired.
reissue(e, now) ==
  IF e.generation <= MaxReissues
  THEN [e EXCEPT !.generation = @ + 1, !.state = "proposed",
                 !.key = NoKey, !.route = None, !.peer = None,
                 !.stored = FALSE, !.delivered = NoTime]
  ELSE end(e, "expired", None, now)

previews_refused(L, keys, now, p) ==
  bind_unassigned(Each(L, UNION {Previewing(L, k) : k \in keys},
                       LAMBDA a, e : reissue(e, now)), p)

\* Ledger::settle_watched, of the notices whose fate the hub knows: taken
\* gives when one was delivered, refused those the platform refused.
settle_watched(L, taken, refused, now, p) ==
  LET seen == [L EXCEPT !.watched = {w \in @ : /\ taken[w.key] = NoTime
                                               /\ w.key \notin refused}]
  IN previews_refused(previews_delivered(seen, taken, p), refused, now, p)

\* Ledger::queue_preview, under the codes the actions have.
queue_preview(L, head, ids, p) ==
  bind_unassigned(push_item(L, [head |-> head,
                                generation |-> L.actions[head].generation,
                                codes |-> {<<a, L.actions[a].generation>> :
                                             a \in ids}]), p)

-----------------------------------------------------------------------------
(* The owner's commands *)

\* Known(L, c): an action still recorded has the code, now or before.
Known(L, c) == /\ L.actions[c[1]].state # "absent"
               /\ ~L.actions[c[1]].swept
               /\ c[2] <= L.actions[c[1]].generation

Used(L, a, now) ==
  Cardinality({r \in L.reservations : /\ Kind[r.id] = Kind[a]
                                      /\ now - r.at < Day})

Siblings(a) ==
  {b \in Actions : b # a /\ Group[a] # None /\ Group[b] = Group[a]}

\* A preview delivered since the ledger last looked opens now.
opened_entry(e, generation, delivered, p) ==
  LET at == delivered[<<e.route, e.key>>]
  IN IF /\ e.state = "previewing" /\ e.generation = generation
        /\ e.route # None /\ e.key # NoKey /\ e.stored
        /\ at # NoTime
     THEN open(e, at, p)
     ELSE e

\* Faults: an undated message will do; so will one sent before the preview
\* arrived.
in_order_undated(e, ev) ==
  ev.sent = NoTime \/ (e.delivered # NoTime /\ ev.sent >= e.delivered)
in_order_early(e, ev) == ev.sent # NoTime /\ e.delivered # NoTime

\* The checks of approve, after the code was found to be the current one of
\* an open action.  ev is the chat evidence: route, peer, message, sent.
same_chat(e, ev, owner) ==
  e.route = ev.route /\ e.peer = ev.peer /\ owner[ev.route] = ev.peer

in_order(e, ev) ==
  ev.sent # NoTime /\ e.delivered # NoTime /\ ev.sent >= e.delivered

may_approve(L, a, ev, now, p) ==
  /\ offers(p, a)
  /\ ev.route \in RoutesOf(p)
  /\ Used(L, a, now) < DailyLimit[Kind[a]]
  /\ \A b \in Siblings(a) :
       L.actions[b].swept
         \/ L.actions[b].state \notin {"approved", "executing", "done"}

\* Fault: the alternatives stay open.
record_approval_alone(L, a, ev, now) ==
  LET choose(b, e) ==
        IF b = a
        THEN [e EXCEPT !.state = "approved",
                       !.approval = [route |-> ev.route, peer |-> ev.peer,
                                     message |-> ev.message,
                                     sent |-> ev.sent, at |-> now],
                       !.executeBy = now + ExecuteSpan, !.notBefore = now]
        ELSE e
  IN [Each(L, {a}, choose) EXCEPT
        !.reservations = @ \cup {[id |-> a, at |-> now]}]

record_approval(L, a, ev, now) ==
  LET choose(b, e) ==
        IF b = a
        THEN [e EXCEPT !.state = "approved",
                       !.approval = [route |-> ev.route, peer |-> ev.peer,
                                     message |-> ev.message,
                                     sent |-> ev.sent, at |-> now],
                       !.executeBy = now + ExecuteSpan, !.notBefore = now]
        ELSE IF e.state \in Live THEN end(e, "superseded", None, now) ELSE e
  IN [Each(L, {a} \cup Siblings(a), choose) EXCEPT
        !.reservations = @ \cup {[id |-> a, at |-> now]}]

\* One code of an approve command.
approve_code(L, c, ev, replayed, owner, delivered, now, p) ==
  IF ~Known(L, c) THEN L
  ELSE LET a == c[1]
           e == opened_entry(L.actions[a], c[2], delivered, p)
           opened == [L EXCEPT !.actions[a] = e]
       IN IF \/ e.generation # c[2] \/ replayed \/ e.state # "open"
             \/ ~same_chat(e, ev, owner) \/ ~in_order(e, ev)
          THEN opened
          ELSE IF now >= e.expiresAt
          THEN [opened EXCEPT !.actions[a] = end(e, "expired", None, now)]
          ELSE IF may_approve(opened, a, ev, now, p)
          THEN record_approval(opened, a, ev, now)
          ELSE opened

Approved(L) == {a \in Actions : L.actions[a].approval # None}

\* Fault: the approvals ring is not consulted.
approve_again(L, ev, owner, delivered, now, p) ==
  LET first == approve_code(L, ev.codes[1], ev, FALSE, owner, delivered,
                            now, p)
  IN IF Len(ev.codes) = 1 THEN first
     ELSE approve_code(first, ev.codes[2], ev, FALSE, owner, delivered,
                       now, p)

\* The whole command: ev.codes names one code or two.
approve(L, ev, owner, delivered, now, p) ==
  LET replayed == \E m \in L.approvals : m.message = ev.message
      first == approve_code(L, ev.codes[1], ev, replayed, owner, delivered,
                            now, p)
      all == IF Len(ev.codes) = 1 THEN first
             ELSE approve_code(first, ev.codes[2], ev, replayed, owner,
                               delivered, now, p)
  IN IF Approved(all) = Approved(L) THEN all
     ELSE [all EXCEPT !.approvals = @ \cup {[message |-> ev.message,
                                             at |-> now]}]

may_deny(e, ev, owner, p) ==
  /\ e.route # None /\ e.route = ev.route
  /\ owner[ev.route] = ev.peer
  /\ ev.route \in RoutesOf(p)
  /\ e.peer \in {None, ev.peer}

\* Fault: what is being carried out can be stopped.
Stoppable_anytime(e) == e.state \in Live

\* Neither an action that is over nor one being carried out can be stopped.
Stoppable(e) == e.state \in Live \ {"executing"}

deny(L, codes, ev, owner, now, p) ==
  finish(L, {a \in Actions : /\ <<a, L.actions[a].generation>> \in codes
                             /\ Stoppable(L.actions[a])
                             /\ may_deny(L.actions[a], ev, owner, p)},
         "denied", None, now)

\* deny all: every current code.
CurrentCodes(L) == {<<a, L.actions[a].generation>> : a \in Actions}

\* scv mail cancel, of one action or of all.
cancel(L, S, now) ==
  finish(L, {a \in S : Stoppable(L.actions[a])}, "cancelled", None, now)

-----------------------------------------------------------------------------
(* Time *)

Expired(L, now) ==
  {a \in Actions : waiting(L.actions[a]) /\ now >= L.actions[a].expiresAt}
Stale(L, now) ==
  {a \in Actions : /\ L.actions[a].state = "approved"
                   /\ L.actions[a].executeBy # NoTime
                   /\ now > L.actions[a].executeBy}

\* Fault: a stale approval is left.
expire_waiting(L, now) ==
  Each(L, Expired(L, now), LAMBDA a, e : end(e, "expired", None, now))

expire(L, now) ==
  finish(Each(L, Expired(L, now), LAMBDA a, e : end(e, "expired", None, now)),
         Stale(L, now), "failed", "stale", now)

tombstone_due(e, now) ==
  /\ ~e.swept
  /\ terminal(e)
  /\ e.state = "unknown" => now - e.terminalAt >= UnknownKeep
  /\ e.state = "done" => e.sentCopy # "pending"

sweep_actions(L, now) ==
  Each(L, {a \in Actions : tombstone_due(L.actions[a], now)},
       LAMBDA a, e : [e EXCEPT !.swept = TRUE])

-----------------------------------------------------------------------------
(* Carrying out *)

\* The approved actions due, oldest approval first.
Due(L, now) == {a \in Actions : /\ L.actions[a].state = "approved"
                                /\ L.actions[a].notBefore <= now}
next_approved(L, now) ==
  {a \in Due(L, now) : \A b \in Due(L, now) :
     L.actions[a].approval.at <= L.actions[b].approval.at}

due_probes(L, now) ==
  {a \in Actions : /\ L.actions[a].state = "executing"
                   /\ L.actions[a].probeAfter # NoTime
                   /\ L.actions[a].probeAfter <= now}

\* begin_execution; intact: the content still hashes to what was approved
\* and the credentials are the ones it was prepared with.
Ready(e, now) == e.state = "approved" /\ e.notBefore <= now

Startable(L, a, intact, now, p) ==
  /\ Ready(L.actions[a], now)
  /\ ~L.actions[a].uncertain
  /\ L.actions[a].executeBy # NoTime /\ now <= L.actions[a].executeBy
  /\ intact
  /\ offers(p, a)

begin_execution(L, a, intact, now, p) ==
  LET e == L.actions[a]
  IN IF ~Ready(e, now) THEN L
     ELSE IF e.uncertain
     THEN finish(L, {a}, "unknown", "auth_uncertain", now)
     ELSE IF e.executeBy = NoTime \/ now > e.executeBy
     THEN finish(L, {a}, "failed", "stale", now)
     ELSE IF ~intact
     THEN finish(L, {a}, "invalid", "mismatch", now)
     ELSE IF ~offers(p, a)
     THEN finish(L, {a}, "failed", "policy", now)
     ELSE [L EXCEPT !.actions[a] =
             [e EXCEPT !.state = "executing", !.attempts = e.attempts + 1,
                       !.probeAfter = NoTime, !.resume = "none"]]

mark_sent(L, a, now) ==
  [L EXCEPT !.actions[a] = [end(@, "done", "applied", now) EXCEPT
                              !.sentCopy = "pending"]]

\* finish_execution; copy is the sent_copy of Execution::Applied, resume the
\* half-done move the Approved in hand started from.
finish_applied(L, a, copy, now) ==
  IF L.actions[a].state = "done"
  THEN LET e == [L.actions[a] EXCEPT !.sentCopy = copy]
       IN [L EXCEPT !.actions[a] = e, !.told[a] = tell(@, e)]
  ELSE [finish(L, {a}, "done", "applied", now) EXCEPT
          !.actions[a].sentCopy = copy]

finish_not_applied(L, a, retry, resume, now) ==
  LET e == L.actions[a]
  IN IF retry /\ e.attempts < MaxAttempts /\ now <= e.executeBy
     THEN [L EXCEPT !.actions[a] =
             [@ EXCEPT !.state = "approved", !.notBefore = now + RetryDelay,
                       !.resume = resume]]
     ELSE finish(L, {a}, "failed", "refused", now)

\* Faults: a lost answer counts as a refusal; a 401 is tried again.
finish_execution_gives_up(L, a, execution, copy, resume, now) ==
  IF execution = "applied" THEN finish_applied(L, a, copy, now)
  ELSE finish_not_applied(L, a, execution = "retry", resume, now)
finish_execution_signs_in(L, a, execution, copy, resume, now) ==
  CASE execution = "applied" -> finish_applied(L, a, copy, now)
    [] execution = "ambiguous" -> [L EXCEPT !.actions[a].probeAfter = now]
    [] OTHER -> finish_not_applied(L, a, execution # "not_applied", resume,
                                   now)

finish_execution(L, a, execution, copy, resume, now) ==
  CASE execution = "applied" -> finish_applied(L, a, copy, now)
    [] execution = "not_applied" ->
         finish_not_applied(L, a, FALSE, resume, now)
    [] execution = "retry" -> finish_not_applied(L, a, TRUE, resume, now)
    [] execution = "ambiguous" -> [L EXCEPT !.actions[a].probeAfter = now]
    [] execution = "uncertain" ->
         [L EXCEPT !.actions[a] = [@ EXCEPT !.uncertain = TRUE,
                                            !.probeAfter = now]]

\* probed: what a read-only check of an interrupted action found.
try_again(L, a, resume, now) ==
  [L EXCEPT !.actions[a] =
     [@ EXCEPT !.state = "approved", !.notBefore = now,
               !.probeAfter = NoTime, !.resume = resume]]

\* Fault: a check that found nothing counts as done.
probed_trusting(L, a, probe, now) ==
  IF L.actions[a].state = "executing" /\ probe \in {"done", "unknown"}
  THEN finish(L, {a}, "done", "already_done", now)
  ELSE L

probed(L, a, probe, now) ==
  LET e == L.actions[a]
      in_time == now <= e.executeBy /\ e.attempts < MaxAttempts
      lost == finish(L, {a}, "unknown",
                     IF e.uncertain THEN "auth_uncertain" ELSE "ambiguous",
                     now)
  IN CASE e.state # "executing" -> L
       [] e.state = "executing" /\ probe = "done" ->
            finish(L, {a}, "done", "already_done", now)
       [] e.state = "executing" /\ probe = "gone" ->
            IF e.uncertain THEN lost
            ELSE finish(L, {a}, "failed", "gone", now)
       [] e.state = "executing" /\ probe = "not_done" ->
            IF e.uncertain \/ Kind[a] = "send" THEN lost
            ELSE IF in_time THEN try_again(L, a, e.resume, now)
            ELSE finish(L, {a}, "failed", "stale", now)
       [] e.state = "executing" /\ probe \in {"after_copy", "expunge"} ->
            IF e.uncertain \/ ~in_time THEN lost
            ELSE try_again(L, a, probe, now)
       [] e.state = "executing" /\ probe = "unreachable" ->
            IF now <= e.executeBy + ProbeGrace
            THEN [L EXCEPT !.actions[a].probeAfter = now + ProbeDelay]
            ELSE lost
       [] e.state = "executing" /\ probe = "unknown" -> lost

-----------------------------------------------------------------------------
(* Recovery when the account starts *)

Withdrawn(L, p) ==
  {a \in Actions : /\ Stoppable(L.actions[a])
                   /\ \/ ~allows(p, a)
                      \/ /\ L.actions[a].route # None
                         /\ L.actions[a].route \notin RoutesOf(p)}

\* Fault: an interrupted action is simply tried again.
recover_resends(L, now, p) ==
  LET bound == bind_unassigned(L, p)
  IN Each(bound, {a \in Actions : bound.actions[a].state = "executing"},
          LAMBDA a, e : [e EXCEPT !.state = "approved", !.notBefore = now])

recover(L, now, p) ==
  LET bound == bind_unassigned(L, p)
      kept(e) ==
        CASE e.state = "open" /\ e.delivered # NoTime ->
               [e EXCEPT !.expiresAt = min(@, e.delivered + p.window)]
          [] e.state = "executing" -> [e EXCEPT !.probeAfter = now]
          [] e.state = "done" /\ e.sentCopy = "pending" ->
               [e EXCEPT !.sentCopy = "failed"]
          [] OTHER -> e
      settled == finish(bound, Withdrawn(bound, p), "cancelled", None, now)
      cut == {a \in Actions : /\ bound.actions[a].state = "done"
                              /\ bound.actions[a].sentCopy = "pending"}
      resumed == Each(settled, Actions \ Withdrawn(bound, p),
                      LAMBDA a, e : kept(e))
  IN [resumed EXCEPT !.told = [a \in Actions |->
        IF a \in cut THEN tell(@[a], resumed.actions[a]) ELSE @[a]]]

\* Proposed actions no queued notice previews.
unpreviewed(L) ==
  {a \in Actions : /\ L.actions[a].state = "proposed"
                   /\ \A i \in L.queue : a \notin Previews(i)}
=============================================================================
