-------------------- MODULE MCServed --------------------
(***************************************************************************)
(* What the owner and his clients are served in the end, for TLC, under    *)
(* the fairness each component's own specification states and the README   *)
(* justifies. A behaviour plays one scene.                                 *)
(***************************************************************************)
EXTENDS Naturals

CONSTANTS
    c1, c2, Nobody

\* The scene a behaviour plays, and the state of the component it is about:
\* a variable of another component is unused.
VARIABLES
    scene,
    disk, phase, poll, open, conv, leaving, work, watched, offers, now, crashes, taken,
    unanswered, shown, repeated, dropped, turns, written, entry, due, polled, heard,
    task, slot, channel, notices, awaited, outbox, storing, sent, handled, taking, up,
    stops, wrote, told, unsent, table, ended, reported, reporting, attempts, delayed,
    cancelled, cancelling, via, call, woken, turn, ready, queued, paused, settling,
    prompts, pauses, asked, missed, finals, book, unrec, proc, sending, seen, claimed,
    fails, forgets, handed, lane, busy, sess, review, kept, job, ask, term, ending,
    held, req, lock, live, stop

vars ==
    <<scene,
      disk, phase, poll, open, conv, leaving, work, watched, offers, now, crashes,
      taken, unanswered, shown, repeated, dropped, turns, written, entry, due, polled,
      heard, task, slot, channel, notices, awaited, outbox, storing, sent, handled,
      taking, up, stops, wrote, told, unsent, table, ended, reported, reporting,
      attempts, delayed, cancelled, cancelling, via, call, woken, turn, ready, queued,
      paused, settling, prompts, pauses, asked, missed, finals, book, unrec, proc,
      sending, seen, claimed, fails, forgets, handed, lane, busy, sess, review, kept,
      job, ask, term, ending, held, req, lock, live, stop>>

\* The odd messages in one conversation, the even ones in another.
Alternating(n) == [m \in 1..n |-> IF m % 2 = 1 THEN c1 ELSE c2]

\* The same in every scene.
None == Nobody

\* Three messages of two conversations, one kept open, none of which idles
\* out; a crash.
Settles == INSTANCE ChatBridge WITH
    Messages <- 1..3, Chats <- {c1, c2}, Chat <- Alternating(3), Dismissed <- {},
    Unheard <- {}, Offered <- {}, Returned <- {}, Jobs <- {}, BatchMax <- 2,
    Checkpoints <- TRUE, MaxClaims <- 2, MaxQueued <- 2, MaxSessions <- 1,
    MaxTurns <- 2, MaxSeen <- 9, MaxReply <- 2, MaxHeld <- 1, AnswerUnits <- {1},
    MaxFiles <- 0, HeldAge <- 1, HeldPerChat <- 2, HeldUnits <- 2, HeldTotal <- 3,
    Idles <- FALSE, Keyed <- TRUE, MaxTime <- 0, MaxCrashes <- 1

\* One question; the daemon or the bridge stops once.
Stopped == INSTANCE OwnerQuestion WITH
    Questions <- {"q1"}, Replies <- {"m1"}, Seconds <- 1, MaxTime <- 2, MaxStops <- 1

\* Two jobs, one of them reviewed.
Reporting == INSTANCE JobReports WITH
    Jobs <- {"j1", "j2"}, Reviewed <- {"j1"}, OwnersJobs <- {}, MaxRunning <- 2,
    ReportMax <- 1, MaxFinished <- 1, Retries <- 1, MaxPrompts <- 1, MaxPauses <- 0,
    Tools <- {"agent", "cancel"}

\* Two messages, one presented twice; a failure, a retry beside the bridge.
Retried == INSTANCE TaskSubscriptions WITH
    Msgs <- {"m1", "m2"}, ExtraMsgs <- {"m2"}, Procs <- {"bridge", "retry"}, Ops <- {},
    Reviewed <- {}, MaxJobs <- 6, MaxDecisions <- 2, MaxOffers <- 1, MaxReturns <- 1,
    MaxFails <- 1, MaxCrashes <- 0, MaxForgets <- 0

\* One client, two jobs; conversations old or under review.
Terminals == INSTANCE Takeover WITH
    Convs <- {"c1"}, Clients <- {"k1"}, Jobs <- {"j1", "j2"}, Kinds <- {"job"},
    Births <- {"old", "review"}, MAX_TAKEOVERS <- 2, Asks <- 0

ASSUME ScenesAssumption ==
    /\ Settles!BridgeConstants
    /\ Stopped!QuestionConstants
    /\ Reporting!ReportConstants
    /\ Retried!SubsAssumption
    /\ Terminals!TakeoverAssumption

OnlyChatBridge ==
    /\ entry = "unused" /\ due = "unused" /\ polled = "unused" /\ heard = "unused"
    /\ task = "unused" /\ slot = "unused" /\ channel = "unused" /\ notices = "unused"
    /\ awaited = "unused" /\ outbox = "unused" /\ storing = "unused" /\ sent = "unused"
    /\ handled = "unused" /\ taking = "unused" /\ up = "unused" /\ stops = "unused"
    /\ wrote = "unused" /\ told = "unused" /\ unsent = "unused" /\ table = "unused"
    /\ ended = "unused" /\ reported = "unused" /\ reporting = "unused"
    /\ attempts = "unused" /\ delayed = "unused" /\ cancelled = "unused"
    /\ cancelling = "unused" /\ via = "unused" /\ call = "unused" /\ woken = "unused"
    /\ turn = "unused" /\ ready = "unused" /\ queued = "unused" /\ paused = "unused"
    /\ settling = "unused" /\ prompts = "unused" /\ pauses = "unused"
    /\ asked = "unused" /\ missed = "unused" /\ finals = "unused" /\ book = "unused"
    /\ unrec = "unused" /\ proc = "unused" /\ sending = "unused" /\ seen = "unused"
    /\ claimed = "unused" /\ fails = "unused" /\ forgets = "unused" /\ handed = "unused"
    /\ lane = "unused" /\ busy = "unused" /\ sess = "unused" /\ review = "unused"
    /\ kept = "unused" /\ job = "unused" /\ ask = "unused" /\ term = "unused"
    /\ ending = "unused" /\ held = "unused" /\ req = "unused" /\ lock = "unused"
    /\ live = "unused" /\ stop = "unused"

OnlyOwnerQuestion ==
    /\ disk = "unused" /\ phase = "unused" /\ poll = "unused" /\ open = "unused"
    /\ conv = "unused" /\ leaving = "unused" /\ work = "unused" /\ watched = "unused"
    /\ offers = "unused" /\ crashes = "unused" /\ taken = "unused"
    /\ unanswered = "unused" /\ repeated = "unused" /\ dropped = "unused"
    /\ written = "unused" /\ table = "unused" /\ ended = "unused" /\ reported = "unused"
    /\ reporting = "unused" /\ attempts = "unused" /\ delayed = "unused"
    /\ cancelled = "unused" /\ cancelling = "unused" /\ via = "unused"
    /\ call = "unused" /\ woken = "unused" /\ turn = "unused" /\ ready = "unused"
    /\ queued = "unused" /\ paused = "unused" /\ settling = "unused"
    /\ prompts = "unused" /\ pauses = "unused" /\ asked = "unused" /\ missed = "unused"
    /\ finals = "unused" /\ book = "unused" /\ unrec = "unused" /\ proc = "unused"
    /\ sending = "unused" /\ seen = "unused" /\ claimed = "unused" /\ fails = "unused"
    /\ forgets = "unused" /\ handed = "unused" /\ lane = "unused" /\ busy = "unused"
    /\ sess = "unused" /\ review = "unused" /\ kept = "unused" /\ job = "unused"
    /\ ask = "unused" /\ term = "unused" /\ ending = "unused" /\ held = "unused"
    /\ req = "unused" /\ lock = "unused" /\ live = "unused" /\ stop = "unused"

OnlyJobReports ==
    /\ disk = "unused" /\ phase = "unused" /\ poll = "unused" /\ conv = "unused"
    /\ leaving = "unused" /\ work = "unused" /\ watched = "unused" /\ offers = "unused"
    /\ now = "unused" /\ crashes = "unused" /\ taken = "unused" /\ unanswered = "unused"
    /\ repeated = "unused" /\ dropped = "unused" /\ turns = "unused"
    /\ written = "unused" /\ entry = "unused" /\ due = "unused" /\ polled = "unused"
    /\ heard = "unused" /\ task = "unused" /\ slot = "unused" /\ channel = "unused"
    /\ notices = "unused" /\ awaited = "unused" /\ outbox = "unused"
    /\ storing = "unused" /\ sent = "unused" /\ handled = "unused" /\ taking = "unused"
    /\ up = "unused" /\ stops = "unused" /\ wrote = "unused" /\ unsent = "unused"
    /\ book = "unused" /\ unrec = "unused" /\ proc = "unused" /\ sending = "unused"
    /\ seen = "unused" /\ claimed = "unused" /\ fails = "unused" /\ forgets = "unused"
    /\ handed = "unused" /\ lane = "unused" /\ busy = "unused" /\ sess = "unused"
    /\ review = "unused" /\ kept = "unused" /\ job = "unused" /\ ask = "unused"
    /\ term = "unused" /\ ending = "unused" /\ held = "unused" /\ req = "unused"
    /\ lock = "unused" /\ live = "unused" /\ stop = "unused"

OnlyTaskSubscriptions ==
    /\ disk = "unused" /\ phase = "unused" /\ poll = "unused" /\ open = "unused"
    /\ conv = "unused" /\ leaving = "unused" /\ work = "unused" /\ watched = "unused"
    /\ offers = "unused" /\ now = "unused" /\ taken = "unused" /\ unanswered = "unused"
    /\ shown = "unused" /\ repeated = "unused" /\ dropped = "unused"
    /\ written = "unused" /\ entry = "unused" /\ due = "unused" /\ polled = "unused"
    /\ heard = "unused" /\ task = "unused" /\ slot = "unused" /\ channel = "unused"
    /\ notices = "unused" /\ awaited = "unused" /\ outbox = "unused"
    /\ storing = "unused" /\ sent = "unused" /\ handled = "unused" /\ taking = "unused"
    /\ stops = "unused" /\ wrote = "unused" /\ told = "unused" /\ unsent = "unused"
    /\ table = "unused" /\ ended = "unused" /\ reported = "unused"
    /\ reporting = "unused" /\ attempts = "unused" /\ delayed = "unused"
    /\ cancelled = "unused" /\ cancelling = "unused" /\ via = "unused"
    /\ call = "unused" /\ woken = "unused" /\ turn = "unused" /\ ready = "unused"
    /\ queued = "unused" /\ paused = "unused" /\ settling = "unused"
    /\ prompts = "unused" /\ pauses = "unused" /\ asked = "unused" /\ missed = "unused"
    /\ finals = "unused" /\ lane = "unused" /\ busy = "unused" /\ sess = "unused"
    /\ review = "unused" /\ kept = "unused" /\ job = "unused" /\ ask = "unused"
    /\ term = "unused" /\ ending = "unused" /\ held = "unused" /\ req = "unused"
    /\ lock = "unused" /\ live = "unused" /\ stop = "unused"

OnlyTakeover ==
    /\ disk = "unused" /\ phase = "unused" /\ poll = "unused" /\ open = "unused"
    /\ conv = "unused" /\ leaving = "unused" /\ work = "unused" /\ watched = "unused"
    /\ offers = "unused" /\ now = "unused" /\ crashes = "unused" /\ taken = "unused"
    /\ unanswered = "unused" /\ shown = "unused" /\ repeated = "unused"
    /\ dropped = "unused" /\ turns = "unused" /\ written = "unused" /\ entry = "unused"
    /\ due = "unused" /\ polled = "unused" /\ heard = "unused" /\ task = "unused"
    /\ slot = "unused" /\ channel = "unused" /\ notices = "unused" /\ awaited = "unused"
    /\ outbox = "unused" /\ storing = "unused" /\ sent = "unused" /\ handled = "unused"
    /\ taking = "unused" /\ up = "unused" /\ stops = "unused" /\ wrote = "unused"
    /\ told = "unused" /\ unsent = "unused" /\ table = "unused" /\ ended = "unused"
    /\ reported = "unused" /\ reporting = "unused" /\ attempts = "unused"
    /\ delayed = "unused" /\ cancelled = "unused" /\ cancelling = "unused"
    /\ via = "unused" /\ call = "unused" /\ woken = "unused" /\ turn = "unused"
    /\ ready = "unused" /\ queued = "unused" /\ paused = "unused" /\ settling = "unused"
    /\ prompts = "unused" /\ pauses = "unused" /\ asked = "unused" /\ missed = "unused"
    /\ finals = "unused" /\ book = "unused" /\ unrec = "unused" /\ proc = "unused"
    /\ sending = "unused" /\ seen = "unused" /\ claimed = "unused" /\ fails = "unused"
    /\ forgets = "unused" /\ handed = "unused"

Init ==
    \/ scene = "settles" /\ Settles!Init /\ OnlyChatBridge
    \/ scene = "stopped" /\ Stopped!Init /\ OnlyOwnerQuestion
    \/ scene = "reporting" /\ Reporting!Init /\ OnlyJobReports
    \/ scene = "retried" /\ Retried!Init /\ OnlyTaskSubscriptions
    \/ scene = "terminals" /\ Terminals!Init /\ OnlyTakeover

restChatBridge ==
    <<scene,
      entry, due, polled, heard, task, slot, channel, notices, awaited, outbox, storing,
      sent, handled, taking, up, stops, wrote, told, unsent, table, ended, reported,
      reporting, attempts, delayed, cancelled, cancelling, via, call, woken, turn,
      ready, queued, paused, settling, prompts, pauses, asked, missed, finals, book,
      unrec, proc, sending, seen, claimed, fails, forgets, handed, lane, busy, sess,
      review, kept, job, ask, term, ending, held, req, lock, live, stop>>

restOwnerQuestion ==
    <<scene,
      disk, phase, poll, open, conv, leaving, work, watched, offers, crashes, taken,
      unanswered, repeated, dropped, written, table, ended, reported, reporting,
      attempts, delayed, cancelled, cancelling, via, call, woken, turn, ready, queued,
      paused, settling, prompts, pauses, asked, missed, finals, book, unrec, proc,
      sending, seen, claimed, fails, forgets, handed, lane, busy, sess, review, kept,
      job, ask, term, ending, held, req, lock, live, stop>>

restJobReports ==
    <<scene,
      disk, phase, poll, conv, leaving, work, watched, offers, now, crashes, taken,
      unanswered, repeated, dropped, turns, written, entry, due, polled, heard, task,
      slot, channel, notices, awaited, outbox, storing, sent, handled, taking, up,
      stops, wrote, unsent, book, unrec, proc, sending, seen, claimed, fails, forgets,
      handed, lane, busy, sess, review, kept, job, ask, term, ending, held, req, lock,
      live, stop>>

restTaskSubscriptions ==
    <<scene,
      disk, phase, poll, open, conv, leaving, work, watched, offers, now, taken,
      unanswered, shown, repeated, dropped, written, entry, due, polled, heard, task,
      slot, channel, notices, awaited, outbox, storing, sent, handled, taking, stops,
      wrote, told, unsent, table, ended, reported, reporting, attempts, delayed,
      cancelled, cancelling, via, call, woken, turn, ready, queued, paused, settling,
      prompts, pauses, asked, missed, finals, lane, busy, sess, review, kept, job, ask,
      term, ending, held, req, lock, live, stop>>

restTakeover ==
    <<scene,
      disk, phase, poll, open, conv, leaving, work, watched, offers, now, crashes,
      taken, unanswered, shown, repeated, dropped, turns, written, entry, due, polled,
      heard, task, slot, channel, notices, awaited, outbox, storing, sent, handled,
      taking, up, stops, wrote, told, unsent, table, ended, reported, reporting,
      attempts, delayed, cancelled, cancelling, via, call, woken, turn, ready, queued,
      paused, settling, prompts, pauses, asked, missed, finals, book, unrec, proc,
      sending, seen, claimed, fails, forgets, handed>>

Next ==
    \/ scene = "settles" /\ Settles!Next /\ UNCHANGED restChatBridge
    \/ scene = "stopped" /\ Stopped!Next /\ UNCHANGED restOwnerQuestion
    \/ scene = "reporting" /\ Reporting!Next /\ UNCHANGED restJobReports
    \/ scene = "retried" /\ Retried!Next /\ UNCHANGED restTaskSubscriptions
    \/ scene = "terminals" /\ Terminals!Next /\ UNCHANGED restTakeover

\* A step of one caller of FollowUps::decide.
Deciding(p) ==
    \/ Retried!Begin(p) \/ Retried!Send(p) \/ Retried!SendFails(p) \/ Retried!Link(p)
    \/ Retried!Commit(p)

\* What each component's own specification assumes fair. A behaviour plays one
\* scene, so one condition serves an action of every scene.
Weak1 ==
    \/ scene = "settles" /\ Settles!Start /\ UNCHANGED restChatBridge
    \/ scene = "stopped" /\ Stopped!Tick /\ UNCHANGED restOwnerQuestion
    \/ scene = "reporting" /\ Reporting!Calls /\ UNCHANGED restJobReports
    \/ scene = "retried" /\ ~up /\ Retried!Load /\ UNCHANGED restTaskSubscriptions
    \/ scene = "terminals" /\ Terminals!First("j1") /\ UNCHANGED restTakeover

Weak2 ==
    \/ scene = "settles" /\ Settles!BeginPolling /\ UNCHANGED restChatBridge
    \/ scene = "stopped" /\ Stopped!Follow("q1") /\ UNCHANGED restOwnerQuestion
    \/ scene = "reporting" /\ Reporting!OnBackground /\ UNCHANGED restJobReports
    \/ scene = "retried" /\ Retried!BridgeEnd /\ UNCHANGED restTaskSubscriptions
    \/ scene = "terminals" /\ Terminals!Begin("j1") /\ UNCHANGED restTakeover

Weak3 ==
    \/ scene = "settles" /\ Settles!Deliver /\ UNCHANGED restChatBridge
    \/ scene = "stopped" /\ Stopped!Acknowledge("m1") /\ UNCHANGED restOwnerQuestion
    \/ scene = "reporting" /\ Reporting!RetryDue /\ UNCHANGED restJobReports
    \/ scene = "retried" /\ Retried!RetryEnd /\ UNCHANGED restTaskSubscriptions
    \/ scene = "terminals" /\ Terminals!Leave("j1") /\ UNCHANGED restTakeover

Weak4 ==
    \/ scene = "settles" /\ (\E m \in 1..3 : Settles!Enqueue(m))
       /\ UNCHANGED restChatBridge
    \/ scene = "retried" /\ Deciding("bridge") /\ UNCHANGED restTaskSubscriptions
    \/ scene = "terminals" /\ Terminals!Decide("j1") /\ UNCHANGED restTakeover

Weak5 ==
    \/ scene = "settles" /\ Settles!Converse(c1) /\ UNCHANGED restChatBridge
    \/ scene = "retried" /\ Deciding("retry") /\ UNCHANGED restTaskSubscriptions
    \/ scene = "terminals" /\ Terminals!AnswerRefused("j1") /\ UNCHANGED restTakeover

Weak6 ==
    \/ scene = "settles" /\ Settles!Converse(c2) /\ UNCHANGED restChatBridge
    \/ scene = "retried" /\ Retried!ClaimReturn("m1") /\ UNCHANGED restTaskSubscriptions
    \/ scene = "terminals" /\ (\E keeps \in BOOLEAN : Terminals!EndTurn("j1", keeps))
       /\ UNCHANGED restTakeover

Weak7 ==
    \/ scene = "retried" /\ Retried!ClaimReturn("m2") /\ UNCHANGED restTaskSubscriptions
    \/ scene = "terminals" /\ Terminals!First("j2") /\ UNCHANGED restTakeover

Weak8 ==
    \/ scene = "terminals" /\ Terminals!Begin("j2") /\ UNCHANGED restTakeover

Weak9 ==
    \/ scene = "terminals" /\ Terminals!Leave("j2") /\ UNCHANGED restTakeover

Weak10 ==
    \/ scene = "terminals" /\ Terminals!Decide("j2") /\ UNCHANGED restTakeover

Weak11 ==
    \/ scene = "terminals" /\ Terminals!AnswerRefused("j2") /\ UNCHANGED restTakeover

Weak12 ==
    \/ scene = "terminals" /\ (\E keeps \in BOOLEAN : Terminals!EndTurn("j2", keeps))
       /\ UNCHANGED restTakeover

Weak13 ==
    \/ scene = "terminals" /\ Terminals!OwnTurnEnds("c1") /\ UNCHANGED restTakeover

Weak14 ==
    \/ scene = "terminals" /\ Terminals!Reap("c1") /\ UNCHANGED restTakeover

Weak15 ==
    \/ scene = "terminals" /\ ending["c1"] /\ Terminals!Exit("c1")
       /\ UNCHANGED restTakeover

Weak16 ==
    \/ scene = "terminals" /\ Terminals!Taking("k1") /\ UNCHANGED restTakeover

Strong1 ==
    \/ scene = "reporting" /\ Reporting!Turns /\ UNCHANGED restJobReports
    \/ scene = "retried" /\ Retried!Retry("m1") /\ UNCHANGED restTaskSubscriptions
    \/ scene = "terminals" /\ Terminals!ReviewEnds("c1") /\ UNCHANGED restTakeover

Strong2 ==
    \/ scene = "retried" /\ Retried!Retry("m2") /\ UNCHANGED restTaskSubscriptions

Fairness ==
    /\ WF_vars(Weak1) /\ WF_vars(Weak2) /\ WF_vars(Weak3) /\ WF_vars(Weak4)
    /\ WF_vars(Weak5) /\ WF_vars(Weak6) /\ WF_vars(Weak7) /\ WF_vars(Weak8)
    /\ WF_vars(Weak9) /\ WF_vars(Weak10) /\ WF_vars(Weak11) /\ WF_vars(Weak12)
    /\ WF_vars(Weak13) /\ WF_vars(Weak14) /\ WF_vars(Weak15) /\ WF_vars(Weak16)
    /\ SF_vars(Strong1) /\ SF_vars(Strong2)

Spec == Init /\ [][Next]_vars /\ Fairness

-----------------------------------------------------------------------------
(* Properties.                                                             *)

\* What the owner writes and waits for comes in the end: a claimed message's
\* reply is delivered or refused (ChatBridge!EveryClaimSettles, for the last
\* message), a question put to the owner ends
\* (OwnerQuestion!EveryQuestionEnds), a message a task may take becomes a
\* follow-up or an ordinary turn (TaskSubscriptions!EveryFollowUpEnds), a
\* finished job's result is told (JobReports!EveryResultTold), and a prompt
\* queued behind a takeover runs, is withdrawn, or the owner has the
\* conversation in its terminal (Takeover!PromptRuns).
OwnerIsServed ==
    (\/ scene = "settles" /\ 3 \in Settles!InFlightIds(disk)
     \/ scene = "stopped" /\ entry["q1"] = Stopped!Open
     \/ scene = "retried" /\ "m2" \in seen
     \/ scene = "reporting" /\ "j2" \in Reporting!AwaitsReport
     \/ scene = "terminals" /\ job["j1"].st = "queued") ~>
    (\/ scene = "settles" /\ 3 \in Settles!SeenIds(disk) /\ ~Settles!Claimed(3)
     \/ scene = "stopped" /\ entry["q1"] # Stopped!Open
     \/ scene = "retried" /\ (Retried!TakenBy(book, "m2") # {} \/ turns["m2"] > 0)
     \/ scene = "reporting" /\ ("j2" \in reported \/ ~open \/ paused)
     \/ scene = "terminals" /\ (job["j1"].st # "queued" \/ term["c1"] = "running"))

\* What a client stops ends before its eyes: the final outcome a cancel owes
\* is sent once the job stopped (JobReports!OwedIsSent), and every terminal
\* goes once the daemon closes takeovers (Takeover!AllEnd).
StopsAreSeen ==
    (\/ scene = "reporting" /\ via["j1"] # "none" /\ "j1" \in ended
     \/ scene = "terminals" /\ stop = "closing") ~>
    (\/ scene = "reporting" /\ (via["j1"] = "none" \/ ~open)
     \/ scene = "terminals" /\ term["c1"] = "none")
=============================================================================
