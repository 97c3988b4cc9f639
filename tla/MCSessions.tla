-------------------- MODULE MCSessions --------------------
(***************************************************************************)
(* A client's session for TLC: the reports of background jobs among its    *)
(* turns, and the owner who takes an agent's conversation over. A          *)
(* behaviour plays one scene.                                              *)
(***************************************************************************)
EXTENDS Takeover

CONSTANTS
    r1, r2, r3, c1, c2, k1, k2, j1, j2

\* The scene a behaviour plays, and the state of the reports; that of the
\* takeovers stays as at its start in the reports' scenes.
VARIABLES
    scene,
    table, ended, reported, reporting, attempts, delayed, cancelled, cancelling, via,
    call, woken, turn, ready, queued, paused, settling, open, prompts, pauses, shown,
    asked, told, missed, finals

reportVars ==
    <<table, ended, reported, reporting, attempts, delayed, cancelled, cancelling, via,
      call, woken, turn, ready, queued, paused, settling, open, prompts, pauses, shown,
      asked, told, missed, finals>>

mcVars == <<vars, scene, reportVars>>

\* The same in every scene.
MaxRunning == 2
Retries == 1
MaxPrompts == 1

\* Three jobs, one started by the owner; a report turn takes two of them and
\* may fail after it acted.
Reporting == INSTANCE JobReports WITH
    Jobs <- {r1, r2, r3}, Reviewed <- {}, OwnersJobs <- {r3}, ReportMax <- 2,
    MaxFinished <- 1, MaxPauses <- 0, Tools <- {"agent", "status"}

\* Two jobs, one of them reviewed; the queue is paused, jobs are cancelled.
Owed == INSTANCE JobReports WITH
    Jobs <- {r1, r2}, Reviewed <- {r1}, OwnersJobs <- {}, ReportMax <- 1,
    MaxFinished <- 0, MaxPauses <- 1, Tools <- {"agent", "status", "cancel"}

ASSUME ScenesAssumption ==
    /\ TakeoverAssumption
    /\ Reporting!ReportConstants
    /\ Owed!ReportConstants

\* Bounds of a scene of takeovers: the conversations, the clients, the calls
\* and their approval requests it has.
Scope(cs, ks, js, kinds, n) ==
    /\ \A k \in Clients : req'[k].pc # "idle" => k \in ks /\ req'[k].conv \in cs
    /\ \A j \in Jobs :
          /\ job'[j].st # "none" => j \in js /\ job'[j].conv \in cs /\ job'[j].kind \in kinds
          /\ ask'[j].n <= n

\* Two clients and two calls on one conversation, the second made later.
Driven ==
    /\ Scope({c1}, Clients, Jobs, Kinds, 0)
    /\ job'[j2].st # "none" => job'[j1].st # "none"

\* One client and one job; conversations being born or under review, an owner
\* asked once.
Offering == Scope({c1}, {k1}, {j1}, Kinds, 1)

\* Two clients and two idle conversations, one takeover allowed.
Capping == Scope(Convs, Clients, {}, {}, 0)

NoReports ==
    /\ table = "unused" /\ ended = "unused" /\ reported = "unused"
    /\ reporting = "unused" /\ attempts = "unused" /\ delayed = "unused"
    /\ cancelled = "unused" /\ cancelling = "unused" /\ via = "unused"
    /\ call = "unused" /\ woken = "unused" /\ turn = "unused" /\ ready = "unused"
    /\ queued = "unused" /\ paused = "unused" /\ settling = "unused"
    /\ open = "unused" /\ prompts = "unused" /\ pauses = "unused"
    /\ shown = "unused" /\ asked = "unused" /\ told = "unused" /\ missed = "unused"
    /\ finals = "unused"

AllOld == sess = [c \in Convs |-> TRUE]

MCInit ==
    /\ Init
    /\ \/ scene = "reporting" /\ AllOld /\ Reporting!Init
       \/ scene = "owed" /\ AllOld /\ Owed!Init
       \/ scene = "offering" /\ sess[c2] /\ NoReports
       \/ scene \in {"driven", "capping"} /\ AllOld /\ NoReports

\* The model's two jobs are interchangeable: one is the first.
InOrder == r2 \in ToSet(table') \cup ended' => r1 \in ToSet(table') \cup ended'

MCNext ==
    /\ UNCHANGED scene
    /\ \/ scene = "reporting" /\ Reporting!Next /\ InOrder /\ UNCHANGED vars
       \/ scene = "owed" /\ Owed!Next /\ UNCHANGED vars
       \/ /\ Next /\ UNCHANGED reportVars
          /\ \/ scene = "driven" /\ Driven
             \/ scene = "offering" /\ Offering
             \/ scene = "capping" /\ Capping

MCSpec == MCInit /\ [][MCNext]_mcVars

-----------------------------------------------------------------------------
(* Properties of the reports, beside the takeovers'.                       *)

\* A finished job's result goes out exactly once, by a look, a report turn or
\* the direct report, whatever failed in between; and the client gets a
\* cancelled reviewed job's final outcome once, after the job stopped
\* (background.rs report_failed, finish; owed.rs).
ToldOnce ==
    /\ TypeOK
    /\ scene = "reporting" => Reporting!TypeOK /\ Reporting!ToldOnce
    /\ scene = "owed" => Owed!FinalOnce

\* A report turn that ran a tool and failed is never run again (connection.rs
\* settle_report).
NoForbiddenTurn ==
    [][scene = "reporting" => Reporting!ActedNotRepeatedStep]_mcVars
=============================================================================
