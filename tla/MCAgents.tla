-------------------- MODULE MCAgents --------------------
(***************************************************************************)
(* The conversations kept with delegated agents, for TLC. A behaviour      *)
(* plays one scene: three calls at one conversation; two calls with gc and *)
(* a crash; or the same with adopted sessions.                             *)
(***************************************************************************)
EXTENDS Conversations, TLC

CONSTANTS
    c1, c2, c3, v1, v2

VARIABLE scene

\* Three calls at one conversation, one kept; no crash.
Shared == INSTANCE Conversations WITH
    Limit <- 1, MaxHandles <- 2, Crashes <- 0, Adopts <- FALSE

\* Two calls, one conversation kept.
Collected == INSTANCE Conversations WITH Limit <- 1, Adopts <- FALSE

ASSUME ScenesAssumption ==
    /\ ConversationConstants
    /\ Shared!ConversationConstants
    /\ Collected!ConversationConstants

MCInit == Init /\ scene \in {"shared", "collected", "adopting"}

\* Bounds: two calls at work at once, or three while no transcript grows old
\* for gc; where sessions are adopted, one of them.
TwoCalls == Cardinality({c \in Calls : calls'[c].kind # "none"}) <= 2
AllYoung == \A v \in Vendors : files'[v] # "old"
OneVendor == Cardinality({v \in Vendors : files'[v] # "none"}) <= 1

MCNext ==
    /\ UNCHANGED scene
    /\ \/ scene = "shared" /\ Shared!Next /\ AllYoung
       \/ scene = "collected" /\ Collected!Next /\ TwoCalls
       \/ scene = "adopting" /\ Next /\ TwoCalls /\ OneVendor

MCSpec == MCInit /\ [][MCNext]_<<vars, scene>>

\* The calls are interchangeable, and the vendors' sessions.
Symmetry == Permutations({c1, c2, c3}) \cup Permutations({v1, v2})

-----------------------------------------------------------------------------
(* Properties, beside the component's own.                                 *)

\* The handles are kept in the order of their use, each once, whatever ends or
\* is evicted; a conversation has its marker and a marker its conversation,
\* but while an operation is on its way or after one that came too late, and a
\* removal comes too late only where sessions are adopted; and gc removes no
\* transcript whose marker was there when its pass began (touch, evict, adopt,
\* finish, release, live_sessions, gc).
NothingMissed ==
    /\ TypeOK /\ Marked /\ TranscriptKept
    /\ scene # "adopting" => \A v \in Vendors : <<"remove", v>> \notin crossed
=============================================================================
