-------------------- MODULE MCReview --------------------
(***************************************************************************)
(* The reviewed job for TLC. A behaviour plays one scene.                  *)
(***************************************************************************)
EXTENDS ReviewedJob

\* The scene a behaviour plays.
VARIABLE scene

mcVars == <<vars, scene>>

ASSUME ScenesAssumption == ReviewAssumption

\* What the sessions of the scenes offer.
Three == {"claude", "codex", "grok"}
One == {"codex"}

Offering(builder, offered) ==
    plan.builder = builder /\ ~plan.named /\ plan.order = OfferedOrder(builder, offered)

MCInit ==
    /\ Init
    /\ \/ /\ scene = "judged"
          /\ Offering("codex", Three) /\ plan.land = "none" /\ plan.rounds = 2
       \/ /\ scene = "grokBuilt"
          /\ Offering("grok", Three) /\ plan.land = "none" /\ plan.rounds = 1
       \/ /\ scene = "landing"
          /\ plan.builder = "codex" /\ plan.order = <<"codex">> /\ plan.land = "after_approval"
          /\ plan.rounds = 2
       \/ /\ scene = "cancelled"
          /\ plan.builder = "codex" /\ plan.order = <<"codex">> /\ plan.rounds = 1

NoReports == turn'.report = "none"

\* Three reviewers offered to a builder, two rounds, no write fails.
Judged == Loop /\ NoReports /\ jfails' = 0

\* Grok builds and reviews itself last; the journal fails once.
GrokBuilt == Loop /\ NoReports

\* Work that lands after its approval, in two rounds, whatever the builder
\* reports of it.
Landing == Loop /\ jfails' = 0

MCNext ==
    /\ UNCHANGED scene
    /\ \/ scene = "judged" /\ Judged
       \/ scene = "grokBuilt" /\ GrokBuilt
       \/ scene = "landing" /\ Landing
       \* One round, cancelled at any point; the journal fails once.
       \/ scene = "cancelled" /\ Next

MCSpec == MCInit /\ [][MCNext]_mcVars
=============================================================================
