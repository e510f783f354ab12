--------------------------- MODULE MCResearchLoop ---------------------------
(* Instances of ResearchLoop for TLC; the bounds are explained in README.md. *)
EXTENDS ResearchLoop

CONSTANTS g1, g2

OneSubgoal == {g1}
TwoSubgoals == {g1, g2}
AllKinds == {"research", "synthesize", "critique"}
ResearchAndCritique == {"research", "critique"}
ResearchOnly == {"research"}
Scope(cap, floor) == [cap |-> cap, floor |-> floor]
OneScope == {Scope(1, 0)}
TwoScopes == {Scope(1, 0), Scope(0, 1)}
=============================================================================
