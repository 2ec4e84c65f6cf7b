--------------------------- MODULE MCAgentFanOut ---------------------------
(* Model values for the run of AgentFanOut.  The agents that vote are alike, *)
(* and so are the securities.                                               *)
EXTENDS AgentFanOut, TLC
CONSTANTS VALUE, MACRO, x, y

Symmetry == Permutations({VALUE, MACRO}) \cup Permutations({x, y})
=============================================================================
