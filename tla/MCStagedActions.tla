-------------------------- MODULE MCStagedActions --------------------------
(* Two prompts and a tool call over two actions, one text headed.          *)
EXTENDS StagedActions, TLC

CONSTANTS u1, u2, g1, g2, a1, a2

Either == Permutations({u1, u2}) \cup Permutations({g1, g2})
=============================================================================
