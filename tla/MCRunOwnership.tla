--------------------------- MODULE MCRunOwnership ----------------------------
(* A small instance of RunOwnership: two workers of the run's project, one of *)
(* another, and a clock that outlasts two leases.                             *)
EXTENDS RunOwnership, TLC

WorkerSymmetry == Permutations(Workers \ Strangers)
=============================================================================
