--------------------------- MODULE MCExecutionStore ---------------------------
(* A small instance of ExecutionStore: interchangeable ids may be permuted. *)
EXTENDS ExecutionStore, TLC

IdSymmetry == Permutations(Execs) \union Permutations(Calls) \union Permutations(Runs)
=============================================================================
