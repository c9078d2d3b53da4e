--------------------------- MODULE MCBashSessions ----------------------------
(* Small instances of BashSessions.  For safety two threads and two reapers,   *)
(* so that a call may be under way while its session or its job is closed,     *)
(* killed or reaped, and sessions and jobs enough to reach both limits.  For   *)
(* liveness two sessions, which two threads start at once, so that there may   *)
(* be two reapers, and one of which may be closed while a sweep is to delete   *)
(* it; what else is done with them one of the threads does.                    *)
EXTENDS BashSessions, TLC

Symmetry == Permutations(Callers) \union Permutations(Reapers)
              \union Permutations(Sids) \union Permutations(Jids)
=============================================================================
