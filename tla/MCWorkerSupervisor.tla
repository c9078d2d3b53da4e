------------------------- MODULE MCWorkerSupervisor -------------------------
(* Two requests over two process ids: a retry of one, a pid of the other.   *)
EXTENDS WorkerSupervisor
=============================================================================
