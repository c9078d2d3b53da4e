--------------------------- MODULE MCOutcomeQueue ----------------------------
(* A small instance of OutcomeQueue: two tasks, two answers to index and one   *)
(* too short, two publishers, so that a row may be published while another     *)
(* publish, or the drain loop's copy of the row, is in flight.                 *)
EXTENDS OutcomeQueue
=============================================================================
