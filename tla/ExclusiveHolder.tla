--------------------------- MODULE ExclusiveHolder ---------------------------
(* What run ownership promises, abstractly: the right to advance a run is     *)
(* held by one worker at a time and changes hands only through nobody.        *)
CONSTANTS Workers, NoOwner

VARIABLE holder

Init == holder = NoOwner

Grant(w) == holder = NoOwner /\ holder' = w

\* Given up, or run out.
Relinquish(w) == holder = w /\ holder' = NoOwner

Next == \E w \in Workers : Grant(w) \/ Relinquish(w)

Spec == Init /\ [][Next]_holder
=============================================================================
