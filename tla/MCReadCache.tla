---------------------------- MODULE MCReadCache ----------------------------
(* A small instance: every text counts for one, and the limits are a few.  *)
EXTENDS ReadCache
CONSTANTS m1, m2, f, g

MCKind == [k \in Keys |-> IF k = f THEN "file" ELSE "batch"]
MCKindRecall == [k \in Keys |-> IF k = f THEN "file" ELSE "recall"]
MCSizeOf == [k \in Keys |-> 1]
=============================================================================
