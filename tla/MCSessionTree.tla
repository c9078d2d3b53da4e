--------------------------- MODULE MCSessionTree ---------------------------
(* Two seeded sessions of two projects, a third to be created, and two      *)
(* calls of any kind, one of them streamed.                                 *)
EXTENDS SessionTree

CONSTANTS s1, s2, s3, p1, p2, c1, c2

MCSessions == {s1, s2, s3}
MCProjects == {p1, p2}
MCHomeOf == [s \in {s1, s2} |-> IF s = s1 THEN p1 ELSE p2]
=============================================================================
