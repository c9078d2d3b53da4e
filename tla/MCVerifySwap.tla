---------------------------- MODULE MCVerifySwap -----------------------------
(* A small instance of VerifySwap: two files and two verifications that may    *)
(* ask for both.  Named by one name each in the first run; in the second, the  *)
(* first file may also be written another way that sorts last, as "b/../a.py"  *)
(* does after "b.py".                                                         *)
EXTENDS VerifySwap, TLC

CONSTANTS a, b, aliasA

PlainNames == [n \in {a, b} |-> n]
PlainOrder == <<a, b>>

AliasedNames == [n \in {a, b, aliasA} |-> IF n = aliasA THEN a ELSE n]
AliasedOrder == <<a, b, aliasA>>
=============================================================================
