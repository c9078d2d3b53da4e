--------------------------- MODULE MCAnswerGuards ---------------------------
(* One run, from the text of its main pass to its delivery.                *)
EXTENDS AnswerGuards
=============================================================================
