-------------------------- MODULE MCDelegationGate --------------------------
(* One member: a task in two wordings, one of which is looked up first, a  *)
(* task nobody can audit and a structured one.                             *)
EXTENDS DelegationGate

CONSTANTS r1, f1, f2

Of(tool, text, file, audited, checked) ==
  [tool |-> tool, text |-> text, file |-> file, audited |-> audited,
   subject |-> "fields", checked |-> checked]
MCTasks ==
  {Of("task", "plain", f1, TRUE, FALSE), Of("task", "reworded", f1, TRUE, TRUE),
   Of("task", "question", f2, FALSE, FALSE), Of("structured", "asked", f1, TRUE, FALSE)}
MCMembers == {r1}
=============================================================================
