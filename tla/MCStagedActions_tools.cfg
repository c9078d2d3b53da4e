SPECIFICATION Spec
CONSTANTS
  u1 = u1
  u2 = u2
  g1 = g1
  g2 = g2
  a1 = a1
  a2 = a2
  Users = {u1}
  Agents = {g1, g2}
  Actions = {a1, a2}
  Headed = {a2}
  Batches = 2
  MaxFaults = 1
  MaxDeaths = 0
SYMMETRY Either
INVARIANTS
  TypeOK
  SomeTextIsThere
  ReplacedIsThere
  ConfirmedOnce
CHECK_DEADLOCK FALSE
