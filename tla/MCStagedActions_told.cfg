SPECIFICATION Spec
CONSTANTS
  u1 = u1
  u2 = u2
  g1 = g1
  g2 = g2
  a1 = a1
  a2 = a2
  Users = {u1, u2}
  Agents = {g1}
  Actions = {a1, a2}
  Headed = {a2}
  Batches = 2
  MaxFaults = 1
  MaxDeaths = 1
SYMMETRY Either
INVARIANTS
    RejectedIsNotDone
CHECK_DEADLOCK FALSE
