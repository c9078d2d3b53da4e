SPECIFICATION Spec
CONSTANTS
  Requests = {r1, r2}
  Pids = {p1, p2}
  MaxRetries = 1
INVARIANTS
  NoWorkerLeftBehind
  DraftsReachTheirCaller
  Listed
PROPERTY StalledWorkersEnd
CHECK_DEADLOCK FALSE
