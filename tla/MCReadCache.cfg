SPECIFICATION ReadSpec
CONSTANTS
  m1 = m1
  m2 = m2
  f = f
  g = g
  Readers = {m1}
  TwoWords = {}
  Keys = {f, g}
  Kind <- MCKind
  SizeOf <- MCSizeOf
  Budget = 2
  Ceiling = 1
  Cap = 1
  MaxRefusals = 1
  MaxFailures = 2
  SearchFirst = {m1}
  StubLimit = 2
  ToolLimit = 4
  Reserve = 1
  MaxBatch = 2
  MaxAsked = 2
  Broadcasts = TRUE
  Overlaps = FALSE
  MaxVersion = 2
INVARIANT StubsStandForWhatTheRunHas
INVARIANT ReadsStayBounded
INVARIANT RefusalsEnd
INVARIANT CountedRunsAreNotRefused
CHECK_DEADLOCK FALSE
