SPECIFICATION ReadSpec
CONSTANTS
  m1 = m1
  m2 = m2
  f = f
  g = g
  Readers = {m1}
  TwoWords = {m1}
  Keys = {f, g}
  Kind <- MCKind
  SizeOf <- MCSizeOf
  Budget = 2
  Ceiling = 1
  Cap = 1
  MaxRefusals = 1
  MaxFailures = 2
  SearchFirst = {m1}
  StubLimit = 2
  ToolLimit = 4
  Reserve = 1
  MaxBatch = 2
  MaxAsked = 2
  Broadcasts = FALSE
  Overlaps = FALSE
  MaxVersion = 2
CHECK_DEADLOCK FALSE
INVARIANT NewDelegationsGetTheText
