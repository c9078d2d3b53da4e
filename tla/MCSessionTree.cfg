SPECIFICATION Spec
CONSTANTS
  s1 = s1
  s2 = s2
  s3 = s3
  p1 = p1
  p2 = p2
  c1 = c1
  c2 = c2
  Sessions <- MCSessions
  Projects <- MCProjects
  HomeOf <- MCHomeOf
  Seeded = {s1, s2}
  Calls = {c1, c2}
  Streams = {c2}
  Window = 1
  Threshold = 3
  MaxFaults = 1
INVARIANTS
  LinearHistory
  ForkKeepsOrder
  NoContentCrossesProjects
  DigestCoversThrough
CHECK_DEADLOCK FALSE
