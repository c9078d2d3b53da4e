SPECIFICATION Spec
CONSTANTS
    Sessions = {s1}
    Runs = {r1}
    Execs = {e1, e2, e3}
    Calls = {c1, c2}
    NoSession = NoSession
    NoExec = NoExec
    NoRun = NoRun
    MaxLost = 0
SYMMETRY IdSymmetry
INVARIANT EveryCallBlocksResume
CHECK_DEADLOCK FALSE
