SPECIFICATION Spec
CONSTANTS
    Sessions = {s1}
    Runs = {r1}
    Execs = {e1, e2, e3}
    Calls = {c1, c2}
    NoSession = NoSession
    NoExec = NoExec
    NoRun = NoRun
    MaxLost = 1
SYMMETRY IdSymmetry
INVARIANTS
    TypeOK
    RecordedCallBlocksResume
    FinishedRunNotResumable
    DurableNeverAhead
    NoRowsUnderDeletedSession
PROPERTY SweepSparesUnfinishedRuns
CHECK_DEADLOCK FALSE
