SPECIFICATION Spec
CONSTANTS
    a = a
    b = b
    aliasA = aliasA
    Files = {a, b}
    Names = {a, b}
    FileOf <- PlainNames
    NameOrder <- PlainOrder
    Calls = {c1, c2}
    Edits = {e1, e2}
    MayBeNew = {}
    Absent = Absent
    Free = Free
    MaxVerifications = 2
    MaxDecisions = 1
    MaxFaults = 1
INVARIANTS
    OriginalKept
    StagedEditsKept
PROPERTY VerificationsFinish
CHECK_DEADLOCK FALSE
