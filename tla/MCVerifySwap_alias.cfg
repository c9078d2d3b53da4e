SPECIFICATION Spec
CONSTANTS
    a = a
    b = b
    aliasA = aliasA
    Files = {a, b}
    Names = {a, b, aliasA}
    FileOf <- AliasedNames
    NameOrder <- AliasedOrder
    Calls = {c1, c2}
    Edits = {e1}
    MayBeNew = {}
    Absent = Absent
    Free = Free
    MaxVerifications = 2
    MaxDecisions = 0
    MaxFaults = 0
PROPERTY VerificationsFinish
CHECK_DEADLOCK FALSE
