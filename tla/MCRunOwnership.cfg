SPECIFICATION Spec
CONSTANTS
    Workers = {w1, w2, w3}
    Strangers = {w3}
    NoOwner = NoOwner
    Lease = 2
    MaxTime = 5
SYMMETRY WorkerSymmetry
INVARIANTS
    EntitledIsOwner
PROPERTY ExclusiveLease
CHECK_DEADLOCK FALSE
