SPECIFICATION QueueSpec
CONSTANTS
    Tasks = {t1, t2}
    Answers = {a1, a2, s}
    Short = {s}
    Publishers = {p1, p2}
    NoAnswer = NoAnswer
    DrainBatch = 2
    MaxAttempts = 2
    MaxPublishes = 2
    MaxCrashes = 1
    MaxIndexFaults = 1
    MaxDbFaults = 2
INVARIANTS
    OnlyKnownLosses
    StaleDocsBounded
PROPERTY PendingSettles
CHECK_DEADLOCK FALSE
