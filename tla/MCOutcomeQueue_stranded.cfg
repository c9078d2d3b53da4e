SPECIFICATION QueueSpec
CONSTANTS
    Tasks = {t1, t2}
    Answers = {a1, a2, s}
    Short = {s}
    Publishers = {p1, p2}
    NoAnswer = NoAnswer
    DrainBatch = 2
    MaxAttempts = 2
    MaxPublishes = 1
    MaxCrashes = 0
    MaxIndexFaults = 0
    MaxDbFaults = 2
PROPERTY EveryPendingSettles
CHECK_DEADLOCK FALSE
