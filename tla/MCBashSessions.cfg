SPECIFICATION Safety
CONSTANTS
    Sids = {s1, s2}
    Jids = {j1, j2}
    Callers = {c1, c2}
    Users = {c1, c2}
    Reapers = {r1, r2}
    NoSid = NoSid
    NoJid = NoJid
    MaxSessions = 1
    MaxJobs = 1
SYMMETRY Symmetry
INVARIANTS
    TypeOK
    NoProcessForgotten
    ClosedSessionJobsEnd
PROPERTY FirstOutcomeWins
CHECK_DEADLOCK FALSE
