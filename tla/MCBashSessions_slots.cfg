SPECIFICATION Spec
CONSTANTS
    Sids = {s1, s2}
    Jids = {j1}
    Callers = {c1, c2}
    Users = {c1}
    Reapers = {r1, r2}
    NoSid = NoSid
    NoJid = NoJid
    MaxSessions = 2
    MaxJobs = 1
PROPERTY SlotsComeBack
CHECK_DEADLOCK FALSE
