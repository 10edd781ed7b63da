CONSTANTS
    Users = {u1, u2}
    Targets = {t1, t2}
    Scores <- MCScores
    LockKeys = {k1}
    LockKey <- MCLockKey
    Procs = {p1, p2}
    None = None
SPECIFICATION LockWaitsSpec
INVARIANTS
    AggregateMatches
    NoWaitCycle
PROPERTIES
    EveryCallEnds
