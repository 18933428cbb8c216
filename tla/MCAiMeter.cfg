\* Three guarded calls, one of them recorded as well, two flush threads, a buffer
\* of two rows; fair.
CONSTANTS
    a1 = a1
    f1 = f1
    Attempts = {a1, a2, a3}
    Features = {f1}
    Echoes <- OneEcho
    Threads = {t1, t2}
    MaxPending = 2
    MaxCalls = 2
    Mishaps = 1
SPECIFICATION FairAiSpec
INVARIANTS DropsAreCounted StoredOnceUnlessUnsure QuietCallKeepsTheCap
PROPERTIES RowsReachTheTable
CHECK_DEADLOCK FALSE
