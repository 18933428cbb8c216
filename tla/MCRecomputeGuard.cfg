\* Three runs, no longer than the takeover threshold; any acquisition call may fail.
CONSTANTS
    Runs = {r1, r2, r3}
    StaleAfter = 1
    MaxRun = 1
    Horizon = 3
    Entrances = {"button", "hook"}
    DbFaults = TRUE
SPECIFICATION GuardSpec
SYMMETRY Symmetry
INVARIANTS MutualExclusion RefusalHasCause
CHECK_DEADLOCK FALSE
