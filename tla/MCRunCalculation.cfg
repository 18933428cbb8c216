\* Sound database: three runs, two reps, one chargeback, managers deciding, landings.
CONSTANTS
    Runs = {r1, r2, r3}
    StaleAfter = 1
    MaxRun = 1
    Horizon = 2
    Entrances = {"button"}
    DbFaults = FALSE
    Reps = {a, b}
    Refs = {c1}
    RepRuns = {}
    CalcFaults = FALSE
SPECIFICATION RunSpec
SYMMETRY Symmetry
INVARIANTS OneRowPerRep NoDeductionInvented DecisionsKept
CHECK_DEADLOCK FALSE
