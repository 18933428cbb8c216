\* Any database call of the calculation may fail; a one-rep recalculation
\* acts beside two runs, the second able to take over.  No chargebacks.
CONSTANTS
    Runs = {r1, r2}
    StaleAfter = 1
    MaxRun = 1
    Horizon = 2
    Entrances = {"button"}
    DbFaults = FALSE
    Reps = {a, b}
    Refs = {}
    RepRuns = {q1}
    CalcFaults = TRUE
SPECIFICATION RunSpec
SYMMETRY Symmetry
INVARIANTS DoneMeansWhole
PROPERTIES ZeroNeverWipesPay
CHECK_DEADLOCK FALSE
