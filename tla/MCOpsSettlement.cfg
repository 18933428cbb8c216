\* Two incidents of one month, two settlements, one change, one mishap.
CONSTANTS
    Count = 2
    Amount <- OneAndTwo
    Month <- SameMonth
    Months = 1
    Pays = {0, 2}
    Opening = {"posted"}
    Policies = {"next_cycle"}
    Runs = {r1, r2}
    Ids <- AFewIds
    Changes = 1
    Mishaps = 1
SPECIFICATION SettlementSpec
SYMMETRY AnyRun
INVARIANTS SettledIsExact SecondPassWritesNothing OverflowWithinIncident
PROPERTIES SettledStandsStill OnlyAStaleRunTouchesForgiven
CHECK_DEADLOCK FALSE
