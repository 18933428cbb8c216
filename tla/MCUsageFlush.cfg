\* Two processes count three calls; two of the crashes and failing RPCs; fair.
CONSTANTS
    Calls = {c1, c2, c3}
    Processes = {p1, p2}
    Mishaps = 2
SPECIFICATION FairMeterSpec
INVARIANTS CountedIsAccounted OnePlaceUnlessUnsure StopLosesNothing
PROPERTIES CountsReachTheTable
