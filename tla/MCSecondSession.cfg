\* Two decisions in the inbox, one on the board, two clock-outs and a forced one; any call may fail.
CONSTANTS
    Inbox = {i1, i2}
    Board = {b1}
    ClockOuts = {c1, c2}
    Sweeps = {s1}
    Faults = TRUE
SPECIFICATION SessionSpec
SYMMETRY Symmetry
INVARIANTS StampedMeansDecided CountedOnlyOnceDecided AgreedDecisionIsWhole
CHECK_DEADLOCK FALSE
