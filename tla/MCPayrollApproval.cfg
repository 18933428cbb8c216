\* Four decide calls, two at a time, one dispatch, and one upset: a punch edit, an
\* override or a failing call.
CONSTANTS
    Calls = {c1, c2}
    Asks <- EveryKind
    Sends = {d1}
    Computed <- Clocked
    Count = 4
    Upsets = 1
SPECIFICATION PayrollSpec
SYMMETRY AnyCall
INVARIANTS StatementNeedsRelease ReleasedIsNotLeftWaiting
PROPERTIES FiguresMoveByName
CHECK_DEADLOCK FALSE
