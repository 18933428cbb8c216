\* One decision on the board, one clock-out, one forced clock-out; nothing fails.
\* With Sweeps = {} the same property fails on a session denied while it is open.
CONSTANTS
    Inbox = {}
    Board = {b1}
    ClockOuts = {c1}
    Sweeps = {s1}
    Faults = FALSE
SPECIFICATION SessionSpec
INVARIANTS HeldHoursStayOut
CHECK_DEADLOCK FALSE
