\* Two landings, two processes, and one upset: a press of the button, a flip of
\* the switch, a death or a failing call; fair.
CONSTANTS
    Landings = {l1, l2}
    Pollers = {p1, p2}
    Debounce = 1
    MaxWait = 2
    MaxRun = 1
    LandBy = 1
    Horizon = 3
    Upsets = 1
SPECIFICATION FairSpec
INVARIANTS NoLandingForgotten TornOnlyByMishap
PROPERTIES KeepsThePromise KeepsToTheSlot MonthNeverGoesBack LostOnlyByMishap
CHECK_DEADLOCK FALSE
