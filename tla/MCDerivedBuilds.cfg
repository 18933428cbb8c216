\* Two landings, two threads of one or two processes, one press, one mishap; fair.
CONSTANTS
    Landings = {l1, l2}
    Threads = {t1, t2}
    Processes = {q1, q2}
    Homes <- SharedOrApart
    Parts = 2
    Horizon = 1
    Presses = 1
    Mishaps = 1
SPECIFICATION FairBuildsSpec
INVARIANTS NeverDoubled NeverOlder
PROPERTIES ForgottenOnlyByMishap QueuedIsAnswered
CHECK_DEADLOCK FALSE
