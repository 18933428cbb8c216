---------------------------- MODULE MCDerivedBuilds ----------------------------
(* TLC instance of DerivedBuilds: the threads share a process or have one     *)
(* each, up to the names of the processes.                                    *)
EXTENDS DerivedBuilds

SharedOrApart ==
    LET first == CHOOSE t \in Threads : TRUE
        main == CHOOSE q \in Processes : TRUE
    IN {h \in [Threads -> Processes] : h[first] = main}
=============================================================================
