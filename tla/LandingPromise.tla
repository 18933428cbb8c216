---------------------------- MODULE LandingPromise ----------------------------
(***************************************************************************)
(* What auto-calculation promises a lander, with nothing of how it keeps   *)
(* it: a landing that was told "queued" is answered -- by a calculation    *)
(* that read its rows, or by a record that automatic calculation is off -- *)
(* and an answer never precedes the landing.  (auto_calc.py 1-46)          *)
(***************************************************************************)
CONSTANT Landings

VARIABLES queued,   \* the landings told "queued"
          answered  \* the landings calculated or waived

vars == <<queued, answered>>

Init == queued = {} /\ answered = {}

Queue(l) ==
    /\ l \notin queued
    /\ queued' = queued \cup {l}
    /\ UNCHANGED answered

Answer(S) ==
    /\ answered' = answered \cup S
    /\ UNCHANGED queued

Next ==
    \/ \E l \in Landings : Queue(l)
    \/ \E S \in SUBSET Landings : Answer(S)

Promise == \A l \in Landings : l \in queued ~> l \in answered

Steps == Init /\ [][Next]_vars

Spec == Steps /\ Promise
=============================================================================
