----------------------------- MODULE SingleFlight -----------------------------
(***************************************************************************)
(* What the single-flight slot of a month promises, with nothing of how:   *)
(* one recompute at a time.  A run comes to work when nobody is, and the   *)
(* next one comes only when it has left, by ending or by dying.            *)
(* (commcalc/router.py 16046-16063)                                        *)
(***************************************************************************)
CONSTANT Runs

VARIABLE working   \* the runs at work on the month

Init == working = {}

Enter(r) == working = {} /\ working' = {r}

Leave(r) == working = {r} /\ working' = {}

Next == \E r \in Runs : Enter(r) \/ Leave(r)

Spec == Init /\ [][Next]_working
=============================================================================
