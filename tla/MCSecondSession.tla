--------------------------- MODULE MCSecondSession ---------------------------
(* TLC instances of SecondSession: calls of each kind are interchangeable.    *)
EXTENDS SecondSession, TLC

Symmetry == Permutations(Inbox) \cup Permutations(Board) \cup Permutations(ClockOuts)
=============================================================================
