--------------------------- MODULE MCRunCalculation ---------------------------
(* TLC instances of RunCalculation.                                          *)
EXTENDS RunCalculation, TLC

Symmetry == Permutations(Runs) \cup Permutations(Reps)
=============================================================================
