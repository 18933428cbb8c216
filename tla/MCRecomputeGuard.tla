--------------------------- MODULE MCRecomputeGuard ---------------------------
(* TLC instances of RecomputeGuard: three competing runs of one month.       *)
EXTENDS RecomputeGuard, TLC

Symmetry == Permutations(Runs)
=============================================================================
