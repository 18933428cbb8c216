------------------------------ MODULE MCAutoCalc ------------------------------
(* TLC instance of AutoCalc: two landings, two processes.  No symmetry: the   *)
(* run checks liveness.                                                       *)
EXTENDS AutoCalc
=============================================================================
