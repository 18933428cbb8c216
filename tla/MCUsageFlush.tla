------------------------------ MODULE MCUsageFlush ------------------------------
(* TLC instance of UsageFlush.                                                 *)
EXTENDS UsageFlush
=============================================================================
