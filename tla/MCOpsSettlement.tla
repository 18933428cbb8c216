---------------------------- MODULE MCOpsSettlement ----------------------------
(* TLC instances of OpsSettlement: two incidents of one month, or one.        *)
EXTENDS OpsSettlement, TLC

OneAndTwo == <<1, 2>>
SameMonth == <<1, 1>>
AFewIds == 1..12
AnyRun == Permutations(Runs)
=============================================================================
