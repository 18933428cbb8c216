------------------------------- MODULE MCAiMeter -------------------------------
(* TLC instance of AiMeter: one of the guarded calls is recorded as well.      *)
EXTENDS AiMeter

CONSTANTS a1, f1

OneEcho == {<<f1, a1>>}
=============================================================================
