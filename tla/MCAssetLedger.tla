---------------------------- MODULE MCAssetLedger ----------------------------
(* Instances of AssetLedger for TLC.                                        *)
EXTENDS AssetLedger

=============================================================================
