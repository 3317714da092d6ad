-------------------------- MODULE MCProviderSlots --------------------------
(* Instances of ProviderSlots for TLC.                                      *)
EXTENDS ProviderSlots
=============================================================================
