------------------------- MODULE MCKeyProvisioning -------------------------
(* Model-checking instances of KeyProvisioning.                            *)
EXTENDS KeyProvisioning

AllFaults == FlashFaults
NoFaults  == {}
=============================================================================
