--------------------------- MODULE MCRegistryFile ---------------------------
(* Every set of SD calls that may fail, with two power cuts.                *)
EXTENDS RegistryFile

Cards == [faults : SUBSET FaultKinds, cuts : {2}]
=============================================================================
