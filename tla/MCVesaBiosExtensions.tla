------------------------ MODULE MCVesaBiosExtensions ------------------------
(* Model-checking instance of VesaBiosExtensions over the machines of      *)
(* VbeMachines.                                                            *)
EXTENDS VesaBiosExtensions, VbeMachines
=============================================================================
