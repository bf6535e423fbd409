------------------------------ MODULE MCECall ------------------------------
(* Instances of ECall for TLC.                                             *)
EXTENDS ECall
=============================================================================
