----------------------------- MODULE MCUnitComm -----------------------------
(* Finite instances of UnitComm. *)
EXTENDS UnitComm

CONSTANTS s0, s1

OneServer == {<<s0>>}
TwoServers == {<<s0, s1>>, <<s1>>}
=============================================================================
