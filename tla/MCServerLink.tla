---------------------------- MODULE MCServerLink ----------------------------
(* Finite instances of ServerLink. *)
EXTENDS ServerLink

CONSTANTS s0, s1

OneServer == {<<s0>>}
TwoServers == {<<s0, s1>>, <<s1>>}
=============================================================================
