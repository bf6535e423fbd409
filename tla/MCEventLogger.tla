--------------------------- MODULE MCEventLogger ---------------------------
(* Finite instances of EventLogger. *)
EXTENDS EventLogger
=============================================================================
