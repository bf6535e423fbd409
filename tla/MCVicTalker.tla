---------------------------- MODULE MCVicTalker ----------------------------
(* Instances of VicTalker for TLC.                                         *)
EXTENDS VicTalker

MCFds == {3, 4}
MCMaxSent == [c \in Clients |-> IF c = Loader THEN 1 ELSE 2]
=============================================================================
