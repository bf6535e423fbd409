---------------------------- MODULE MCRespawner ----------------------------
(* Instances of Respawner for TLC.                                         *)
EXTENDS Respawner
CONSTANTS c1, c2
MCCmds == {c1, c2}
NoneOrOne == {{}, {c2}}
NoneOrFirst == {{}, {c1}}
AloneEach == {{}, {"suspend"}, {"nofork"}}
=============================================================================
