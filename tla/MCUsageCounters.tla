-------------------------- MODULE MCUsageCounters --------------------------
(* Instances of UsageCounters for TLC.                                     *)
EXTENDS UsageCounters
=============================================================================
