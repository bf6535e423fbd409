----------------------------- MODULE MCUpgrade -----------------------------
(* Instances of Upgrade for TLC.                                           *)
EXTENDS Upgrade

TwoProcs == {1, 2}

\* A paths file that leads up twice and then down again.
Ring == {<<1, 2>>, <<2, 3>>, <<3, 1>>}
=============================================================================
