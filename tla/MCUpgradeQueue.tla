------------------------------ MODULE MCUpgradeQueue ------------------------------
(* Instances of UpgradeQueue for TLC.  Symmetry between the requests is not *)
(* used: the runs check liveness.                                          *)
EXTENDS UpgradeQueue

TwoPosts == {1, 2}
=============================================================================
