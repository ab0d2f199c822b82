----------------------------- MODULE MCTracker ------------------------------
(* Instances of HeartbeatTracker for TLC.                                  *)
EXTENDS HeartbeatTracker, TLC

CONSTANTS g1, g2

TwoGateways == {g1, g2}
Symmetry    == Permutations(TwoGateways)
=============================================================================
