---------------------------- MODULE MCTelemetry -----------------------------
(* Instances of TelemetryConsumer for TLC: two good messages, a malformed  *)
(* one, and batches of two.  The good messages are interchangeable.        *)
EXTENDS TelemetryConsumer, TLC

CONSTANTS m1, m2, bad

MCSymmetry == Permutations({m1, m2})
=============================================================================
