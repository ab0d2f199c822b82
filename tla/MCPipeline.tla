----------------------------- MODULE MCPipeline -----------------------------
(* Instances of Pipeline for TLC: one gateway, whose messages are the good *)
(* ones.                                                                   *)
EXTENDS Pipeline

CONSTANTS m1, bad, g1

MCSender == [m \in Msgs \ Bad |-> g1]
=============================================================================
