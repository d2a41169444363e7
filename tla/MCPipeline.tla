----------------------------- MODULE MCPipeline -----------------------------
(* Instances of Pipeline for TLC. *)
EXTENDS Pipeline

CONSTANTS p1, c1, c2

MCCapacity == [input |-> 1, worker |-> 2, output |-> 1]
=============================================================================
