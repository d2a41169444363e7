----------------------------- MODULE MCTSQueue ------------------------------
(* An instance of TSQueueTest for TLC. *)
EXTENDS TSQueueTest

MCItem == Producers \X (1..Cardinality(Consumers))
=============================================================================
