-------------------------- MODULE MCChunkCollector --------------------------
(* Instances of ChunkCollector for TLC: the client's end and the hub's. *)
EXTENDS ChunkCollector

MCPositions == 1..3
=============================================================================
