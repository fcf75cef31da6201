-------------------------- MODULE MCShardTopology --------------------------
(* ShardTopology with two workers, for TLC.                                *)
EXTENDS ShardTopology, TLC

WorkerSymmetry == Permutations(Worker)
=============================================================================
