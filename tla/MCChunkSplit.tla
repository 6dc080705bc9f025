---------------------------- MODULE MCChunkSplit ----------------------------
(* ChunkSplit for TLC: the bounds are plain values of the cfg.              *)
EXTENDS ChunkSplit
=============================================================================
