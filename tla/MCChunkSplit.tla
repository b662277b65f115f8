---------------------------- MODULE MCChunkSplit ----------------------------
(***************************************************************************)
(* ChunkSplit for TLC.  A least chunk of 4 bytes has shares that are       *)
(* smaller, equal, one more, and rounded up to 8, 16 and above.            *)
(***************************************************************************)
EXTENDS ChunkSplit
=============================================================================
