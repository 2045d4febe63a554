----------------------------- MODULE MCChunkJob -----------------------------
(* Instances of ChunkJob. *)
EXTENDS ChunkJob

CONSTANTS w1, w2

MCWorkers == {w1, w2}

=============================================================================
