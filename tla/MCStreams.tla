------------------------------ MODULE MCStreams ------------------------------
(* Streams with buffers of a few bytes. *)
EXTENDS InputStreams

MCBlocks == {<<1, 2, 1>>}
=============================================================================
