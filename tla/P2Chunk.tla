------------------------------ MODULE P2Chunk ------------------------------
(* CHUNK of rust/tls-virt-wasmtime/src/main.rs, in units of data: the write  *)
(* budget of a 0.2 output stream and the size of a read for an input stream. *)
EXTENDS Naturals, Sequences

CONSTANT CHUNK

ASSUME ChunkAssumption == CHUNK \in Nat \ {0}
=============================================================================
