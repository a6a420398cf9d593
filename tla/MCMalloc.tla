------------------------------ MODULE MCMalloc ------------------------------
(* The allocator with the header, chunk and threshold sizes of the source. *)
EXTENDS Malloc
=============================================================================
