---------------------------- MODULE MCRRScheduler ----------------------------
(***************************************************************************)
(* The round-robin scheduler on four thread addresses.  Four is the least  *)
(* number that tells the middle of the ring from both of its ends with a   *)
(* second thread on one side, and leaves an address to admit again.        *)
(***************************************************************************)
EXTENDS RRScheduler, TLC

Symmetry == Permutations(Thread)
=============================================================================
