-------------------------------- MODULE MCLWP --------------------------------
(***************************************************************************)
(* The thread library on three addresses and, at most, four creations, so  *)
(* that an address can be freed and used again.                            *)
(***************************************************************************)
EXTENDS LWP
=============================================================================
