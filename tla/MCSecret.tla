------------------------------- MODULE MCSecret -------------------------------
(***************************************************************************)
(* The driver with two users, three open files and a secret of two bytes.  *)
(***************************************************************************)
EXTENDS Secret, TLC

Symmetry == Permutations(User) \cup Permutations(File)
=============================================================================
