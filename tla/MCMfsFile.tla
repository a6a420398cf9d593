----------------------------- MODULE MCMfsFile -----------------------------
(* Blocks of two units, one direct zone, seven zones; the positions lie in the *)
(* direct, single and double indirect zones.                                *)
EXTENDS Minget, TLC

BothScales == {0, 1}
SomePositions == {0, 1, 7, 13}
FaultPositions == {0, 7, 13}
EndPositions == {0, 3, 7}     \* 3 and 7: the second block of a zone of two
SomeLengths == {2, 7}
Symmetry == Permutations(Files)
=============================================================================
