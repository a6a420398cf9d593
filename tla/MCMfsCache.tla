----------------------------- MODULE MCMfsCache -----------------------------
(* Two buffers, two blocks on the disk and one on the memory device.        *)
EXTENDS MfsCache

TwoBlocks == {1, 2}
OneBlock == {1}
TwoValues == {0, 1}
=============================================================================
