---------------------------- MODULE SparseFile ----------------------------
(***************************************************************************)
(* What the file server promises of the contents of files: each file is a  *)
(* sequence of units; a write replaces or extends, what lies between the   *)
(* old end and a write reads as zero, space that is freed reads as zero,   *)
(* and no call on one file touches another.                                *)
(***************************************************************************)
EXTENDS Integers, Sequences, FiniteSetsExt

CONSTANTS Files,
          Block      \* units in a block

VARIABLES file,      \* the contents
          reply      \* the last request with its answer

vars == <<file, reply>>

Init ==
    /\ file = [f \in Files |-> <<>>]
    /\ reply = [op |-> "none"]

Unit(seq, i) == IF i < Len(seq) THEN seq[i + 1] ELSE 0
Resized(seq, n) == [i \in 1..n |-> Unit(seq, i - 1)]
OnlyFile(f) == \A g \in Files \ {f} : file'[g] = file[g]

\* n units were written from pos on; a request that fails may leave the file
\* grown to pos, and one whose copy from the caller fails (EFAULT) may spoil
\* the rest of the block it was copying to.
Write(f, pos, v, n, r) ==
    LET new == file'[f]
        last == (((pos + n) \div Block) + 1) * Block
    IN /\ OnlyFile(f)
       /\ Len(new) = Max({Len(file[f]), pos + n})
       /\ \A i \in 0..(Len(new) - 1) :
            \/ new[i + 1] = IF pos <= i /\ i < pos + n THEN v ELSE Unit(file[f], i)
            \/ r = "EFAULT" /\ pos + n <= i /\ i < last

Read(f, pos, len, data) ==
    /\ data = SubSeq(file[f], pos + 1, Min({pos + len, Len(file[f])}))
    /\ UNCHANGED file

Truncate(f, size) == file' = [file EXCEPT ![f] = Resized(@, size)]

FreeSpace(f, start, end) ==
    file' = [file EXCEPT ![f] =
                [i \in DOMAIN @ |-> IF start < i /\ i <= end THEN 0 ELSE @[i]]]

Remove(f) == file' = [file EXCEPT ![f] = <<>>]

\* Each request does what its answer says.
Next ==
    CASE reply'.op = "write"  -> Write(reply'.f, reply'.pos, reply'.v, reply'.n, reply'.r)
      [] reply'.op = "read"   -> Read(reply'.f, reply'.pos, reply'.len, reply'.data)
      [] reply'.op = "trunc"  -> Truncate(reply'.f, reply'.pos)
      [] reply'.op = "free"   -> FreeSpace(reply'.f, reply'.pos, reply'.end)
      [] reply'.op = "remove" -> Remove(reply'.f)
      [] OTHER                -> UNCHANGED file

Spec == Init /\ [][Next]_vars
=============================================================================
