----------------------------- MODULE ByteStream -----------------------------
(***************************************************************************)
(* What a pipe promises: the bytes that go in come out in order, each once; *)
(* a write that fits in the pipe goes in whole or not at all; and bytes are *)
(* lost only when nobody has the pipe open any more.                        *)
(***************************************************************************)
EXTENDS Integers, Sequences

CONSTANTS Pipes, Capacity

VARIABLES queue,     \* the bytes in each pipe
          opened,    \* the pipes that somebody has open
          io         \* what the last step moved: [call, ino, bytes, want]

vars == <<queue, opened, io>>

Init == queue = [i \in Pipes |-> <<>>] /\ opened = {} /\ io.call = "NONE"

\* A write that would fit in an empty pipe is not split.
Send(i) ==
    /\ io'.call = "WRITE" /\ io'.ino = i
    /\ queue'[i] = queue[i] \o io'.bytes
    /\ Len(queue'[i]) <= Capacity
    /\ io'.want <= Capacity => Len(io'.bytes) = io'.want

Receive(i) ==
    /\ io'.call = "READ" /\ io'.ino = i
    /\ queue[i] = io'.bytes \o queue'[i]

Keep(i) == queue'[i] = queue[i]
Drop(i) == queue'[i] = <<>> /\ i \notin opened'

Next == \A i \in Pipes :
            IF io'.call # "NONE" /\ io'.ino = i THEN Send(i) \/ Receive(i)
            ELSE Keep(i) \/ Drop(i)

Spec == Init /\ [][Next]_vars
=============================================================================
