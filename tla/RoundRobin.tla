------------------------------ MODULE RoundRobin ------------------------------
(***************************************************************************)
(* What a round-robin scheduler promises, with no pointer in it.  Threads  *)
(* queue in the order of admission, and the turn goes round the queue one  *)
(* place at a time.  When a thread leaves, the turn passes to the one      *)
(* behind it (the first, if it was the last) and stays there until taken.  *)
(* RRScheduler.tla is shown to implement this module.                      *)
(***************************************************************************)
EXTENDS Integers, Sequences, SequencesExt

CONSTANT Thread

VARIABLES
    pool,   \* the threads, in the order of admission
    at,     \* the place whose turn it is or was last; 0 is nobody yet
    hold    \* the turn at place "at" has not been taken yet

vars == <<pool, at, hold>>

Init == pool = <<>> /\ at = 0 /\ hold = FALSE

Join(t) ==
    /\ \A i \in 1..Len(pool) : pool[i] # t
    /\ pool' = Append(pool, t)
    /\ UNCHANGED <<at, hold>>

Leave(i) ==
    /\ pool' = RemoveAt(pool, i)
    /\ IF Len(pool) = 1
       THEN at' = 0 /\ hold' = hold
       ELSE at' = (IF i = Len(pool) THEN 1 ELSE i) /\ hold' = TRUE

Select ==
    /\ pool # <<>>
    /\ at' = IF at = 0 THEN 1
             ELSE IF hold THEN at
             ELSE (at % Len(pool)) + 1
    /\ hold' = FALSE
    /\ pool' = pool

Next ==
    \/ Select
    \/ \E t \in Thread : Join(t)
    \/ \E i \in 1..Len(pool) : Leave(i)

Spec == Init /\ [][Next]_vars
=============================================================================
