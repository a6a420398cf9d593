----------------------------- MODULE RRScheduler -----------------------------
(***************************************************************************)
(* The round-robin scheduler of the thread library                         *)
(* (src/assns/assn2/1_linked_list/scheduler.c): a circular doubly linked   *)
(* list threaded through the sched_one/sched_two fields of the threads,    *)
(* with the file's statics st_head, st_tail, st_current and removed.       *)
(*                                                                         *)
(* The whole of that state is one record, and each function of the file is *)
(* an operator from the record before the call to the record after it, so  *)
(* that LWP.tla can call several of them inside one library call.  The     *)
(* specification RRSpec at the end is the scheduler under any sequence of  *)
(* calls its interface allows.                                             *)
(***************************************************************************)
EXTENDS Integers, FiniteSets, Sequences, SequencesExt

CONSTANTS
    Thread,     \* the addresses a threadinfo_st can have
    NULL        \* the null pointer

ASSUME NullAssumption == NULL \notin Thread

VARIABLES
    rr,         \* the statics of scheduler.c and the two links of each thread
    ring        \* history: the pool in the order of admission

Link == Thread \cup {NULL}

RRState == [head : Link, tail : Link, current : Link, removed : BOOLEAN,
            next : [Thread -> Link], prev : [Thread -> Link]]

RREmpty ==
    [head |-> NULL, tail |-> NULL, current |-> NULL, removed |-> FALSE,
     next |-> [t \in Thread |-> NULL], prev |-> [t \in Thread |-> NULL]]

-----------------------------------------------------------------------------
(***************************************************************************)
(* Mutants: slips one could make in scheduler.c, used to show that each    *)
(* property can fail.                                                      *)
(***************************************************************************)

RemoveTail_OpenRing(d) ==
    [d EXCEPT !.tail = d.prev[d.tail], !.current = d.head, !.removed = TRUE]

RemoveMiddle_NoFlag(d, victim) ==
    LET left == d.prev[victim]
        right == d.next[victim]
    IN  [d EXCEPT !.next[left] = right, !.prev[right] = left, !.current = right]

rr_admit_AtFront(d, new) ==
    IF d.head = NULL
    THEN [d EXCEPT !.head = new, !.tail = new,
                   !.next[new] = new, !.prev[new] = new]
    ELSE [d EXCEPT !.head = new,
                   !.next = [@ EXCEPT ![d.tail] = new, ![new] = d.head],
                   !.prev = [@ EXCEPT ![new] = d.tail, ![d.head] = new]]

\* rr_next starts over at the head each time.
rr_next_AlwaysHead(d) ==
    IF d.head = NULL THEN d ELSE [d EXCEPT !.removed = FALSE, !.current = d.head]

-----------------------------------------------------------------------------
(***************************************************************************)
(* rr_admit: the new thread goes between the tail and the head.            *)
(***************************************************************************)
rr_admit(d, new) ==
    IF d.head = NULL
    THEN [d EXCEPT !.head = new, !.tail = new,
                   !.next[new] = new, !.prev[new] = new]
    ELSE [d EXCEPT !.tail = new,
                   !.next = [@ EXCEPT ![d.tail] = new, ![new] = d.head],
                   !.prev = [@ EXCEPT ![new] = d.tail, ![d.head] = new]]

(***************************************************************************)
(* isInPool walks st_next from st_head until it is back at st_head.  What  *)
(* it meets is the least set that holds the head and is closed under       *)
(* st_next.                                                                *)
(***************************************************************************)
isInPool(d, victim) ==
    \A S \in SUBSET Thread :
        (d.head \in S /\ \A t \in S : d.next[t] \in S) => victim \in S

(***************************************************************************)
(* The four ways rr_remove takes a thread out.  Only the fields the C code *)
(* assigns change: the victim keeps its own links, removing the tail       *)
(* leaves the head's st_prev on the victim, and removing the only thread   *)
(* leaves the removed flag as it was.                                      *)
(***************************************************************************)
RemoveOnly(d) == [d EXCEPT !.head = NULL, !.tail = NULL, !.current = NULL]

RemoveHead(d) ==
    LET right == d.next[d.head]
    IN  [d EXCEPT !.next[d.tail] = right, !.prev[right] = d.tail,
                  !.head = right, !.current = right, !.removed = TRUE]

RemoveTail(d) ==
    LET left == d.prev[d.tail]
    IN  [d EXCEPT !.next[left] = d.head, !.tail = left,
                  !.current = d.head, !.removed = TRUE]

RemoveMiddle(d, victim) ==
    LET left == d.prev[victim]
        right == d.next[victim]
    IN  [d EXCEPT !.next[left] = right, !.prev[right] = left,
                  !.current = right, !.removed = TRUE]

rr_remove(d, victim) ==
    CASE ~isInPool(d, victim) -> d
      [] isInPool(d, victim) /\ d.head = d.tail -> RemoveOnly(d)
      [] isInPool(d, victim) /\ d.head # d.tail /\ victim = d.head -> RemoveHead(d)
      [] isInPool(d, victim) /\ d.head # d.tail /\ victim = d.tail -> RemoveTail(d)
      [] OTHER -> RemoveMiddle(d, victim)

(***************************************************************************)
(* rr_next: the state after the call.  The thread it returns is the new    *)
(* st_current; on an empty pool it returns NULL and touches nothing, and   *)
(* st_current is NULL there already (rr_remove resets it with the last     *)
(* thread).                                                                *)
(***************************************************************************)
rr_next(d) ==
    IF d.head = NULL THEN d
    ELSE [d EXCEPT !.removed = FALSE,
                   !.current = CASE @ = NULL -> d.head
                                 [] @ # NULL /\ ~d.removed -> d.next[@]
                                 [] OTHER -> @]

-----------------------------------------------------------------------------
(***************************************************************************)
(* The ring a state stands for: s lists the pool from st_head to st_tail.  *)
(* st_prev of the head is left out on purpose: the tail case of rr_remove  *)
(* leaves it on the freed victim, and no function reads it before          *)
(* RemoveHead or rr_admit has set it again.                                *)
(***************************************************************************)
Members(s) == {s[i] : i \in 1..Len(s)}

Distinct(s) == \A i, j \in 1..Len(s) : s[i] = s[j] => i = j

EndsAre(d, s) ==
    IF s = <<>> THEN d.head = NULL /\ d.tail = NULL
                ELSE d.head = s[1] /\ d.tail = s[Len(s)]

LinksAre(d, s) ==
    /\ \A i \in 1..Len(s) - 1 : d.next[s[i]] = s[i + 1] /\ d.prev[s[i + 1]] = s[i]
    /\ s # <<>> => d.next[s[Len(s)]] = s[1]

IsRing(d, s) == Distinct(s) /\ EndsAre(d, s) /\ LinksAre(d, s)

-----------------------------------------------------------------------------
(***************************************************************************)
(* The scheduler under any calls its interface allows.  ring is a history  *)
(* variable: who is in the pool, in the order they were admitted.          *)
(***************************************************************************)
rrVars == <<rr, ring>>

RRInit == rr = RREmpty /\ ring = <<>>

\* A scheduler is handed a thread that is not in its pool yet.
RRAdmit(t) ==
    /\ t \notin Members(ring)
    /\ rr' = rr_admit(rr, t)
    /\ ring' = Append(ring, t)

\* On an empty pool isInPool reads st_head->st_next through NULL: a caller
\* may only remove while somebody is in the pool.
RRRemove(t) ==
    /\ ring # <<>>
    /\ rr' = rr_remove(rr, t)
    /\ IF t \in Members(ring)
       THEN \E i \in 1..Len(ring) : ring[i] = t /\ ring' = RemoveAt(ring, i)
       ELSE ring' = ring

RRSelect == rr' = rr_next(rr) /\ ring' = ring

RRNext == RRSelect \/ \E t \in Thread : RRAdmit(t) \/ RRRemove(t)

RRSpec == RRInit /\ [][RRNext]_rrVars

-----------------------------------------------------------------------------
\* Type invariant of the scheduler's statics and links.
RRTypeOK == rr \in RRState /\ ring \in Seq(Thread)

(***************************************************************************)
(* Whatever is admitted, removed and selected, the links of                *)
(* src/assns/assn2/1_linked_list/scheduler.c form one ring that holds      *)
(* exactly the threads of the pool in admission order, its two ends are    *)
(* st_head and st_tail, and st_current is never left on a thread that was  *)
(* removed (and may be freed by now).                                      *)
(***************************************************************************)
RingOK ==
    /\ IsRing(rr, ring)
    /\ rr.current # NULL => rr.current \in Members(ring)

(***************************************************************************)
(* Removing the thread that runs costs nobody a turn: the thread rr_next   *)
(* would have returned before the removal is the one it returns after it.  *)
(***************************************************************************)
UpNext(d) == rr_next(d).current

RemovalKeepsTurn ==
    [][ \A t \in Thread :
          (RRRemove(t) /\ t = rr.current /\ UpNext(rr) # t) => UpNext(rr') = UpNext(rr)
      ]_rrVars

(***************************************************************************)
(* The list implements the round robin of RoundRobin.tla, where the pool   *)
(* is a sequence and the cursor a position in it.                          *)
(***************************************************************************)
Position(s, t) == IF t = NULL THEN 0 ELSE CHOOSE i \in 1..Len(s) : s[i] = t

RoundRobin == INSTANCE RoundRobin
    WITH pool <- ring, at <- Position(ring, rr.current), hold <- rr.removed

ImplementsRoundRobin == RoundRobin!Spec
=============================================================================
