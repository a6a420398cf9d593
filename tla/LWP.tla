--------------------------------- MODULE LWP ---------------------------------
(***************************************************************************)
(* The lightweight process library                                         *)
(* (src/assns/assn2/1_linked_list/lwp.c) with its round-robin scheduler    *)
(* and one scheduler of the client's.                                      *)
(*                                                                         *)
(* Everything runs on one processor and nothing is preempted, so a library *)
(* call is one step.  The exception is the loop of lwp_set_scheduler, one  *)
(* step per thread moved, because it need not end.  cpu is whose code      *)
(* executes; the library's own idea of that is current, and the two can    *)
(* disagree.                                                               *)
(*                                                                         *)
(* A saved register file is abstracted to whose context it is and whether  *)
(* it is fresh, that is, taken when its owner last gave up the processor.  *)
(* Restoring one that is not fresh sends its owner back in time.           *)
(***************************************************************************)
EXTENDS RRScheduler

CONSTANTS
    Main,       \* the context that calls lwp_start
    MaxTid,     \* bound: how many threads are created in a behaviour
    Schedulers, \* the schedulers lwp_set_scheduler is called with
    Careless    \* uses of the library that are left out of the careful client

ASSUME LWPAssumption ==
    /\ Main \notin Thread \cup {NULL}
    /\ MaxTid \in Nat
    /\ Schedulers \subseteq {"rr", "alt"}
    /\ Careless \subseteq {"setNull", "liveFromAlt", "same"}

VARIABLES
    sched,          \* which scheduler the library calls
    alt,            \* the pool of the client's scheduler
    lib,            \* head, tail and the lib_one/lib_two links
    threads,        \* history: the library's list as a sequence
    current,        \* the library's current thread
    tid,            \* the tid field of each thread
    thread_count,   \* the static of newThread
    heap,           \* the addresses that are allocated
    regs,           \* the saved contexts; regs[Main] is the static orginal
    cpu,            \* whose code is executing
    xfer,           \* the scheduler a running lwp_set_scheduler moves to
    crashed,        \* a null pointer was dereferenced
    since           \* history: who ran since each thread's last turn

listVars == <<lib, threads, tid, thread_count, heap>>
lwpVars == <<rr, ring, sched, alt, lib, threads, current, tid, thread_count,
             heap, regs, cpu, xfer, crashed, since>>

Context == Thread \cup {Main}

LibState == [head : Link, tail : Link, next : [Thread -> Link], prev : [Thread -> Link]]

-----------------------------------------------------------------------------
(***************************************************************************)
(* The library's list: the second half of lwp_create and                   *)
(* remove_lt_thread, which trusts its caller that the victim is in it.     *)
(***************************************************************************)
lt_append(d, new) ==
    IF d.head = NULL
    THEN [d EXCEPT !.head = new, !.tail = new,
                   !.next[new] = new, !.prev[new] = new]
    ELSE [d EXCEPT !.tail = new,
                   !.next = [@ EXCEPT ![d.tail] = new, ![new] = d.head],
                   !.prev = [@ EXCEPT ![new] = d.tail, ![d.head] = new]]

\* the tail case leaves the new tail pointing at the freed thread
remove_lt_thread_OpenTail(d, victim) ==
    LET left == d.prev[victim]
        right == d.next[victim]
    IN  CASE d.head = d.tail -> [d EXCEPT !.head = NULL, !.tail = NULL]
          [] d.head # d.tail /\ victim = d.head ->
                [d EXCEPT !.next[d.tail] = right, !.prev[right] = d.tail, !.head = right]
          [] d.head # d.tail /\ victim # d.head /\ victim = d.tail -> [d EXCEPT !.tail = left]
          [] OTHER -> [d EXCEPT !.next[left] = right, !.prev[right] = left]

remove_lt_thread(d, victim) ==
    LET left == d.prev[victim]
        right == d.next[victim]
    IN  CASE d.head = d.tail -> [d EXCEPT !.head = NULL, !.tail = NULL]
          [] d.head # d.tail /\ victim = d.head ->
                [d EXCEPT !.next[d.tail] = right, !.prev[right] = d.tail, !.head = right]
          [] d.head # d.tail /\ victim # d.head /\ victim = d.tail ->
                [d EXCEPT !.next[left] = d.head, !.tail = left]
          [] OTHER ->
                [d EXCEPT !.next[left] = right, !.prev[right] = left]

(***************************************************************************)
(* swap_rfiles(save, load): the registers go to save, unless it is NULL,   *)
(* and come from load.  Whoever runs now makes the contexts saved for it   *)
(* before go stale.                                                        *)
(***************************************************************************)
swap_rfiles(save, load) ==
    LET saved == IF save = NULL THEN regs
                 ELSE [regs EXCEPT ![save] = [owner |-> cpu, fresh |-> TRUE]]
        runs == saved[load].owner
    IN  /\ cpu' = runs
        /\ regs' = [c \in Context |->
                      IF saved[c].owner = runs THEN [saved[c] EXCEPT !.fresh = FALSE]
                                               ELSE saved[c]]

-----------------------------------------------------------------------------
(***************************************************************************)
(* The calls through the scheduler interface of lwp.h.  The client's       *)
(* scheduler is any that picks somebody in its pool while there is one.    *)
(***************************************************************************)
RRReturns(d) == IF d.head = NULL THEN NULL ELSE rr_next(d).current

AltReturns(pool) == IF pool = {} THEN {NULL} ELSE pool

Drop(s, t) == IF t \in Members(s) THEN RemoveAt(s, Position(s, t)) ELSE s

\* sched->admit(t)
SchedAdmit(t) ==
    \/ /\ sched = "rr"
       /\ rr' = rr_admit(rr, t)
       /\ ring' = Append(ring, t)
       /\ alt' = alt
    \/ /\ sched = "alt"
       /\ alt' = alt \cup {t}
       /\ UNCHANGED <<rr, ring>>

\* n = sched->next()
SchedNext(n) ==
    \/ /\ sched = "rr"
       /\ n = RRReturns(rr)
       /\ rr' = rr_next(rr)
       /\ UNCHANGED <<ring, alt>>
    \/ /\ sched = "alt"
       /\ n \in AltReturns(alt)
       /\ UNCHANGED <<rr, ring, alt>>

\* sched->remove(t); n = sched->next()
SchedRemoveThenNext(t, n) ==
    \/ /\ sched = "rr"
       /\ n = RRReturns(rr_remove(rr, t))
       /\ rr' = rr_next(rr_remove(rr, t))
       /\ ring' = Drop(ring, t)
       /\ alt' = alt
    \/ /\ sched = "alt"
       /\ n \in AltReturns(alt \ {t})
       /\ alt' = alt \ {t}
       /\ UNCHANGED <<rr, ring>>

\* History: n has its turn.  Only the round robin promises an order.
Turn(n, present) ==
    since' = [t \in Thread |->
                IF sched = "rr" /\ t \in present /\ t # n THEN (since[t] \cup {n}) \cap present
                ELSE {}]

-----------------------------------------------------------------------------
Init ==
    /\ RRInit
    /\ sched = "rr"
    /\ alt = {}
    /\ lib = [head |-> NULL, tail |-> NULL,
              next |-> [t \in Thread |-> NULL], prev |-> [t \in Thread |-> NULL]]
    /\ threads = <<>>
    /\ current = NULL
    /\ tid = [t \in Thread |-> 0]
    /\ thread_count = 1
    /\ heap = {}
    /\ regs = [c \in Context |-> [owner |-> c, fresh |-> FALSE]]
    /\ cpu = Main
    /\ xfer = "none"
    /\ crashed = FALSE
    /\ since = [t \in Thread |-> {}]

\* A library call can begin.
Idle == xfer = "none" /\ ~crashed

(***************************************************************************)
(* Mutants: slips one could make in lwp.c, used to show that each property *)
(* can fail.                                                               *)
(***************************************************************************)
\* the thread switched to is not recorded in current
lwp_yield_ForgetsCurrent ==
    /\ Idle
    /\ cpu \in Thread
    /\ \E n \in Link :
          /\ SchedNext(n)
          /\ IF n = NULL THEN swap_rfiles(NULL, Main) ELSE swap_rfiles(current, n)
          /\ Turn(n, heap)
    /\ UNCHANGED <<sched, current, xfer, crashed, listVars>>

\* the branch of lwp_stop marked "TODO : DISABLE", taken always
lwp_stop_NoSave ==
    /\ Idle
    /\ cpu \in Thread
    /\ swap_rfiles(NULL, Main)
    /\ UNCHANGED <<rr, ring, sched, alt, current, xfer, crashed, since, listVars>>

\* the transfer loop does not remove what it has moved
MoveOne_NoRemove ==
    /\ xfer # "none"
    /\ \E n \in Thread :
          /\ current' = n
          /\ \/ sched = "rr" /\ n = RRReturns(rr) /\ rr' = rr_next(rr) /\ alt' = alt \cup {n}
             \/ sched = "alt" /\ n \in AltReturns(alt) /\ UNCHANGED <<rr, alt>>
    /\ since' = [t \in Thread |-> {}]
    /\ UNCHANGED <<ring, sched, regs, cpu, xfer, crashed, listVars>>

-----------------------------------------------------------------------------
(***************************************************************************)
(* lwp_create, with newThread.  The first thread of an empty list becomes  *)
(* current.  (When an allocation fails the call returns -1 and leaves      *)
(* everything as it was.)                                                  *)
(***************************************************************************)
lwp_create ==
    /\ Idle
    /\ thread_count <= MaxTid
    /\ \E new \in Thread \ heap :
          /\ heap' = heap \cup {new}
          /\ tid' = [tid EXCEPT ![new] = thread_count]
          /\ regs' = [regs EXCEPT ![new] = [owner |-> new, fresh |-> TRUE]]
          /\ SchedAdmit(new)
          /\ lib' = lt_append(lib, new)
          /\ threads' = Append(threads, new)
          /\ current' = IF lib.head = NULL THEN new ELSE current
          /\ since' = [since EXCEPT ![new] = {}]
    /\ thread_count' = thread_count + 1
    /\ UNCHANGED <<sched, cpu, xfer, crashed>>

(***************************************************************************)
(* lwp_start, from main.  With nobody to run it calls lwp_exit, which does *)
(* nothing as current is NULL, and returns.                                *)
(***************************************************************************)
lwp_start ==
    /\ Idle
    /\ cpu = Main
    /\ \E n \in Link :
          /\ SchedNext(n)
          /\ current' = n
          /\ IF n = NULL THEN UNCHANGED <<regs, cpu>> ELSE swap_rfiles(Main, n)
          /\ Turn(n, heap)
    /\ UNCHANGED <<sched, xfer, crashed, listVars>>

(***************************************************************************)
(* lwp_yield.  If next() returns NULL, lwp_stop runs with current already  *)
(* NULL and saves nothing.                                                 *)
(***************************************************************************)
lwp_yield ==
    /\ Idle
    /\ cpu \in Thread
    /\ \E n \in Link :
          /\ SchedNext(n)
          /\ current' = n
          /\ IF n = NULL THEN swap_rfiles(NULL, Main) ELSE swap_rfiles(current, n)
          /\ Turn(n, heap)
    /\ UNCHANGED <<sched, xfer, crashed, listVars>>

lwp_stop ==
    /\ Idle
    /\ cpu \in Thread
    /\ swap_rfiles(current, Main)
    /\ UNCHANGED <<rr, ring, sched, alt, current, xfer, crashed, since, listVars>>

(***************************************************************************)
(* lwp_exit, called by the thread or returned into from its function.      *)
(* rr_remove on an empty pool reads st_head->st_next through NULL.         *)
(***************************************************************************)
lwp_exit ==
    /\ Idle
    /\ cpu \in Thread
    /\ current # NULL
    /\ IF sched = "rr" /\ rr.head = NULL
       THEN /\ crashed' = TRUE
            /\ UNCHANGED <<rr, ring, alt, current, regs, cpu, since, listVars>>
       ELSE /\ \E n \in Link :
                  /\ SchedRemoveThenNext(current, n)
                  /\ current' = n
                  /\ swap_rfiles(NULL, IF n = NULL THEN Main ELSE n)
                  /\ Turn(n, heap \ {current})
            /\ lib' = remove_lt_thread(lib, current)
            /\ threads' = Drop(threads, current)
            /\ heap' = heap \ {current}
            /\ UNCHANGED <<tid, thread_count, crashed>>
    /\ UNCHANGED <<sched, xfer>>

-----------------------------------------------------------------------------
(***************************************************************************)
(* lwp_set_scheduler(sch).  The careful client does not ask a running      *)
(* thread to leave its own scheduler, whose next() order is its own, and   *)
(* does not install the scheduler that is installed.                       *)
(***************************************************************************)
lwp_set_scheduler ==
    /\ Idle
    /\ \E sch \in Schedulers :
          /\ sch = sched => "same" \in Careless
          /\ (cpu # Main /\ sched = "alt") => "liveFromAlt" \in Careless
          /\ xfer' = sch
    /\ UNCHANGED <<rr, ring, sched, alt, current, regs, cpu, crashed, since, listVars>>

(***************************************************************************)
(* One turn of its loop: next, remove and admit while next() is not NULL;  *)
(* then the new scheduler is installed.                                    *)
(***************************************************************************)
MoveOne ==
    /\ xfer # "none"
    /\ \E n \in Thread :
          /\ current' = n
          /\ \/ /\ sched = "rr"
                /\ n = RRReturns(rr)
                /\ LET left == rr_remove(rr_next(rr), n)
                   IN  IF xfer = "rr"
                       THEN /\ rr' = rr_admit(left, n)
                            /\ ring' = Append(Drop(ring, n), n)
                            /\ alt' = alt
                       ELSE /\ rr' = left
                            /\ ring' = Drop(ring, n)
                            /\ alt' = alt \cup {n}
             \/ /\ sched = "alt"
                /\ n \in AltReturns(alt)
                /\ IF xfer = "alt"
                   THEN UNCHANGED <<rr, ring, alt>>
                   ELSE /\ alt' = alt \ {n}
                        /\ rr' = rr_admit(rr, n)
                        /\ ring' = Append(ring, n)
    /\ since' = [t \in Thread |-> {}]
    /\ UNCHANGED <<sched, regs, cpu, xfer, crashed, listVars>>

MoveDone ==
    /\ xfer # "none"
    /\ SchedNext(NULL)
    /\ sched' = xfer
    /\ xfer' = "none"
    /\ UNCHANGED <<current, regs, cpu, crashed, since, listVars>>

(***************************************************************************)
(* lwp_set_scheduler(NULL) goes back to the round robin and moves nobody.  *)
(* The careful client calls it only when its scheduler is empty.           *)
(***************************************************************************)
lwp_set_scheduler_NULL ==
    /\ Idle
    /\ sched = "alt"
    /\ alt # {} => "setNull" \in Careless
    /\ sched' = "rr"
    /\ UNCHANGED <<rr, ring, alt, current, regs, cpu, xfer, crashed, since, listVars>>

Next ==
    \/ lwp_create \/ lwp_start \/ lwp_yield \/ lwp_stop \/ lwp_exit
    \/ lwp_set_scheduler \/ MoveOne \/ MoveDone \/ lwp_set_scheduler_NULL

Spec == Init /\ [][Next]_lwpVars

(***************************************************************************)
(* A thread does not compute for ever without calling the library, and     *)
(* main goes back into it; lwp_set_scheduler runs without interruption.    *)
(***************************************************************************)
GiveUp == lwp_yield \/ lwp_exit \/ lwp_stop

Fairness ==
    WF_lwpVars(lwp_start) /\ WF_lwpVars(GiveUp) /\ WF_lwpVars(MoveOne \/ MoveDone)

FairSpec == Spec /\ Fairness

-----------------------------------------------------------------------------
(***************************************************************************)
(* tid2thread(id): itself if current has the id, else the first thread     *)
(* with it on the way round the library's list from current.  With current *)
(* NULL only an id of 0 is turned away; any other one reads current->tid   *)
(* through NULL.                                                           *)
(***************************************************************************)
FromCurrent ==
    {t \in Thread : \A S \in SUBSET Thread :
        (current \in S /\ \A u \in S : lib.next[u] \in S) => t \in S}

tid2thread(id) ==
    IF current = NULL THEN (IF id = 0 THEN NULL ELSE "fault")
    ELSE IF \E t \in FromCurrent : tid[t] = id
         THEN CHOOSE t \in FromCurrent : tid[t] = id
         ELSE NULL

-----------------------------------------------------------------------------
\* Type invariant.
LWPTypeOK ==
    /\ RRTypeOK
    /\ sched \in {"rr", "alt"}
    /\ alt \in SUBSET Thread
    /\ lib \in LibState
    /\ threads \in Seq(Thread)
    /\ current \in Link
    /\ tid \in [Thread -> 0..MaxTid]
    /\ thread_count \in 1..MaxTid + 1
    /\ heap \in SUBSET Thread
    /\ regs \in [Context -> [owner : Context, fresh : BOOLEAN]]
    /\ cpu \in Context
    /\ xfer \in {"none", "rr", "alt"}
    /\ crashed \in BOOLEAN
    /\ since \in [Thread -> SUBSET Thread]

(***************************************************************************)
(* Types, and: the library's list and the pools of the schedulers hold the *)
(* threads that exist and no other: lwp_exit frees none that is linked     *)
(* (lwp.c:196-199, 212-216), and no thread drops out of scheduling while a *)
(* scheduler is exchanged (lwp.c:270-278).  Between calls all of them are  *)
(* with the scheduler that is installed, and isInPool is never entered     *)
(* with an empty pool (scheduler.c:45).                                    *)
(***************************************************************************)
OnlyLiveThreadsLinked ==
    /\ LWPTypeOK
    /\ IsRing(lib, threads) /\ Members(threads) = heap
    /\ RingOK
    /\ Members(ring) \cap alt = {}
    /\ Members(ring) \cup alt = heap
    /\ xfer = "none" => heap = (IF sched = "rr" THEN Members(ring) ELSE alt)
    /\ ~crashed

(***************************************************************************)
(* Between calls the library's current thread is the one that executes, so *)
(* lwp_gettid tells a thread its own id, lwp_yield saves into its own      *)
(* context and lwp_exit frees the caller (lwp.c:139-147, 208-228, 250).    *)
(* The round robin's cursor agrees, and the id lwp_create gave out for a   *)
(* thread finds that thread, from wherever the search starts.              *)
(***************************************************************************)
RunningIsCurrent ==
    (Idle /\ cpu # Main) =>
        /\ current = cpu
        /\ cpu \in heap
        /\ sched = "rr" => (rr.current = cpu /\ ~rr.removed)
        /\ \A t \in heap : xfer = "none" => tid2thread(tid[t]) = t

(***************************************************************************)
(* Every thread that is not executing has its own context saved, taken     *)
(* when it last gave up the processor, and so has main: what is restored   *)
(* next resumes where it left off (lwp.c:122-160).                         *)
(***************************************************************************)
ContextsIntact ==
    \A c \in (heap \cup {Main}) \ {cpu} : regs[c] = [owner |-> c, fresh |-> TRUE]

(***************************************************************************)
(* The round robin is fair step by step: nobody is chosen a second time    *)
(* while another thread that was there all along has had no turn, through  *)
(* exits, creations and restarts (scheduler.c:56-112).                     *)
(***************************************************************************)
Choice == lwp_start \/ lwp_yield \/ lwp_exit

TurnOrder ==
    [][ (Choice /\ sched = "rr" /\ current' # NULL) =>
            \A t \in heap' \ {current'} : current' \notin since[t]
      ]_lwpVars

(***************************************************************************)
(* Under the round robin every thread gets the processor again, or exits   *)
(* (so far as no more than MaxTid threads are created).  The client's      *)
(* scheduler promises nothing of the kind.                                 *)
(***************************************************************************)
EveryoneRuns ==
    \A t \in Thread : t \in heap ~> (cpu = t \/ t \notin heap \/ sched = "alt")

\* lwp_set_scheduler returns.
TransferEnds == xfer # "none" ~> xfer = "none"
=============================================================================
