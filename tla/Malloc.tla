------------------------------- MODULE Malloc -------------------------------
(***************************************************************************)
(* The allocator of assn1/NotTested/malloc.c: one list of blocks, each a   *)
(* header of OFFSET bytes followed by its data, carved first from free     *)
(* blocks and then from the chunk that sbrk last delivered, whose unused   *)
(* part is pending_start..pending_end.  Addresses and sizes are numbers of *)
(* bytes; arithmetic on size_t wraps at WORD.                              *)
(*                                                                         *)
(* The program is one thread; what a test hardly reaches is the order of   *)
(* the calls.  The client keeps the blocks it was given and calls in any   *)
(* order; a careful one frees or resizes a block that follows a free block *)
(* only at the end of the list: the other cases free gets wrong.           *)
(*                                                                         *)
(* When the system has no more memory sbrk says -1 for an address; malloc  *)
(* tests it for NULL, stores the header there, and the program is dead.    *)
(* realloc of the last block does not look at all, and its caller has a    *)
(* block that ends beyond the break.  A behaviour goes up to the call on   *)
(* which sbrk refuses, and no further.                                     *)
(***************************************************************************)
EXTENDS Integers, Sequences, FiniteSets, SequencesExt

CONSTANTS OFFSET,       \* sizeof(struct hdr)
          NEW_MEM_BLK,  \* what sbrk is asked for, or a multiple
          WORD,         \* 2^w, the range of size_t
          Base,         \* the break before the first sbrk
          MaxBrk,       \* bound: the memory the system has
          Sizes,        \* the sizes the client asks for
          MaxHeld,      \* bound: blocks the client holds at once
          MaxCalls,     \* bound: calls the client makes
          Careful       \* TRUE: the client frees no inner block that follows a free one

ASSUME MallocAssumption ==
    /\ OFFSET \in Nat \ {0} /\ NEW_MEM_BLK \in Nat \ {0} /\ WORD \in Nat
    /\ NEW_MEM_BLK < WORD \div 2 /\ Sizes \subseteq Nat
    /\ Base \in Nat \ {0} /\ MaxBrk \in Nat /\ Base =< MaxBrk /\ MaxBrk < WORD \div 2
    /\ MaxHeld \in Nat /\ MaxCalls \in Nat /\ Careful \in BOOLEAN

VARIABLES heap,   \* the allocator: headers, list, pending chunk, break
          held,   \* the client's blocks by address: block and size
          calls   \* calls made so far

vars == <<heap, held, calls>>

NULL == 0
GIVE_UP_SPACE == NEW_MEM_BLK - 10
Wrap(n) == n % WORD
Signed(n) == IF n >= WORD \div 2 THEN n - WORD ELSE n

Init ==
    /\ heap = [hdr |-> <<>>, start |-> NULL, pstart |-> NULL, pend |-> NULL,
               brk |-> Base, giveback |-> FALSE, fault |-> FALSE, refused |-> FALSE]
    /\ held = <<>> /\ calls = 0

-----------------------------------------------------------------------------
(* The list: the blocks from start along next, and the memory they cover.  *)

Following(h, a) == IF a = NULL THEN NULL ELSE h.hdr[a].next

Walk(h) ==
    LET at[k \in Nat] == IF k = 0 THEN h.start ELSE Following(h, at[k - 1])
    IN at

Blocks(h) ==
    LET steps == {k \in 0..Cardinality(DOMAIN h.hdr) : Walk(h)[k] # NULL}
    IN [i \in 1..Cardinality(steps) |-> Walk(h)[i - 1]]

isEndList(h, blk) == h.hdr[blk].next = NULL

Pending(h) == Wrap(h.pend - h.pstart)

isEnoughToGiveUp(h, n) == n + Pending(h) > GIVE_UP_SPACE

round_up_mult_of_num(n, num) ==
    Wrap(IF n % num = 0 /\ n # 0 THEN n ELSE n - (n % num) + num)

\* A header is stored at blk; outside the break the store faults.
Store(h, blk, hd) ==
    [h EXCEPT !.hdr = [a \in DOMAIN @ \cup {blk} |-> IF a = blk THEN hd ELSE @[a]],
              !.fault = @ \/ blk < Base \/ blk + OFFSET > h.brk]

-----------------------------------------------------------------------------
(* malloc *)

split_hdrs(h, org, size) ==
    LET o == h.hdr[org]
        rest == org + OFFSET + size
    IN Store(Store(h, rest,
                   [data_size |-> Wrap(o.data_size - (OFFSET + size)),
                    isFree |-> TRUE, next |-> o.next]),
             org, [o EXCEPT !.data_size = size, !.next = rest])

\* The first block with room for more than size, or NULL.
OpenBlock(h, size) ==
    LET l == Blocks(h)
        open == {i \in DOMAIN l : /\ h.hdr[l[i]].isFree
                                  /\ Signed(Wrap(h.hdr[l[i]].data_size - size)) > 0}
    IN IF open = {} THEN NULL ELSE l[Min(open)]

\* A remainder of more than 16 bytes becomes a free block of its own.
open_spot(h, b, size) ==
    IF h.hdr[b].data_size - size > 16 THEN split_hdrs(h, b, size) ELSE h

append_new_blk(h, blk) ==
    IF h.start = NULL THEN [h EXCEPT !.start = blk]
    ELSE [h EXCEPT !.hdr[Last(Blocks(h))].next = blk]

\* Mutant: a reused block stays marked free.
set_blk_LeftFree(h, blk, size, isNewSpot) ==
    IF isNewSpot
    THEN Store(append_new_blk(h, blk), blk,
               [data_size |-> size, isFree |-> FALSE, next |-> NULL])
    ELSE h

set_blk(h, blk, size, isNewSpot) ==
    IF isNewSpot
    THEN Store(append_new_blk(h, blk), blk,
               [data_size |-> size, isFree |-> FALSE, next |-> NULL])
    ELSE [h EXCEPT !.hdr[blk].isFree = FALSE]

\* The chunk is extended when size and header do not fit strictly; the
\* amount asked for is rounded up from the size without the header.
NeedsChunk(h, size) == Wrap(size + OFFSET) >= Pending(h)

\* The system moves the break within its memory, by a signed amount, and
\* says where it was; otherwise it says -1 and moves nothing.
Delivers(h, n) == h.brk + Signed(n) \in Base..MaxBrk
sbrk(h, n) == IF Delivers(h, n) THEN h.brk ELSE WORD - 1

\* Mutant: the header is forgotten when the chunk has room.
update_pending_NoHeader(h, size) ==
    LET padded == round_up_mult_of_num(size, NEW_MEM_BLK)
        got == sbrk(h, padded)
    IN IF NeedsChunk(h, size)
       THEN [h EXCEPT !.brk = IF Delivers(h, padded) THEN Wrap(@ + padded) ELSE @,
                      !.refused = @ \/ ~Delivers(h, padded),
                      !.pend = IF h.pstart = NULL /\ @ = NULL
                               THEN Wrap(got + padded) ELSE Wrap(@ + padded),
                      !.pstart = Wrap(got + size + OFFSET)]
       ELSE [h EXCEPT !.pstart = Wrap(@ + size)]

update_pending(h, size) ==
    LET padded == round_up_mult_of_num(size, NEW_MEM_BLK)
        got == sbrk(h, padded)
    IN IF NeedsChunk(h, size)
       THEN [h EXCEPT !.brk = IF Delivers(h, padded) THEN Wrap(@ + padded) ELSE @,
                      !.refused = @ \/ ~Delivers(h, padded),
                      !.pend = IF h.pstart = NULL /\ @ = NULL
                               THEN Wrap(got + padded) ELSE Wrap(@ + padded),
                      !.pstart = Wrap(got + size + OFFSET)]
       ELSE [h EXCEPT !.pstart = Wrap(@ + size + OFFSET)]

NewSpot(h, size) ==
    IF NeedsChunk(h, size) THEN sbrk(h, round_up_mult_of_num(size, NEW_MEM_BLK))
    ELSE h.pstart

\* The state after malloc and the block it returns.  A new spot is never NULL,
\* which malloc tests for: at address -1 the store of the header faults.
Malloc(h, size) ==
    LET sz == round_up_mult_of_num(size, 16)
        open == OpenBlock(h, sz)
        new == NewSpot(h, sz)
    IN IF open # NULL
       THEN [h |-> set_blk(open_spot(h, open, sz), open, sz, FALSE), blk |-> open]
       ELSE [h |-> set_blk(update_pending(h, sz), new, sz, TRUE), blk |-> new]

-----------------------------------------------------------------------------
(* free *)

inHeap(h, blk) == Contains(Blocks(h), blk)

\* The tail from blk goes back to the system.  A block that is not in the
\* list has no predecessor: the store through a null pointer faults.
giveBackToOS(h, blk) ==
    LET prev == CHOOSE b \in ToSet(Blocks(h)) : h.hdr[b].next = blk
        cut == [h EXCEPT !.brk = Wrap(@ - Wrap(h.pend - blk)),
                         !.pstart = blk, !.pend = blk]
    IN IF blk = h.start THEN [cut EXCEPT !.start = NULL]
       ELSE IF ~inHeap(h, blk) THEN [h EXCEPT !.fault = TRUE]
       ELSE [cut EXCEPT !.hdr[prev].next = NULL]

\* Mutant: only the last two blocks are looked at.
merge_adj_open_blks_LastOnly(h) ==
    LET l == Blocks(h)
        n == Len(l)
    IN IF n < 2 \/ ~h.hdr[l[n]].isFree \/ ~h.hdr[l[n - 1]].isFree
       THEN [h |-> h, gave |-> FALSE]
       ELSE [h |-> [h EXCEPT !.hdr[l[n - 1]].data_size =
                                @ + h.hdr[l[n]].data_size + OFFSET,
                              !.hdr[l[n - 1]].next = NULL],
             gave |-> FALSE]

\* One pass over the neighbours in the list.  After a merge the pass goes
\* on from the block that was absorbed, not from the one that absorbed it.
Merge(m, prev, curr) ==
    LET h == m.h
        grown == [h EXCEPT !.hdr[prev].data_size =
                        Wrap(@ + h.hdr[curr].data_size + OFFSET)]
    IN IF m.gave \/ ~h.hdr[prev].isFree \/ ~h.hdr[curr].isFree THEN m
       ELSE IF /\ isEndList(h, curr) /\ h.giveback
               /\ isEnoughToGiveUp(h, grown.hdr[prev].data_size)
       THEN [h |-> giveBackToOS(grown, prev), gave |-> TRUE]
       ELSE [h |-> [grown EXCEPT !.hdr[prev].next = h.hdr[curr].next,
                                 !.hdr[curr].next = NULL],
             gave |-> FALSE]

MergePass(h, l) ==
    LET m[i \in 1..Len(l)] == IF i = 1 THEN [h |-> h, gave |-> FALSE]
                              ELSE Merge(m[i - 1], l[i - 1], l[i])
    IN m

merge_adj_open_blks(h) == MergePass(h, Blocks(h))[Len(Blocks(h))]

Free(h, blk) ==
    IF ~inHeap(h, blk) THEN h
    ELSE LET m == merge_adj_open_blks([h EXCEPT !.hdr[blk].isFree = TRUE])
         IN IF /\ ~m.gave /\ isEndList(m.h, blk) /\ h.giveback
               /\ isEnoughToGiveUp(m.h, m.h.hdr[blk].data_size)
            THEN giveBackToOS(m.h, blk) ELSE m.h

(* realloc: the last block grows in place, whatever update_pending says;   *)
(* any other is freed and asked for again.  Only from then on does free    *)
(* give memory back.  With size 0 the code runs off its end without a      *)
(* value to return.                                                        *)
Realloc(h, blk, size) ==
    IF ~inHeap(h, blk) THEN Malloc(h, size)
    ELSE IF size = 0 THEN [h |-> Free(h, blk)]
    ELSE IF /\ isEndList(h, blk)
            /\ round_up_mult_of_num(size, 16) >= h.hdr[blk].data_size
    THEN [h |-> [update_pending(h, Wrap(size - h.hdr[blk].data_size))
                    EXCEPT !.hdr[blk].data_size = size],
          blk |-> blk]
    ELSE Malloc([Free([h EXCEPT !.giveback = FALSE], blk)
                    EXCEPT !.giveback = TRUE], size)

-----------------------------------------------------------------------------
(* The client's calls.  calloc(n, size) is malloc(n * size) and a memset.  *)
(* realloc(blk, 0) it takes for free(blk), as malloc.c:364 says it may, and *)
(* makes no use of what comes back.                                        *)

\* The client's blocks in the order of their addresses.
Insert(q, new) ==
    InsertAt(q, Cardinality({i \in DOMAIN q : q[i].blk < new.blk}) + 1, new)

\* The program has gone on for as long as the system had memory for it.
Calling ==
    /\ ~heap.fault /\ ~heap.refused
    /\ calls < MaxCalls /\ calls' = calls + 1

\* Headers that left the list are never read again by a later call.
InList(h) == [h EXCEPT !.hdr = Restrict(@, ToSet(Blocks(h)))]

\* What a call leaves behind: one that faults does not come back.
After(h) ==
    IF h.fault THEN [heap EXCEPT !.fault = TRUE, !.refused = h.refused] ELSE InList(h)

ClientMalloc ==
    /\ Calling /\ Len(held) < MaxHeld
    /\ \E size \in Sizes :
        LET r == Malloc(heap, size)
        IN /\ heap' = After(r.h)
           /\ held' = IF r.h.fault THEN held
                      ELSE Insert(held, [blk |-> r.blk, size |-> size])

\* Freeing blk would have it absorbed by the free block before it while other
\* blocks follow it.
AbsorbedInside(blk) ==
    LET l == Blocks(heap)
    IN \E i \in 2..(Len(l) - 1) : l[i] = blk /\ heap.hdr[l[i - 1]].isFree

Choosable == {i \in DOMAIN held : Careful => ~AbsorbedInside(held[i].blk)}

ClientFree ==
    /\ Calling
    /\ \E i \in Choosable :
        /\ heap' = After(Free(heap, held[i].blk))
        /\ held' = RemoveAt(held, i)

ClientRealloc ==
    /\ Calling
    /\ \E i \in Choosable, size \in Sizes :
        LET r == Realloc(heap, held[i].blk, size)
        IN /\ heap' = After(r.h)
           /\ held' = IF r.h.fault THEN held
                      ELSE IF size = 0 THEN RemoveAt(held, i)
                      ELSE Insert(RemoveAt(held, i), [blk |-> r.blk, size |-> size])

Next == ClientMalloc \/ ClientFree \/ ClientRealloc

Spec == Init /\ [][Next]_vars

-----------------------------------------------------------------------------
(* Properties *)

\* The types of the allocator's globals and headers, and of the client.
MallocTypeOK ==
    /\ \A a \in DOMAIN heap.hdr :
        heap.hdr[a] \in [data_size : 0..MaxBrk, isFree : BOOLEAN,
                         next : {NULL} \cup DOMAIN heap.hdr]
    /\ heap.start \in {NULL} \cup DOMAIN heap.hdr
    /\ {heap.pstart, heap.pend, heap.brk} \subseteq 0..(WORD - 1)
    /\ {heap.giveback, heap.fault, heap.refused} \subseteq BOOLEAN
    /\ Len(held) =< MaxHeld /\ calls \in 0..MaxCalls

\* What the client holds is its own: each block it was given lies below the
\* break with its header, overlaps no other held block, no free block of the
\* list and no pending memory, although blocks are split, merged, grown in
\* place and given back (malloc.c:77-173, 250-295, 366-396).  It is said of
\* a program that sbrk has refused nothing; the call on which sbrk refuses
\* is the only one that can fault (malloc.c:180, 215).
HeldIsSound ==
    /\ heap.fault => heap.refused
    /\ ~heap.refused => \A i \in DOMAIN held :
        LET b == held[i]
            hi == b.blk + OFFSET + b.size
        IN /\ b.blk >= Base /\ hi =< heap.pstart /\ heap.pstart =< heap.pend
           /\ heap.pend = heap.brk
           /\ \A j \in DOMAIN held \ {i} :
                \/ hi =< held[j].blk
                \/ held[j].blk + OFFSET + held[j].size =< b.blk
           /\ \A f \in ToSet(Blocks(heap)) :
                heap.hdr[f].isFree =>
                    \/ hi =< f
                    \/ f + OFFSET + heap.hdr[f].data_size =< b.blk

\* The list is the heap: it holds every block the client holds, marked used,
\* and every other block of it is free, in the order of the addresses, until
\* sbrk refuses.  A block that drops off the list can never be freed again
\* (malloc.c:297-312).
ListIsHeap ==
    LET l == Blocks(heap)
    IN ~heap.refused =>
       /\ MallocTypeOK
       /\ {b \in ToSet(l) : ~heap.hdr[b].isFree} = {h.blk : h \in ToSet(held)}
       /\ \A i, j \in DOMAIN l : i < j => l[i] < l[j]

\* "if there are any consequtive free blocks this will merge them"
\* (malloc.c:265-269): after every call no two neighbours of the list are
\* free, until sbrk refuses.
MergedAll ==
    LET l == Blocks(heap)
    IN ~heap.refused => \A i \in 1..(Len(l) - 1) :
        ~(heap.hdr[l[i]].isFree /\ heap.hdr[l[i + 1]].isFree)

\* "Returns NULL, if cant allocate more space using Sbrk" (malloc.c:199, of
\* malloc; 357-359, of realloc, "keeping already reserved buffer"): when sbrk
\* refuses, the call comes back and every block the client holds still ends
\* at or below the break.  The code does neither (malloc.c:180, 215, 385).
NullWhenRefused ==
    heap.refused =>
        /\ ~heap.fault
        /\ \A i \in DOMAIN held : held[i].blk + OFFSET + held[i].size =< heap.brk
=============================================================================
