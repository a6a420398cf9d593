---------------------------- MODULE Malloc_proofs ----------------------------
(***************************************************************************)
(* Proofs about the allocator, for every size of the header's machine, of  *)
(* the chunk and of the memory, and any number of calls and blocks.        *)
(***************************************************************************)
EXTENDS Malloc, TLAPS, FunctionTheorems, FiniteSetTheorems, SequenceTheorems,
        WellFoundedInduction

(***************************************************************************)
(* The client the allocator works for frees and resizes as Careful says,   *)
(* asks for multiples of 16 bytes, and for no more than a chunk holds      *)
(* beside a header: the other sizes pass the break, or leave a remainder   *)
(* smaller than a header when a block is split.                            *)
(***************************************************************************)
FittingClient ==
    /\ Careful
    /\ OFFSET \in {16, 32} /\ OFFSET + 16 =< NEW_MEM_BLK
    /\ \A size \in Sizes : size % 16 = 0 /\ size + OFFSET =< NEW_MEM_BLK

(***************************************************************************)
(* The records the heap is made of.                                        *)
(***************************************************************************)
Header == [data_size : Nat, isFree : BOOLEAN, next : Nat]
Headers == UNION {[A -> Header] : A \in SUBSET Nat}
Heap == [hdr : Headers, start : Nat, pstart : Nat, pend : Nat, brk : Nat,
         giveback : BOOLEAN, fault : BOOLEAN, refused : BOOLEAN]

(***************************************************************************)
(* The inductive invariant speaks of the set S of the blocks in the list:  *)
(* the links lead from each to the next address in S,                      *)
(***************************************************************************)
Follows(S, a, n) ==
    \/ n = NULL /\ \A b \in S : b =< a
    \/ n \in S /\ a < n /\ \A b \in S : b =< a \/ n =< b

Links(h, S) ==
    /\ S \subseteq DOMAIN h.hdr /\ NULL \notin S
    /\ S = {} => h.start = NULL
    /\ S # {} => h.start \in S /\ \A b \in S : h.start =< b
    /\ \A a \in S : Follows(S, a, h.hdr[a].next)

(***************************************************************************)
(* they lie without overlap between the first break and the memory that is *)
(* pending, which ends at the break,                                       *)
(***************************************************************************)
End(h, a) == a + OFFSET + h.hdr[a].data_size

Chunk(h) ==
    /\ \/ h.pstart = NULL /\ h.pend = NULL /\ h.brk = Base
       \/ Base =< h.pstart /\ h.pstart =< h.pend /\ h.pend = h.brk
    /\ h.brk =< MaxBrk

Layout(h, S) ==
    \A a \in S :
        /\ Base =< a /\ h.hdr[a].data_size % 16 = 0 /\ End(h, a) =< h.pstart
        /\ \A b \in S : a < b => End(h, a) =< b

(***************************************************************************)
(* no two neighbours are free,                                             *)
(***************************************************************************)
NoTwoFree(h, S) ==
    \A a, b \in S : h.hdr[a].next = b => ~(h.hdr[a].isFree /\ h.hdr[b].isFree)

Sound(h, S) ==
    /\ h \in Heap /\ IsFiniteSet(DOMAIN h.hdr) /\ ~h.fault /\ ~h.refused
    /\ Links(h, S) /\ Chunk(h) /\ Layout(h, S) /\ NoTwoFree(h, S)

(***************************************************************************)
(* and the client holds each block in use, once, at no more than its size. *)
(***************************************************************************)
Used(h, S) == {a \in S : ~h.hdr[a].isFree}
Data(h) == [a \in DOMAIN h.hdr |-> h.hdr[a].data_size]
Block == [blk : Nat, size : Nat]

Owns(q, U, d) ==
    /\ q \in Seq(Block)
    /\ \A i \in 1..Len(q) : q[i].blk \in U /\ q[i].size =< d[q[i].blk]
    /\ \A i, j \in 1..Len(q) : q[i].blk = q[j].blk => i = j
    /\ \A a \in U : \E i \in 1..Len(q) : q[i].blk = a

Holds(q, h, S) == Owns(q, Used(h, S), Data(h))

Kept(h, q) == Sound(h, DOMAIN h.hdr) /\ Holds(q, h, DOMAIN h.hdr)

(***************************************************************************)
(* Nothing is said of the heap once sbrk has refused: that call was the    *)
(* last one.                                                               *)
(***************************************************************************)
IInv ==
    ~heap.refused =>
        /\ Kept(heap, held)
        /\ Len(held) =< MaxHeld /\ calls \in 0..MaxCalls

\* The heap of a call on which sbrk refused.
Refuses(h) == "refused" \in DOMAIN h /\ h.refused = TRUE

-----------------------------------------------------------------------------
(* The records *)

\* What it is to be a function from addresses to headers.
LEMMA HeadersAre ==
    ASSUME NEW f
    PROVE  f \in Headers <=> /\ f = [a \in DOMAIN f |-> f[a]]
                             /\ DOMAIN f \subseteq Nat
                             /\ \A a \in DOMAIN f : f[a] \in Header
<1>1. ASSUME f \in Headers
      PROVE  f = [a \in DOMAIN f |-> f[a]] /\ DOMAIN f \subseteq Nat
             /\ \A a \in DOMAIN f : f[a] \in Header
  <2>1. PICK A \in SUBSET Nat : f \in [A -> Header]
    BY <1>1 DEF Headers
  <2> QED
    BY <2>1
<1>2. ASSUME f = [a \in DOMAIN f |-> f[a]], DOMAIN f \subseteq Nat,
             \A a \in DOMAIN f : f[a] \in Header
      PROVE  f \in Headers
  <2>1. f \in [DOMAIN f -> Header]
    BY <1>2
  <2> QED
    BY <1>2, <2>1 DEF Headers
<1> QED
  BY <1>1, <1>2

-----------------------------------------------------------------------------
(* The list *)

Enumerates(l, S) ==
    /\ l \in Seq(Nat)
    /\ \A i, j \in 1..Len(l) : i < j => l[i] < l[j]
    /\ \A i \in 1..Len(l) : l[i] \in S
    /\ \A a \in S : \E i \in 1..Len(l) : l[i] = a

\* Every bounded set of addresses can be put into order.
LEMMA Enumeration ==
    ASSUME NEW n \in Nat, NEW S \in SUBSET (0..n)
    PROVE  \E l \in Seq(Nat) : Enumerates(l, S)
<1> DEFINE Bad == {m \in Nat : \E T \in SUBSET (0..m - 1) :
                                  \A l \in Seq(Nat) : ~Enumerates(l, T)}
<1>1. Bad = {}
  <2> SUFFICES ASSUME Bad # {} PROVE FALSE
    OBVIOUS
  <2>1. PICK m \in Bad : \A k \in Bad : ~(<<k, m>> \in OpToRel(<, Nat))
    BY NatLessThanWellFounded, WFMin, Bad \subseteq Nat
  <2>2. m \in Nat /\ \A k \in Bad : ~(k < m)
    BY <2>1 DEF OpToRel
  <2>3. PICK T \in SUBSET (0..m - 1) : \A l \in Seq(Nat) : ~Enumerates(l, T)
    BY <2>1
  <2>4. CASE m = 0
    <3>1. T = {}
      BY <2>3, <2>4
    <3>2. <<>> \in Seq(Nat) /\ 1..Len(<<>>) = {}
      OBVIOUS
    <3>3. Enumerates(<<>>, T)
      BY <3>1, <3>2 DEF Enumerates
    <3> QED
      BY <2>3, <3>2, <3>3
  <2>5. CASE m # 0
    <3>a. m - 1 \in Nat /\ m - 1 < m
      BY <2>2, <2>5
    <3>1. m - 1 \in Nat /\ m - 1 \notin Bad
      <4> HIDE DEF Bad
      <4> QED
        BY <2>2, <3>a
    <3>2. T \ {m - 1} \in SUBSET (0..(m - 1) - 1)
      BY <2>2, <2>3
    <3>3. PICK l \in Seq(Nat) : Enumerates(l, T \ {m - 1})
      BY <3>1, <3>2
    <3>4. m - 1 \in T
      BY <2>3, <3>3
    <3> DEFINE k == Append(l, m - 1)
    <3>5. /\ k \in Seq(Nat) /\ Len(l) \in Nat /\ Len(k) = Len(l) + 1
          /\ \A i \in 1..Len(l) : k[i] = l[i]
          /\ k[Len(l) + 1] = m - 1
      BY <3>1, AppendProperties, LenProperties
    <3> HIDE DEF k
    <3>6. \A i \in 1..Len(k) : i \in 1..Len(l) \/ i = Len(l) + 1
      BY <3>5
    <3>7. \A i \in 1..Len(l) : l[i] \in T /\ l[i] < m - 1
      BY <2>2, <2>3, <3>3 DEF Enumerates
    <3>8. \A i \in 1..Len(k) : k[i] \in T
      BY <3>4, <3>5, <3>6, <3>7
    <3>9. ASSUME NEW i \in 1..Len(k), NEW j \in 1..Len(k), i < j
          PROVE  k[i] < k[j]
      <4>1. i \in 1..Len(l) /\ (j \in 1..Len(l) \/ j = Len(l) + 1)
        BY <3>5, <3>6, <3>9
      <4>2. CASE j \in 1..Len(l)
        BY <3>3, <3>5, <3>9, <4>1, <4>2 DEF Enumerates
      <4>3. CASE j = Len(l) + 1
        BY <3>5, <3>7, <4>1, <4>3
      <4> QED
        BY <4>1, <4>2, <4>3
    <3>10. \A a \in T : \E i \in 1..Len(k) : k[i] = a
      <4> TAKE a \in T
      <4>1. CASE a = m - 1
        BY <3>5, <4>1
      <4>2. CASE a # m - 1
        <5>1. PICK i \in 1..Len(l) : l[i] = a
          BY <3>3, <4>2 DEF Enumerates
        <5> QED
          BY <3>5, <5>1
      <4> QED
        BY <4>1, <4>2
    <3> QED
      BY <2>3, <3>5, <3>8, <3>9, <3>10 DEF Enumerates
  <2> QED
    BY <2>4, <2>5
<1>2. n + 1 \in Nat /\ S \in SUBSET (0..(n + 1) - 1)
  OBVIOUS
<1> QED
  BY <1>1, <1>2

\* The walk along next meets the members of a linked sequence in order.
LEMMA WalkIs ==
    ASSUME NEW h, NEW l \in Seq(Nat),
           h.start = IF l = <<>> THEN NULL ELSE l[1],
           \A i \in 1..Len(l) : /\ l[i] # NULL
                                /\ h.hdr[l[i]].next = IF i = Len(l) THEN NULL ELSE l[i + 1]
    PROVE  \A k \in Nat : Walk(h)[k] = IF k < Len(l) THEN l[k + 1] ELSE NULL
<1> DEFINE w == [k \in Nat |-> IF k < Len(l) THEN l[k + 1] ELSE NULL]
           F(at) == [k \in Nat |-> IF k = 0 THEN h.start ELSE Following(h, at[k - 1])]
<1>1. Len(l) \in Nat /\ (l = <<>> <=> Len(l) = 0)
  BY LenProperties, EmptySeq
<1>2. ASSUME NEW k \in Nat
      PROVE  w[k] = IF k = 0 THEN h.start ELSE Following(h, w[k - 1])
  <2>1. CASE k = 0
    BY <1>1, <2>1
  <2>2. CASE k # 0 /\ k - 1 < Len(l)
    <3>1. k - 1 \in Nat /\ k \in 1..Len(l) /\ (k - 1) + 1 = k
      BY <1>1, <2>2
    <3>2. w[k - 1] = l[k]
      BY <2>2, <3>1
    <3>3. Following(h, w[k - 1]) = IF k = Len(l) THEN NULL ELSE l[k + 1]
      BY <3>1, <3>2 DEF Following
    <3>4. w[k] = IF k = Len(l) THEN NULL ELSE l[k + 1]
      BY <1>1, <3>1
    <3> QED
      BY <2>2, <3>3, <3>4
  <2>3. CASE k # 0 /\ ~(k - 1 < Len(l))
    <3>1. k - 1 \in Nat /\ ~(k < Len(l))
      BY <1>1, <2>3
    <3>2. w[k - 1] = NULL /\ w[k] = NULL
      BY <2>3, <3>1
    <3> QED
      BY <2>3, <3>2 DEF Following
  <2> QED
    BY <2>1, <2>2, <2>3
<1>3. w = F(w)
  BY <1>2
<1> HIDE DEF w
<1> DEFINE at == Walk(h)
<1>4. at = F(at)
  BY <1>3 DEF Walk
<1>5. \A k \in Nat : at[k] = IF k = 0 THEN h.start ELSE Following(h, at[k - 1])
  BY <1>4
<1>6. \A k \in Nat : w[k] = IF k = 0 THEN h.start ELSE Following(h, w[k - 1])
  BY <1>2
<1> HIDE DEF at
<1> DEFINE Off == {k \in Nat : at[k] # w[k]}
<1>7. Off = {}
  <2> SUFFICES ASSUME Off # {} PROVE FALSE
    OBVIOUS
  <2>1. PICK m \in Off : \A k \in Off : ~(<<k, m>> \in OpToRel(<, Nat))
    BY NatLessThanWellFounded, WFMin, Off \subseteq Nat
  <2>2. m \in Nat /\ at[m] # w[m] /\ \A k \in Off : ~(k < m)
    BY <2>1 DEF OpToRel
  <2>3. m # 0
    BY <1>5, <1>6, <2>2
  <2>4. m - 1 \in Nat /\ m - 1 < m
    BY <2>2, <2>3
  <2>5. at[m - 1] = w[m - 1]
    BY <2>2, <2>4
  <2> QED
    BY <1>5, <1>6, <2>2, <2>3, <2>5
<1>8. \A k \in Nat : at[k] = w[k]
  BY <1>7
<1> QED
  BY <1>8 DEF at, w

\* In an ascending enumeration the links of the heap lead from each member to the next.
LEMMA LinksInOrder ==
    ASSUME NEW h \in Heap, NEW S, Links(h, S), NEW l, Enumerates(l, S)
    PROVE  /\ h.start = IF l = <<>> THEN NULL ELSE l[1]
           /\ \A i \in 1..Len(l) :
                /\ l[i] # NULL
                /\ h.hdr[l[i]].next = IF i = Len(l) THEN NULL ELSE l[i + 1]
<1>1. /\ l \in Seq(Nat) /\ Len(l) \in Nat /\ (l = <<>> <=> Len(l) = 0)
      /\ \A i \in 1..Len(l) : l[i] \in Nat /\ l[i] \in S
  BY LenProperties, EmptySeq DEF Enumerates
<1>2. \A i, j \in 1..Len(l) : i < j => l[i] < l[j]
  BY DEF Enumerates
<1>3. \A a \in S : \E i \in 1..Len(l) : l[i] = a
  BY DEF Enumerates
<1>4. h.start = IF l = <<>> THEN NULL ELSE l[1]
  <2>1. CASE l = <<>>
    <3>1. S = {}
      BY <1>1, <1>3, <2>1
    <3> QED
      BY <2>1, <3>1 DEF Links
  <2>2. CASE l # <<>>
    <3>1. 1 \in 1..Len(l)
      BY <1>1, <2>2
    <3>2. h.start \in S /\ h.start =< l[1]
      BY <1>1, <3>1 DEF Links
    <3>3. PICK i \in 1..Len(l) : l[i] = h.start
      BY <1>3, <3>2
    <3>4. i = 1
      BY <1>1, <1>2, <3>1, <3>2, <3>3
    <3> QED
      BY <2>2, <3>3, <3>4
  <2> QED
    BY <2>1, <2>2
<1>5. ASSUME NEW i \in 1..Len(l)
      PROVE  h.hdr[l[i]].next = IF i = Len(l) THEN NULL ELSE l[i + 1]
  <2> DEFINE n == h.hdr[l[i]].next
  <2>1. Follows(S, l[i], n)
    BY <1>1 DEF Links
  <2> HIDE DEF n
  <2>2. CASE i = Len(l)
    <3>1. ASSUME n \in S, l[i] < n PROVE FALSE
      <4>1. PICK j \in 1..Len(l) : l[j] = n
        BY <1>3, <3>1
      <4> QED
        BY <1>1, <1>2, <2>2, <3>1, <4>1
    <3> QED
      BY <2>1, <2>2, <3>1 DEF Follows, n
  <2>3. CASE i # Len(l)
    <3>1. i + 1 \in 1..Len(l) /\ i < i + 1
      BY <1>1, <2>3
    <3>2. l[i] < l[i + 1] /\ l[i + 1] \in S /\ l[i] \in Nat /\ l[i + 1] \in Nat
      BY <1>1, <1>2, <3>1
    <3>3. n \in S /\ l[i] < n /\ n =< l[i + 1]
      BY <2>1, <3>2 DEF Follows
    <3>4. PICK j \in 1..Len(l) : l[j] = n
      BY <1>3, <3>3
    <3>5. ~(i + 1 < j)
      BY <1>1, <1>2, <3>1, <3>2, <3>3, <3>4
    <3>6. ~(j < i) /\ j # i
      BY <1>1, <1>2, <3>2, <3>3, <3>4
    <3>7. j = i + 1
      BY <1>1, <3>5, <3>6
    <3> QED
      BY <2>3, <3>4, <3>7 DEF n
  <2> QED
    BY <2>2, <2>3
<1>6. \A i \in 1..Len(l) : l[i] # NULL
  BY <1>1 DEF Links
<1> QED
  BY <1>4, <1>5, <1>6

\* The list that the code walks is the set of blocks in the order of addresses.
LEMMA BlocksAre ==
    ASSUME NEW h \in Heap, IsFiniteSet(DOMAIN h.hdr), NEW S, Links(h, S),
           NEW n \in Nat, S \subseteq 0..n
    PROVE  /\ Enumerates(Blocks(h), S) /\ ToSet(Blocks(h)) = S
           /\ \A i \in 1..Len(Blocks(h)) :
                h.hdr[Blocks(h)[i]].next =
                    IF i = Len(Blocks(h)) THEN NULL ELSE Blocks(h)[i + 1]
<1>1. PICK l \in Seq(Nat) : Enumerates(l, S)
  BY Enumeration
<1>2. /\ h.start = IF l = <<>> THEN NULL ELSE l[1]
      /\ \A i \in 1..Len(l) :
            /\ l[i] # NULL
            /\ h.hdr[l[i]].next = IF i = Len(l) THEN NULL ELSE l[i + 1]
  BY <1>1, LinksInOrder
<1>3. \A k \in Nat : Walk(h)[k] = IF k < Len(l) THEN l[k + 1] ELSE NULL
  BY <1>1, <1>2, WalkIs
<1>4. Len(l) \in Nat /\ l = [i \in 1..Len(l) |-> l[i]]
  BY <1>1, LenProperties
<1> DEFINE top == Cardinality(DOMAIN h.hdr)
<1>5. top \in Nat /\ Len(l) =< top
  <2>1. l \in [1..Len(l) -> DOMAIN h.hdr]
    BY <1>1, <1>4 DEF Enumerates, Links
  <2>2. \A i, j \in 1..Len(l) : l[i] = l[j] => i = j
    <3> SUFFICES ASSUME NEW i \in 1..Len(l), NEW j \in 1..Len(l), i # j
                 PROVE  l[i] # l[j]
      OBVIOUS
    <3>1. l[i] \in Nat /\ l[j] \in Nat
      BY <1>1, ElementOfSeq
    <3>2. i < j \/ j < i
      BY <1>4
    <3> QED
      BY <1>1, <3>1, <3>2 DEF Enumerates
  <2>3. l \in Injection(1..Len(l), DOMAIN h.hdr)
    BY <2>1, <2>2 DEF Injection, IsInjective
  <2>4. Cardinality(1..Len(l)) =< top
    BY <2>3, FS_Injection
  <2>a. 1 \in Int /\ Len(l) \in Int
    BY <1>4
  <2>b. Cardinality(1..Len(l)) = IF 1 > Len(l) THEN 0 ELSE Len(l) - 1 + 1
    BY <2>a, FS_Interval
  <2>5. Cardinality(1..Len(l)) = Len(l)
    BY <1>4, <2>b
  <2> QED
    BY <2>4, <2>5, FS_CardinalityType
<1> HIDE DEF top
<1> DEFINE steps == {k \in 0..top : Walk(h)[k] # NULL}
<1>6. steps = 0..Len(l) - 1
  <2>1. \A k \in 0..top : Walk(h)[k] # NULL <=> k < Len(l)
    <3> TAKE k \in 0..top
    <3>1. k \in Nat
      BY <1>5
    <3>2. CASE k < Len(l)
      <4>1. k + 1 \in 1..Len(l)
        BY <1>4, <3>1, <3>2
      <4> QED
        BY <1>2, <1>3, <3>1, <3>2, <4>1
    <3>3. CASE ~(k < Len(l))
      BY <1>3, <3>1, <3>3
    <3> QED
      BY <3>2, <3>3
  <2> QED
    BY <1>4, <1>5, <2>1
<1>7. Cardinality(steps) = Len(l)
  <2>1. 0 \in Int /\ Len(l) - 1 \in Int
    BY <1>4
  <2>2. Cardinality(0..Len(l) - 1) = IF 0 > Len(l) - 1 THEN 0 ELSE (Len(l) - 1) - 0 + 1
    BY <2>1, FS_Interval
  <2>3. Cardinality(0..Len(l) - 1) = Len(l)
    BY <1>4, <2>2
  <2> HIDE DEF steps
  <2> QED
    BY <1>6, <2>3
<1>8. Blocks(h) = [i \in 1..Cardinality(steps) |-> Walk(h)[i - 1]]
  BY DEF Blocks, top
<1> HIDE DEF steps
<1>9. \A i \in 1..Len(l) : Walk(h)[i - 1] = l[i]
  <2> TAKE i \in 1..Len(l)
  <2>1. i - 1 \in Nat /\ i - 1 < Len(l) /\ (i - 1) + 1 = i
    BY <1>4
  <2> QED
    BY <1>3, <2>1
<1>10. Blocks(h) = l
  BY <1>4, <1>7, <1>8, <1>9
<1>11. ToSet(l) = S
  <2>1. DOMAIN l = 1..Len(l)
    BY <1>4
  <2> QED
    BY <1>1, <2>1 DEF ToSet, Enumerates
<1> QED
  BY <1>1, <1>2, <1>10, <1>11

-----------------------------------------------------------------------------
(* What the assignments of the code do to the records. *)

SameFrame(h, t) ==
    /\ t.start = h.start /\ t.pstart = h.pstart /\ t.pend = h.pend /\ t.brk = h.brk
    /\ t.giveback = h.giveback /\ t.fault = h.fault /\ t.refused = h.refused

\* One header of the list is assigned.
LEMMA SetHeaderIs ==
    ASSUME NEW h \in Heap, NEW a \in DOMAIN h.hdr, NEW hd \in Header,
           NEW t, t = [h EXCEPT !.hdr[a] = hd]
    PROVE  /\ t \in Heap /\ SameFrame(h, t)
           /\ DOMAIN t.hdr = DOMAIN h.hdr /\ t.hdr[a] = hd
           /\ \A b \in DOMAIN h.hdr : b # a => t.hdr[b] = h.hdr[b]
<1> DEFINE g == [h.hdr EXCEPT ![a] = hd]
<1>1. /\ DOMAIN h.hdr \subseteq Nat /\ \A b \in DOMAIN h.hdr : h.hdr[b] \in Header
      /\ h.hdr = [b \in DOMAIN h.hdr |-> h.hdr[b]]
  BY HeadersAre DEF Heap
<1>2. /\ DOMAIN g = DOMAIN h.hdr /\ g[a] = hd /\ g = [b \in DOMAIN g |-> g[b]]
      /\ \A b \in DOMAIN h.hdr : b # a => g[b] = h.hdr[b]
  BY <1>1
<1>3. t = [h EXCEPT !.hdr = g]
  OBVIOUS
<1> HIDE DEF g
<1>4. g \in Headers
  BY <1>1, <1>2, HeadersAre
<1>5. t \in Heap /\ t.hdr = g /\ SameFrame(h, t)
  BY <1>3, <1>4 DEF Heap, SameFrame
<1> QED
  BY <1>2, <1>5

\* The headers of blocks of a heap.
LEMMA HeaderAt ==
    ASSUME NEW h \in Heap, NEW a \in DOMAIN h.hdr
    PROVE  /\ a \in Nat /\ h.hdr[a] \in Header
           /\ h.hdr[a].data_size \in Nat /\ h.hdr[a].isFree \in BOOLEAN
           /\ h.hdr[a].next \in Nat
<1>1. a \in Nat /\ h.hdr[a] \in Header
  BY HeadersAre DEF Heap
<1> QED
  BY <1>1 DEF Header

\* One field of a header is assigned: the flag, the link, the size.
MarkUsed(h, a) == [h EXCEPT !.hdr[a].isFree = FALSE]
MarkFree(h, a) == [h EXCEPT !.hdr[a].isFree = TRUE]
Linked(h, a, x) == [h EXCEPT !.hdr[a].next = x]
Resized(h, a, x) == [h EXCEPT !.hdr[a].data_size = x]

\* A block is marked used,
LEMMA SetUsedIs ==
    ASSUME NEW h \in Heap, NEW a \in DOMAIN h.hdr, NEW t, t = MarkUsed(h, a)
    PROVE  /\ t \in Heap /\ SameFrame(h, t) /\ DOMAIN t.hdr = DOMAIN h.hdr
           /\ ~t.hdr[a].isFree /\ t.hdr[a].next = h.hdr[a].next
           /\ t.hdr[a].data_size = h.hdr[a].data_size
           /\ \A b \in DOMAIN h.hdr : b # a => t.hdr[b] = h.hdr[b]
<1> DEFINE hd == [h.hdr[a] EXCEPT !.isFree = FALSE]
<1>1. ASSUME NEW o \in Header, NEW q, q = [o EXCEPT !.isFree = FALSE]
      PROVE  q \in Header /\ ~q.isFree /\ q.next = o.next /\ q.data_size = o.data_size
  BY <1>1 DEF Header
<1>2. /\ hd \in Header /\ ~hd.isFree /\ hd.next = h.hdr[a].next
      /\ hd.data_size = h.hdr[a].data_size
  BY <1>1, HeaderAt
<1>3. t = [h EXCEPT !.hdr[a] = hd]
  BY DEF MarkUsed
<1> HIDE DEF hd
<1> QED
  BY <1>2, <1>3, SetHeaderIs

\* or free,
LEMMA SetFreedIs ==
    ASSUME NEW h \in Heap, NEW a \in DOMAIN h.hdr, NEW t, t = MarkFree(h, a)
    PROVE  /\ t \in Heap /\ SameFrame(h, t) /\ DOMAIN t.hdr = DOMAIN h.hdr
           /\ t.hdr[a].isFree /\ t.hdr[a].next = h.hdr[a].next
           /\ t.hdr[a].data_size = h.hdr[a].data_size
           /\ \A b \in DOMAIN h.hdr : b # a => t.hdr[b] = h.hdr[b]
<1> DEFINE hd == [h.hdr[a] EXCEPT !.isFree = TRUE]
<1>1. ASSUME NEW o \in Header, NEW q, q = [o EXCEPT !.isFree = TRUE]
      PROVE  q \in Header /\ q.isFree /\ q.next = o.next /\ q.data_size = o.data_size
  BY <1>1 DEF Header
<1>2. /\ hd \in Header /\ hd.isFree /\ hd.next = h.hdr[a].next
      /\ hd.data_size = h.hdr[a].data_size
  BY <1>1, HeaderAt
<1>3. t = [h EXCEPT !.hdr[a] = hd]
  BY DEF MarkFree
<1> HIDE DEF hd
<1> QED
  BY <1>2, <1>3, SetHeaderIs

\* linked to another,
LEMMA SetNextIs ==
    ASSUME NEW h \in Heap, NEW a \in DOMAIN h.hdr, NEW x \in Nat,
           NEW t, t = Linked(h, a, x)
    PROVE  /\ t \in Heap /\ SameFrame(h, t) /\ DOMAIN t.hdr = DOMAIN h.hdr
           /\ t.hdr[a].isFree = h.hdr[a].isFree /\ t.hdr[a].next = x
           /\ t.hdr[a].data_size = h.hdr[a].data_size
           /\ \A b \in DOMAIN h.hdr : b # a => t.hdr[b] = h.hdr[b]
<1> DEFINE hd == [h.hdr[a] EXCEPT !.next = x]
<1>1. \A o \in Header : /\ [o EXCEPT !.next = x] \in Header
                        /\ [o EXCEPT !.next = x].isFree = o.isFree
                        /\ [o EXCEPT !.next = x].next = x
                        /\ [o EXCEPT !.next = x].data_size = o.data_size
  BY DEF Header
<1>2. /\ hd \in Header /\ hd.isFree = h.hdr[a].isFree /\ hd.next = x
      /\ hd.data_size = h.hdr[a].data_size
  BY <1>1, HeaderAt
<1>3. t = [h EXCEPT !.hdr[a] = hd]
  BY DEF Linked
<1> HIDE DEF hd
<1> QED
  BY <1>2, <1>3, SetHeaderIs

\* or given another size.
LEMMA SetSizeIs ==
    ASSUME NEW h \in Heap, NEW a \in DOMAIN h.hdr, NEW x \in Nat,
           NEW t, t = Resized(h, a, x)
    PROVE  /\ t \in Heap /\ SameFrame(h, t) /\ DOMAIN t.hdr = DOMAIN h.hdr
           /\ t.hdr[a].isFree = h.hdr[a].isFree /\ t.hdr[a].next = h.hdr[a].next
           /\ t.hdr[a].data_size = x
           /\ \A b \in DOMAIN h.hdr : b # a => t.hdr[b] = h.hdr[b]
<1> DEFINE hd == [h.hdr[a] EXCEPT !.data_size = x]
<1>1. \A o \in Header : /\ [o EXCEPT !.data_size = x] \in Header
                        /\ [o EXCEPT !.data_size = x].isFree = o.isFree
                        /\ [o EXCEPT !.data_size = x].next = o.next
                        /\ [o EXCEPT !.data_size = x].data_size = x
  BY DEF Header
<1>2. /\ hd \in Header /\ hd.isFree = h.hdr[a].isFree /\ hd.next = h.hdr[a].next
      /\ hd.data_size = x
  BY <1>1, HeaderAt
<1>3. t = [h EXCEPT !.hdr[a] = hd]
  BY DEF Resized
<1> HIDE DEF hd
<1> QED
  BY <1>2, <1>3, SetHeaderIs

\* What that changes.
SizeSet(h, a, x, t) ==
    /\ t \in Heap /\ SameFrame(h, t) /\ DOMAIN t.hdr = DOMAIN h.hdr
    /\ t.hdr[a].isFree = h.hdr[a].isFree /\ t.hdr[a].next = h.hdr[a].next
    /\ t.hdr[a].data_size = x
    /\ \A b \in DOMAIN h.hdr : b # a => t.hdr[b] = h.hdr[b]

LEMMA SizeSetIs ==
    ASSUME NEW h \in Heap, NEW a \in DOMAIN h.hdr, NEW x \in Nat
    PROVE  SizeSet(h, a, x, Resized(h, a, x))
BY SetSizeIs DEF SizeSet

\* A header is stored inside the break.
LEMMA StoreInside ==
    ASSUME NEW h \in Heap, NEW a \in Nat, NEW hd \in Header, NEW t, t = Store(h, a, hd),
           ~h.fault /\ ~h.refused, Base =< a, a + OFFSET =< h.brk
    PROVE  /\ t \in Heap /\ SameFrame(h, t)
           /\ DOMAIN t.hdr = DOMAIN h.hdr \cup {a} /\ t.hdr[a] = hd
           /\ \A b \in DOMAIN h.hdr : b # a => t.hdr[b] = h.hdr[b]
<1> DEFINE g == [b \in DOMAIN h.hdr \cup {a} |-> IF b = a THEN hd ELSE h.hdr[b]]
           bad == h.fault \/ a < Base \/ a + OFFSET > h.brk
<1>1. DOMAIN h.hdr \subseteq Nat /\ \A b \in DOMAIN h.hdr : h.hdr[b] \in Header
  BY HeadersAre DEF Heap
<1>2. g \in Headers
  BY <1>1, HeadersAre
<1>3. /\ DOMAIN g = DOMAIN h.hdr \cup {a} /\ g[a] = hd
      /\ \A b \in DOMAIN h.hdr : b # a => g[b] = h.hdr[b]
  OBVIOUS
<1>4. t = [h EXCEPT !.hdr = g, !.fault = bad]
  BY DEF Store, Heap
<1>5. h.brk \in Nat /\ Base \in Nat /\ OFFSET \in Nat
  BY MallocAssumption DEF Heap
<1>6. bad = FALSE
  BY <1>5
<1> HIDE DEF g, bad
<1>7. h.fault = FALSE
  BY DEF Heap
<1>8. t \in Heap /\ t.hdr = g /\ SameFrame(h, t)
  BY <1>2, <1>4, <1>6, <1>7 DEF Heap, SameFrame
<1> QED
  BY <1>3, <1>8

-----------------------------------------------------------------------------
(* malloc from a free block *)

\* In the range of size_t nothing wraps.
LEMMA WrapIs ==
    ASSUME NEW n \in Nat, n < WORD
    PROVE  Wrap(n) = n
BY MallocAssumption DEF Wrap

\* split_hdrs cuts a block in two that lie in its place.
LEMMA SplitIs ==
    ASSUME NEW h \in Heap, NEW b \in DOMAIN h.hdr, NEW sz \in Nat,
           Base =< b, ~h.fault /\ ~h.refused, End(h, b) =< h.brk, h.brk < WORD,
           OFFSET + sz =< h.hdr[b].data_size,
           NEW t, t = split_hdrs(h, b, sz), NEW rest, rest = b + OFFSET + sz
    PROVE  /\ t \in Heap /\ SameFrame(h, t) /\ DOMAIN t.hdr = DOMAIN h.hdr \cup {rest}
           /\ t.hdr[b].data_size = sz /\ (t.hdr[b].isFree <=> h.hdr[b].isFree)
           /\ t.hdr[b].next = rest
           /\ t.hdr[rest].data_size = h.hdr[b].data_size - (OFFSET + sz)
           /\ t.hdr[rest].isFree /\ t.hdr[rest].next = h.hdr[b].next
           /\ \A a \in DOMAIN h.hdr : a # b /\ a # rest => t.hdr[a] = h.hdr[a]
<1> DEFINE o == h.hdr[b]
           hd1 == [data_size |-> Wrap(o.data_size - (OFFSET + sz)), isFree |-> TRUE,
                   next |-> o.next]
           hd2 == [o EXCEPT !.data_size = sz, !.next = rest]
           s1 == Store(h, rest, hd1)
<1>1. /\ b \in Nat /\ o \in Header /\ o.data_size \in Nat /\ o.next \in Nat
      /\ o.isFree \in BOOLEAN
  BY HeaderAt
<1>2. /\ OFFSET \in Nat /\ OFFSET > 0 /\ h.brk \in Nat /\ Base \in Nat
      /\ rest \in Nat /\ rest # b
  BY <1>1, MallocAssumption DEF Heap
<1>3. t = Store(s1, b, hd2)
  BY DEF split_hdrs
<1>4. Wrap(o.data_size - (OFFSET + sz)) = o.data_size - (OFFSET + sz)
  <2>1. o.data_size - (OFFSET + sz) \in Nat /\ o.data_size - (OFFSET + sz) < WORD
    BY <1>1, <1>2, MallocAssumption DEF End
  <2> QED
    BY <2>1, WrapIs
<1>5. /\ hd1 \in Header /\ hd1.data_size = o.data_size - (OFFSET + sz)
      /\ hd1.isFree = TRUE /\ hd1.next = o.next
  <2>1. o.data_size - (OFFSET + sz) \in Nat
    BY <1>1, <1>2
  <2> QED
    BY <1>1, <1>4, <2>1 DEF Header
<1> HIDE DEF o
<1>6. /\ hd2 \in Header /\ hd2.data_size = sz /\ hd2.isFree = o.isFree /\ hd2.next = rest
  BY <1>1, <1>2 DEF Header
<1> HIDE DEF hd1, hd2
<1>a. rest \in Nat /\ Base =< rest /\ rest + OFFSET =< h.brk
  BY <1>1, <1>2 DEF End, o
<1>7. /\ s1 \in Heap /\ SameFrame(h, s1)
      /\ DOMAIN s1.hdr = DOMAIN h.hdr \cup {rest} /\ s1.hdr[rest] = hd1
      /\ \A a \in DOMAIN h.hdr : a # rest => s1.hdr[a] = h.hdr[a]
  BY <1>a, <1>5, StoreInside
<1> HIDE DEF s1
<1>b. ~s1.fault /\ ~s1.refused /\ s1.brk = h.brk
  BY <1>7 DEF SameFrame
<1>c. b + OFFSET =< s1.brk
  BY <1>b, <1>1, <1>2 DEF End, o
<1>9. /\ t \in Heap /\ SameFrame(s1, t)
      /\ DOMAIN t.hdr = DOMAIN s1.hdr \cup {b} /\ t.hdr[b] = hd2
      /\ \A a \in DOMAIN s1.hdr : a # b => t.hdr[a] = s1.hdr[a]
  BY <1>1, <1>3, <1>6, <1>7, <1>b, <1>c, StoreInside
<1>11. SameFrame(h, t) /\ DOMAIN t.hdr = DOMAIN h.hdr \cup {rest}
  BY <1>7, <1>9 DEF SameFrame
<1>12. t.hdr[rest] = hd1
  BY <1>2, <1>7, <1>9
<1>13. \A a \in DOMAIN h.hdr : a # b /\ a # rest => t.hdr[a] = h.hdr[a]
  BY <1>7, <1>9
<1> QED
  BY <1>5, <1>6, <1>9, <1>11, <1>12, <1>13 DEF o

\* What the invariant says of the numbers in it.
LEMMA SoundFacts ==
    ASSUME NEW h, NEW S, Sound(h, S)
    PROVE  /\ h \in Heap /\ IsFiniteSet(DOMAIN h.hdr) /\ ~h.fault /\ ~h.refused /\ Links(h, S)
           /\ h.pstart \in Nat /\ h.pend \in Nat /\ h.brk \in Nat
           /\ h.pstart =< h.brk /\ Base =< h.brk /\ h.brk =< MaxBrk
           /\ S \subseteq 0..MaxBrk /\ S \subseteq DOMAIN h.hdr
           /\ \A a \in S : /\ a \in Nat /\ Base =< a /\ h.hdr[a].data_size \in Nat
                           /\ h.hdr[a].isFree \in BOOLEAN /\ h.hdr[a].next \in Nat
                           /\ a < End(h, a) /\ End(h, a) =< h.pstart /\ End(h, a) \in Nat
                           /\ Follows(S, a, h.hdr[a].next)
<1>1. /\ h \in Heap /\ IsFiniteSet(DOMAIN h.hdr) /\ ~h.fault /\ ~h.refused /\ Links(h, S)
      /\ Chunk(h) /\ Layout(h, S)
  BY DEF Sound
<1>2. OFFSET \in Nat /\ OFFSET > 0 /\ Base \in Nat /\ MaxBrk \in Nat /\ Base > 0
  BY MallocAssumption
<1>3. /\ h.pstart \in Nat /\ h.pend \in Nat /\ h.brk \in Nat
      /\ h.pstart =< h.brk /\ Base =< h.brk /\ h.brk =< MaxBrk
  BY <1>1, <1>2 DEF Heap, Chunk, NULL
<1>4. S \subseteq DOMAIN h.hdr
  BY <1>1 DEF Links
<1>5. ASSUME NEW a \in S
      PROVE  /\ a \in Nat /\ Base =< a /\ h.hdr[a].data_size \in Nat
             /\ h.hdr[a].isFree \in BOOLEAN /\ h.hdr[a].next \in Nat
             /\ a < End(h, a) /\ End(h, a) =< h.pstart /\ End(h, a) \in Nat
             /\ Follows(S, a, h.hdr[a].next)
  <2>1. /\ a \in Nat /\ h.hdr[a].data_size \in Nat
        /\ h.hdr[a].isFree \in BOOLEAN /\ h.hdr[a].next \in Nat
    BY <1>1, <1>4, HeaderAt
  <2>2. Base =< a /\ End(h, a) =< h.pstart /\ Follows(S, a, h.hdr[a].next)
    BY <1>1 DEF Layout, Links
  <2>3. a < End(h, a) /\ End(h, a) \in Nat
    BY <1>2, <2>1 DEF End
  <2> QED
    BY <2>1, <2>2, <2>3
<1>6. S \subseteq 0..MaxBrk
  <2> SUFFICES ASSUME NEW a \in S PROVE a \in 0..MaxBrk
    OBVIOUS
  <2> QED
    BY <1>2, <1>3, <1>5
<1> QED
  BY <1>1, <1>3, <1>4, <1>5, <1>6

\* Arithmetic of the multiples of 16.
LEMMA Sixteens ==
    ASSUME NEW x \in Nat, NEW y \in Nat, x % 16 = 0, y % 16 = 0
    PROVE  /\ (x + y) % 16 = 0
           /\ x >= y => (x - y) % 16 = 0
           /\ x - y > 16 => x - y >= 32
OBVIOUS

\* What malloc promises: block b, of at least size bytes, is in use from now
\* on, and no other block in use is touched.
Gained(h, S, t, T, b, size) ==
    /\ Sound(t, T) /\ t.giveback = h.giveback
    /\ b \notin Used(h, S) /\ Used(t, T) = Used(h, S) \cup {b}
    /\ size =< t.hdr[b].data_size
    /\ \A a \in Used(h, S) : t.hdr[a].data_size = h.hdr[a].data_size

\* A free block with room for more than sz bytes is taken, and what is left
\* of it becomes a free block when a header fits.
LEMMA TakeKeeps ==
    ASSUME OFFSET \in {16, 32}, NEW h, NEW S, Sound(h, S),
           NEW b \in S, h.hdr[b].isFree,
           NEW sz \in Nat, sz % 16 = 0, sz < h.hdr[b].data_size,
           NEW t, t = MarkUsed(open_spot(h, b, sz), b)
    PROVE  \E T : Gained(h, S, t, T, b, sz)
<1> DEFINE d == h.hdr[b].data_size
           s == open_spot(h, b, sz)
           rest == b + OFFSET + sz
<1>1. /\ h \in Heap /\ IsFiniteSet(DOMAIN h.hdr) /\ ~h.fault /\ ~h.refused /\ Links(h, S)
      /\ h.pstart \in Nat /\ h.brk \in Nat /\ h.pstart =< h.brk /\ h.brk =< MaxBrk
      /\ S \subseteq DOMAIN h.hdr
      /\ \A a \in S : /\ a \in Nat /\ Base =< a /\ h.hdr[a].data_size \in Nat
                      /\ h.hdr[a].isFree \in BOOLEAN /\ h.hdr[a].next \in Nat
                      /\ a < End(h, a) /\ End(h, a) =< h.pstart /\ End(h, a) \in Nat
                      /\ Follows(S, a, h.hdr[a].next)
  BY SoundFacts
<1>2. /\ OFFSET \in Nat /\ OFFSET % 16 = 0 /\ 0 < OFFSET /\ OFFSET =< 32
      /\ Base \in Nat /\ MaxBrk \in Nat /\ MaxBrk < WORD /\ WORD \in Nat
  BY MallocAssumption
<1>3. t = MarkUsed(s, b)
  OBVIOUS
<1>4. Layout(h, S) /\ NoTwoFree(h, S) /\ Chunk(h) /\ d % 16 = 0
  BY DEF Sound, Layout
<1>5. CASE ~(d - sz > 16)
  <2>1. s = h
    BY <1>5 DEF open_spot
  <2>2. /\ t \in Heap /\ SameFrame(h, t) /\ DOMAIN t.hdr = DOMAIN h.hdr
        /\ ~t.hdr[b].isFree /\ t.hdr[b].next = h.hdr[b].next
        /\ t.hdr[b].data_size = d
        /\ \A a \in DOMAIN h.hdr : a # b => t.hdr[a] = h.hdr[a]
    BY <1>1, <1>3, <2>1, SetUsedIs
  <2>3. \A a \in S : /\ t.hdr[a].next = h.hdr[a].next
                     /\ t.hdr[a].data_size = h.hdr[a].data_size
                     /\ a # b => (t.hdr[a].isFree <=> h.hdr[a].isFree)
    BY <1>1, <2>2
  <2>4. Links(t, S)
    BY <1>1, <2>2, <2>3 DEF Links, SameFrame
  <2>5. Layout(t, S) /\ Chunk(t)
    BY <1>4, <2>2, <2>3 DEF Layout, Chunk, End, SameFrame
  <2>6. NoTwoFree(t, S)
    BY <1>4, <2>2, <2>3 DEF NoTwoFree
  <2>7. Sound(t, S) /\ t.giveback = h.giveback
    BY <1>1, <2>2, <2>4, <2>5, <2>6 DEF Sound, SameFrame
  <2>8. b \notin Used(h, S) /\ Used(t, S) = Used(h, S) \cup {b}
    BY <2>2, <2>3 DEF Used
  <2> QED
    BY <1>1, <2>2, <2>3, <2>7, <2>8 DEF Gained, Used
<1>6. CASE d - sz > 16
  <2>1. OFFSET + sz =< d /\ (d - (OFFSET + sz)) % 16 = 0 /\ d \in Nat
    BY <1>1, <1>2, <1>4, <1>6, Sixteens
  <2>2. s = split_hdrs(h, b, sz) /\ rest = b + OFFSET + sz
    BY <1>6 DEF open_spot
  <2>3. h.brk < WORD /\ End(h, b) =< h.brk /\ Base =< b /\ b \in DOMAIN h.hdr
    BY <1>1, <1>2, <2>1 DEF End
  <2> HIDE DEF s, rest
  <2>4. /\ s \in Heap /\ SameFrame(h, s) /\ DOMAIN s.hdr = DOMAIN h.hdr \cup {rest}
        /\ s.hdr[b].data_size = sz /\ (s.hdr[b].isFree <=> h.hdr[b].isFree)
        /\ s.hdr[b].next = rest
        /\ s.hdr[rest].data_size = d - (OFFSET + sz)
        /\ s.hdr[rest].isFree /\ s.hdr[rest].next = h.hdr[b].next
        /\ \A a \in DOMAIN h.hdr : a # b /\ a # rest => s.hdr[a] = h.hdr[a]
    BY <1>1, <2>1, <2>2, <2>3, SplitIs
  <2>5. b \in DOMAIN s.hdr
    BY <1>1, <2>4
  <2>6. /\ t \in Heap /\ SameFrame(s, t) /\ DOMAIN t.hdr = DOMAIN s.hdr
        /\ ~t.hdr[b].isFree /\ t.hdr[b].next = s.hdr[b].next
        /\ t.hdr[b].data_size = s.hdr[b].data_size
        /\ \A a \in DOMAIN s.hdr : a # b => t.hdr[a] = s.hdr[a]
    BY <1>3, <2>4, <2>5, SetUsedIs
  <2>7. /\ rest \in Nat /\ b < rest /\ rest < End(h, b) /\ End(h, b) \in Nat
        /\ rest # NULL /\ rest # b
    BY <1>1, <1>2, <2>1, <2>2 DEF End, NULL
  <2>8. \A a \in S : (a =< b \/ End(h, b) =< a) /\ a # rest
    BY <1>1, <1>4, <2>7 DEF Layout
  <2> DEFINE n == h.hdr[b].next
             T == S \cup {rest}
  <2>9. /\ t.hdr[b].data_size = sz /\ ~t.hdr[b].isFree /\ t.hdr[b].next = rest
        /\ t.hdr[rest].data_size = d - (OFFSET + sz)
        /\ t.hdr[rest].isFree /\ t.hdr[rest].next = n
        /\ \A a \in S : a # b => t.hdr[a] = h.hdr[a]
    BY <1>1, <2>4, <2>6, <2>7, <2>8
  <2>10. SameFrame(h, t) /\ IsFiniteSet(DOMAIN t.hdr) /\ T \subseteq DOMAIN t.hdr
    <3>1. IsFiniteSet(DOMAIN h.hdr \cup {rest})
      BY <1>1, FS_AddElement
    <3> QED
      BY <1>1, <2>4, <2>6, <3>1 DEF SameFrame
  <2> HIDE DEF n
  <2>11. \A a \in T : Follows(T, a, t.hdr[a].next)
    <3> TAKE a \in T
    <3>1. CASE a = b
      <4>1. \A c \in T : c =< b \/ rest =< c
        BY <1>1, <2>7, <2>8
      <4> QED
        BY <2>7, <2>9, <3>1, <4>1 DEF Follows
    <3>2. CASE a = rest
      <4>1. Follows(S, b, n)
        BY <1>1 DEF n
      <4>2. ASSUME n = NULL, \A c \in S : c =< b
            PROVE  \A c \in T : c =< rest
        BY <1>1, <2>7, <4>2
      <4>3. ASSUME n \in S, b < n, \A c \in S : c =< b \/ n =< c
            PROVE  n \in T /\ rest < n /\ \A c \in T : c =< rest \/ n =< c
        BY <1>1, <2>7, <2>8, <4>3
      <4> QED
        BY <2>9, <3>2, <4>1, <4>2, <4>3 DEF Follows
    <3>3. CASE a # b /\ a # rest
      <4> DEFINE m == h.hdr[a].next
      <4>1. a \in S /\ t.hdr[a].next = m /\ Follows(S, a, m)
        BY <1>1, <2>9, <3>3
      <4> HIDE DEF m
      <4>2. ASSUME m = NULL, \A c \in S : c =< a
            PROVE  \A c \in T : c =< a
        BY <1>1, <2>7, <2>8, <3>3, <4>1, <4>2
      <4>3. ASSUME m \in S, a < m, \A c \in S : c =< a \/ m =< c
            PROVE  m \in T /\ \A c \in T : c =< a \/ m =< c
        BY <1>1, <2>7, <2>8, <3>3, <4>1, <4>3
      <4> QED
        BY <4>1, <4>2, <4>3 DEF Follows
    <3> QED
      BY <3>1, <3>2, <3>3
  <2>12. Links(t, T)
    <3>1. t.start = h.start /\ S # {} /\ NULL \notin T
      BY <1>1, <2>7, <2>10 DEF SameFrame, Links
    <3>2. h.start \in T /\ \A c \in T : h.start =< c
      BY <1>1, <2>7, <3>1 DEF Links
    <3> QED
      BY <2>10, <2>11, <3>1, <3>2 DEF Links
  <2>13. Layout(t, T)
    <3>1. /\ End(t, b) = rest /\ End(t, rest) = End(h, b)
          /\ \A a \in S : a # b => End(t, a) = End(h, a)
      BY <1>1, <1>2, <2>1, <2>2, <2>9 DEF End
    <3>2. t.pstart = h.pstart /\ Base =< rest
      BY <1>1, <1>2, <2>7, <2>10 DEF SameFrame
    <3>3. \A a \in T : /\ Base =< a /\ t.hdr[a].data_size % 16 = 0
                       /\ End(t, a) =< t.pstart
      <4>1. Base =< b /\ t.hdr[b].data_size % 16 = 0 /\ End(t, b) =< t.pstart
        BY <1>1, <2>7, <2>9, <3>1, <3>2
      <4>2. Base =< rest /\ t.hdr[rest].data_size % 16 = 0 /\ End(t, rest) =< t.pstart
        BY <1>1, <2>1, <2>9, <3>1, <3>2
      <4>3. \A a \in S : a # b => /\ Base =< a /\ t.hdr[a].data_size % 16 = 0
                                  /\ End(t, a) =< t.pstart
        BY <1>4, <2>9, <3>1, <3>2 DEF Layout
      <4> QED
        BY <4>1, <4>2, <4>3
    <3>4. \A c \in T : b < c => End(t, b) =< c
      BY <1>1, <2>7, <2>8, <3>1
    <3>5. \A c \in T : rest < c => End(t, rest) =< c
      BY <1>1, <2>7, <2>8, <3>1
    <3>6. \A a \in S : a # b => \A c \in T : a < c => End(t, a) =< c
      <4> TAKE a \in S
      <4> HAVE a # b
      <4>1. \A c \in S : a < c => End(h, a) =< c
        BY <1>4 DEF Layout
      <4>2. ASSUME a < rest PROVE End(h, a) =< rest
        <5>1. a < b
          BY <1>1, <2>7, <2>8, <4>2
        <5>2. End(h, a) =< b /\ End(h, a) \in Nat
          BY <1>1, <1>2, <4>1, <5>1 DEF End
        <5> QED
          BY <1>1, <2>7, <5>2
      <4> QED
        BY <3>1, <4>1, <4>2
    <3> QED
      BY <3>3, <3>4, <3>5, <3>6 DEF Layout
  <2>14. NoTwoFree(t, T)
    <3> SUFFICES ASSUME NEW a \in T, NEW c \in T, t.hdr[a].next = c,
                        t.hdr[a].isFree, t.hdr[c].isFree
                 PROVE  FALSE
      BY DEF NoTwoFree
    <3>1. a # b /\ c # b
      BY <2>9
    <3>2. CASE a = rest
      <4>1. c = n /\ c # NULL
        BY <2>9, <2>12, <3>2 DEF Links
      <4>2. n \in S /\ b < n
        BY <1>1, <4>1 DEF Follows, n
      <4>3. ~h.hdr[n].isFree
        BY <1>4, <4>2 DEF NoTwoFree, n
      <4> QED
        BY <2>9, <3>1, <4>1, <4>2, <4>3
    <3>3. CASE a # rest
      <4>1. a \in S /\ t.hdr[a] = h.hdr[a]
        BY <2>9, <3>1, <3>3
      <4>2. c \in S
        BY <1>1, <2>7, <2>8, <4>1 DEF Follows
      <4> QED
        BY <1>4, <2>9, <3>1, <4>1, <4>2 DEF NoTwoFree
    <3> QED
      BY <3>2, <3>3
  <2>15. Sound(t, T) /\ t.giveback = h.giveback
    <3>1. Chunk(t) /\ ~t.fault /\ ~t.refused
      BY <1>1, <1>4, <2>10 DEF Chunk, SameFrame
    <3> QED
      BY <2>6, <2>10, <2>12, <2>13, <2>14, <3>1 DEF Sound, SameFrame
  <2>16. b \notin Used(h, S) /\ Used(t, T) = Used(h, S) \cup {b}
    BY <2>8, <2>9 DEF Used
  <2>17. \A a \in Used(h, S) : t.hdr[a].data_size = h.hdr[a].data_size
    BY <2>9, <2>16 DEF Used
  <2>18. sz =< t.hdr[b].data_size
    BY <2>9
  <2> HIDE DEF T
  <2> QED
    BY <2>15, <2>16, <2>17, <2>18 DEF Gained
<1> QED
  BY <1>5, <1>6

-----------------------------------------------------------------------------
(* malloc from the chunk *)

\* Sizes up to a chunk are rounded up to one chunk.
LEMMA RoundUpChunk ==
    ASSUME NEW n \in Nat, n < NEW_MEM_BLK
    PROVE  round_up_mult_of_num(n, NEW_MEM_BLK) = NEW_MEM_BLK
<1>1. NEW_MEM_BLK \in Nat /\ WORD \in Nat /\ NEW_MEM_BLK < WORD /\ NEW_MEM_BLK > 0
  BY MallocAssumption
<1>2. n % NEW_MEM_BLK = n
  BY <1>1
<1>3. (IF n % NEW_MEM_BLK = 0 /\ n # 0 THEN n ELSE n - (n % NEW_MEM_BLK) + NEW_MEM_BLK)
        = NEW_MEM_BLK
  BY <1>1, <1>2
<1>4. round_up_mult_of_num(n, NEW_MEM_BLK) = Wrap(NEW_MEM_BLK)
  BY <1>3 DEF round_up_mult_of_num
<1> QED
  BY <1>1, <1>4, WrapIs

\* Whether the system delivers a chunk is a matter of its memory only.
LEMMA DeliversIs ==
    ASSUME NEW h \in Heap, Base =< h.brk
    PROVE  Delivers(h, NEW_MEM_BLK) <=> h.brk + NEW_MEM_BLK =< MaxBrk
<1>1. /\ NEW_MEM_BLK \in Nat /\ WORD \in Nat /\ NEW_MEM_BLK < WORD \div 2
      /\ Base \in Nat /\ MaxBrk \in Nat /\ h.brk \in Nat
  BY MallocAssumption DEF Heap
<1>2. Signed(NEW_MEM_BLK) = NEW_MEM_BLK
  BY <1>1 DEF Signed
<1> QED
  BY <1>1, <1>2 DEF Delivers

\* update_pending reserves room for a header and n bytes in the chunk, after
\* extending it by one chunk when they do not fit, unless sbrk refuses.
LEMMA UpdateIs ==
    ASSUME NEW h \in Heap, Chunk(h), ~h.refused,
           NEW n \in Nat, n + OFFSET =< NEW_MEM_BLK,
           NEW u, u = update_pending(h, n), NEW new, new = NewSpot(h, n), ~Refuses(u)
    PROVE  /\ u \in Heap /\ u.hdr = h.hdr /\ u.start = h.start /\ u.brk =< MaxBrk
           /\ u.giveback = h.giveback /\ u.fault = h.fault /\ u.refused = h.refused
           /\ new \in Nat /\ Base =< new /\ h.pstart =< new
           /\ u.pstart = new + OFFSET + n /\ u.pstart =< u.pend /\ u.pend = u.brk
<1>1. /\ OFFSET \in Nat /\ OFFSET > 0 /\ NEW_MEM_BLK \in Nat /\ WORD \in Nat /\ MaxBrk \in Nat
      /\ NEW_MEM_BLK < WORD \div 2 /\ MaxBrk < WORD \div 2 /\ Base \in Nat /\ Base > 0
      /\ NEW_MEM_BLK + MaxBrk < WORD
  BY MallocAssumption
<1>2. /\ h.pstart \in Nat /\ h.pend \in Nat /\ h.brk \in Nat /\ h.brk =< MaxBrk
      /\ h.pstart =< h.pend /\ h.pend =< h.brk /\ h.pstart =< h.brk /\ Base =< h.brk
      /\ (h.pstart = NULL /\ h.pend = NULL) \/ (Base =< h.pstart /\ h.pend = h.brk)
  BY <1>1 DEF Chunk, Heap, NULL
<1>3. round_up_mult_of_num(n, NEW_MEM_BLK) = NEW_MEM_BLK
  BY <1>1, RoundUpChunk
<1>4. Pending(h) = h.pend - h.pstart
  <2>1. h.pend - h.pstart \in Nat /\ h.pend - h.pstart < WORD
    BY <1>1, <1>2
  <2> QED
    BY <2>1, WrapIs DEF Pending
<1>5. Wrap(n + OFFSET) = n + OFFSET
  <2>1. n + OFFSET \in Nat /\ n + OFFSET < WORD
    BY <1>1
  <2> QED
    BY <2>1, WrapIs
<1>6. NeedsChunk(h, n) <=> n + OFFSET >= h.pend - h.pstart
  BY <1>4, <1>5 DEF NeedsChunk
<1>a. DOMAIN h = {"hdr", "start", "pstart", "pend", "brk", "giveback", "fault", "refused"}
      /\ h.refused = FALSE
  BY DEF Heap
<1>7. CASE NeedsChunk(h, n)
  <2>a. Delivers(h, NEW_MEM_BLK)
    <3> SUFFICES ASSUME ~Delivers(h, NEW_MEM_BLK) PROVE Refuses(u)
      OBVIOUS
    <3> DEFINE refuses == h.refused \/ ~Delivers(h, NEW_MEM_BLK)
               got == sbrk(h, NEW_MEM_BLK)
               end == IF h.pstart = NULL /\ h.pend = NULL
                      THEN Wrap(got + NEW_MEM_BLK) ELSE Wrap(h.pend + NEW_MEM_BLK)
               rest == Wrap(got + n + OFFSET)
               brk == IF Delivers(h, NEW_MEM_BLK) THEN Wrap(h.brk + NEW_MEM_BLK) ELSE h.brk
    <3>1. u = [h EXCEPT !.brk = brk, !.refused = refuses, !.pend = end, !.pstart = rest]
      BY <1>3, <1>7 DEF update_pending
    <3>2. refuses = TRUE
      OBVIOUS
    <3> HIDE DEF refuses, got, end, rest, brk
    <3> QED
      BY <1>a, <3>1, <3>2 DEF Refuses
  <2>b. sbrk(h, NEW_MEM_BLK) = h.brk /\ h.brk + NEW_MEM_BLK =< MaxBrk
    BY <1>2, <2>a, DeliversIs DEF sbrk
  <2>1. /\ Wrap(h.brk + NEW_MEM_BLK) = h.brk + NEW_MEM_BLK
        /\ Wrap(h.pend + NEW_MEM_BLK) = h.pend + NEW_MEM_BLK
        /\ Wrap(h.brk + n + OFFSET) = h.brk + n + OFFSET
    <3>1. /\ h.brk + NEW_MEM_BLK \in Nat /\ h.brk + NEW_MEM_BLK < WORD
          /\ h.pend + NEW_MEM_BLK \in Nat /\ h.pend + NEW_MEM_BLK < WORD
          /\ h.brk + n + OFFSET \in Nat /\ h.brk + n + OFFSET < WORD
      BY <1>1, <1>2
    <3> QED
      BY <3>1, WrapIs
  <2> DEFINE e == IF h.pstart = NULL /\ h.pend = NULL
                  THEN Wrap(h.brk + NEW_MEM_BLK) ELSE Wrap(h.pend + NEW_MEM_BLK)
  <2>c. (h.refused \/ ~Delivers(h, NEW_MEM_BLK)) = FALSE
    BY <1>a, <2>a
  <2>2. u = [h EXCEPT !.brk = h.brk + NEW_MEM_BLK, !.refused = FALSE, !.pend = e,
                      !.pstart = h.brk + n + OFFSET]
    BY <1>3, <1>7, <2>a, <2>b, <2>c, <2>1 DEF update_pending
  <2>3. e = h.brk + NEW_MEM_BLK
    BY <1>1, <1>2, <2>1 DEF NULL
  <2> HIDE DEF e
  <2>4. h.brk + NEW_MEM_BLK \in Nat /\ h.brk + n + OFFSET \in Nat
    BY <1>1, <1>2
  <2>5. /\ u \in Heap /\ u.hdr = h.hdr /\ u.start = h.start
        /\ u.giveback = h.giveback /\ u.fault = h.fault /\ u.refused = h.refused
        /\ u.pstart = h.brk + n + OFFSET /\ u.pend = h.brk + NEW_MEM_BLK
        /\ u.brk = h.brk + NEW_MEM_BLK
    BY <1>a, <2>2, <2>3, <2>4 DEF Heap
  <2>6. new = h.brk
    BY <1>3, <1>7, <2>b DEF NewSpot
  <2> QED
    BY <1>1, <1>2, <2>b, <2>5, <2>6
<1>8. CASE ~NeedsChunk(h, n)
  <2>1. n + OFFSET < h.pend - h.pstart /\ Base =< h.pstart /\ h.pend = h.brk
    BY <1>1, <1>2, <1>6, <1>8 DEF NULL
  <2>2. Wrap(h.pstart + n + OFFSET) = h.pstart + n + OFFSET
    <3>1. h.pstart + n + OFFSET \in Nat /\ h.pstart + n + OFFSET < WORD
      BY <1>1, <1>2, <2>1
    <3> QED
      BY <3>1, WrapIs
  <2>3. u = [h EXCEPT !.pstart = h.pstart + n + OFFSET]
    BY <1>8, <2>2 DEF update_pending
  <2>4. h.pstart + n + OFFSET \in Nat
    BY <1>1, <1>2
  <2>5. /\ u \in Heap /\ u.hdr = h.hdr /\ u.start = h.start
        /\ u.giveback = h.giveback /\ u.fault = h.fault /\ u.refused = h.refused
        /\ u.pstart = h.pstart + n + OFFSET /\ u.pend = h.pend /\ u.brk = h.brk
    BY <2>3, <2>4 DEF Heap
  <2>6. new = h.pstart
    BY <1>8 DEF NewSpot
  <2> QED
    BY <1>1, <1>2, <2>1, <2>5, <2>6
<1> QED
  BY <1>7, <1>8

\* The last block of the list is the one whose link is empty.
LEMMA LastIs ==
    ASSUME NEW h \in Heap, IsFiniteSet(DOMAIN h.hdr), NEW S, Links(h, S),
           S \subseteq 0..MaxBrk, S # {}
    PROVE  /\ Last(Blocks(h)) \in S /\ h.hdr[Last(Blocks(h))].next = NULL
           /\ \A a \in S : a =< Last(Blocks(h))
<1> DEFINE l == Blocks(h)
<1>1. /\ Enumerates(l, S)
      /\ \A i \in 1..Len(l) :
            h.hdr[l[i]].next = IF i = Len(l) THEN NULL ELSE l[i + 1]
  BY BlocksAre, MallocAssumption
<1> HIDE DEF l
<1>2. /\ Len(l) \in Nat /\ \A i \in 1..Len(l) : l[i] \in S /\ l[i] \in Nat
      /\ \A i, j \in 1..Len(l) : i < j => l[i] < l[j]
      /\ \A a \in S : \E i \in 1..Len(l) : l[i] = a
  BY <1>1, LenProperties DEF Enumerates
<1>3. Len(l) \in 1..Len(l)
  <2>1. PICK a \in S : TRUE
    OBVIOUS
  <2>2. PICK i \in 1..Len(l) : l[i] = a
    BY <1>2, <2>1
  <2> QED
    BY <1>2, <2>2
<1>4. ASSUME NEW a \in S PROVE a =< l[Len(l)]
  <2>1. PICK i \in 1..Len(l) : l[i] = a
    BY <1>2
  <2>2. CASE i = Len(l)
    BY <1>2, <1>3, <2>1, <2>2
  <2>3. CASE i # Len(l)
    BY <1>2, <1>3, <2>1, <2>3
  <2> QED
    BY <2>2, <2>3
<1> QED
  BY <1>1, <1>2, <1>3, <1>4 DEF l, Last

\* A block that the list has no room for is taken from the chunk and linked
\* behind the last one.
LEMMA AppendKeeps ==
    ASSUME NEW h, NEW S, Sound(h, S),
           NEW sz \in Nat, sz % 16 = 0, sz + OFFSET =< NEW_MEM_BLK,
           NEW new, new = NewSpot(h, sz), NEW hd \in Header,
           hd.data_size = sz, ~hd.isFree, hd.next = NULL,
           NEW t, t = Store(append_new_blk(update_pending(h, sz), new), new, hd),
           ~Refuses(update_pending(h, sz))
    PROVE  \E T : Gained(h, S, t, T, new, sz)
<1> DEFINE u == update_pending(h, sz)
           v == append_new_blk(u, new)
           T == S \cup {new}
<1>1. /\ h \in Heap /\ IsFiniteSet(DOMAIN h.hdr) /\ ~h.fault /\ ~h.refused /\ Links(h, S)
      /\ h.pstart \in Nat /\ S \subseteq 0..MaxBrk /\ S \subseteq DOMAIN h.hdr
      /\ \A a \in S : /\ a \in Nat /\ Base =< a /\ h.hdr[a].data_size \in Nat
                      /\ h.hdr[a].isFree \in BOOLEAN /\ h.hdr[a].next \in Nat
                      /\ a < End(h, a) /\ End(h, a) =< h.pstart /\ End(h, a) \in Nat
                      /\ Follows(S, a, h.hdr[a].next)
  BY SoundFacts
<1>2. OFFSET \in Nat /\ OFFSET > 0 /\ Base \in Nat /\ Base > 0
  BY MallocAssumption
<1>3. Chunk(h) /\ Layout(h, S) /\ NoTwoFree(h, S)
  BY DEF Sound
<1>4. hd \in Header /\ hd.data_size = sz /\ ~hd.isFree /\ hd.next = NULL
  OBVIOUS
<1>5. /\ u \in Heap /\ u.hdr = h.hdr /\ u.start = h.start /\ u.brk =< MaxBrk
      /\ u.giveback = h.giveback /\ u.fault = h.fault /\ u.refused = h.refused
      /\ new \in Nat /\ Base =< new /\ h.pstart =< new
      /\ u.pstart = new + OFFSET + sz /\ u.pstart =< u.pend /\ u.pend = u.brk
  BY <1>1, <1>3, UpdateIs
<1>6. t = Store(v, new, hd)
  OBVIOUS
<1> HIDE DEF u
<1>7. Links(u, S) /\ u.pstart \in Nat /\ u.brk \in Nat
  BY <1>1, <1>5 DEF Links, Heap
<1>8. \A a \in S : a < new /\ End(h, a) =< new
  BY <1>1, <1>2, <1>5 DEF End
<1>9. /\ v \in Heap /\ DOMAIN v.hdr = DOMAIN h.hdr
      /\ v.pstart = u.pstart /\ v.pend = u.pend /\ v.brk = u.brk
      /\ v.giveback = u.giveback /\ v.fault = u.fault /\ v.refused = u.refused
      /\ \A a \in S : /\ v.hdr[a].data_size = h.hdr[a].data_size
                      /\ v.hdr[a].isFree <=> h.hdr[a].isFree
                      /\ v.hdr[a].next = IF h.hdr[a].next = NULL THEN new
                                         ELSE h.hdr[a].next
      /\ v.start = IF S = {} THEN new ELSE h.start
  <2>1. CASE S = {}
    <3>1. u.start = NULL
      BY <1>7, <2>1 DEF Links
    <3>2. v = [u EXCEPT !.start = new]
      BY <3>1 DEF append_new_blk
    <3> QED
      BY <1>5, <2>1, <3>2 DEF Heap
  <2>2. CASE S # {}
    <3> DEFINE last == Last(Blocks(u))
    <3>1. u.start # NULL
      BY <1>7, <2>2 DEF Links
    <3>2. v = Linked(u, last, new)
      BY <3>1 DEF append_new_blk, Linked
    <3>3. /\ last \in S /\ u.hdr[last].next = NULL /\ \A a \in S : a =< last
      BY <1>1, <1>5, <1>7, <2>2, LastIs
    <3> HIDE DEF last
    <3>4. last \in DOMAIN u.hdr
      BY <1>1, <1>5, <3>3
    <3>5. /\ v \in Heap /\ SameFrame(u, v) /\ DOMAIN v.hdr = DOMAIN u.hdr
          /\ v.hdr[last].isFree = u.hdr[last].isFree /\ v.hdr[last].next = new
          /\ v.hdr[last].data_size = u.hdr[last].data_size
          /\ \A b \in DOMAIN u.hdr : b # last => v.hdr[b] = u.hdr[b]
      BY <1>5, <3>2, <3>4, SetNextIs
    <3>6. \A a \in S : a # last => h.hdr[a].next # NULL
      BY <1>1, <3>3 DEF Follows, Links
    <3> QED
      BY <1>1, <1>5, <2>2, <3>3, <3>5, <3>6 DEF SameFrame
  <2> QED
    BY <2>1, <2>2
<1> HIDE DEF v
<1>10. /\ t \in Heap /\ SameFrame(v, t)
       /\ DOMAIN t.hdr = DOMAIN v.hdr \cup {new} /\ t.hdr[new] = hd
       /\ \A a \in DOMAIN v.hdr : a # new => t.hdr[a] = v.hdr[a]
  <2>1. ~v.fault /\ ~v.refused
    BY <1>1, <1>5, <1>9
  <2>2. new + OFFSET =< v.brk
    BY <1>2, <1>5, <1>7, <1>9
  <2> QED
    BY <1>4, <1>5, <1>6, <1>9, <2>1, <2>2, StoreInside
<1>11. /\ t.hdr[new].data_size = sz /\ ~t.hdr[new].isFree /\ t.hdr[new].next = NULL
       /\ \A a \in S : /\ t.hdr[a].data_size = h.hdr[a].data_size
                       /\ t.hdr[a].isFree <=> h.hdr[a].isFree
                       /\ t.hdr[a].next = IF h.hdr[a].next = NULL THEN new
                                          ELSE h.hdr[a].next
  BY <1>1, <1>4, <1>8, <1>9, <1>10
<1>12. /\ t.start = (IF S = {} THEN new ELSE h.start) /\ t.giveback = h.giveback
       /\ t.pstart = new + OFFSET + sz /\ t.pstart =< t.pend /\ t.pend = t.brk
       /\ t.brk =< MaxBrk /\ ~t.fault /\ ~t.refused
  BY <1>1, <1>5, <1>9, <1>10 DEF SameFrame
<1>13. IsFiniteSet(DOMAIN t.hdr) /\ T \subseteq DOMAIN t.hdr
  <2>1. IsFiniteSet(DOMAIN h.hdr \cup {new})
    BY <1>1, FS_AddElement
  <2> QED
    BY <1>1, <1>9, <1>10, <2>1
<1>14. Links(t, T)
  <2>1. \A a \in T : Follows(T, a, t.hdr[a].next)
    <3> TAKE a \in T
    <3>1. CASE a = new
      BY <1>1, <1>5, <1>8, <1>11, <3>1 DEF Follows
    <3>2. CASE a # new
      <4> DEFINE n == h.hdr[a].next
      <4>1. a \in S /\ Follows(S, a, n) /\ n \in Nat
        BY <1>1, <3>2
      <4>2. t.hdr[a].next = IF n = NULL THEN new ELSE n
        BY <1>11, <4>1
      <4> HIDE DEF n
      <4>3. CASE n = NULL
        <5>1. \A b \in S : b =< a
          BY <1>1, <4>1, <4>3 DEF Follows, Links
        <5> QED
          BY <1>1, <1>8, <4>1, <4>2, <4>3, <5>1 DEF Follows
      <4>4. CASE n # NULL
        <5>1. n \in S /\ a < n /\ \A b \in S : b =< a \/ n =< b
          BY <4>1, <4>4 DEF Follows
        <5>2. n =< new
          BY <1>1, <1>5, <1>8, <5>1
        <5> QED
          BY <4>2, <4>4, <5>1, <5>2 DEF Follows
      <4> QED
        BY <4>3, <4>4
    <3> QED
      BY <3>1, <3>2
  <2>2. NULL \notin T
    BY <1>1, <1>2, <1>5 DEF Links, NULL
  <2>3. t.start \in T /\ \A b \in T : t.start =< b
    <3>1. CASE S = {}
      BY <1>5, <1>12, <3>1
    <3>2. CASE S # {}
      <4>1. h.start \in S /\ \A b \in S : h.start =< b
        BY <1>1, <3>2 DEF Links
      <4>2. t.start = h.start
        BY <1>12, <3>2
      <4>a. h.start < new /\ h.start \in Nat /\ new \in Nat
        BY <1>1, <1>5, <1>8, <4>1, Zenon
      <4>3. h.start =< new
        BY <4>a
      <4> QED
        BY <4>1, <4>2, <4>3
    <3> QED
      BY <3>1, <3>2
  <2> QED
    BY <1>13, <2>1, <2>2, <2>3 DEF Links
<1>15. Chunk(t)
  BY <1>2, <1>5, <1>12 DEF Chunk
<1>16. Layout(t, T)
  <2>1. /\ End(t, new) = t.pstart
        /\ \A a \in S : End(t, a) = End(h, a)
    BY <1>5, <1>11, <1>12 DEF End
  <2>2. t.pstart \in Nat /\ new =< t.pstart
    BY <1>2, <1>5, <1>12
  <2>3. \A a \in S : End(h, a) \in Nat
    BY <1>1, <1>2 DEF End
  <2>4. \A a \in S : /\ Base =< a /\ t.hdr[a].data_size % 16 = 0
                     /\ End(t, a) =< t.pstart
    BY <1>3, <1>5, <1>8, <1>11, <2>1, <2>2, <2>3 DEF Layout
  <2>5. Base =< new /\ t.hdr[new].data_size % 16 = 0 /\ End(t, new) =< t.pstart
    BY <1>5, <1>11, <2>1, <2>2
  <2>6. \A a \in S : \A b \in T : a < b => End(t, a) =< b
    BY <1>3, <1>8, <2>1 DEF Layout
  <2>7. \A b \in T : ~(new < b)
    BY <1>1, <1>5, <1>8
  <2> QED
    BY <2>4, <2>5, <2>6, <2>7 DEF Layout
<1>17. NoTwoFree(t, T)
  <2> SUFFICES ASSUME NEW a \in T, NEW b \in T, t.hdr[a].next = b,
                      t.hdr[a].isFree, t.hdr[b].isFree
               PROVE  FALSE
    BY DEF NoTwoFree
  <2>1. a \in S /\ b \in S
    BY <1>11
  <2>2. h.hdr[a].next = b
    BY <1>8, <1>11, <2>1
  <2> QED
    BY <1>3, <1>11, <2>1, <2>2 DEF NoTwoFree
<1>18. Sound(t, T)
  BY <1>10, <1>12, <1>13, <1>14, <1>15, <1>16, <1>17 DEF Sound
<1>19. new \notin Used(h, S) /\ Used(t, T) = Used(h, S) \cup {new}
  <2>1. new \notin S
    BY <1>1, <1>5, <1>8
  <2>2. \A a \in S : t.hdr[a].isFree <=> h.hdr[a].isFree
    BY <1>11
  <2>3. ~t.hdr[new].isFree
    BY <1>11
  <2> QED
    BY <2>1, <2>2, <2>3, Zenon DEF Used
<1> HIDE DEF T
<1>20. \A a \in Used(h, S) : t.hdr[a].data_size = h.hdr[a].data_size
  BY <1>11 DEF Used
<1> QED
  BY <1>11, <1>12, <1>18, <1>19, <1>20 DEF Gained

-----------------------------------------------------------------------------
(* malloc *)

\* The client's sizes are multiples of 16 already; 0 becomes 16.
LEMMA RoundUp16 ==
    ASSUME FittingClient, NEW n \in Nat, n % 16 = 0, n + OFFSET =< NEW_MEM_BLK,
           NEW sz, sz = round_up_mult_of_num(n, 16)
    PROVE  /\ sz = IF n = 0 THEN 16 ELSE n
           /\ sz \in Nat /\ sz % 16 = 0 /\ n =< sz /\ sz + OFFSET =< NEW_MEM_BLK
<1>1. /\ OFFSET \in Nat /\ NEW_MEM_BLK \in Nat /\ WORD \in Nat /\ NEW_MEM_BLK < WORD
      /\ OFFSET + 16 =< NEW_MEM_BLK
  BY MallocAssumption DEF FittingClient
<1> DEFINE e == IF n % 16 = 0 /\ n # 0 THEN n ELSE n - (n % 16) + 16
<1>2. e = IF n = 0 THEN 16 ELSE n
  OBVIOUS
<1>3. sz = Wrap(e)
  BY DEF round_up_mult_of_num
<1> HIDE DEF e
<1>4. e \in Nat /\ e < WORD
  BY <1>1, <1>2
<1>5. sz = e
  BY <1>3, <1>4, WrapIs
<1>6. 16 % 16 = 0
  OBVIOUS
<1> QED
  BY <1>1, <1>2, <1>5, <1>6

\* The comparison with what is left, as a signed number, compares the sizes.
LEMMA SignedIs ==
    ASSUME NEW d \in Nat, d =< MaxBrk, NEW sz \in Nat, sz < NEW_MEM_BLK,
           Signed(Wrap(d - sz)) > 0
    PROVE  sz < d
<1>1. /\ WORD \in Nat /\ MaxBrk \in Nat /\ NEW_MEM_BLK \in Nat
      /\ NEW_MEM_BLK < WORD \div 2 /\ MaxBrk < WORD \div 2
      /\ WORD \div 2 \in Nat /\ (WORD \div 2) + (WORD \div 2) =< WORD
  BY MallocAssumption
<1> DEFINE half == WORD \div 2
<1> SUFFICES ASSUME d =< sz PROVE FALSE
  OBVIOUS
<1>2. CASE d = sz
  <2>1. d - sz = 0 /\ 0 \in Nat /\ 0 < WORD
    BY <1>1, <1>2
  <2>2. Wrap(d - sz) = 0
    BY <2>1, WrapIs
  <2>3. Signed(Wrap(d - sz)) = 0
    BY <1>1, <2>2 DEF Signed
  <2> QED
    BY <2>3
<1>3. CASE d < sz
  <2>1. (d - sz) % WORD = d - sz + WORD
    <3> DEFINE k == sz - d
    <3>1. k \in Nat /\ 0 < k /\ k < WORD /\ d - sz = -k
      BY <1>1, <1>3
    <3>2. (-k) % WORD = WORD - k
      BY <1>1, <3>1
    <3> QED
      BY <1>1, <3>1, <3>2
  <2>2. d - sz + WORD >= half
    BY <1>1
  <2>3. Signed(Wrap(d - sz)) = d - sz
    BY <1>1, <2>1, <2>2 DEF Signed, Wrap
  <2> QED
    BY <1>3, <2>3
<1> QED
  BY <1>2, <1>3

\* The block that malloc finds in the list is free and larger than it needs.
LEMMA OpenBlockIs ==
    ASSUME NEW h, NEW S, Sound(h, S), NEW sz \in Nat, sz < NEW_MEM_BLK,
           OpenBlock(h, sz) # NULL
    PROVE  /\ OpenBlock(h, sz) \in S /\ h.hdr[OpenBlock(h, sz)].isFree
           /\ sz < h.hdr[OpenBlock(h, sz)].data_size
<1> DEFINE l == Blocks(h)
           open == {i \in DOMAIN l : /\ h.hdr[l[i]].isFree
                                     /\ Signed(Wrap(h.hdr[l[i]].data_size - sz)) > 0}
<1>1. /\ h \in Heap /\ IsFiniteSet(DOMAIN h.hdr) /\ Links(h, S) /\ S \subseteq 0..MaxBrk
      /\ h.pstart \in Nat /\ h.pstart =< h.brk /\ h.brk =< MaxBrk /\ h.brk \in Nat
      /\ \A a \in S : /\ a \in Nat /\ h.hdr[a].data_size \in Nat
                      /\ End(h, a) =< h.pstart
  BY SoundFacts
<1>2. Enumerates(l, S)
  BY <1>1, BlocksAre, MallocAssumption
<1>3. OpenBlock(h, sz) = IF open = {} THEN NULL ELSE l[Min(open)]
  BY DEF OpenBlock
<1> HIDE DEF l
<1>4. DOMAIN l = 1..Len(l) /\ Len(l) \in Nat /\ \A i \in 1..Len(l) : l[i] \in S
  BY <1>2, LenProperties DEF Enumerates
<1>5. open # {} /\ open \subseteq Nat
  BY <1>3, <1>4
<1>6. \A i \in open : /\ l[i] \in S /\ h.hdr[l[i]].isFree
                      /\ Signed(Wrap(h.hdr[l[i]].data_size - sz)) > 0
  BY <1>4
<1> HIDE DEF open
<1>7. Min(open) \in open
  <2>1. PICK m \in open : \A k \in open : ~(<<k, m>> \in OpToRel(<, Nat))
    BY <1>5, NatLessThanWellFounded, WFMin
  <2>a. m \in Nat /\ \A k \in open : k \in Nat /\ ~(k < m)
    BY <1>5, <2>1 DEF OpToRel
  <2>2. \A k \in open : m =< k
    BY <2>a
  <2> QED
    BY <2>2 DEF Min
<1> DEFINE b == l[Min(open)]
<1>8. /\ b \in S /\ h.hdr[b].isFree /\ Signed(Wrap(h.hdr[b].data_size - sz)) > 0
  BY <1>6, <1>7
<1>9. OpenBlock(h, sz) = b
  BY <1>3, <1>5
<1> HIDE DEF b
<1>10. h.hdr[b].data_size =< MaxBrk
  BY <1>1, <1>8, MallocAssumption DEF End
<1>11. sz < h.hdr[b].data_size
  BY <1>1, <1>8, <1>10, SignedIs
<1> QED
  BY <1>8, <1>9, <1>11

\* What malloc and realloc do to the list keeps a refusal in the heap.
LEMMA StoreRefuses ==
    ASSUME NEW u, NEW blk, NEW hd, Refuses(u)
    PROVE  Refuses(Store(append_new_blk(u, blk), blk, hd))
<1> DEFINE v == append_new_blk(u, blk)
           g == [a \in DOMAIN v.hdr \cup {blk} |-> IF a = blk THEN hd ELSE v.hdr[a]]
           bad == v.fault \/ blk < Base \/ blk + OFFSET > v.brk
<1>1. Refuses(v)
  <2>1. CASE u.start = NULL
    BY <2>1 DEF Refuses, append_new_blk
  <2>2. CASE u.start # NULL
    <3> DEFINE hdr == [u.hdr EXCEPT ![Last(Blocks(u))].next = blk]
    <3>1. v = [u EXCEPT !.hdr = hdr]
      BY <2>2 DEF append_new_blk
    <3> HIDE DEF hdr
    <3> QED
      BY <3>1 DEF Refuses
  <2> QED
    BY <2>1, <2>2
<1>2. Store(v, blk, hd) = [v EXCEPT !.hdr = g, !.fault = bad]
  BY DEF Store
<1> HIDE DEF v, g, bad
<1>3. Refuses([v EXCEPT !.hdr = g, !.fault = bad])
  BY <1>1 DEF Refuses
<1> QED
  BY <1>2, <1>3, Zenon DEF v

\* malloc gives a block that nothing else uses, unless sbrk refuses.
LEMMA MallocKeeps ==
    ASSUME FittingClient, NEW h, NEW S, Sound(h, S),
           NEW n \in Nat, n % 16 = 0, n + OFFSET =< NEW_MEM_BLK,
           NEW r, r = Malloc(h, n), ~Refuses(r.h)
    PROVE  \E T : Gained(h, S, r.h, T, r.blk, n)
<1> DEFINE sz == round_up_mult_of_num(n, 16)
           open == OpenBlock(h, sz)
           new == NewSpot(h, sz)
<1>1. /\ sz \in Nat /\ sz % 16 = 0 /\ n =< sz /\ sz + OFFSET =< NEW_MEM_BLK
  BY RoundUp16
<1>2. OFFSET \in {16, 32} /\ OFFSET \in Nat /\ OFFSET > 0 /\ NEW_MEM_BLK \in Nat
  BY MallocAssumption DEF FittingClient
<1>3. r = IF open # NULL
          THEN [h |-> set_blk(open_spot(h, open, sz), open, sz, FALSE), blk |-> open]
          ELSE [h |-> set_blk(update_pending(h, sz), new, sz, TRUE), blk |-> new]
  BY DEF Malloc
<1>a. \A x, y : [h |-> x, blk |-> y].h = x /\ [h |-> x, blk |-> y].blk = y
  OBVIOUS
<1>4. CASE open # NULL
  <2>0. r = [h |-> set_blk(open_spot(h, open, sz), open, sz, FALSE), blk |-> open]
    BY <1>3, <1>4, Zenon
  <2>1. r.blk = open
    BY <1>a, <2>0, Zenon
  <2>2. r.h = set_blk(open_spot(h, open, sz), open, sz, FALSE)
    BY <1>a, <2>0, Zenon
  <2>3. r.h = MarkUsed(open_spot(h, open, sz), open)
    BY <2>2, Zenon DEF set_blk, MarkUsed
  <2> HIDE DEF sz
  <2>4. sz < NEW_MEM_BLK
    BY <1>1, <1>2
  <2>5. open \in S /\ h.hdr[open].isFree /\ sz < h.hdr[open].data_size
    BY <1>1, <1>4, <2>4, OpenBlockIs
  <2> HIDE DEF open
  <2>6. PICK T : Gained(h, S, r.h, T, open, sz)
    BY <1>1, <1>2, <2>3, <2>5, TakeKeeps
  <2>7. open \in T
    BY <2>6 DEF Gained, Used
  <2>8. r.h.hdr[open].data_size \in Nat
    BY <2>6, <2>7, SoundFacts DEF Gained
  <2>9. n =< r.h.hdr[open].data_size
    BY <1>1, <2>6, <2>8 DEF Gained
  <2> QED
    BY <2>1, <2>6, <2>9 DEF Gained
<1>5. CASE open = NULL
  <2> DEFINE hd == [data_size |-> sz, isFree |-> FALSE, next |-> NULL]
  <2>0. r = [h |-> set_blk(update_pending(h, sz), new, sz, TRUE), blk |-> new]
    BY <1>3, <1>5, Zenon
  <2>1. r.blk = new
    BY <1>a, <2>0, Zenon
  <2>2. r.h = set_blk(update_pending(h, sz), new, sz, TRUE)
    BY <1>a, <2>0, Zenon
  <2>3. r.h = Store(append_new_blk(update_pending(h, sz), new), new, hd)
    BY <2>2, Zenon DEF set_blk
  <2> HIDE DEF sz
  <2>4. hd \in Header /\ hd.data_size = sz /\ ~hd.isFree /\ hd.next = NULL
    BY <1>1 DEF Header, NULL
  <2> HIDE DEF hd, new
  <2>5. new = NewSpot(h, sz)
    BY DEF new
  <2>a. ~Refuses(update_pending(h, sz))
    BY <2>3, StoreRefuses, Zenon
  <2>6. PICK T : Gained(h, S, r.h, T, new, sz)
    BY <1>1, <2>a, <2>3, <2>4, <2>5, AppendKeeps
  <2>7. new \in T
    BY <2>6 DEF Gained, Used
  <2>8. r.h.hdr[new].data_size \in Nat
    BY <2>6, <2>7, SoundFacts DEF Gained
  <2>9. n =< r.h.hdr[new].data_size
    BY <1>1, <2>6, <2>8 DEF Gained
  <2> QED
    BY <2>1, <2>6, <2>9 DEF Gained
<1> QED
  BY <1>4, <1>5

-----------------------------------------------------------------------------
(* realloc of the last block *)

\* The last block grows into the chunk, with room for one more header.
LEMMA GrowKeeps ==
    ASSUME NEW h, NEW S, Sound(h, S), NEW blk \in S, h.hdr[blk].next = NULL,
           NEW n \in Nat, n % 16 = 0, n >= h.hdr[blk].data_size, n + OFFSET =< NEW_MEM_BLK,
           NEW u, u = update_pending(h, Wrap(n - h.hdr[blk].data_size)),
           ~Refuses(u), NEW t, t = Resized(u, blk, n)
    PROVE  /\ Sound(t, S) /\ t.giveback = h.giveback /\ Used(t, S) = Used(h, S)
           /\ t.hdr[blk].data_size = n
           /\ \A a \in S : a # blk => t.hdr[a].data_size = h.hdr[a].data_size
<1> DEFINE d == h.hdr[blk].data_size
           new == NewSpot(h, n - d)
<1>1. /\ h \in Heap /\ IsFiniteSet(DOMAIN h.hdr) /\ ~h.fault /\ ~h.refused /\ Links(h, S)
      /\ h.pstart \in Nat /\ S \subseteq DOMAIN h.hdr
      /\ \A a \in S : /\ a \in Nat /\ Base =< a /\ h.hdr[a].data_size \in Nat
                      /\ h.hdr[a].isFree \in BOOLEAN /\ h.hdr[a].next \in Nat
                      /\ a < End(h, a) /\ End(h, a) =< h.pstart /\ End(h, a) \in Nat
                      /\ Follows(S, a, h.hdr[a].next)
  BY SoundFacts
<1>2. /\ OFFSET \in Nat /\ OFFSET > 0 /\ Base \in Nat /\ Base > 0 /\ NEW_MEM_BLK \in Nat
      /\ WORD \in Nat /\ NEW_MEM_BLK < WORD
  BY MallocAssumption
<1>3. Chunk(h) /\ Layout(h, S) /\ NoTwoFree(h, S)
  BY DEF Sound
<1>4. n - d \in Nat /\ n - d + OFFSET =< NEW_MEM_BLK /\ n - d < WORD
  BY <1>1, <1>2
<1>5. u = update_pending(h, n - d)
  BY <1>4, WrapIs
<1>6. /\ u \in Heap /\ u.hdr = h.hdr /\ u.start = h.start /\ u.brk =< MaxBrk
      /\ u.giveback = h.giveback /\ u.fault = h.fault /\ u.refused = h.refused
      /\ new \in Nat /\ Base =< new /\ h.pstart =< new
      /\ u.pstart = new + OFFSET + (n - d) /\ u.pstart =< u.pend /\ u.pend = u.brk
  BY <1>1, <1>3, <1>4, <1>5, UpdateIs
<1> HIDE DEF new
<1>7. blk \in DOMAIN u.hdr
  BY <1>1, <1>6
<1>8. /\ t \in Heap /\ SameFrame(u, t) /\ DOMAIN t.hdr = DOMAIN u.hdr
      /\ t.hdr[blk].isFree = u.hdr[blk].isFree /\ t.hdr[blk].next = u.hdr[blk].next
      /\ t.hdr[blk].data_size = n
      /\ \A b \in DOMAIN u.hdr : b # blk => t.hdr[b] = u.hdr[b]
  <2>1. t = Resized(u, blk, n) /\ n \in Nat
    OBVIOUS
  <2>2. u \in Heap
    BY <1>6
  <2>3. SizeSet(u, blk, n, t)
    BY <1>7, <2>1, <2>2, SizeSetIs
  <2> QED
    BY <2>3 DEF SizeSet
<1>9. /\ \A a \in S : /\ t.hdr[a].next = h.hdr[a].next
                      /\ t.hdr[a].isFree <=> h.hdr[a].isFree
                      /\ a # blk => t.hdr[a].data_size = h.hdr[a].data_size
      /\ t.hdr[blk].data_size = n
  BY <1>1, <1>6, <1>8
<1>10. /\ t.start = h.start /\ t.giveback = h.giveback /\ ~t.fault /\ ~t.refused
       /\ t.pstart = new + OFFSET + (n - d) /\ t.pstart =< t.pend /\ t.pend = t.brk
       /\ t.brk =< MaxBrk /\ DOMAIN t.hdr = DOMAIN h.hdr
  BY <1>1, <1>6, <1>8 DEF SameFrame
<1>11. Links(t, S)
  BY <1>1, <1>9, <1>10 DEF Links
<1>12. Chunk(t)
  BY <1>2, <1>4, <1>6, <1>10 DEF Chunk
<1>13. Layout(t, S)
  <2>1. End(t, blk) = End(h, blk) + (n - d) /\ \A a \in S : a # blk => End(t, a) = End(h, a)
    BY <1>1, <1>2, <1>9 DEF End
  <2>a. /\ End(h, blk) \in Nat /\ End(h, blk) =< new /\ new \in Nat
        /\ n - d \in Nat /\ t.pstart = new + OFFSET + (n - d)
    BY <1>1, <1>4, <1>6, <1>10
  <2>b. End(t, blk) = End(h, blk) + (n - d)
    BY <2>1
  <2> DEFINE more == n - d
  <2>2. End(t, blk) =< t.pstart
    <3>1. /\ more \in Nat /\ t.pstart = new + OFFSET + more
          /\ End(t, blk) = End(h, blk) + more
      BY <2>a, <2>b
    <3> HIDE DEF more
    <3> QED
      BY <1>2, <2>a, <3>1
  <2>3. h.pstart =< t.pstart /\ t.pstart \in Nat
    BY <1>1, <1>2, <1>4, <1>6, <1>10
  <2>4. \A a \in S : a # blk => End(t, a) =< t.pstart
    BY <1>1, <2>1, <2>3
  <2>5. \A b \in S : ~(blk < b)
    BY <1>1 DEF Follows, Links
  <2>6. \A a \in S : Base =< a /\ t.hdr[a].data_size % 16 = 0
    BY <1>3, <1>9 DEF Layout
  <2>7. \A a, b \in S : a < b => End(t, a) =< b
    BY <1>3, <2>1, <2>5 DEF Layout
  <2> QED
    BY <2>2, <2>4, <2>6, <2>7 DEF Layout
<1>14. NoTwoFree(t, S)
  BY <1>3, <1>9 DEF NoTwoFree
<1>15. Sound(t, S)
  BY <1>1, <1>8, <1>10, <1>11, <1>12, <1>13, <1>14 DEF Sound
<1>16. Used(t, S) = Used(h, S)
  BY <1>9 DEF Used
<1> QED
  BY <1>9, <1>10, <1>15, <1>16

-----------------------------------------------------------------------------
(* free *)

GivenBack(h, blk, t, T) ==
    /\ t \in Heap /\ t.fault = h.fault /\ t.refused = h.refused /\ t.giveback = h.giveback
    /\ DOMAIN t.hdr = DOMAIN h.hdr /\ Links(t, T) /\ Chunk(t) /\ t.pstart = blk
    /\ \A a \in T : /\ t.hdr[a].data_size = h.hdr[a].data_size
                    /\ t.hdr[a].isFree <=> h.hdr[a].isFree
                    /\ t.hdr[a].next \in {NULL, h.hdr[a].next}

\* giveBackToOS cuts the list before blk and the break back to blk.
LEMMA GiveBackIs ==
    ASSUME NEW h \in Heap, IsFiniteSet(DOMAIN h.hdr), NEW S, Links(h, S),
           S \subseteq 0..MaxBrk, NEW blk \in S, Base =< blk,
           blk =< h.pend, h.pend = h.brk, h.brk =< MaxBrk,
           NEW t, t = giveBackToOS(h, blk)
    PROVE  GivenBack(h, blk, t, {a \in S : a < blk})
<1> DEFINE T == {a \in S : a < blk}
<1> DEFINE prev == CHOOSE b \in ToSet(Blocks(h)) : h.hdr[b].next = blk
           cut == [h EXCEPT !.brk = Wrap(@ - Wrap(h.pend - blk)),
                            !.pstart = blk, !.pend = blk]
<1>1. /\ WORD \in Nat /\ MaxBrk \in Nat /\ MaxBrk < WORD /\ Base \in Nat
      /\ h.brk \in Nat /\ h.pend \in Nat
  BY MallocAssumption DEF Heap
<1>2. /\ S \subseteq Nat /\ S \subseteq DOMAIN h.hdr /\ blk \in Nat /\ blk =< MaxBrk
      /\ \A a \in S : Follows(S, a, h.hdr[a].next)
  BY <1>1 DEF Links
<1>3. ToSet(Blocks(h)) = S /\ Enumerates(Blocks(h), S)
  BY <1>1, BlocksAre
<1>4. inHeap(h, blk)
  BY <1>3 DEF inHeap, Contains, Enumerates
<1>5. Wrap(h.brk - Wrap(h.pend - blk)) = blk
  <2>1. h.pend - blk \in Nat /\ h.pend - blk < WORD
    BY <1>1, <1>2
  <2>2. h.brk - (h.pend - blk) = blk /\ blk < WORD
    BY <1>1, <1>2
  <2> QED
    BY <1>2, <2>1, <2>2, WrapIs
<1>6. /\ cut \in Heap /\ cut.hdr = h.hdr /\ cut.start = h.start /\ cut.brk = blk
      /\ cut.pstart = blk /\ cut.pend = blk
      /\ cut.giveback = h.giveback /\ cut.fault = h.fault /\ cut.refused = h.refused
  BY <1>2, <1>5 DEF Heap
<1>7. t = IF blk = h.start THEN [cut EXCEPT !.start = NULL]
          ELSE [cut EXCEPT !.hdr[prev].next = NULL]
  BY <1>4 DEF giveBackToOS
<1> HIDE DEF cut
<1>8. CASE blk = h.start
  <2>1. T = {}
    BY <1>2, <1>8 DEF Links
  <2>2. /\ t \in Heap /\ t.hdr = h.hdr /\ t.start = NULL /\ t.brk = blk
        /\ t.pstart = blk /\ t.pend = blk
        /\ t.giveback = h.giveback /\ t.fault = h.fault /\ t.refused = h.refused
    BY <1>6, <1>7, <1>8 DEF Heap, NULL
  <2>3. Links(t, T)
    BY <2>1, <2>2 DEF Links
  <2>4. Chunk(t)
    BY <1>1, <1>2, <2>2 DEF Chunk
  <2> QED
    BY <2>1, <2>2, <2>3, <2>4 DEF GivenBack
<1>9. CASE blk # h.start
  <2>1. h.start \in S /\ h.start < blk
    BY <1>2, <1>9 DEF Links
  <2>2. \E b \in S : h.hdr[b].next = blk
    <3> DEFINE U == {a \in S : a < blk}
    <3>1. PICK l \in Seq(Nat) : Enumerates(l, S)
      BY <1>3 DEF Enumerates
    <3>2. /\ Len(l) \in Nat
          /\ \A i \in 1..Len(l) : h.hdr[l[i]].next = IF i = Len(l) THEN NULL ELSE l[i + 1]
      BY <3>1, LinksInOrder, LenProperties
    <3>3. PICK i \in 1..Len(l) : l[i] = blk
      BY <3>1 DEF Enumerates
    <3>4. h.start = IF l = <<>> THEN NULL ELSE l[1]
      BY <3>1, LinksInOrder
    <3>5. l # <<>>
      BY <3>1, <3>3, EmptySeq
    <3>6. i # 1
      BY <1>9, <3>3, <3>4, <3>5
    <3>7. i - 1 \in 1..Len(l) /\ i - 1 # Len(l) /\ (i - 1) + 1 = i
      BY <3>2, <3>6
    <3>8. h.hdr[l[i - 1]].next = blk /\ l[i - 1] \in S
      BY <3>1, <3>2, <3>3, <3>7 DEF Enumerates
    <3> QED
      BY <3>8
  <2>3. prev \in S /\ h.hdr[prev].next = blk
    BY <1>3, <2>2
  <2> HIDE DEF prev
  <2>4. prev \in DOMAIN cut.hdr /\ NULL \in Nat
    BY <1>2, <1>6, <2>3 DEF NULL
  <2>5. t = Linked(cut, prev, NULL)
    BY <1>7, <1>9 DEF Linked
  <2>6. /\ t \in Heap /\ SameFrame(cut, t) /\ DOMAIN t.hdr = DOMAIN cut.hdr
        /\ t.hdr[prev].isFree = cut.hdr[prev].isFree /\ t.hdr[prev].next = NULL
        /\ t.hdr[prev].data_size = cut.hdr[prev].data_size
        /\ \A b \in DOMAIN cut.hdr : b # prev => t.hdr[b] = cut.hdr[b]
    BY <1>6, <2>4, <2>5, SetNextIs
  <2>7. /\ DOMAIN t.hdr = DOMAIN h.hdr /\ t.start = h.start /\ t.brk = blk
        /\ t.pstart = blk /\ t.pend = blk
        /\ t.giveback = h.giveback /\ t.fault = h.fault /\ t.refused = h.refused
    BY <1>6, <2>6 DEF SameFrame
  <2>8. /\ t.hdr[prev].next = NULL
        /\ \A a \in S : /\ t.hdr[a].data_size = h.hdr[a].data_size
                        /\ t.hdr[a].isFree <=> h.hdr[a].isFree
                        /\ a # prev => t.hdr[a].next = h.hdr[a].next
    BY <1>2, <1>6, <2>3, <2>6
  <2>9. \A a \in T : Follows(T, a, t.hdr[a].next)
    <3> TAKE a \in T
    <3>1. prev \in Nat /\ prev < blk /\ \A b \in S : b =< prev \/ blk =< b
      BY <1>2, <2>3 DEF Follows, Links
    <3>2. CASE a = prev
      <4>1. \A b \in T : b =< a
        BY <1>2, <3>1, <3>2
      <4> QED
        BY <2>8, <3>2, <4>1 DEF Follows
    <3>3. CASE a # prev
      <4> DEFINE n == h.hdr[a].next
      <4>1. a \in S /\ a < blk /\ t.hdr[a].next = n /\ Follows(S, a, n)
        BY <1>2, <2>8, <3>3
      <4> HIDE DEF n
      <4>a. a \in Nat /\ (a =< prev \/ blk =< a)
        BY <1>2, <3>1, <4>1
      <4>2. a < prev
        BY <1>2, <3>1, <3>3, <4>1, <4>a
      <4>3. n \in S /\ a < n /\ n =< prev
        BY <2>3, <3>1, <4>1, <4>a, <4>2 DEF Follows
      <4>4. n \in T
        BY <1>2, <3>1, <4>3
      <4>5. \A b \in T : b =< a \/ n =< b
        BY <1>2, <4>1, <4>3 DEF Follows
      <4> QED
        BY <4>1, <4>3, <4>4, <4>5 DEF Follows
    <3> QED
      BY <3>2, <3>3
  <2>10. Links(t, T)
    <3>1. T # {} /\ h.start \in T /\ \A b \in T : h.start =< b
      BY <2>1 DEF Links
    <3>2. T \subseteq DOMAIN t.hdr /\ NULL \notin T
      BY <1>2, <2>7 DEF Links
    <3> QED
      BY <2>7, <2>9, <3>1, <3>2 DEF Links
  <2>11. Chunk(t)
    BY <1>1, <1>2, <2>7 DEF Chunk
  <2>12. \A a \in T : t.hdr[a].next \in {NULL, h.hdr[a].next}
    BY <2>8
  <2> QED
    BY <2>6, <2>7, <2>8, <2>10, <2>11, <2>12 DEF GivenBack
<1> QED
  BY <1>8, <1>9

Unmerged(h) == [h |-> h, gave |-> FALSE]

MergesAt(h, l, n, k, R) ==
    \A i \in 2..n : /\ i < k => Merge(Unmerged(h), l[i - 1], l[i]) = Unmerged(h)
                    /\ i = k => Merge(Unmerged(h), l[i - 1], l[i]) = R
                    /\ i > k => Merge(R, l[i - 1], l[i]) = R

\* A pass that comes upon one pair of free neighbours at most merges that pair.
LEMMA MergePassIs ==
    ASSUME NEW h, NEW l, NEW n \in Nat, n >= 1, n = Len(l), NEW k \in 2..n + 1, NEW R,
           MergesAt(h, l, n, k, R)
    PROVE  MergePass(h, l)[n] = IF k =< n THEN R ELSE Unmerged(h)
<1> DEFINE w == [i \in 1..n |-> IF i < k THEN Unmerged(h) ELSE R]
           F(m) == [i \in 1..n |-> IF i = 1 THEN Unmerged(h)
                                   ELSE Merge(m[i - 1], l[i - 1], l[i])]
<1>1. ASSUME NEW i \in 1..n
      PROVE  w[i] = IF i = 1 THEN Unmerged(h) ELSE Merge(w[i - 1], l[i - 1], l[i])
  <2>1. CASE i = 1
    BY <2>1
  <2>2. CASE i # 1
    <3>1. i \in 2..n /\ i - 1 \in 1..n
      BY <2>2
    <3>a. /\ i < k => Merge(Unmerged(h), l[i - 1], l[i]) = Unmerged(h)
          /\ i = k => Merge(Unmerged(h), l[i - 1], l[i]) = R
          /\ i > k => Merge(R, l[i - 1], l[i]) = R
      BY <3>1 DEF MergesAt
    <3>2. CASE i < k
      <4>1. i - 1 < k
        BY <3>1, <3>2
      <4>2. w[i] = Unmerged(h) /\ w[i - 1] = Unmerged(h)
        BY <3>1, <3>2, <4>1
      <4> HIDE DEF w
      <4> QED
        BY <2>2, <3>a, <3>2, <4>2
    <3>3. CASE i = k
      <4>1. i - 1 < k /\ ~(i < k)
        BY <3>1, <3>3
      <4>2. w[i] = R /\ w[i - 1] = Unmerged(h)
        BY <3>1, <3>3, <4>1
      <4> HIDE DEF w
      <4> QED
        BY <2>2, <3>a, <3>3, <4>2
    <3>4. CASE i > k
      <4>1. ~(i - 1 < k) /\ ~(i < k)
        BY <3>1, <3>4
      <4>2. w[i] = R /\ w[i - 1] = R
        BY <3>1, <4>1
      <4> HIDE DEF w
      <4> QED
        BY <2>2, <3>a, <3>4, <4>2
    <3> QED
      BY <3>1, <3>2, <3>3, <3>4
  <2> QED
    BY <2>1, <2>2
<1>2. w = F(w)
  BY <1>1
<1>3. w[n] = IF k =< n THEN R ELSE Unmerged(h)
  OBVIOUS
<1> HIDE DEF w
<1> DEFINE at == MergePass(h, l)
<1>4. at = F(at)
  BY <1>2 DEF MergePass, Unmerged
<1>5. \A i \in 1..n : at[i] = IF i = 1 THEN Unmerged(h)
                              ELSE Merge(at[i - 1], l[i - 1], l[i])
  BY <1>4
<1> HIDE DEF at
<1> DEFINE Off == {i \in Nat : i \in 1..n /\ at[i] # w[i]}
<1>6. Off = {}
  <2> SUFFICES ASSUME Off # {} PROVE FALSE
    OBVIOUS
  <2>1. PICK m \in Off : \A i \in Off : ~(<<i, m>> \in OpToRel(<, Nat))
    BY NatLessThanWellFounded, WFMin, Off \subseteq Nat
  <2>2. m \in 1..n /\ at[m] # w[m] /\ \A i \in Off : ~(i < m)
    BY <2>1 DEF OpToRel
  <2>3. m # 1
    BY <1>1, <1>5, <2>2
  <2>4. m - 1 \in 1..n /\ m - 1 \in Nat /\ m - 1 < m
    BY <2>2, <2>3
  <2>5. at[m - 1] = w[m - 1]
    BY <2>2, <2>4
  <2> QED
    BY <1>1, <1>5, <2>2, <2>3, <2>5
<1>7. at[n] = w[n]
  BY <1>6
<1> QED
  BY <1>3, <1>7 DEF at

\* What one step of the pass does to the blocks p and c.
Grown(h, p, c) == Resized(h, p, Wrap(h.hdr[p].data_size + h.hdr[c].data_size + OFFSET))

Absorbed(h, p, c) == Linked(Linked(Grown(h, p, c), p, h.hdr[c].next), c, NULL)

Giving(h, p, c) ==
    /\ isEndList(h, c) /\ h.giveback
    /\ isEnoughToGiveUp(h, Grown(h, p, c).hdr[p].data_size)

\* Nothing, unless both are free;
LEMMA MergeNot ==
    ASSUME NEW p, NEW c, NEW m, m.gave \/ ~m.h.hdr[p].isFree \/ ~m.h.hdr[c].isFree
    PROVE  Merge(m, p, c) = m
BY Zenon DEF Merge

\* otherwise the two become one, which goes back to the system when it is the
\* last and large enough.
LEMMA MergeTwo ==
    ASSUME NEW h, NEW p, NEW c, h.hdr[p].isFree, h.hdr[c].isFree
    PROVE  Merge(Unmerged(h), p, c) =
                    IF Giving(h, p, c)
                    THEN [h |-> giveBackToOS(Grown(h, p, c), p), gave |-> TRUE]
                    ELSE [h |-> Absorbed(h, p, c), gave |-> FALSE]
<1>1. Unmerged(h).h = h /\ ~Unmerged(h).gave
  BY DEF Unmerged
<1>2. Grown(h, p, c) =
            [h EXCEPT !.hdr[p].data_size = Wrap(@ + h.hdr[c].data_size + OFFSET)]
  BY DEF Grown, Resized
<1>3. Absorbed(h, p, c) =
            [Grown(h, p, c) EXCEPT !.hdr[p].next = h.hdr[c].next, !.hdr[c].next = NULL]
  BY DEF Absorbed, Linked
<1> QED
  BY <1>1, <1>2, <1>3, Zenon DEF Merge, Giving

\* What free promises: block b is no longer in use, and no other block in use
\* is touched.
Lost(h, S, t, T, b) ==
    /\ Sound(t, T) /\ t.giveback = h.giveback
    /\ Used(t, T) = Used(h, S) \ {b}
    /\ \A a \in Used(t, T) : t.hdr[a].data_size = h.hdr[a].data_size

\* The tail of the list may go back to the system when no block of it is in
\* use, whatever became of the sizes in it.
LEMMA GiveKeeps ==
    ASSUME NEW h, NEW S, Sound(h, S), NEW b \in S, NEW cut \in S,
           \A a \in S : a >= cut => a = b \/ h.hdr[a].isFree,
           cut =< b,
           NEW x \in Heap, SameFrame(h, x), DOMAIN x.hdr = DOMAIN h.hdr,
           \A a \in S : /\ x.hdr[a].next = h.hdr[a].next
                        /\ a < cut => x.hdr[a] = h.hdr[a],
           NEW t, t = giveBackToOS(x, cut)
    PROVE  \E T : Lost(h, S, t, T, b)
<1> DEFINE T == {a \in S : a < cut}
<1>1. /\ h \in Heap /\ IsFiniteSet(DOMAIN h.hdr) /\ ~h.fault /\ ~h.refused /\ Links(h, S)
      /\ h.pstart \in Nat /\ S \subseteq DOMAIN h.hdr /\ S \subseteq 0..MaxBrk
      /\ \A a \in S : /\ a \in Nat /\ Base =< a /\ h.hdr[a].data_size \in Nat
                      /\ h.hdr[a].isFree \in BOOLEAN /\ h.hdr[a].next \in Nat
                      /\ a < End(h, a) /\ End(h, a) =< h.pstart /\ End(h, a) \in Nat
                      /\ Follows(S, a, h.hdr[a].next)
  BY SoundFacts
<1>2. OFFSET \in Nat /\ OFFSET > 0 /\ Base \in Nat /\ Base > 0
  BY MallocAssumption
<1>3. Chunk(h) /\ Layout(h, S) /\ NoTwoFree(h, S)
  BY DEF Sound
<1>4. cut =< h.pend /\ h.pend = h.brk /\ h.brk =< MaxBrk /\ Base =< cut
  BY <1>1, <1>2, <1>3 DEF Chunk, NULL, Heap
<1>5. Links(x, S)
  BY <1>1 DEF Links, SameFrame
<1>6. /\ x.pend = h.pend /\ x.brk = h.brk /\ x.giveback = h.giveback /\ x.fault = h.fault /\ x.refused = h.refused
      /\ cut =< x.pend /\ x.pend = x.brk /\ x.brk =< MaxBrk /\ IsFiniteSet(DOMAIN x.hdr)
  BY <1>1, <1>4 DEF SameFrame
<1> HIDE DEF T
<1>7. /\ t \in Heap /\ t.fault = x.fault /\ t.refused = x.refused /\ t.giveback = x.giveback
      /\ DOMAIN t.hdr = DOMAIN x.hdr /\ Links(t, T) /\ Chunk(t) /\ t.pstart = cut
      /\ \A a \in T : /\ t.hdr[a].data_size = x.hdr[a].data_size
                      /\ t.hdr[a].isFree <=> x.hdr[a].isFree
                      /\ t.hdr[a].next \in {NULL, x.hdr[a].next}
  <2>1. x \in Heap /\ Base =< cut /\ S \subseteq 0..MaxBrk /\ t = giveBackToOS(x, cut)
    BY <1>1, <1>4
  <2>2. GivenBack(x, cut, t, T)
    BY <1>5, <1>6, <2>1, GiveBackIs DEF T
  <2> QED
    BY <2>2 DEF GivenBack
<1>8. \A a \in T : /\ a \in S /\ a < cut /\ t.hdr[a].data_size = h.hdr[a].data_size
                   /\ t.hdr[a].isFree <=> h.hdr[a].isFree
                   /\ t.hdr[a].next \in {NULL, h.hdr[a].next}
  BY <1>7 DEF T
<1>9. Layout(t, T)
  <2>1. \A a \in T : End(t, a) = End(h, a)
    BY <1>8 DEF End
  <2> QED
    BY <1>3, <1>7, <1>8, <2>1 DEF Layout
<1>10. NoTwoFree(t, T)
  <2> SUFFICES ASSUME NEW a \in T, NEW c \in T, t.hdr[a].next = c,
                      t.hdr[a].isFree, t.hdr[c].isFree
               PROVE  FALSE
    BY DEF NoTwoFree
  <2>1. c # NULL
    BY <1>7 DEF Links
  <2>2. h.hdr[a].next = c
    BY <1>8, <2>1
  <2> QED
    BY <1>3, <1>8, <2>2 DEF NoTwoFree
<1>11. Sound(t, T)
  BY <1>1, <1>6, <1>7, <1>9, <1>10 DEF Sound
<1>12. Used(t, T) = Used(h, S) \ {b}
  <2>1. \A a \in S : a \in T <=> a < cut
    BY DEF T
  <2>2. b \notin T
    BY <1>1, <2>1
  <2>3. \A a \in S : a \notin T => a = b \/ h.hdr[a].isFree
    BY <1>1, <2>1
  <2> QED
    BY <1>8, <2>2, <2>3, Zenon DEF Used
<1>13. \A a \in Used(t, T) : t.hdr[a].data_size = h.hdr[a].data_size
  BY <1>8 DEF Used
<1>14. t.giveback = h.giveback
  BY <1>6, <1>7
<1> QED
  BY <1>11, <1>12, <1>13, <1>14 DEF Lost

\* A block that is marked free has no free neighbour: nothing is merged.
LEMMA AloneKeeps ==
    ASSUME NEW h, NEW S, Sound(h, S), NEW b \in S,
           NEW g, g = MarkFree(h, b),
           \A q \in S : h.hdr[q].next = b => ~h.hdr[q].isFree,
           h.hdr[b].next \in S => ~h.hdr[h.hdr[b].next].isFree
    PROVE  Lost(h, S, g, S, b)
<1>1. /\ h \in Heap /\ IsFiniteSet(DOMAIN h.hdr) /\ ~h.fault /\ ~h.refused /\ Links(h, S)
      /\ S \subseteq DOMAIN h.hdr
  BY SoundFacts
<1>2. Chunk(h) /\ Layout(h, S) /\ NoTwoFree(h, S)
  BY DEF Sound
<1>3. /\ g \in Heap /\ SameFrame(h, g) /\ DOMAIN g.hdr = DOMAIN h.hdr
      /\ g.hdr[b].isFree /\ g.hdr[b].next = h.hdr[b].next
      /\ g.hdr[b].data_size = h.hdr[b].data_size
      /\ \A a \in DOMAIN h.hdr : a # b => g.hdr[a] = h.hdr[a]
  BY <1>1, SetFreedIs
<1>4. \A a \in S : /\ g.hdr[a].next = h.hdr[a].next
                   /\ g.hdr[a].data_size = h.hdr[a].data_size
                   /\ a # b => (g.hdr[a].isFree <=> h.hdr[a].isFree)
  BY <1>1, <1>3
<1>5. Links(g, S)
  BY <1>1, <1>3, <1>4 DEF Links, SameFrame
<1>6. Layout(g, S) /\ Chunk(g)
  BY <1>2, <1>3, <1>4 DEF Layout, Chunk, End, SameFrame
<1>7. NoTwoFree(g, S)
  <2> SUFFICES ASSUME NEW a \in S, NEW c \in S, g.hdr[a].next = c,
                      g.hdr[a].isFree, g.hdr[c].isFree
               PROVE  FALSE
    BY DEF NoTwoFree
  <2>1. h.hdr[a].next = c
    BY <1>4
  <2>2. a # c
    BY <1>1, <2>1, HeaderAt DEF Links, Follows
  <2> QED
    BY <1>2, <1>4, <2>1, <2>2 DEF NoTwoFree
<1>8. Sound(g, S) /\ g.giveback = h.giveback
  BY <1>1, <1>3, <1>5, <1>6, <1>7 DEF Sound, SameFrame
<1>9. Used(g, S) = Used(h, S) \ {b}
  BY <1>3, <1>4, Zenon DEF Used
<1> QED
  BY <1>4, <1>8, <1>9 DEF Lost, Used

\* A block is marked free and merged with its neighbour: the first of the two,
\* p, absorbs the second, c.
LEMMA AbsorbKeeps ==
    ASSUME OFFSET \in {16, 32}, NEW h, NEW S, Sound(h, S),
           NEW b \in S, NEW p \in S, NEW c \in S,
           b \in {p, c}, h.hdr[p].next = c,
           h.hdr[p].isFree \/ p = b, h.hdr[c].isFree \/ c = b,
           \A q \in S : h.hdr[q].next = p => ~h.hdr[q].isFree,
           h.hdr[c].next \in S => ~h.hdr[h.hdr[c].next].isFree,
           NEW g, g = MarkFree(h, b), NEW t, t = Absorbed(g, p, c)
    PROVE  /\ \E T : Lost(h, S, t, T, b)
           /\ t.pstart = h.pstart /\ t.pend = h.pend /\ t.giveback = h.giveback
           /\ t.hdr[p].next = h.hdr[c].next
           /\ t.hdr[p].data_size = Grown(g, p, c).hdr[p].data_size
           /\ t.hdr[c].data_size = h.hdr[c].data_size
           /\ h.hdr[c].data_size =< t.hdr[p].data_size /\ t.hdr[p].data_size \in Nat
           /\ \A a \in S : t.hdr[a].isFree <=> g.hdr[a].isFree
<1> DEFINE u == Grown(g, p, c)
           v == Linked(u, p, g.hdr[c].next)
           T == S \ {c}
           dp == h.hdr[p].data_size
           dc == h.hdr[c].data_size
           n == h.hdr[c].next
<1>1. /\ h \in Heap /\ IsFiniteSet(DOMAIN h.hdr) /\ ~h.fault /\ ~h.refused /\ Links(h, S)
      /\ h.pstart \in Nat /\ h.pstart =< MaxBrk /\ S \subseteq DOMAIN h.hdr
      /\ S \subseteq 0..MaxBrk
      /\ \A a \in S : /\ a \in Nat /\ Base =< a /\ h.hdr[a].data_size \in Nat
                      /\ h.hdr[a].isFree \in BOOLEAN /\ h.hdr[a].next \in Nat
                      /\ a < End(h, a) /\ End(h, a) =< h.pstart /\ End(h, a) \in Nat
                      /\ Follows(S, a, h.hdr[a].next)
  <2>1. h.pstart =< h.brk /\ h.brk =< MaxBrk /\ h.brk \in Nat /\ h.pstart \in Nat
    BY SoundFacts
  <2>2. h.pstart =< MaxBrk
    BY <2>1, MallocAssumption
  <2> QED
    BY <2>2, SoundFacts
<1>2. /\ OFFSET \in Nat /\ OFFSET > 0 /\ OFFSET % 16 = 0 /\ Base \in Nat /\ Base > 0
      /\ MaxBrk \in Nat /\ WORD \in Nat /\ MaxBrk < WORD
  BY MallocAssumption
<1>3. Chunk(h) /\ Layout(h, S) /\ NoTwoFree(h, S)
  BY DEF Sound
<1>4. /\ g \in Heap /\ SameFrame(h, g) /\ DOMAIN g.hdr = DOMAIN h.hdr
      /\ g.hdr[b].isFree /\ g.hdr[b].next = h.hdr[b].next
      /\ g.hdr[b].data_size = h.hdr[b].data_size
      /\ \A a \in DOMAIN h.hdr : a # b => g.hdr[a] = h.hdr[a]
  BY <1>1, SetFreedIs
<1>5. \A a \in S : /\ g.hdr[a].next = h.hdr[a].next
                   /\ g.hdr[a].data_size = h.hdr[a].data_size
                   /\ g.hdr[a].isFree <=> (h.hdr[a].isFree \/ a = b)
  BY <1>1, <1>4
<1>6. /\ dp \in Nat /\ dc \in Nat /\ n \in Nat /\ p \in Nat /\ c \in Nat
      /\ p < c /\ End(h, p) =< c /\ p # c
      /\ End(h, p) = p + OFFSET + dp /\ End(h, c) = c + OFFSET + dc
      /\ End(h, c) =< MaxBrk /\ End(h, p) \in Nat /\ End(h, c) \in Nat
  <2>1. p < c
    BY <1>1 DEF Follows, Links
  <2>2. End(h, p) =< c
    BY <1>3, <2>1 DEF Layout
  <2>3. End(h, c) =< MaxBrk
    BY <1>1, <1>2
  <2> QED
    BY <1>1, <2>1, <2>2, <2>3 DEF End
<1> HIDE DEF dp, dc, n
<1>7. p + OFFSET + (dp + dc + OFFSET) =< End(h, c) /\ dp + dc + OFFSET \in Nat
      /\ dp + dc + OFFSET < WORD
  BY <1>2, <1>6
<1>8. u = Resized(g, p, dp + dc + OFFSET)
  <2>1. g.hdr[p].data_size = dp /\ g.hdr[c].data_size = dc
    BY <1>5 DEF dp, dc
  <2> QED
    BY <1>7, <2>1, WrapIs DEF Grown
<1>9. v = Linked(u, p, n) /\ t = Linked(v, c, NULL)
  BY <1>5 DEF Absorbed, n
<1> HIDE DEF u, v
<1>10. /\ u \in Heap /\ SameFrame(g, u) /\ DOMAIN u.hdr = DOMAIN g.hdr
       /\ u.hdr[p].isFree = g.hdr[p].isFree /\ u.hdr[p].next = g.hdr[p].next
       /\ u.hdr[p].data_size = dp + dc + OFFSET
       /\ \A a \in DOMAIN g.hdr : a # p => u.hdr[a] = g.hdr[a]
  <2>1. p \in DOMAIN g.hdr
    BY <1>1, <1>4
  <2> QED
    BY <1>4, <1>7, <1>8, <2>1, SetSizeIs
<1>11. /\ v \in Heap /\ SameFrame(u, v) /\ DOMAIN v.hdr = DOMAIN u.hdr
       /\ v.hdr[p].isFree = u.hdr[p].isFree /\ v.hdr[p].next = n
       /\ v.hdr[p].data_size = u.hdr[p].data_size
       /\ \A a \in DOMAIN u.hdr : a # p => v.hdr[a] = u.hdr[a]
  <2>1. p \in DOMAIN u.hdr
    BY <1>1, <1>4, <1>10
  <2> QED
    BY <1>6, <1>9, <1>10, <2>1, SetNextIs
<1>12. /\ t \in Heap /\ SameFrame(v, t) /\ DOMAIN t.hdr = DOMAIN v.hdr
       /\ t.hdr[c].isFree = v.hdr[c].isFree /\ t.hdr[c].next = NULL
       /\ t.hdr[c].data_size = v.hdr[c].data_size
       /\ \A a \in DOMAIN v.hdr : a # c => t.hdr[a] = v.hdr[a]
  <2>1. c \in DOMAIN v.hdr /\ NULL \in Nat
    BY <1>1, <1>4, <1>10, <1>11 DEF NULL
  <2> QED
    BY <1>9, <1>11, <2>1, SetNextIs
<1>13. /\ SameFrame(h, t) /\ DOMAIN t.hdr = DOMAIN h.hdr /\ IsFiniteSet(DOMAIN t.hdr)
       /\ t.pstart = h.pstart /\ t.pend = h.pend /\ t.giveback = h.giveback
  BY <1>1, <1>4, <1>10, <1>11, <1>12 DEF SameFrame
<1>14. /\ t.hdr[p].next = n /\ t.hdr[p].data_size = dp + dc + OFFSET
       /\ t.hdr[p].isFree
  <2>1. p \in DOMAIN v.hdr /\ g.hdr[p].isFree
    BY <1>1, <1>4, <1>5, <1>10, <1>11
  <2>2. t.hdr[p] = v.hdr[p]
    BY <1>6, <1>12, <2>1
  <2>3. v.hdr[p].isFree
    BY <1>10, <1>11, <2>1, Zenon
  <2> QED
    BY <1>10, <1>11, <2>2, <2>3
<1>15. \A a \in S \ {p, c} : t.hdr[a] = g.hdr[a]
  <2> TAKE a \in S \ {p, c}
  <2>1. a \in DOMAIN g.hdr /\ a \in DOMAIN u.hdr /\ a \in DOMAIN v.hdr
    BY <1>1, <1>4, <1>10, <1>11
  <2> QED
    BY <1>10, <1>11, <1>12, <2>1
<1>16. \A a \in S \ {p, c} : /\ t.hdr[a].next = h.hdr[a].next
                             /\ t.hdr[a].data_size = h.hdr[a].data_size
                             /\ t.hdr[a].isFree <=> h.hdr[a].isFree
  BY <1>5, <1>15
<1>17. t.hdr[c].data_size = dc
  <2>1. c \in DOMAIN g.hdr /\ c \in DOMAIN u.hdr
    BY <1>1, <1>4, <1>10
  <2>2. v.hdr[c] = g.hdr[c]
    BY <1>6, <1>10, <1>11, <2>1
  <2> QED
    BY <1>5, <1>12, <2>2 DEF dc
<1>18. Follows(S, p, c) /\ Follows(S, c, n)
  BY <1>1 DEF n
<1>19. \A b1 \in S : b1 =< p \/ b1 = c \/ c < b1
  BY <1>1, <1>6, <1>18 DEF Follows, Links
<1>20. \A a \in T : Follows(T, a, t.hdr[a].next)
  <2> TAKE a \in T
  <2>1. CASE a = p
    <3>1. CASE n = NULL
      <4>1. \A b1 \in T : b1 =< p
        BY <1>1, <1>6, <1>18, <1>19, <3>1 DEF Follows, Links
      <4> QED
        BY <1>14, <2>1, <3>1, <4>1 DEF Follows
    <3>2. CASE n # NULL
      <4>1. n \in S /\ c < n /\ \A b1 \in S : b1 =< c \/ n =< b1
        BY <1>18, <3>2 DEF Follows
      <4>2. n \in T /\ p < n
        BY <1>6, <4>1
      <4>3. \A b1 \in T : b1 =< p \/ n =< b1
        BY <1>1, <1>6, <1>19, <4>1
      <4> QED
        BY <1>14, <2>1, <4>2, <4>3 DEF Follows
    <3> QED
      BY <3>1, <3>2
  <2>2. CASE a # p
    <3> DEFINE k == h.hdr[a].next
    <3>1. a \in S /\ t.hdr[a].next = k /\ Follows(S, a, k) /\ a \in Nat
      BY <1>1, <1>16, <2>2
    <3>2. k # c
      <4> SUFFICES ASSUME k = c PROVE FALSE
        OBVIOUS
      <4>1. a < c /\ \A b1 \in S : b1 =< a \/ c =< b1
        BY <1>1, <1>6, <3>1 DEF Follows, Links
      <4>2. p =< a
        BY <1>6, <4>1
      <4>3. a =< p
        BY <1>6, <1>19, <3>1, <4>1
      <4> QED
        BY <1>6, <2>2, <3>1, <4>2, <4>3
    <3> HIDE DEF k
    <3>3. k \in S => k \in T
      BY <3>2
    <3> QED
      BY <3>1, <3>3 DEF Follows
  <2> QED
    BY <2>1, <2>2
<1>21. Links(t, T)
  <2>1. h.start \in S /\ \A a \in S : h.start =< a
    BY <1>1 DEF Links
  <2>2. h.start # c
    BY <1>6, <2>1
  <2>3. t.start = h.start /\ T \subseteq DOMAIN t.hdr /\ NULL \notin T /\ T # {}
    BY <1>1, <1>13, <2>1, <2>2 DEF SameFrame, Links
  <2> QED
    BY <1>20, <2>1, <2>2, <2>3 DEF Links
<1>22. Layout(t, T)
  <2>1. End(t, p) =< End(h, c) /\ \A a \in T : a # p => End(t, a) = End(h, a)
    BY <1>7, <1>14, <1>16 DEF End
  <2>2. End(t, p) \in Nat
    BY <1>2, <1>6, <1>7, <1>14 DEF End
  <2>3. t.pstart = h.pstart
    BY <1>13
  <2>4. dp % 16 = 0 /\ dc % 16 = 0
    BY <1>3 DEF Layout, dp, dc
  <2> QED
    <3>1. Base =< p /\ End(t, p) =< t.pstart
      BY <1>1, <1>6, <2>1, <2>2, <2>3
    <3>2. \A a \in T : a # p => /\ Base =< a /\ t.hdr[a].data_size % 16 = 0
                                /\ End(t, a) =< t.pstart
      BY <1>3, <1>16, <2>1, <2>3 DEF Layout
    <3>3. \A a \in T : p < a => End(t, p) =< a
      <4> TAKE a \in T
      <4> HAVE p < a
      <4>1. a \in S /\ c < a
        BY <1>1, <1>6, <1>19
      <4>2. End(h, c) =< a
        BY <1>3, <4>1 DEF Layout
      <4> QED
        BY <1>1, <1>6, <2>1, <2>2, <4>1, <4>2
    <3>4. \A a \in T : a # p => \A b1 \in T : a < b1 => End(t, a) =< b1
      BY <1>3, <2>1 DEF Layout
    <3>5. (dp + dc + OFFSET) % 16 = 0
      <4>1. (dp + dc) % 16 = 0 /\ dp + dc \in Nat
        BY <1>6, <2>4, Sixteens
      <4> QED
        BY <1>2, <4>1, Sixteens
    <3> QED
      BY <1>14, <3>1, <3>2, <3>3, <3>4, <3>5 DEF Layout
<1>23. NoTwoFree(t, T)
  <2> SUFFICES ASSUME NEW a \in T, NEW d \in T, t.hdr[a].next = d,
                      t.hdr[a].isFree, t.hdr[d].isFree
               PROVE  FALSE
    BY DEF NoTwoFree
  <2>1. a \in S /\ d \in S /\ a # c /\ d # c
    OBVIOUS
  <2>2. CASE a = p
    <3>1. d = n /\ d # p
      BY <1>1, <1>6, <1>14, <1>18, <2>1, <2>2 DEF Follows, Links
    <3> QED
      BY <1>16, <2>1, <3>1 DEF n
  <2>3. CASE a # p /\ d = p
    BY <1>16, <2>1, <2>3
  <2>4. CASE a # p /\ d # p
    BY <1>3, <1>16, <2>1, <2>4 DEF NoTwoFree
  <2> QED
    BY <2>2, <2>3, <2>4
<1>24. Sound(t, T)
  <2>1. Chunk(t) /\ ~t.fault /\ ~t.refused
    BY <1>1, <1>3, <1>13 DEF Chunk, SameFrame
  <2> QED
    BY <1>12, <1>13, <1>21, <1>22, <1>23, <2>1 DEF Sound
<1>25. Used(t, T) = Used(h, S) \ {b}
  <2>1. \A a \in S : a # p /\ a # c => (t.hdr[a].isFree <=> h.hdr[a].isFree)
    BY <1>16
  <2> QED
    BY <1>14, <2>1, Zenon DEF Used
<1>26. \A a \in Used(t, T) : t.hdr[a].data_size = h.hdr[a].data_size
  BY <1>14, <1>16 DEF Used
<1> HIDE DEF T
<1>27. \E T1 : Lost(h, S, t, T1, b)
  BY <1>13, <1>24, <1>25, <1>26 DEF Lost
<1>28. /\ t.hdr[p].data_size = u.hdr[p].data_size
       /\ dc =< t.hdr[p].data_size /\ t.hdr[p].data_size \in Nat
  BY <1>2, <1>6, <1>10, <1>14
<1>29. \A a \in S : t.hdr[a].isFree <=> g.hdr[a].isFree
  <2>1. c \in DOMAIN g.hdr /\ c \in DOMAIN u.hdr
    BY <1>1, <1>4, <1>10
  <2>2. v.hdr[c] = g.hdr[c]
    BY <1>6, <1>10, <1>11, <2>1
  <2>3. t.hdr[c].isFree <=> g.hdr[c].isFree
    BY <1>12, <2>2, Zenon
  <2>4. t.hdr[p].isFree <=> g.hdr[p].isFree
    BY <1>5, <1>14
  <2> QED
    BY <1>15, <2>3, <2>4
<1> QED
  BY <1>13, <1>14, <1>17, <1>27, <1>28, <1>29 DEF u, dc, n

OnePair(g, S, p, c) ==
    /\ p \in S /\ c \in S /\ g.hdr[p].next = c /\ g.hdr[p].isFree /\ g.hdr[c].isFree
    /\ \A a, d \in S : a # p /\ g.hdr[a].next = d => ~(g.hdr[a].isFree /\ g.hdr[d].isFree)

FlagsKept(g, S, R) == R.gave \/ \A a \in S : R.h.hdr[a].isFree <=> g.hdr[a].isFree

\* What the pass makes of a list with one pair of free neighbours, or none.
LEMMA PassIs ==
    ASSUME NEW g \in Heap, IsFiniteSet(DOMAIN g.hdr), NEW S, Links(g, S),
           S \subseteq 0..MaxBrk, S # {}
    PROVE  /\ NoTwoFree(g, S) => merge_adj_open_blks(g) = Unmerged(g)
           /\ \A p, c, R : /\ OnePair(g, S, p, c) /\ FlagsKept(g, S, R)
                           /\ R = Merge(Unmerged(g), p, c)
                           => merge_adj_open_blks(g) = R
<1> DEFINE l == Blocks(g)
           n == Len(l)
<1>1. /\ Enumerates(l, S)
      /\ \A i \in 1..n : g.hdr[l[i]].next = IF i = n THEN NULL ELSE l[i + 1]
  BY BlocksAre, MallocAssumption
<1>2. merge_adj_open_blks(g) = MergePass(g, l)[n]
  BY DEF merge_adj_open_blks
<1> HIDE DEF l
<1>3. /\ n \in Nat /\ \A i \in 1..n : l[i] \in S
      /\ \A i, j \in 1..n : l[i] = l[j] => i = j
      /\ \A a \in S : \E i \in 1..n : l[i] = a
  <2>1. n \in Nat /\ \A i \in 1..n : l[i] \in S /\ l[i] \in Nat
    BY <1>1, LenProperties DEF Enumerates
  <2>2. ASSUME NEW i \in 1..n, NEW j \in 1..n, l[i] = l[j] PROVE i = j
    <3>1. ~(i < j) /\ ~(j < i)
      BY <1>1, <2>1, <2>2 DEF Enumerates
    <3> QED
      BY <2>1, <3>1
  <2> QED
    BY <1>1, <2>1, <2>2 DEF Enumerates
<1>4. n >= 1
  <2>1. PICK a \in S : TRUE
    OBVIOUS
  <2>2. PICK i \in 1..n : l[i] = a
    BY <1>3, <2>1
  <2> QED
    BY <1>3, <2>2
<1>5. \A i \in 2..n : /\ i - 1 \in 1..n /\ i \in 1..n /\ l[i - 1] \in S /\ l[i] \in S
                      /\ g.hdr[l[i - 1]].next = l[i]
  <2> TAKE i \in 2..n
  <2>1. i - 1 \in 1..n /\ i \in 1..n /\ i - 1 # n /\ (i - 1) + 1 = i
    BY <1>3
  <2> QED
    BY <1>1, <1>3, <2>1
<1>6. ASSUME NEW p, NEW c, ~(g.hdr[p].isFree /\ g.hdr[c].isFree)
      PROVE  Merge(Unmerged(g), p, c) = Unmerged(g)
  <2>1. Unmerged(g).h = g
    BY DEF Unmerged
  <2>2. ~Unmerged(g).h.hdr[p].isFree \/ ~Unmerged(g).h.hdr[c].isFree
    BY <1>6, <2>1, Zenon
  <2> QED
    BY <2>2, MergeNot, Zenon
<1> HIDE DEF n
<1>n. n = Len(l)
  BY DEF n
<1>7. ASSUME NoTwoFree(g, S)
      PROVE  merge_adj_open_blks(g) = Unmerged(g)
  <2>1. \A i \in 2..n : Merge(Unmerged(g), l[i - 1], l[i]) = Unmerged(g)
    <3> TAKE i \in 2..n
    <3>1. ~(g.hdr[l[i - 1]].isFree /\ g.hdr[l[i]].isFree)
      BY <1>5, <1>7 DEF NoTwoFree
    <3> QED
      BY <1>6, <3>1, Zenon
  <2>2. n + 1 \in 2..n + 1 /\ ~(n + 1 =< n) /\ \A i \in 2..n : ~(i = n + 1) /\ ~(i > n + 1)
    BY <1>3, <1>4
  <2>3. MergesAt(g, l, n, n + 1, Unmerged(g))
    BY <2>1, <2>2 DEF MergesAt
  <2>4. MergePass(g, l)[n] = IF n + 1 =< n THEN Unmerged(g) ELSE Unmerged(g)
    BY <1>3, <1>4, <1>n, <2>2, <2>3, MergePassIs
  <2> QED
    BY <1>2, <2>4
<1>8. ASSUME NEW p, NEW c, NEW R, OnePair(g, S, p, c), FlagsKept(g, S, R),
             R = Merge(Unmerged(g), p, c)
      PROVE  merge_adj_open_blks(g) = R
  <2>0. /\ p \in S /\ c \in S /\ g.hdr[p].next = c
        /\ \A a, d \in S : a # p /\ g.hdr[a].next = d => ~(g.hdr[a].isFree /\ g.hdr[d].isFree)
    BY <1>8 DEF OnePair
  <2>1. PICK j \in 1..n : l[j] = p
    BY <1>3, <2>0
  <2>2. j # n
    <3>1. c # NULL
      BY <2>0 DEF Links
    <3> QED
      BY <1>1, <2>0, <1>n, <2>1, <3>1
  <2> DEFINE k == j + 1
  <2>3. k \in 2..n /\ k \in 2..n + 1 /\ k - 1 = j /\ k =< n
    BY <1>3, <2>2
  <2> HIDE DEF k
  <2>4. l[k - 1] = p /\ l[k] = c
    BY <1>5, <2>0, <2>1, <2>3
  <2>5. \A i \in 2..n : i < k => Merge(Unmerged(g), l[i - 1], l[i]) = Unmerged(g)
    <3> TAKE i \in 2..n
    <3> HAVE i < k
    <3>1. l[i - 1] # p
      BY <1>3, <1>5, <2>1, <2>3
    <3>2. ~(g.hdr[l[i - 1]].isFree /\ g.hdr[l[i]].isFree)
      BY <1>5, <2>0, <3>1
    <3> QED
      BY <1>6, <3>2, Zenon
  <2>6. \A i \in 2..n : i = k => Merge(Unmerged(g), l[i - 1], l[i]) = R
    BY <1>8, <2>4
  <2>7. \A i \in 2..n : i > k => Merge(R, l[i - 1], l[i]) = R
    <3> TAKE i \in 2..n
    <3> HAVE i > k
    <3>1. l[i - 1] # p
      BY <1>3, <1>5, <2>1, <2>3
    <3>2. ~(g.hdr[l[i - 1]].isFree /\ g.hdr[l[i]].isFree)
      BY <1>5, <2>0, <3>1
    <3>3. R.gave \/ ~R.h.hdr[l[i - 1]].isFree \/ ~R.h.hdr[l[i]].isFree
      BY <1>5, <1>8, <3>2 DEF FlagsKept
    <3> QED
      BY <3>3, MergeNot, Zenon
  <2>8. MergePass(g, l)[n] = IF k =< n THEN R ELSE Unmerged(g)
    <3>1. MergesAt(g, l, n, k, R)
      BY <2>5, <2>6, <2>7 DEF MergesAt
    <3>2. n \in Nat /\ n >= 1 /\ n = Len(l) /\ k \in 2..n + 1
      BY <1>3, <1>4, <1>n, <2>3
    <3> QED
      BY <3>1, <3>2, MergePassIs
  <2> QED
    BY <1>2, <2>3, <2>8
<1> QED
  BY <1>7, <1>8

\* What free does with m, what the pass made of the heap with b marked free.
Finish(h, b, m) ==
    IF /\ ~m.gave /\ isEndList(m.h, b) /\ h.giveback
       /\ isEnoughToGiveUp(m.h, m.h.hdr[b].data_size)
    THEN giveBackToOS(m.h, b) ELSE m.h

\* free marks the block, merges in one pass and finishes.
LEMMA FreeIs ==
    ASSUME NEW h, NEW b, inHeap(h, b)
    PROVE  Free(h, b) = Finish(h, b, merge_adj_open_blks(MarkFree(h, b)))
BY Zenon DEF Free, MarkFree, Finish

\* free of a block beside a free one: p is the first of the two, c the second.
LEMMA FreePairKeeps ==
    ASSUME OFFSET \in {16, 32}, NEW h, NEW S, Sound(h, S),
           NEW b \in S, NEW p \in S, NEW c \in S,
           b \in {p, c}, h.hdr[p].next = c,
           h.hdr[p].isFree \/ p = b, h.hdr[c].isFree \/ c = b,
           \A q \in S : h.hdr[q].next = p => ~h.hdr[q].isFree,
           h.hdr[c].next \in S => ~h.hdr[h.hdr[c].next].isFree,
           c = b => h.hdr[c].next = NULL,
           ~h.hdr[b].isFree
    PROVE  \E T : Lost(h, S, Free(h, b), T, b)
<1> DEFINE g == MarkFree(h, b)
           u == Grown(g, p, c)
           t == Absorbed(g, p, c)
           R == Merge(Unmerged(g), p, c)
<1>1. /\ h \in Heap /\ IsFiniteSet(DOMAIN h.hdr) /\ ~h.fault /\ ~h.refused /\ Links(h, S)
      /\ S \subseteq DOMAIN h.hdr /\ S \subseteq 0..MaxBrk
      /\ \A a \in S : /\ a \in Nat /\ h.hdr[a].data_size \in Nat
                      /\ h.hdr[a].isFree \in BOOLEAN /\ h.hdr[a].next \in Nat
                      /\ Follows(S, a, h.hdr[a].next)
  BY SoundFacts
<1>2. /\ g \in Heap /\ SameFrame(h, g) /\ DOMAIN g.hdr = DOMAIN h.hdr
      /\ g.hdr[b].isFree /\ g.hdr[b].next = h.hdr[b].next
      /\ g.hdr[b].data_size = h.hdr[b].data_size
      /\ \A a \in DOMAIN h.hdr : a # b => g.hdr[a] = h.hdr[a]
  BY <1>1, SetFreedIs
<1>3. \A a \in S : /\ g.hdr[a].next = h.hdr[a].next
                   /\ g.hdr[a].data_size = h.hdr[a].data_size
                   /\ g.hdr[a].isFree <=> (h.hdr[a].isFree \/ a = b)
  BY <1>1, <1>2
<1>g. g = MarkFree(h, b)
  OBVIOUS
<1> HIDE DEF g
<1>t. t = Absorbed(g, p, c)
  OBVIOUS
<1> HIDE DEF t
<1>4. /\ \E T : Lost(h, S, t, T, b)
      /\ t.pstart = h.pstart /\ t.pend = h.pend /\ t.giveback = h.giveback
      /\ t.hdr[p].next = h.hdr[c].next
      /\ t.hdr[p].data_size = u.hdr[p].data_size
      /\ t.hdr[c].data_size = h.hdr[c].data_size
      /\ h.hdr[c].data_size =< t.hdr[p].data_size /\ t.hdr[p].data_size \in Nat
      /\ \A a \in S : t.hdr[a].isFree <=> g.hdr[a].isFree
  BY <1>g, <1>t, AbsorbKeeps
<1>5. Links(g, S) /\ IsFiniteSet(DOMAIN g.hdr)
  BY <1>1, <1>2, <1>3 DEF Links, SameFrame
<1>6. g.hdr[p].next = c /\ g.hdr[p].isFree /\ g.hdr[c].isFree
  BY <1>3
<1>7. R = IF Giving(g, p, c) THEN [h |-> giveBackToOS(u, p), gave |-> TRUE]
          ELSE [h |-> t, gave |-> FALSE]
  BY <1>6, <1>t, MergeTwo
<1> HIDE DEF R
<1>8. ASSUME NEW a \in S, NEW d \in S, a # p, g.hdr[a].next = d
      PROVE  ~(g.hdr[a].isFree /\ g.hdr[d].isFree)
  <2>1. NoTwoFree(h, S)
    BY DEF Sound
  <2>2. h.hdr[a].next = d
    BY <1>3, <1>8
  <2>3. d # NULL /\ a # d
    BY <1>1, <2>2 DEF Links, Follows
  <2>4. CASE d = p
    <3>1. ~h.hdr[a].isFree
      BY <2>2, <2>4
    <3>2. a # b
      <4> SUFFICES ASSUME a = b PROVE FALSE
        OBVIOUS
      <4>1. a = c
        BY <1>8
      <4>2. h.hdr[c].next = NULL
        BY <4>1
      <4> QED
        BY <2>2, <2>3, <4>1, <4>2
    <3> QED
      BY <1>3, <3>1, <3>2
  <2>5. CASE d # p /\ a = c
    <3>1. ~h.hdr[d].isFree
      BY <2>2, <2>5
    <3>2. d # b
      BY <2>3, <2>5
    <3> QED
      BY <1>3, <3>1, <3>2
  <2>6. CASE d = c
    <3> DEFINE n == h.hdr[a].next
    <3>1. a < c /\ p < c /\ a \in Nat /\ p \in Nat /\ c \in Nat
      BY <1>1, <2>2, <2>3, <2>6 DEF Follows
    <3>2. (\A z \in S : z =< a \/ c =< z) /\ (\A z \in S : z =< p \/ c =< z)
      BY <1>1, <2>2, <2>3, <2>6 DEF Follows
    <3>3. p =< a /\ a =< p
      BY <3>1, <3>2
    <3> QED
      BY <1>8, <3>1, <3>3
  <2>7. CASE d # p /\ d # c /\ a # c
    <3>1. a # b /\ d # b
      BY <1>8, <2>7
    <3> QED
      BY <1>3, <2>1, <2>2, <3>1 DEF NoTwoFree
  <2> QED
    BY <2>4, <2>5, <2>6, <2>7
<1>a. \A x, y : [h |-> x, gave |-> y].h = x /\ [h |-> x, gave |-> y].gave = y
  OBVIOUS
<1>9. merge_adj_open_blks(g) = R
  <2>1. R = Merge(Unmerged(g), p, c)
    BY DEF R
  <2>2. FlagsKept(g, S, R)
    <3>1. CASE Giving(g, p, c)
      <4>1. R.gave = TRUE
        BY <1>7, <1>a, <3>1, Zenon
      <4> QED
        BY <4>1, Zenon DEF FlagsKept
    <3>2. CASE ~Giving(g, p, c)
      <4>1. R.h = t
        BY <1>7, <1>a, <3>2, Zenon
      <4> QED
        BY <1>4, <4>1, Zenon DEF FlagsKept
    <3> QED
      BY <3>1, <3>2
  <2>3. S # {}
    OBVIOUS
  <2>4. OnePair(g, S, p, c)
    BY <1>6, <1>8 DEF OnePair
  <2> QED
    BY <1>1, <1>2, <1>5, <2>1, <2>2, <2>3, <2>4, PassIs
<1>10. inHeap(h, b)
  <2>1. Enumerates(Blocks(h), S)
    BY <1>1, BlocksAre, MallocAssumption
  <2> QED
    BY <2>1 DEF inHeap, Contains, Enumerates
<1>11. Free(h, b) = IF /\ ~R.gave /\ isEndList(R.h, b) /\ h.giveback
                       /\ isEnoughToGiveUp(R.h, R.h.hdr[b].data_size)
                    THEN giveBackToOS(R.h, b) ELSE R.h
  <2>1. Free(h, b) = Finish(h, b, merge_adj_open_blks(g))
    BY <1>10, <1>g, FreeIs, Zenon
  <2>2. Free(h, b) = Finish(h, b, R)
    BY <1>9, <2>1, Zenon
  <2> QED
    BY <2>2, Zenon DEF Finish
<1>12. p \in Nat /\ c \in Nat /\ p < c
  BY <1>1 DEF Follows, Links
<1>13. CASE Giving(g, p, c)
  <2>1. R.gave = TRUE /\ R.h = giveBackToOS(u, p)
    BY <1>7, <1>a, <1>13, Zenon
  <2>2. Free(h, b) = giveBackToOS(u, p)
    BY <1>11, <2>1, Zenon
  <2>3. h.hdr[c].next = NULL
    BY <1>3, <1>13 DEF Giving, isEndList
  <2>4. \A a \in S : a >= p => a = b \/ h.hdr[a].isFree
    <3> TAKE a \in S
    <3> HAVE a >= p
    <3>1. \A z \in S : z =< c
      BY <1>1, <2>3 DEF Follows, Links
    <3>2. \A z \in S : z =< p \/ c =< z
      BY <1>1, <1>12 DEF Follows, Links
    <3>3. a = p \/ a = c
      BY <1>1, <1>12, <3>1, <3>2
    <3> QED
      BY <3>3
  <2>5. /\ u \in Heap /\ SameFrame(h, u) /\ DOMAIN u.hdr = DOMAIN h.hdr
        /\ \A a \in S : /\ u.hdr[a].next = h.hdr[a].next
                        /\ a < p => u.hdr[a] = h.hdr[a]
    <3> DEFINE size == Wrap(g.hdr[p].data_size + g.hdr[c].data_size + OFFSET)
    <3>1. size \in Nat
      <4>1. g.hdr[p].data_size + g.hdr[c].data_size + OFFSET \in Nat
        BY <1>1, <1>3, MallocAssumption
      <4>2. WORD \in Nat /\ WORD > 0
        BY MallocAssumption
      <4> QED
        BY <4>1, <4>2 DEF Wrap
    <3>2. u = Resized(g, p, size)
      BY DEF Grown
    <3> HIDE DEF size, u
    <3>3. p \in DOMAIN g.hdr
      BY <1>1, <1>2
    <3>4. /\ u \in Heap /\ SameFrame(g, u) /\ DOMAIN u.hdr = DOMAIN g.hdr
          /\ u.hdr[p].isFree = g.hdr[p].isFree /\ u.hdr[p].next = g.hdr[p].next
          /\ u.hdr[p].data_size = size
          /\ \A a \in DOMAIN g.hdr : a # p => u.hdr[a] = g.hdr[a]
      BY <1>2, <3>1, <3>2, <3>3, SetSizeIs
    <3>5. \A a \in S : u.hdr[a].next = h.hdr[a].next
      BY <1>1, <1>2, <1>3, <3>4
    <3>6. \A a \in S : a < p => u.hdr[a] = h.hdr[a]
      BY <1>1, <1>2, <1>12, <3>4
    <3>7. SameFrame(h, u)
      BY <1>2, <3>4 DEF SameFrame
    <3> QED
      BY <1>2, <3>4, <3>5, <3>6, <3>7
  <2> HIDE DEF u
  <2>6. p =< b
    BY <1>12
  <2> QED
    BY <2>2, <2>4, <2>5, <2>6, GiveKeeps
<1>14. CASE ~Giving(g, p, c)
  <2>1. R.gave = FALSE /\ R.h = t
    BY <1>7, <1>a, <1>14, Zenon
  <2>2. ~(isEndList(t, b) /\ h.giveback /\ isEnoughToGiveUp(t, t.hdr[b].data_size))
    <3> SUFFICES ASSUME isEndList(t, b), h.giveback,
                        isEnoughToGiveUp(t, t.hdr[b].data_size)
                 PROVE  FALSE
      BY Zenon
    <3>1. h.hdr[c].next = NULL
      BY <1>4 DEF isEndList
    <3>2. isEndList(g, c)
      BY <1>3, <3>1 DEF isEndList
    <3>3. g.giveback
      BY <1>2 DEF SameFrame
    <3>4. Pending(t) = Pending(g) /\ Pending(g) \in Nat
      <4>1. t.pend = g.pend /\ t.pstart = g.pstart
        BY <1>2, <1>4 DEF SameFrame
      <4>2. WORD \in Nat /\ WORD > 0
        BY MallocAssumption
      <4>3. g.pend - g.pstart \in Int
        BY <1>2 DEF Heap
      <4> QED
        BY <4>1, <4>2, <4>3 DEF Pending, Wrap
    <3>5. t.hdr[b].data_size =< u.hdr[p].data_size
      <4>2. b = p \/ b = c
        OBVIOUS
      <4> QED
        BY <1>1, <1>4, <4>2
    <3>6. ~isEnoughToGiveUp(g, u.hdr[p].data_size)
      BY <1>14, <3>2, <3>3, Zenon DEF Giving
    <3>7. u.hdr[p].data_size \in Nat /\ t.hdr[b].data_size \in Nat
      BY <1>1, <1>4
    <3> QED
      BY <3>4, <3>5, <3>6, <3>7, MallocAssumption DEF isEnoughToGiveUp, GIVE_UP_SPACE
  <2>3. Free(h, b) = t
    BY <1>11, <2>1, <2>2, Zenon
  <2> QED
    BY <1>4, <2>3
<1> QED
  BY <1>13, <1>14

\* free, of any block in use that a careful client may free: one that follows
\* a free block is the last of the list.
LEMMA FreeKeeps ==
    ASSUME OFFSET \in {16, 32}, NEW h, NEW S, Sound(h, S), NEW b \in Used(h, S),
           \A q \in S : h.hdr[q].next = b /\ h.hdr[q].isFree => h.hdr[b].next = NULL
    PROVE  \E T : Lost(h, S, Free(h, b), T, b)
<1>1. /\ h \in Heap /\ IsFiniteSet(DOMAIN h.hdr) /\ ~h.fault /\ ~h.refused /\ Links(h, S)
      /\ S \subseteq DOMAIN h.hdr /\ S \subseteq 0..MaxBrk
      /\ \A a \in S : /\ a \in Nat /\ h.hdr[a].data_size \in Nat
                      /\ h.hdr[a].isFree \in BOOLEAN /\ h.hdr[a].next \in Nat
                      /\ Follows(S, a, h.hdr[a].next)
  BY SoundFacts
<1>2. b \in S /\ ~h.hdr[b].isFree /\ NULL \notin S
  BY <1>1 DEF Used, Links
<1>3. NoTwoFree(h, S)
  BY DEF Sound
<1>4. ASSUME NEW q \in S, h.hdr[q].next = b, h.hdr[q].isFree
      PROVE  \E T : Lost(h, S, Free(h, b), T, b)
  <2>1. h.hdr[b].next = NULL
    BY <1>4
  <2>2. \A a \in S : h.hdr[a].next = q => ~h.hdr[a].isFree
    BY <1>3, <1>4 DEF NoTwoFree
  <2>3. ~(h.hdr[b].next \in S)
    BY <1>2, <2>1
  <2>4. b \in {q, b}
    OBVIOUS
  <2> QED
    BY <1>2, <1>4, <2>1, <2>2, <2>3, <2>4, FreePairKeeps
<1>5. CASE /\ \A q \in S : h.hdr[q].next = b => ~h.hdr[q].isFree
           /\ h.hdr[b].next \in S /\ h.hdr[h.hdr[b].next].isFree
  <2> DEFINE c == h.hdr[b].next
  <2>1. c \in S /\ h.hdr[c].isFree /\ h.hdr[b].next = c
    BY <1>5
  <2>2. b # c
    BY <1>2, <2>1
  <2> HIDE DEF c
  <2>3. h.hdr[c].next \in S => ~h.hdr[h.hdr[c].next].isFree
    BY <1>3, <2>1 DEF NoTwoFree
  <2>4. b \in {b, c}
    OBVIOUS
  <2> QED
    BY <1>2, <1>5, <2>1, <2>2, <2>3, <2>4, FreePairKeeps
<1>6. CASE /\ \A q \in S : h.hdr[q].next = b => ~h.hdr[q].isFree
           /\ h.hdr[b].next \in S => ~h.hdr[h.hdr[b].next].isFree
  <2> DEFINE g == MarkFree(h, b)
  <2>1. Lost(h, S, g, S, b)
    BY <1>2, <1>6, AloneKeeps
  <2>2. /\ g \in Heap /\ SameFrame(h, g) /\ DOMAIN g.hdr = DOMAIN h.hdr
        /\ g.hdr[b].isFree /\ g.hdr[b].next = h.hdr[b].next
        /\ g.hdr[b].data_size = h.hdr[b].data_size
        /\ \A a \in DOMAIN h.hdr : a # b => g.hdr[a] = h.hdr[a]
    BY <1>1, <1>2, SetFreedIs
  <2>g. g = MarkFree(h, b)
    OBVIOUS
  <2> HIDE DEF g
  <2>3. Links(g, S) /\ NoTwoFree(g, S) /\ IsFiniteSet(DOMAIN g.hdr)
    BY <2>1 DEF Lost, Sound
  <2>4. merge_adj_open_blks(g) = Unmerged(g)
    BY <1>1, <1>2, <2>2, <2>3, PassIs
  <2>5. inHeap(h, b)
    <3>1. Enumerates(Blocks(h), S)
      BY <1>1, BlocksAre, MallocAssumption
    <3> QED
      BY <1>2, <3>1 DEF inHeap, Contains, Enumerates
  <2>6. Free(h, b) = Finish(h, b, Unmerged(g))
    <3>1. Free(h, b) = Finish(h, b, merge_adj_open_blks(g))
      BY <2>5, <2>g, FreeIs, Zenon
    <3> QED
      BY <2>4, <3>1, Zenon
  <2>7. Unmerged(g).h = g /\ ~Unmerged(g).gave
    BY DEF Unmerged
  <2>8. Free(h, b) = g \/ (Free(h, b) = giveBackToOS(g, b) /\ isEndList(g, b))
    BY <2>6, <2>7, Zenon DEF Finish
  <2>9. CASE Free(h, b) = g
    BY <2>1, <2>9
  <2>10. CASE Free(h, b) = giveBackToOS(g, b) /\ isEndList(g, b)
    <3>1. h.hdr[b].next = NULL
      BY <2>2, <2>10 DEF isEndList
    <3>2. \A a \in S : a >= b => a = b \/ h.hdr[a].isFree
      BY <1>1, <1>2, <3>1 DEF Follows
    <3>3. \A a \in S : /\ g.hdr[a].next = h.hdr[a].next
                       /\ a < b => g.hdr[a] = h.hdr[a]
      BY <1>1, <1>2, <2>2
    <3>4. b =< b
      BY <1>1, <1>2
    <3> QED
      BY <1>2, <2>2, <2>10, <3>2, <3>3, <3>4, GiveKeeps
  <2> QED
    BY <2>8, <2>9, <2>10
<1> QED
  BY <1>4, <1>5, <1>6

-----------------------------------------------------------------------------
(* realloc *)

WithGiveback(h, v) == [h EXCEPT !.giveback = v]

\* Whether memory is given back has no part in the invariant.
LEMMA WithGivebackIs ==
    ASSUME NEW h, NEW S, Sound(h, S), NEW v \in BOOLEAN,
           NEW t, t = WithGiveback(h, v)
    PROVE  Sound(t, S) /\ t.hdr = h.hdr /\ Used(t, S) = Used(h, S)
<1>1. h \in Heap
  BY SoundFacts
<1>2. /\ t.hdr = h.hdr /\ t.start = h.start /\ t.pstart = h.pstart /\ t.pend = h.pend
      /\ t.brk = h.brk /\ t.fault = h.fault /\ t.refused = h.refused /\ t \in Heap
  BY <1>1 DEF WithGiveback, Heap
<1>3. Links(t, S)
  BY <1>2 DEF Sound, Links
<1>4. Chunk(t) /\ Layout(t, S) /\ NoTwoFree(t, S)
  BY <1>2 DEF Sound, Chunk, Layout, NoTwoFree, End
<1>5. IsFiniteSet(DOMAIN t.hdr) /\ ~t.fault /\ ~t.refused
  BY <1>2 DEF Sound
<1>6. Used(t, S) = Used(h, S)
  BY <1>2 DEF Used
<1> QED
  BY <1>2, <1>3, <1>4, <1>5, <1>6 DEF Sound

\* What realloc promises: block c, of at least size bytes, in place of b, and
\* no other block in use is touched.
Moved(h, S, t, T, b, c, size) ==
    /\ Sound(t, T) /\ c \notin Used(h, S) \ {b}
    /\ Used(t, T) = (Used(h, S) \ {b}) \cup {c}
    /\ size =< t.hdr[c].data_size
    /\ \A a \in Used(h, S) \ {b} : t.hdr[a].data_size = h.hdr[a].data_size

\* A free and a malloc make a move.
LEMMA LostAndGained ==
    ASSUME NEW h, NEW S, NEW x, NEW X, NEW b, Lost(h, S, x, X, b),
           NEW y, Sound(y, X), y.hdr = x.hdr, NEW t, NEW T, NEW c, NEW n,
           Gained(y, X, t, T, c, n)
    PROVE  Moved(h, S, t, T, b, c, n)
<1>1. Used(y, X) = Used(h, S) \ {b}
  BY DEF Lost, Used
<1>2. \A a \in Used(y, X) : t.hdr[a].data_size = h.hdr[a].data_size
  BY <1>1 DEF Lost, Gained
<1> QED
  BY <1>1, <1>2 DEF Gained, Moved

\* realloc, of any block in use that a careful client may free, unless sbrk
\* refuses.
LEMMA ReallocKeeps ==
    ASSUME FittingClient, NEW h, NEW S, Sound(h, S), NEW b \in Used(h, S),
           \A q \in S : h.hdr[q].next = b /\ h.hdr[q].isFree => h.hdr[b].next = NULL,
           NEW n \in Nat, n % 16 = 0, n + OFFSET =< NEW_MEM_BLK,
           NEW r, r = Realloc(h, b, n), ~Refuses(r.h)
    PROVE  IF n = 0 THEN \E T : Lost(h, S, r.h, T, b)
           ELSE \E T : Moved(h, S, r.h, T, b, r.blk, n)
<1>1. /\ h \in Heap /\ IsFiniteSet(DOMAIN h.hdr) /\ Links(h, S) /\ S \subseteq 0..MaxBrk
      /\ \A a \in S : h.hdr[a].data_size \in Nat
  BY SoundFacts
<1>2. b \in S /\ b # NULL /\ OFFSET \in {16, 32}
  BY <1>1 DEF Used, Links, FittingClient
<1>3. inHeap(h, b)
  <2>1. Enumerates(Blocks(h), S)
    BY <1>1, BlocksAre, MallocAssumption
  <2> QED
    BY <1>2, <2>1 DEF inHeap, Contains, Enumerates
<1>a. \A x, y : [h |-> x, blk |-> y].h = x /\ [h |-> x, blk |-> y].blk = y
  OBVIOUS
<1> DEFINE grows == isEndList(h, b) /\ round_up_mult_of_num(n, 16) >= h.hdr[b].data_size
           u == update_pending(h, Wrap(n - h.hdr[b].data_size))
           x == Free(WithGiveback(h, FALSE), b)
           y == WithGiveback(x, TRUE)
<1>b. \A z : [h |-> z].h = z
  OBVIOUS
<1>4. r = IF n = 0 THEN [h |-> Free(h, b)]
          ELSE IF grows THEN [h |-> Resized(u, b, n), blk |-> b]
          ELSE Malloc(y, n)
  BY <1>3, Zenon DEF Realloc, Resized, WithGiveback
<1>5. CASE n = 0
  <2>1. r.h = Free(h, b)
    <3>1. r = [h |-> Free(h, b)]
      BY <1>4, <1>5, Zenon
    <3> QED
      BY <1>b, <3>1
  <2>2. \E T : Lost(h, S, r.h, T, b)
    BY <1>2, <2>1, FreeKeeps
  <2> QED
    BY <1>5, <2>2, Zenon
<1>6. CASE n # 0 /\ grows
  <2>1. r.h = Resized(u, b, n) /\ r.blk = b
    BY <1>4, <1>6, <1>a, Zenon
  <2>2. round_up_mult_of_num(n, 16) = n
    <3>1. n < WORD /\ WORD \in Nat
      BY <1>2, MallocAssumption
    <3>2. round_up_mult_of_num(n, 16) = Wrap(n)
      BY <1>6 DEF round_up_mult_of_num
    <3> QED
      BY <3>1, <3>2 DEF Wrap
  <2>3. h.hdr[b].next = NULL /\ n >= h.hdr[b].data_size
    BY <1>6, <2>2 DEF isEndList
  <2> DEFINE t == Resized(u, b, n)
  <2> HIDE DEF u
  <2>4. ~Refuses(u)
    <3> SUFFICES ASSUME Refuses(u) PROVE Refuses(t)
      BY <2>1, Zenon
    <3> DEFINE hdr == [u.hdr EXCEPT ![b].data_size = n]
    <3>1. t = [u EXCEPT !.hdr = hdr]
      BY DEF Resized
    <3> HIDE DEF hdr
    <3> QED
      BY <3>1 DEF Refuses
  <2>5. u = update_pending(h, Wrap(n - h.hdr[b].data_size))
    BY DEF u
  <2>6. t = Resized(u, b, n)
    OBVIOUS
  <2> HIDE DEF t
  <2>7. /\ Sound(t, S) /\ Used(t, S) = Used(h, S) /\ t.hdr[b].data_size = n
        /\ \A a \in S : a # b => t.hdr[a].data_size = h.hdr[a].data_size
    BY <1>2, <2>3, <2>4, <2>5, <2>6, GrowKeeps
  <2>8. Moved(h, S, t, S, b, b, n)
    BY <1>2, <2>7 DEF Moved, Used
  <2>9. \E T : Moved(h, S, r.h, T, b, r.blk, n)
    BY <2>1, <2>6, <2>8
  <2> QED
    BY <1>6, <2>9, Zenon
<1>7. CASE n # 0 /\ ~grows
  <2> DEFINE w == WithGiveback(h, FALSE)
  <2>1. r = Malloc(y, n)
    BY <1>4, <1>7, Zenon
  <2>2. FALSE \in BOOLEAN /\ TRUE \in BOOLEAN
    OBVIOUS
  <2>3. Sound(w, S) /\ w.hdr = h.hdr /\ Used(w, S) = Used(h, S)
    BY <2>2, WithGivebackIs, Zenon
  <2>4. x = Free(w, b)
    OBVIOUS
  <2>5. y = WithGiveback(x, TRUE)
    OBVIOUS
  <2> HIDE DEF w, x, y
  <2>6. \A q \in S : w.hdr[q].next = b /\ w.hdr[q].isFree => w.hdr[b].next = NULL
    BY <2>3
  <2>7. PICK X : Lost(w, S, x, X, b)
    <3>1. \E X : Lost(w, S, Free(w, b), X, b)
      BY <1>2, <2>3, <2>6, FreeKeeps
    <3> QED
      BY <2>4, <3>1, Zenon
  <2>8. Sound(x, X)
    BY <2>7 DEF Lost
  <2>9. Sound(y, X) /\ y.hdr = x.hdr
    BY <2>2, <2>5, <2>8, WithGivebackIs, Zenon
  <2>10. PICK T : Gained(y, X, r.h, T, r.blk, n)
    BY <2>1, <2>9, MallocKeeps
  <2>11. Moved(w, S, r.h, T, b, r.blk, n)
    BY <2>7, <2>9, <2>10, LostAndGained
  <2>12. Moved(h, S, r.h, T, b, r.blk, n)
    BY <2>3, <2>11 DEF Moved
  <2> QED
    BY <1>7, <2>12, Zenon
<1> QED
  BY <1>5, <1>6, <1>7

-----------------------------------------------------------------------------
(* The client's blocks *)

\* Where the elements of a sequence are after one was removed.
LEMMA RemoveAtIs ==
    ASSUME NEW q \in Seq(Block), NEW i \in 1..Len(q)
    PROVE  /\ RemoveAt(q, i) \in Seq(Block) /\ Len(RemoveAt(q, i)) = Len(q) - 1
           /\ \A j \in 1..(Len(q) - 1) :
                RemoveAt(q, i)[j] = IF j < i THEN q[j] ELSE q[j + 1]
<1>1. Len(q) \in Nat
  BY LenProperties
<1> DEFINE x == SubSeq(q, 1, i - 1)
           y == SubSeq(q, i + 1, Len(q))
<1>2. /\ x \in Seq(Block) /\ Len(x) = i - 1
      /\ \A j \in 1..(i - 1) : x[j] = q[j]
  BY <1>1, SubSeqProperties
<1>3. /\ y \in Seq(Block) /\ Len(y) = Len(q) - i
      /\ \A j \in 1..(Len(q) - i) : y[j] = q[j + i]
  BY <1>1, SubSeqProperties
<1> HIDE DEF x, y
<1>4. /\ x \o y \in Seq(Block) /\ Len(x \o y) = Len(q) - 1
      /\ \A j \in 1..(Len(q) - 1) : (x \o y)[j] = IF j < i THEN x[j] ELSE y[j - (i - 1)]
  <2>1. /\ x \o y \in Seq(Block) /\ Len(x \o y) = Len(x) + Len(y)
        /\ \A j \in 1..(Len(x) + Len(y)) :
                (x \o y)[j] = IF j =< Len(x) THEN x[j] ELSE y[j - Len(x)]
    BY <1>2, <1>3, ConcatProperties
  <2>2. Len(x) + Len(y) = Len(q) - 1
    BY <1>1, <1>2, <1>3
  <2>3. \A j \in 1..(Len(q) - 1) : j < i <=> j =< i - 1
    BY <1>1
  <2> QED
    BY <1>2, <2>1, <2>2, <2>3
<1>5. \A j \in 1..(Len(q) - 1) : (x \o y)[j] = IF j < i THEN q[j] ELSE q[j + 1]
  <2> TAKE j \in 1..(Len(q) - 1)
  <2>1. CASE j < i
    BY <1>1, <1>2, <1>4, <2>1
  <2>2. CASE ~(j < i)
    <3>1. j - (i - 1) \in 1..(Len(q) - i) /\ (j - (i - 1)) + i = j + 1
      BY <1>1, <2>2
    <3> QED
      BY <1>3, <1>4, <2>2, <3>1
  <2> QED
    BY <2>1, <2>2
<1> QED
  BY <1>4, <1>5 DEF RemoveAt, x, y

\* Where the elements of a sequence are after one was inserted.
LEMMA InsertAtIs ==
    ASSUME NEW q \in Seq(Block), NEW i \in 1..(Len(q) + 1), NEW e \in Block
    PROVE  /\ InsertAt(q, i, e) \in Seq(Block) /\ Len(InsertAt(q, i, e)) = Len(q) + 1
           /\ \A j \in 1..(Len(q) + 1) :
                InsertAt(q, i, e)[j] = IF j < i THEN q[j]
                                       ELSE IF j = i THEN e ELSE q[j - 1]
<1>1. Len(q) \in Nat
  BY LenProperties
<1> DEFINE x == SubSeq(q, 1, i - 1)
           y == SubSeq(q, i, Len(q))
           z == x \o <<e>>
<1>2. /\ x \in Seq(Block) /\ Len(x) = i - 1
      /\ \A j \in 1..(i - 1) : x[j] = q[j]
  BY <1>1, SubSeqProperties
<1>3. /\ y \in Seq(Block) /\ Len(y) = Len(q) - i + 1
      /\ \A j \in 1..(Len(q) - i + 1) : y[j] = q[j + i - 1]
  BY <1>1, SubSeqProperties
<1>4. <<e>> \in Seq(Block) /\ Len(<<e>>) = 1 /\ <<e>>[1] = e
  OBVIOUS
<1> HIDE DEF x, y
<1>5. /\ z \in Seq(Block) /\ Len(z) = i
      /\ \A j \in 1..i : z[j] = IF j < i THEN q[j] ELSE e
  <2>1. /\ z \in Seq(Block) /\ Len(z) = i
        /\ \A j \in 1..i : z[j] = IF j < i THEN x[j] ELSE <<e>>[j - (i - 1)]
    BY <1>1, <1>2, <1>4, ConcatProperties
  <2> HIDE DEF z
  <2> QED
    BY <1>1, <1>2, <1>4, <2>1
<1> HIDE DEF z
<1>6. /\ z \o y \in Seq(Block) /\ Len(z \o y) = Len(q) + 1
      /\ \A j \in 1..(Len(q) + 1) : (z \o y)[j] = IF j =< i THEN z[j] ELSE y[j - i]
  <2>1. /\ z \o y \in Seq(Block) /\ Len(z \o y) = Len(z) + Len(y)
        /\ \A j \in 1..(Len(z) + Len(y)) :
                (z \o y)[j] = IF j =< Len(z) THEN z[j] ELSE y[j - Len(z)]
    BY <1>3, <1>5, ConcatProperties
  <2>2. Len(z) + Len(y) = Len(q) + 1
    BY <1>1, <1>3, <1>5
  <2> QED
    BY <1>5, <2>1, <2>2
<1>7. \A j \in 1..(Len(q) + 1) :
        (z \o y)[j] = IF j < i THEN q[j] ELSE IF j = i THEN e ELSE q[j - 1]
  <2> TAKE j \in 1..(Len(q) + 1)
  <2>1. CASE j =< i
    BY <1>1, <1>5, <1>6, <2>1
  <2>2. CASE ~(j =< i)
    <3>1. j - i \in 1..(Len(q) - i + 1) /\ (j - i) + i - 1 = j - 1
      BY <1>1, <2>2
    <3> QED
      BY <1>3, <1>6, <2>2, <3>1
  <2> QED
    BY <2>1, <2>2
<1> QED
  BY <1>6, <1>7 DEF InsertAt, x, y, z

\* A block that the client gives up is no longer among its blocks.
LEMMA OwnsRemove ==
    ASSUME NEW U, NEW d, NEW q, Owns(q, U, d), NEW i \in 1..Len(q),
           NEW r, r = RemoveAt(q, i)
    PROVE  Owns(r, U \ {q[i].blk}, d) /\ Len(r) = Len(q) - 1
<1>1. /\ q \in Seq(Block) /\ Len(q) \in Nat
      /\ \A j \in 1..Len(q) : q[j].blk \in U /\ q[j].size =< d[q[j].blk]
      /\ \A j, k \in 1..Len(q) : q[j].blk = q[k].blk => j = k
      /\ \A a \in U : \E j \in 1..Len(q) : q[j].blk = a
  BY LenProperties DEF Owns
<1>2. /\ r \in Seq(Block) /\ Len(r) = Len(q) - 1
      /\ \A j \in 1..(Len(q) - 1) : r[j] = IF j < i THEN q[j] ELSE q[j + 1]
  BY <1>1, RemoveAtIs
<1> DEFINE at(j) == IF j < i THEN j ELSE j + 1
<1>3. ASSUME NEW j \in 1..Len(r)
      PROVE  at(j) \in 1..Len(q) /\ at(j) # i /\ r[j] = q[at(j)]
  <2>1. CASE j < i
    BY <1>1, <1>2, <2>1
  <2>2. CASE ~(j < i)
    BY <1>1, <1>2, <2>2
  <2> QED
    BY <2>1, <2>2
<1>4. \A j, k \in 1..Len(r) : at(j) = at(k) => j = k
  BY <1>1, <1>2
<1>5. \A j \in 1..Len(q) : j # i => \E k \in 1..Len(r) : at(k) = j
  <2> TAKE j \in 1..Len(q)
  <2> HAVE j # i
  <2>1. CASE j < i
    BY <1>1, <1>2, <2>1
  <2>2. CASE ~(j < i)
    <3>1. j - 1 \in 1..Len(r) /\ ~(j - 1 < i) /\ (j - 1) + 1 = j
      BY <1>1, <1>2, <2>2
    <3> QED
      BY <3>1
  <2> QED
    BY <2>1, <2>2
<1> HIDE DEF at
<1>6. \A j \in 1..Len(r) : r[j].blk \in U \ {q[i].blk} /\ r[j].size =< d[r[j].blk]
  BY <1>1, <1>3
<1>7. \A j, k \in 1..Len(r) : r[j].blk = r[k].blk => j = k
  BY <1>1, <1>3, <1>4
<1>8. \A a \in U \ {q[i].blk} : \E j \in 1..Len(r) : r[j].blk = a
  <2> TAKE a \in U \ {q[i].blk}
  <2>1. PICK j \in 1..Len(q) : q[j].blk = a
    BY <1>1
  <2>2. PICK k \in 1..Len(r) : at(k) = j
    BY <1>5, <2>1
  <2> QED
    BY <1>3, <2>1, <2>2
<1> QED
  BY <1>2, <1>6, <1>7, <1>8 DEF Owns

Inserted(q, c, n) == Insert(q, [blk |-> c, size |-> n])

\* A new block takes its place among the client's blocks.
LEMMA OwnsInsert ==
    ASSUME NEW U, NEW d, NEW q, Owns(q, U, d), NEW c \in Nat, c \notin U,
           NEW n \in Nat, n =< d[c]
    PROVE  Owns(Inserted(q, c, n), U \cup {c}, d) /\ Len(Inserted(q, c, n)) = Len(q) + 1
<1> DEFINE r == Inserted(q, c, n)
<1>1. /\ q \in Seq(Block) /\ Len(q) \in Nat /\ DOMAIN q = 1..Len(q)
      /\ \A j \in 1..Len(q) : q[j].blk \in U /\ q[j].size =< d[q[j].blk]
      /\ \A j, k \in 1..Len(q) : q[j].blk = q[k].blk => j = k
      /\ \A a \in U : \E j \in 1..Len(q) : q[j].blk = a
  BY LenProperties DEF Owns
<1> DEFINE e == [blk |-> c, size |-> n]
           B == {j \in DOMAIN q : q[j].blk < e.blk}
           i == Cardinality(B) + 1
<1>2. e \in Block /\ e.blk = c /\ e.size = n
  BY DEF Block
<1>3. i \in 1..(Len(q) + 1)
  <2>1. B \subseteq 1..Len(q)
    BY <1>1
  <2>2. IsFiniteSet(1..Len(q)) /\ Cardinality(1..Len(q)) = Len(q)
    <3>1. 1 \in Int /\ Len(q) \in Int
      BY <1>1
    <3>2. /\ IsFiniteSet(1..Len(q))
          /\ Cardinality(1..Len(q)) = IF 1 > Len(q) THEN 0 ELSE Len(q) - 1 + 1
      BY <3>1, FS_Interval
    <3> QED
      BY <1>1, <3>2
  <2>3. Cardinality(B) \in Nat /\ Cardinality(B) =< Len(q)
    BY <2>1, <2>2, FS_Subset, FS_CardinalityType
  <2> HIDE DEF B
  <2> QED
    BY <1>1, <2>3
<1>4. r = InsertAt(q, i, e)
  BY DEF Insert, Inserted
<1> HIDE DEF i, e, B, r
<1>5. /\ r \in Seq(Block) /\ Len(r) = Len(q) + 1
      /\ \A j \in 1..(Len(q) + 1) : r[j] = IF j < i THEN q[j]
                                           ELSE IF j = i THEN e ELSE q[j - 1]
  <2>1. q \in Seq(Block) /\ e \in Block
    BY <1>1, <1>2
  <2>2. /\ InsertAt(q, i, e) \in Seq(Block) /\ Len(InsertAt(q, i, e)) = Len(q) + 1
        /\ \A j \in 1..(Len(q) + 1) :
                InsertAt(q, i, e)[j] = IF j < i THEN q[j]
                                       ELSE IF j = i THEN e ELSE q[j - 1]
    BY <1>3, <2>1, InsertAtIs
  <2> QED
    BY <1>4, <2>2
<1> DEFINE at(j) == IF j < i THEN j ELSE j - 1
<1>6. ASSUME NEW j \in 1..Len(r), j # i
      PROVE  at(j) \in 1..Len(q) /\ r[j] = q[at(j)]
  <2>1. CASE j < i
    BY <1>1, <1>3, <1>5, <2>1
  <2>2. CASE ~(j < i)
    BY <1>1, <1>3, <1>5, <1>6, <2>2
  <2> QED
    BY <2>1, <2>2
<1>7. i \in 1..Len(r) /\ r[i] = e
  BY <1>1, <1>3, <1>5
<1>8. \A j, k \in 1..Len(r) : j # i /\ k # i /\ at(j) = at(k) => j = k
  BY <1>1, <1>3, <1>5
<1>9. \A j \in 1..Len(q) : \E k \in 1..Len(r) : k # i /\ at(k) = j
  <2> TAKE j \in 1..Len(q)
  <2>1. CASE j < i
    BY <1>1, <1>3, <1>5, <2>1
  <2>2. CASE ~(j < i)
    <3>1. j + 1 \in 1..Len(r) /\ ~(j + 1 < i) /\ (j + 1) - 1 = j /\ j + 1 # i
      BY <1>1, <1>3, <1>5, <2>2
    <3> QED
      BY <3>1
  <2> QED
    BY <2>1, <2>2
<1> HIDE DEF at
<1>10. \A j \in 1..Len(r) : r[j].blk \in U \cup {c} /\ r[j].size =< d[r[j].blk]
  <2> TAKE j \in 1..Len(r)
  <2>1. CASE j = i
    BY <1>2, <1>7, <2>1
  <2>2. CASE j # i
    BY <1>1, <1>6, <2>2
  <2> QED
    BY <2>1, <2>2
<1>11. \A j \in 1..Len(r) : j # i => r[j].blk \in U
  BY <1>1, <1>6
<1>12. ASSUME NEW j \in 1..Len(r), NEW k \in 1..Len(r), r[j].blk = r[k].blk
       PROVE  j = k
  <2>1. CASE j = i \/ k = i
    BY <1>2, <1>7, <1>11, <1>12, <2>1
  <2>2. CASE j # i /\ k # i
    BY <1>1, <1>6, <1>8, <1>12, <2>2
  <2> QED
    BY <2>1, <2>2
<1>13. \A a \in U \cup {c} : \E j \in 1..Len(r) : r[j].blk = a
  <2> TAKE a \in U \cup {c}
  <2>1. CASE a = c
    BY <1>2, <1>7, <2>1
  <2>2. CASE a \in U
    <3>1. PICK j \in 1..Len(q) : q[j].blk = a
      BY <1>1, <2>2
    <3>2. PICK k \in 1..Len(r) : k # i /\ at(k) = j
      BY <1>9, <3>1
    <3> QED
      BY <1>6, <3>1, <3>2
  <2> QED
    BY <2>1, <2>2
<1> QED
  BY <1>5, <1>10, <1>12, <1>13 DEF Owns, r

\* The sizes matter only for the blocks that are held.
LEMMA OwnsSame ==
    ASSUME NEW q, NEW U, NEW d, Owns(q, U, d), NEW e, \A a \in U : e[a] = d[a]
    PROVE  Owns(q, U, e)
BY DEF Owns

-----------------------------------------------------------------------------
(* The calls *)

\* Dropping the headers that left the list changes nothing of it.
LEMMA InListKeeps ==
    ASSUME NEW h, NEW S, Sound(h, S), NEW g, g = InList(h)
    PROVE  /\ Sound(g, S) /\ DOMAIN g.hdr = S /\ Used(g, S) = Used(h, S)
           /\ \A a \in S : g.hdr[a] = h.hdr[a]
<1>1. /\ h \in Heap /\ IsFiniteSet(DOMAIN h.hdr) /\ Links(h, S) /\ S \subseteq 0..MaxBrk
      /\ S \subseteq DOMAIN h.hdr
  BY SoundFacts
<1>2. ToSet(Blocks(h)) = S
  BY <1>1, BlocksAre, MallocAssumption
<1> DEFINE f == [a \in S |-> h.hdr[a]]
<1>3. g = [h EXCEPT !.hdr = f]
  BY <1>2, Zenon DEF InList, Restrict
<1>4. f \in Headers
  <2>1. h.hdr \in Headers
    BY <1>1 DEF Heap
  <2>2. DOMAIN h.hdr \subseteq Nat /\ \A a \in DOMAIN h.hdr : h.hdr[a] \in Header
    BY <2>1, HeadersAre
  <2>3. f \in [S -> Header] /\ S \subseteq Nat
    BY <1>1, <2>2
  <2> QED
    BY <2>3 DEF Headers
<1>5. DOMAIN f = S /\ \A a \in S : f[a] = h.hdr[a]
  OBVIOUS
<1> HIDE DEF f
<1>6. /\ g \in Heap /\ g.hdr = f /\ g.start = h.start /\ g.pstart = h.pstart
      /\ g.pend = h.pend /\ g.brk = h.brk /\ g.fault = h.fault /\ g.refused = h.refused
  BY <1>1, <1>3, <1>4 DEF Heap
<1>7. IsFiniteSet(DOMAIN g.hdr)
  BY <1>1, <1>5, <1>6, FS_Subset
<1>8. Links(g, S)
  BY <1>1, <1>5, <1>6 DEF Links
<1>9. Chunk(g) /\ Layout(g, S) /\ NoTwoFree(g, S) /\ ~g.fault /\ ~g.refused
  BY <1>5, <1>6 DEF Sound, Chunk, Layout, NoTwoFree, End
<1>10. Used(g, S) = Used(h, S)
  BY <1>5, <1>6 DEF Used
<1> QED
  BY <1>5, <1>6, <1>7, <1>8, <1>9, <1>10 DEF Sound

\* A block that a careful client may free follows a free one only at the end.
LEMMA ChoosableIs ==
    ASSUME NEW S, Sound(heap, S), NEW b \in S, ~AbsorbedInside(b)
    PROVE  \A q \in S : heap.hdr[q].next = b /\ heap.hdr[q].isFree
                        => heap.hdr[b].next = NULL
<1> DEFINE l == Blocks(heap)
<1>1. /\ heap \in Heap /\ IsFiniteSet(DOMAIN heap.hdr) /\ Links(heap, S)
      /\ S \subseteq 0..MaxBrk
  BY SoundFacts
<1>2. /\ Enumerates(l, S)
      /\ \A i \in 1..Len(l) : heap.hdr[l[i]].next = IF i = Len(l) THEN NULL ELSE l[i + 1]
  BY <1>1, BlocksAre, MallocAssumption
<1>3. b # NULL
  BY <1>1 DEF Links
<1>4. ~(\E i \in 2..(Len(l) - 1) : l[i] = b /\ heap.hdr[l[i - 1]].isFree)
  BY DEF AbsorbedInside
<1> HIDE DEF l
<1>5. Len(l) \in Nat /\ \A a \in S : \E i \in 1..Len(l) : l[i] = a
  BY <1>2, LenProperties DEF Enumerates
<1> SUFFICES ASSUME NEW q \in S, heap.hdr[q].next = b, heap.hdr[q].isFree,
                    heap.hdr[b].next # NULL
             PROVE  FALSE
  OBVIOUS
<1>6. PICK j \in 1..Len(l) : l[j] = q
  BY <1>5
<1>7. j # Len(l) /\ l[j + 1] = b
  BY <1>2, <1>3, <1>6
<1>8. j + 1 \in 1..Len(l) /\ j + 1 # Len(l)
  BY <1>2, <1>5, <1>7
<1>9. j + 1 \in 2..(Len(l) - 1) /\ (j + 1) - 1 = j
  BY <1>5, <1>8
<1> QED
  BY <1>4, <1>6, <1>7, <1>9

\* At first there is nothing.
LEMMA InitIInv ==
    ASSUME FittingClient, Init
    PROVE  IInv
<1>1. /\ heap.hdr = <<>> /\ heap.start = NULL /\ heap.pstart = NULL /\ heap.pend = NULL
      /\ heap.brk = Base /\ heap.giveback \in BOOLEAN /\ heap.fault \in BOOLEAN
      /\ ~heap.fault /\ heap.refused \in BOOLEAN /\ ~heap.refused
      /\ heap = [hdr |-> heap.hdr, start |-> heap.start, pstart |-> heap.pstart,
                 pend |-> heap.pend, brk |-> heap.brk, giveback |-> heap.giveback,
                 fault |-> heap.fault, refused |-> heap.refused]
      /\ held = <<>> /\ calls = 0
  BY DEF Init
<1>2. DOMAIN heap.hdr = {}
  BY <1>1
<1>3. heap.hdr \in Headers
  <2>1. heap.hdr \in [{} -> Header] /\ {} \in SUBSET Nat
    BY <1>1
  <2> QED
    BY <2>1 DEF Headers
<1>4. heap \in Heap
  BY <1>1, <1>3, MallocAssumption DEF Heap, NULL
<1>5. IsFiniteSet(DOMAIN heap.hdr)
  BY <1>2, FS_EmptySet
<1>6. Links(heap, {})
  BY <1>1 DEF Links
<1>7. Chunk(heap) /\ Layout(heap, {}) /\ NoTwoFree(heap, {})
  BY <1>1, MallocAssumption DEF Chunk, Layout, NoTwoFree
<1>8. Sound(heap, DOMAIN heap.hdr)
  BY <1>1, <1>2, <1>4, <1>5, <1>6, <1>7 DEF Sound
<1>9. Holds(held, heap, DOMAIN heap.hdr)
  <2>1. held \in Seq(Block) /\ Len(held) = 0
    BY <1>1
  <2>2. 1..Len(held) = {} /\ Used(heap, DOMAIN heap.hdr) = {}
    BY <1>2, <2>1 DEF Used
  <2> QED
    BY <2>1, <2>2 DEF Holds, Owns
<1>10. Len(held) =< MaxHeld /\ calls \in 0..MaxCalls
  BY <1>1, MallocAssumption
<1> QED
  BY <1>8, <1>9, <1>10 DEF IInv, Kept

\* The client's blocks after a malloc,
LEMMA GainedHolds ==
    ASSUME NEW h, NEW S, NEW q, Holds(q, h, S), S \subseteq DOMAIN h.hdr,
           NEW t, NEW T, NEW c, NEW n \in Nat, Gained(h, S, t, T, c, n)
    PROVE  Kept(InList(t), Inserted(q, c, n)) /\ Len(Inserted(q, c, n)) = Len(q) + 1
<1> DEFINE g == InList(t)
           r == Inserted(q, c, n)
<1>g. g = InList(t)
  OBVIOUS
<1> HIDE DEF g
<1>1. /\ Sound(t, T) /\ c \notin Used(h, S) /\ Used(t, T) = Used(h, S) \cup {c}
      /\ n =< t.hdr[c].data_size
      /\ \A a \in Used(h, S) : t.hdr[a].data_size = h.hdr[a].data_size
  BY DEF Gained
<1>2. /\ Sound(g, T) /\ DOMAIN g.hdr = T /\ Used(g, T) = Used(t, T)
      /\ \A a \in T : g.hdr[a] = t.hdr[a]
  BY <1>1, <1>g, InListKeeps
<1>3. c \in T /\ Used(t, T) \subseteq T /\ T \subseteq Nat
  BY <1>1, SoundFacts DEF Used
<1>4. n =< Data(g)[c] /\ \A a \in Used(h, S) : Data(g)[a] = Data(h)[a]
  BY <1>1, <1>2, <1>3 DEF Data, Used
<1>5. Owns(q, Used(h, S), Data(g))
  BY <1>4, OwnsSame DEF Holds
<1>6. Owns(r, Used(h, S) \cup {c}, Data(g)) /\ Len(r) = Len(q) + 1
  <2>1. c \notin Used(h, S) /\ c \in Nat /\ n =< Data(g)[c]
    BY <1>1, <1>3, <1>4
  <2> QED
    BY <1>5, <2>1, OwnsInsert
<1> HIDE DEF r
<1>7. Kept(g, r)
  BY <1>1, <1>2, <1>6 DEF Holds, Kept
<1> QED
  BY <1>6, <1>7 DEF g, r

\* after a free,
LEMMA LostHolds ==
    ASSUME NEW h, NEW S, NEW q, Holds(q, h, S), S \subseteq DOMAIN h.hdr,
           NEW i \in 1..Len(q), NEW t, NEW T, Lost(h, S, t, T, q[i].blk)
    PROVE  Kept(InList(t), RemoveAt(q, i)) /\ Len(RemoveAt(q, i)) = Len(q) - 1
<1> DEFINE U == Used(h, S) \ {q[i].blk}
           g == InList(t)
           r == RemoveAt(q, i)
<1>g. g = InList(t) /\ r = RemoveAt(q, i)
  OBVIOUS
<1> HIDE DEF g, r
<1>1. /\ Sound(t, T) /\ Used(t, T) = U
      /\ \A a \in U : t.hdr[a].data_size = h.hdr[a].data_size
  BY DEF Lost
<1>2. /\ Sound(g, T) /\ DOMAIN g.hdr = T /\ Used(g, T) = Used(t, T)
      /\ \A a \in T : g.hdr[a] = t.hdr[a]
  BY <1>1, <1>g, InListKeeps
<1>3. \A a \in U : Data(g)[a] = Data(h)[a]
  BY <1>1, <1>2 DEF Data, Used
<1>4. Owns(r, U, Data(h)) /\ Len(r) = Len(q) - 1
  BY <1>g, OwnsRemove DEF Holds
<1> HIDE DEF U
<1>5. Owns(r, U, Data(g))
  BY <1>3, <1>4, OwnsSame
<1>6. Kept(g, r)
  BY <1>1, <1>2, <1>5 DEF Holds, Kept
<1> QED
  BY <1>4, <1>6 DEF g, r

\* and after a realloc that returned a block.
LEMMA MovedHolds ==
    ASSUME NEW h, NEW S, NEW q, Holds(q, h, S), S \subseteq DOMAIN h.hdr,
           NEW i \in 1..Len(q), NEW t, NEW T, NEW c, NEW n \in Nat,
           Moved(h, S, t, T, q[i].blk, c, n)
    PROVE  /\ Kept(InList(t), Inserted(RemoveAt(q, i), c, n))
           /\ Len(Inserted(RemoveAt(q, i), c, n)) = Len(q)
<1> DEFINE U == Used(h, S) \ {q[i].blk}
           p == RemoveAt(q, i)
           g == InList(t)
           r == Inserted(p, c, n)
<1>g. g = InList(t) /\ p = RemoveAt(q, i)
  OBVIOUS
<1> HIDE DEF g, p
<1>1. /\ Sound(t, T) /\ c \notin U /\ Used(t, T) = U \cup {c}
      /\ n =< t.hdr[c].data_size
      /\ \A a \in U : t.hdr[a].data_size = h.hdr[a].data_size
  BY DEF Moved
<1>2. /\ Sound(g, T) /\ DOMAIN g.hdr = T /\ Used(g, T) = Used(t, T)
      /\ \A a \in T : g.hdr[a] = t.hdr[a]
  BY <1>1, <1>g, InListKeeps
<1>3. c \in T /\ Used(t, T) \subseteq T /\ T \subseteq Nat
  BY <1>1, SoundFacts DEF Used
<1>4. n =< Data(g)[c] /\ \A a \in U : Data(g)[a] = Data(h)[a]
  BY <1>1, <1>2, <1>3 DEF Data, Used
<1>5. Owns(p, U, Data(h)) /\ Len(p) = Len(q) - 1
  BY <1>g, OwnsRemove DEF Holds
<1>6. Len(q) \in Nat
  BY LenProperties DEF Holds, Owns
<1> HIDE DEF U
<1>7. Owns(p, U, Data(g))
  BY <1>4, <1>5, OwnsSame
<1>8. Owns(r, U \cup {c}, Data(g)) /\ Len(r) = Len(p) + 1
  <2>1. c \notin U /\ c \in Nat /\ n =< Data(g)[c]
    BY <1>1, <1>3, <1>4
  <2> QED
    BY <1>7, <2>1, OwnsInsert
<1> HIDE DEF r
<1>9. Kept(g, r)
  BY <1>1, <1>2, <1>8 DEF Holds, Kept
<1> QED
  BY <1>5, <1>6, <1>8, <1>9 DEF g, p, r

\* What a call leaves when sbrk has not refused it.
LEMMA AfterIs ==
    ASSUME heap \in Heap, NEW h, heap' = After(h), ~heap'.refused
    PROVE  ~Refuses(h) /\ (~h.fault => heap' = InList(h))
<1>1. CASE h.fault
  <2>1. heap'.refused = h.refused
    BY <1>1 DEF After, Heap
  <2> QED
    BY <1>1, <2>1 DEF Refuses
<1>2. CASE ~h.fault
  <2>1. heap' = InList(h)
    BY <1>2 DEF After
  <2> DEFINE hdr == Restrict(h.hdr, ToSet(Blocks(h)))
  <2>2. heap' = [h EXCEPT !.hdr = hdr]
    BY <2>1 DEF InList
  <2> HIDE DEF hdr
  <2>3. ~Refuses(h)
    BY <2>2 DEF Refuses
  <2> QED
    BY <2>1, <2>3
<1> QED
  BY <1>1, <1>2

\* Every call keeps the invariant.
LEMMA NextIInv ==
    ASSUME FittingClient, IInv, [Next]_vars
    PROVE  IInv'
<1> SUFFICES ASSUME Next, ~heap'.refused PROVE IInv'
  BY DEF IInv, vars
<1> DEFINE S == DOMAIN heap.hdr
<1>a. ~heap.refused /\ ~heap.fault
  BY DEF Next, ClientMalloc, ClientFree, ClientRealloc, Calling
<1>1. /\ Sound(heap, S) /\ Holds(held, heap, S)
      /\ Len(held) =< MaxHeld /\ calls \in 0..MaxCalls /\ heap \in Heap
  BY <1>a DEF IInv, Kept, Sound
<1>2. /\ MaxHeld \in Nat /\ MaxCalls \in Nat /\ S \subseteq DOMAIN heap.hdr
      /\ Len(held) \in Nat /\ DOMAIN held = 1..Len(held)
      /\ \A i \in 1..Len(held) : held[i].blk \in Used(heap, S)
  BY <1>1, MallocAssumption, LenProperties DEF Holds, Owns
<1>3. \A size \in Sizes : size \in Nat /\ size % 16 = 0 /\ size + OFFSET =< NEW_MEM_BLK
  BY MallocAssumption DEF FittingClient
<1>4. ASSUME NEW i \in Choosable
      PROVE  /\ i \in 1..Len(held) /\ held[i].blk \in Used(heap, S)
             /\ \A q \in S : heap.hdr[q].next = held[i].blk /\ heap.hdr[q].isFree
                             => heap.hdr[held[i].blk].next = NULL
  <2>1. i \in 1..Len(held) /\ ~AbsorbedInside(held[i].blk)
    BY <1>2 DEF Choosable, FittingClient
  <2>2. held[i].blk \in Used(heap, S) /\ held[i].blk \in S
    BY <1>2, <2>1 DEF Used
  <2> QED
    BY <1>1, <2>1, <2>2, ChoosableIs
<1> HIDE DEF S
<1>5. ASSUME Kept(heap', held'), Len(held') =< MaxHeld, Calling
      PROVE  IInv'
  <2>1. calls' \in 0..MaxCalls
    BY <1>1, <1>2, <1>5 DEF Calling
  <2> QED
    BY <1>5, <2>1 DEF IInv
<1>6. CASE ClientMalloc
  <2>1. PICK size \in Sizes :
            /\ heap' = After(Malloc(heap, size).h)
            /\ held' = IF Malloc(heap, size).h.fault THEN held
                       ELSE Insert(held, [blk |-> Malloc(heap, size).blk, size |-> size])
    BY <1>6 DEF ClientMalloc
  <2> DEFINE r == Malloc(heap, size)
  <2>2. ~Refuses(r.h) /\ (~r.h.fault => heap' = InList(r.h))
    BY <1>1, <2>1, AfterIs
  <2>3. \E T : Gained(heap, S, r.h, T, r.blk, size)
    BY <1>1, <1>3, <2>2, MallocKeeps
  <2> HIDE DEF r
  <2>4. PICK T : Gained(heap, S, r.h, T, r.blk, size)
    BY <2>3
  <2>a. ~r.h.fault
    BY <2>4, SoundFacts DEF Gained
  <2>5. heap' = InList(r.h) /\ held' = Insert(held, [blk |-> r.blk, size |-> size])
    BY <2>1, <2>2, <2>a DEF r
  <2>6. Kept(heap', held') /\ Len(held') = Len(held) + 1
    <3>1. Holds(held, heap, S) /\ S \subseteq DOMAIN heap.hdr /\ size \in Nat
      BY <1>1, <1>2, <1>3
    <3>2. Kept(InList(r.h), Inserted(held, r.blk, size)) /\ Len(Inserted(held, r.blk, size)) = Len(held) + 1
      BY <2>4, <3>1, GainedHolds
    <3> QED
      BY <2>5, <3>2 DEF Inserted
  <2>7. Len(held) < MaxHeld /\ Calling
    BY <1>6 DEF ClientMalloc
  <2> QED
    BY <1>2, <1>5, <2>6, <2>7
<1>7. CASE ClientFree
  <2>1. PICK i \in Choosable : /\ heap' = After(Free(heap, held[i].blk))
                               /\ held' = RemoveAt(held, i)
    BY <1>7 DEF ClientFree
  <2> DEFINE t == Free(heap, held[i].blk)
  <2>2. \E T : Lost(heap, S, t, T, held[i].blk)
    BY <1>1, <1>4, FreeKeeps DEF FittingClient
  <2> HIDE DEF t
  <2>3. PICK T : Lost(heap, S, t, T, held[i].blk)
    BY <2>2
  <2>a. ~t.fault
    BY <2>3, SoundFacts DEF Lost
  <2>4. heap' = InList(t) /\ i \in 1..Len(held)
    BY <1>4, <2>1, <2>a DEF t, After
  <2>5. Kept(heap', held') /\ Len(held') = Len(held) - 1
    <3>1. /\ Holds(held, heap, S) /\ S \subseteq DOMAIN heap.hdr
          /\ i \in 1..Len(held)
      BY <1>1, <1>2, <2>4
    <3>2. Kept(InList(t), RemoveAt(held, i)) /\ Len(RemoveAt(held, i)) = Len(held) - 1
      BY <2>3, <3>1, LostHolds
    <3> QED
      BY <2>1, <2>4, <3>2
  <2>6. Calling
    BY <1>7 DEF ClientFree
  <2> QED
    BY <1>1, <1>2, <1>5, <2>5, <2>6
<1>8. CASE ClientRealloc
  <2>1. PICK i \in Choosable, size \in Sizes :
            /\ heap' = After(Realloc(heap, held[i].blk, size).h)
            /\ held' = IF Realloc(heap, held[i].blk, size).h.fault THEN held
                       ELSE IF size = 0 THEN RemoveAt(held, i)
                       ELSE Insert(RemoveAt(held, i),
                                   [blk |-> Realloc(heap, held[i].blk, size).blk,
                                    size |-> size])
    BY <1>8 DEF ClientRealloc
  <2> DEFINE r == Realloc(heap, held[i].blk, size)
  <2>2. ~Refuses(r.h) /\ (~r.h.fault => heap' = InList(r.h))
    BY <1>1, <2>1, AfterIs
  <2>3. IF size = 0 THEN \E T : Lost(heap, S, r.h, T, held[i].blk)
        ELSE \E T : Moved(heap, S, r.h, T, held[i].blk, r.blk, size)
    BY <1>1, <1>3, <1>4, <2>2, ReallocKeeps
  <2>a. ~r.h.fault
    BY <2>3, SoundFacts DEF Lost, Moved
  <2>4. /\ heap' = InList(r.h)
        /\ held' = IF size = 0 THEN RemoveAt(held, i)
                   ELSE Insert(RemoveAt(held, i), [blk |-> r.blk, size |-> size])
        /\ i \in 1..Len(held)
    BY <1>4, <2>1, <2>2, <2>a
  <2> HIDE DEF r
  <2>5. Calling
    BY <1>8 DEF ClientRealloc
  <2>6. CASE size = 0
    <3>1. PICK T : Lost(heap, S, r.h, T, held[i].blk)
      BY <2>3, <2>6
    <3>2. held' = RemoveAt(held, i)
      BY <2>4, <2>6
    <3>3. Kept(heap', held') /\ Len(held') = Len(held) - 1
      <4>1. /\ Holds(held, heap, S) /\ S \subseteq DOMAIN heap.hdr
            /\ i \in 1..Len(held)
        BY <1>1, <1>2, <2>4
      <4>2. Kept(InList(r.h), RemoveAt(held, i)) /\ Len(RemoveAt(held, i)) = Len(held) - 1
        BY <3>1, <4>1, LostHolds
      <4> QED
        BY <2>4, <3>2, <4>2
    <3> QED
      BY <1>1, <1>2, <1>5, <2>5, <3>3
  <2>7. CASE size # 0
    <3>1. PICK T : Moved(heap, S, r.h, T, held[i].blk, r.blk, size)
      BY <2>3, <2>7
    <3>2. held' = Insert(RemoveAt(held, i), [blk |-> r.blk, size |-> size])
      BY <2>4, <2>7
    <3>3. Kept(heap', held') /\ Len(held') = Len(held)
      <4>1. /\ Holds(held, heap, S) /\ S \subseteq DOMAIN heap.hdr
            /\ i \in 1..Len(held) /\ size \in Nat
        BY <1>1, <1>2, <1>3, <2>4
      <4> DEFINE x == Inserted(RemoveAt(held, i), r.blk, size)
      <4>2. Kept(InList(r.h), x) /\ Len(x) = Len(held)
        BY <3>1, <4>1, MovedHolds
      <4>3. held' = x
        BY <3>2 DEF Inserted
      <4> QED
        BY <2>4, <4>2, <4>3
    <3> QED
      BY <1>1, <1>5, <2>5, <3>3
  <2> QED
    BY <2>6, <2>7
<1> QED
  BY <1>6, <1>7, <1>8 DEF Next

-----------------------------------------------------------------------------
(* What the invariant says *)

\* The sequence l is the list of the blocks in S, as the links of h have it.
IsList(h, l, S) ==
    /\ Enumerates(l, S) /\ ToSet(l) = S
    /\ Len(l) \in Nat /\ DOMAIN l = 1..Len(l)
    /\ \A i \in 1..Len(l) : h.hdr[l[i]].next = IF i = Len(l) THEN NULL ELSE l[i + 1]

\* The list of a sound heap.
LEMMA ListIs ==
    ASSUME IInv, ~heap.refused
    PROVE  IsList(heap, Blocks(heap), DOMAIN heap.hdr)
<1> DEFINE S == DOMAIN heap.hdr
           l == Blocks(heap)
<1>1. /\ heap \in Heap /\ IsFiniteSet(S) /\ Links(heap, S) /\ S \subseteq 0..MaxBrk
  BY SoundFacts DEF IInv, Kept
<1>2. /\ Enumerates(l, S) /\ ToSet(l) = S
      /\ \A i \in 1..Len(l) : heap.hdr[l[i]].next = IF i = Len(l) THEN NULL ELSE l[i + 1]
  BY <1>1, BlocksAre, MallocAssumption
<1> HIDE DEF l
<1>3. Len(l) \in Nat /\ DOMAIN l = 1..Len(l)
  BY <1>2, LenProperties DEF Enumerates
<1>4. IsList(heap, l, S)
  BY <1>2, <1>3, Zenon DEF IsList
<1> QED
  BY <1>4 DEF l

\* The blocks the client holds are blocks in use, each once.
LEMMA HeldAre ==
    ASSUME IInv, ~heap.refused
    PROVE  /\ DOMAIN held = 1..Len(held) /\ Len(held) \in Nat
           /\ \A i \in DOMAIN held :
                /\ held[i].blk \in DOMAIN heap.hdr /\ ~heap.hdr[held[i].blk].isFree
                /\ held[i].size \in Nat
                /\ held[i].size =< heap.hdr[held[i].blk].data_size
           /\ \A i, j \in DOMAIN held : held[i].blk = held[j].blk => i = j
           /\ \A a \in DOMAIN heap.hdr :
                ~heap.hdr[a].isFree => \E i \in DOMAIN held : held[i].blk = a
<1>1. Owns(held, Used(heap, DOMAIN heap.hdr), Data(heap))
  BY DEF IInv, Kept, Holds
<1>2. DOMAIN held = 1..Len(held) /\ Len(held) \in Nat /\ held \in Seq(Block)
  BY <1>1, LenProperties DEF Owns
<1>3. \A i \in DOMAIN held : held[i].size \in Nat
  <2> TAKE i \in DOMAIN held
  <2>1. held[i] \in Block
    BY <1>2
  <2> QED
    BY <2>1 DEF Block
<1> QED
  BY <1>1, <1>2, <1>3 DEF Owns, Used, Data

\* What the client holds is its own.
LEMMA IInvHeldIsSound ==
    ASSUME IInv
    PROVE  HeldIsSound
<1> SUFFICES ASSUME ~heap.refused PROVE HeldIsSound
  BY DEF HeldIsSound
<1> DEFINE S == DOMAIN heap.hdr
<1>1. /\ ~heap.fault /\ ~heap.refused /\ heap.pstart \in Nat
      /\ \A a \in S : /\ a \in Nat /\ Base =< a /\ heap.hdr[a].data_size \in Nat
                      /\ a < End(heap, a) /\ End(heap, a) =< heap.pstart
                      /\ End(heap, a) \in Nat
  BY SoundFacts DEF IInv, Kept
<1>2. Chunk(heap) /\ Layout(heap, S)
  BY DEF IInv, Kept, Sound
<1>3. OFFSET \in Nat /\ OFFSET > 0 /\ Base \in Nat /\ Base > 0
  BY MallocAssumption
<1>4. ToSet(Blocks(heap)) = S
  BY ListIs, Zenon DEF IsList
<1>5. \A a, b \in S : a # b => End(heap, a) =< b \/ End(heap, b) =< a
  BY <1>1, <1>2 DEF Layout
<1>6. \A a \in S : heap.pstart =< heap.pend /\ heap.pend = heap.brk
  BY <1>1, <1>2, <1>3 DEF Chunk, NULL
<1>7. ASSUME NEW i \in DOMAIN held
      PROVE  /\ held[i].blk \in S /\ ~heap.hdr[held[i].blk].isFree
             /\ held[i].blk + OFFSET + held[i].size \in Nat
             /\ held[i].blk + OFFSET + held[i].size =< End(heap, held[i].blk)
  <2>1. /\ held[i].blk \in S /\ ~heap.hdr[held[i].blk].isFree /\ held[i].size \in Nat
        /\ held[i].size =< heap.hdr[held[i].blk].data_size
    BY HeldAre
  <2>2. held[i].blk \in Nat /\ heap.hdr[held[i].blk].data_size \in Nat
    BY <1>1, <2>1
  <2> QED
    BY <1>3, <2>1, <2>2 DEF End
<1>8. ASSUME NEW i \in DOMAIN held
      PROVE  /\ held[i].blk >= Base
             /\ held[i].blk + OFFSET + held[i].size =< heap.pstart
             /\ heap.pstart =< heap.pend /\ heap.pend = heap.brk
  BY <1>1, <1>3, <1>6, <1>7
<1>9. ASSUME NEW i \in DOMAIN held, NEW j \in DOMAIN held \ {i}
      PROVE  \/ held[i].blk + OFFSET + held[i].size =< held[j].blk
             \/ held[j].blk + OFFSET + held[j].size =< held[i].blk
  <2> DEFINE a == held[i].blk
             b == held[j].blk
  <2>1. a # b
    BY HeldAre
  <2>2. End(heap, a) =< b \/ End(heap, b) =< a
    BY <1>5, <1>7, <2>1
  <2>3. /\ a \in Nat /\ b \in Nat /\ End(heap, a) \in Nat /\ End(heap, b) \in Nat
        /\ a + OFFSET + held[i].size \in Nat /\ b + OFFSET + held[j].size \in Nat
        /\ a + OFFSET + held[i].size =< End(heap, a)
        /\ b + OFFSET + held[j].size =< End(heap, b)
    BY <1>1, <1>7
  <2> QED
    BY <2>2, <2>3
<1>10. ASSUME NEW i \in DOMAIN held, NEW f \in S, heap.hdr[f].isFree
       PROVE  \/ held[i].blk + OFFSET + held[i].size =< f
              \/ f + OFFSET + heap.hdr[f].data_size =< held[i].blk
  <2> DEFINE a == held[i].blk
  <2>1. a # f
    BY <1>7, <1>10
  <2>2. End(heap, a) =< f \/ End(heap, f) =< a
    BY <1>5, <1>7, <2>1
  <2>3. /\ a \in Nat /\ f \in Nat /\ End(heap, a) \in Nat /\ End(heap, f) \in Nat
        /\ a + OFFSET + held[i].size \in Nat
        /\ a + OFFSET + held[i].size =< End(heap, a)
        /\ End(heap, f) = f + OFFSET + heap.hdr[f].data_size
    BY <1>1, <1>7 DEF End
  <2> QED
    BY <2>2, <2>3
<1> HIDE DEF S
<1> QED
  BY <1>1, <1>4, <1>8, <1>9, <1>10 DEF HeldIsSound

\* The types, with the sizes bounded by the break.
LEMMA IInvTypeOK ==
    ASSUME IInv, ~heap.refused
    PROVE  MallocTypeOK
<1> DEFINE S == DOMAIN heap.hdr
<1>1. /\ heap \in Heap /\ Links(heap, S)
      /\ heap.pstart \in Nat /\ heap.pend \in Nat /\ heap.brk \in Nat
      /\ heap.pstart =< heap.brk /\ heap.brk =< MaxBrk
      /\ \A a \in S : /\ a \in Nat /\ heap.hdr[a].data_size \in Nat
                      /\ End(heap, a) =< heap.pstart /\ End(heap, a) \in Nat
                      /\ Follows(S, a, heap.hdr[a].next)
  BY SoundFacts DEF IInv, Kept
<1>2. Chunk(heap)
  BY DEF IInv, Kept, Sound
<1>3. OFFSET \in Nat /\ MaxBrk \in Nat /\ WORD \in Nat /\ MaxBrk < WORD
  BY MallocAssumption
<1>4. /\ heap.hdr \in Headers
      /\ {heap.giveback, heap.fault, heap.refused} \subseteq BOOLEAN
  BY <1>1 DEF Heap
<1>5. ASSUME NEW a \in S
      PROVE  heap.hdr[a] \in [data_size : 0..MaxBrk, isFree : BOOLEAN, next : {NULL} \cup S]
  <2>1. heap.hdr[a] \in Header
    BY <1>4, HeadersAre
  <2>2. heap.hdr[a].data_size =< End(heap, a)
    BY <1>1, <1>3 DEF End
  <2>3. heap.hdr[a].data_size \in 0..MaxBrk
    BY <1>1, <1>3, <2>2
  <2>4. heap.hdr[a].next \in {NULL} \cup S
    BY <1>1 DEF Follows
  <2> QED
    BY <2>1, <2>3, <2>4 DEF Header
<1>6. heap.start \in {NULL} \cup S
  BY <1>1 DEF Links
<1>7. {heap.pstart, heap.pend, heap.brk} \subseteq 0..(WORD - 1)
  BY <1>1, <1>2, <1>3 DEF Chunk, NULL
<1>8. Len(held) =< MaxHeld /\ calls \in 0..MaxCalls
  BY DEF IInv
<1> QED
  BY <1>4, <1>5, <1>6, <1>7, <1>8 DEF MallocTypeOK

\* The list is the heap, in the order of the addresses.
LEMMA IInvListIsHeap ==
    ASSUME IInv
    PROVE  ListIsHeap
<1> SUFFICES ASSUME ~heap.refused PROVE ListIsHeap
  BY DEF ListIsHeap
<1> DEFINE l == Blocks(heap)
           S == DOMAIN heap.hdr
<1>1. Enumerates(l, S) /\ ToSet(l) = S /\ DOMAIN l = 1..Len(l)
  BY ListIs, Zenon DEF IsList
<1>2. {b \in S : ~heap.hdr[b].isFree} = {h.blk : h \in ToSet(held)}
  BY HeldAre DEF ToSet
<1>3. \A i, j \in DOMAIN l : i < j => l[i] < l[j]
  BY <1>1 DEF Enumerates
<1>4. MallocTypeOK
  BY IInvTypeOK
<1> QED
  BY <1>1, <1>2, <1>3, <1>4 DEF ListIsHeap

\* No two neighbours of the list are free.
LEMMA IInvMergedAll ==
    ASSUME IInv
    PROVE  MergedAll
<1> SUFFICES ASSUME ~heap.refused PROVE MergedAll
  BY DEF MergedAll
<1> DEFINE l == Blocks(heap)
           S == DOMAIN heap.hdr
<1>1. /\ Enumerates(l, S) /\ Len(l) \in Nat
      /\ \A i \in 1..Len(l) : heap.hdr[l[i]].next = IF i = Len(l) THEN NULL ELSE l[i + 1]
  BY ListIs, Zenon DEF IsList
<1>2. NoTwoFree(heap, S)
  BY DEF IInv, Kept, Sound
<1> HIDE DEF l
<1>3. ASSUME NEW i \in 1..(Len(l) - 1)
      PROVE  ~(heap.hdr[l[i]].isFree /\ heap.hdr[l[i + 1]].isFree)
  <2>1. i \in 1..Len(l) /\ i # Len(l) /\ i + 1 \in 1..Len(l)
    BY <1>1
  <2>2. l[i] \in S /\ l[i + 1] \in S /\ heap.hdr[l[i]].next = l[i + 1]
    BY <1>1, <2>1 DEF Enumerates
  <2> QED
    BY <1>2, <2>2 DEF NoTwoFree
<1> QED
  BY <1>3 DEF MergedAll, l

-----------------------------------------------------------------------------
(* The theorems *)

\* The inductive invariant holds in every state a fitting client reaches.
THEOREM MallocSound == FittingClient => (Spec => []IInv)
<1> SUFFICES ASSUME FittingClient PROVE Spec => []IInv
  OBVIOUS
<1>1. Init => IInv
  BY InitIInv
<1>2. IInv /\ [Next]_vars => IInv'
  BY NextIInv
<1> QED
  BY <1>1, <1>2, PTL DEF Spec

\* Through any sequence of malloc, free and realloc, what the client holds is
\* its own: below the break, without overlap with another held block, a free
\* block or the pending memory (malloc.c:77-173, 250-295, 366-396), up to the
\* call on which sbrk refuses (malloc.c:180); no other call can fault.
THEOREM MallocHeldSound == FittingClient => (Spec => []HeldIsSound)
<1>1. IInv => HeldIsSound
  BY IInvHeldIsSound
<1> QED
  BY <1>1, MallocSound, PTL

\* No block drops off the list: those in use are the ones the client holds, and
\* the list is in the order of the addresses (malloc.c:297-312), up to the call
\* on which sbrk refuses.
THEOREM MallocListIsHeap == FittingClient => (Spec => []ListIsHeap)
<1>1. IInv => ListIsHeap
  BY IInvListIsHeap
<1> QED
  BY <1>1, MallocSound, PTL

\* The one pass of merge_adj_open_blks leaves no two free neighbours, for as
\* long as no block between others is freed after a free one (malloc.c:265-295)
\* and sbrk refuses nothing.
THEOREM MallocMergedAll == FittingClient => (Spec => []MergedAll)
<1>1. IInv => MergedAll
  BY IInvMergedAll
<1> QED
  BY <1>1, MallocSound, PTL

=============================================================================
