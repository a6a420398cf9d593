--------------------------- MODULE MfsCache_proofs ---------------------------
(***************************************************************************)
(* Proofs about the block cache of the MINIX file server, for any number   *)
(* of buffers, blocks, requests and faults: its chains are whole (the first *)
(* part), and the cache, its driver and VM's cache together are one store  *)
(* of blocks, all of which sync writes (the second).                       *)
(***************************************************************************)
EXTENDS MfsCache, TLAPS, FiniteSetTheorems, SequenceTheorems, WellFoundedInduction

(***************************************************************************)
(* The records the cache is made of.                                       *)
(***************************************************************************)
Buffer == [dev : {NO_DEV, Disk, Ram}, blk : Nat, count : Nat,
           dirt : {"CLEAN", "DIRTY"}, data : Values \cup {Unknown}]
Hashes == 0..(NrBufs - 1)
Cache == [buf : [Buffers -> Buffer], lru : Seq(Buffers), hash : [Hashes -> Seq(Buffers)],
          inuse : Int, disk : [Ids -> Values], vm : [Ids -> Values \cup {Unknown}],
          drv : [{Disk, Ram} -> {"up", "dead", "none"}], bad : SUBSET Ids,
          rdwt_err : {"OK", "EIO"}, lostdev : SUBSET {Disk, Ram}, most : Nat]

(***************************************************************************)
(* The inductive invariant: the chains list what they should, each buffer  *)
(* once, the names are those of blocks, each once, and what has a name has *)
(* a content.                                                              *)
(***************************************************************************)
Lists(l, S) ==
    /\ l \in Seq(Buffers)
    /\ \A m, n \in 1..Len(l) : l[m] = l[n] => m = n
    /\ \A n \in 1..Len(l) : l[n] \in S
    /\ \A i \in S : \E n \in 1..Len(l) : l[n] = i

OfHash(buf, h) == {i \in Buffers : BUFHASH(buf[i].blk) = h}
Idle(buf) == {i \in Buffers : buf[i].count = 0}
Busy(buf) == {i \in Buffers : buf[i].count # 0}

Chained(buf, hash) == \A h \in Hashes : Lists(hash[h], OfHash(buf, h))

Counted(buf, lru, inuse) == Lists(lru, Idle(buf)) /\ inuse = Cardinality(Busy(buf))

Named(buf) ==
    \A i \in Buffers : buf[i].dev # NO_DEV =>
        /\ Id(buf[i]) \in Ids
        /\ \A j \in Buffers : Id(buf[i]) = Id(buf[j]) => i = j

Filled(buf, X) ==
    \A i \in Buffers \ X : buf[i].dev # NO_DEV => buf[i].data \in Values

Good(s, X) ==
    /\ s \in Cache /\ Chained(s.buf, s.hash) /\ Counted(s.buf, s.lru, s.inuse)
    /\ Named(s.buf) /\ Filled(s.buf, X)

(***************************************************************************)
(* Between two requests the buffers in use are those that one keeps.       *)
(***************************************************************************)
Takes(q) == [i \in Buffers |-> IF \E n \in 1..Len(q) : q[n] = i THEN 1 ELSE 0]
Counts(s) == [i \in Buffers |-> s.buf[i].count]

IInv ==
    /\ Good(c, {}) /\ Counts(c) = Takes(held)
    /\ held \in Seq(Buffers) /\ Len(held) =< 1
    /\ failed \subseteq {Disk, Ram}

-----------------------------------------------------------------------------
(* The chains *)

\* A chain without one of its buffers.
LEMMA UnlinkedIs ==
    ASSUME NEW l, NEW S, Lists(l, S), NEW b \in S
    PROVE  Lists(Unlinked(l, b), S \ {b})
<1> DEFINE k == CHOOSE n \in DOMAIN l : l[n] = b
           x == SubSeq(l, 1, k - 1)
           y == SubSeq(l, k + 1, Len(l))
           r == RemoveAt(l, k)
<1>1. /\ l \in Seq(Buffers) /\ Len(l) \in Nat /\ DOMAIN l = 1..Len(l)
      /\ \A m, n \in 1..Len(l) : l[m] = l[n] => m = n
      /\ \A n \in 1..Len(l) : l[n] \in S
      /\ \A i \in S : \E n \in 1..Len(l) : l[n] = i
  BY LenProperties DEF Lists
<1>2. k \in 1..Len(l) /\ l[k] = b
  BY <1>1
<1> HIDE DEF k
<1>3. x \in Seq(Buffers) /\ Len(x) = k - 1 /\ \A n \in 1..(k - 1) : x[n] = l[n]
  BY <1>1, <1>2, SubSeqProperties
<1>4. /\ y \in Seq(Buffers) /\ Len(y) = Len(l) - k
      /\ \A n \in 1..(Len(l) - k) : y[n] = l[n + k]
  <2>1. k + 1 \in 1..(Len(l) + 1) /\ Len(l) \in k..Len(l)
    BY <1>1, <1>2
  <2>2. /\ y \in Seq(Buffers) /\ Len(y) = Len(l) - (k + 1) + 1
        /\ \A n \in 1..(Len(l) - (k + 1) + 1) : y[n] = l[(k + 1) + n - 1]
    BY <1>1, <2>1, SubSeqProperties
  <2>3. Len(l) - (k + 1) + 1 = Len(l) - k
    BY <1>1, <1>2
  <2>4. \A n \in 1..(Len(l) - k) : (k + 1) + n - 1 = n + k
    BY <1>1, <1>2
  <2> HIDE DEF y
  <2> QED
    BY <2>2, <2>3, <2>4
<1> HIDE DEF x, y
<1>5. /\ r \in Seq(Buffers) /\ Len(r) = Len(l) - 1
      /\ \A n \in 1..(Len(l) - 1) : r[n] = IF n =< k - 1 THEN x[n] ELSE y[n - (k - 1)]
  <2>1. /\ x \o y \in Seq(Buffers) /\ Len(x \o y) = Len(x) + Len(y)
        /\ \A n \in 1..(Len(x) + Len(y)) :
                (x \o y)[n] = IF n =< Len(x) THEN x[n] ELSE y[n - Len(x)]
    BY <1>3, <1>4, ConcatProperties
  <2>2. Len(x) + Len(y) = Len(l) - 1 /\ Len(x) = k - 1
    BY <1>1, <1>2, <1>3, <1>4
  <2>3. r = x \o y
    BY DEF RemoveAt, x, y
  <2> HIDE DEF r
  <2> QED
    BY <2>1, <2>2, <2>3
<1> HIDE DEF r
<1>6. \A n \in 1..(Len(l) - 1) : r[n] = IF n < k THEN l[n] ELSE l[n + 1]
  <2> TAKE n \in 1..(Len(l) - 1)
  <2>1. CASE n < k
    BY <1>1, <1>2, <1>3, <1>5, <2>1
  <2>2. CASE ~(n < k)
    <3>1. n - (k - 1) \in 1..(Len(l) - k) /\ (n - (k - 1)) + k = n + 1
      BY <1>1, <1>2, <2>2
    <3> QED
      BY <1>1, <1>2, <1>4, <1>5, <2>2, <3>1
  <2> QED
    BY <2>1, <2>2
<1>7. ASSUME NEW m \in 1..Len(r), NEW n \in 1..Len(r), r[m] = r[n] PROVE m = n
  <2> DEFINE at(p) == IF p < k THEN p ELSE p + 1
  <2>1. \A p \in 1..Len(r) : at(p) \in 1..Len(l) /\ r[p] = l[at(p)]
    BY <1>1, <1>2, <1>5, <1>6
  <2>2. l[at(m)] = l[at(n)] /\ at(m) \in 1..Len(l) /\ at(n) \in 1..Len(l)
    BY <1>7, <2>1
  <2>3. at(m) = at(n)
    BY ONLY <1>1, <2>2
  <2> QED
    BY <1>1, <1>2, <1>5, <2>3
<1>8. \A n \in 1..Len(r) : r[n] \in S \ {b}
  BY <1>1, <1>2, <1>5, <1>6
<1>9. ASSUME NEW i \in S \ {b} PROVE \E n \in 1..Len(r) : r[n] = i
  <2>1. PICK n \in 1..Len(l) : l[n] = i
    BY <1>1
  <2>2. CASE n < k
    BY <1>1, <1>2, <1>5, <1>6, <2>1, <2>2
  <2>3. CASE n > k
    <3>1. n - 1 \in 1..Len(r) /\ r[n - 1] = l[n]
      BY <1>1, <1>2, <1>5, <1>6, <2>3
    <3> QED
      BY <2>1, <3>1
  <2>4. n # k
    BY <1>2, <2>1
  <2> QED
    BY <1>2, <2>2, <2>3, <2>4
<1>10. Unlinked(l, b) = r
  BY DEF Unlinked, r, k
<1> QED
  BY <1>5, <1>7, <1>8, <1>9, <1>10 DEF Lists

\* A chain with another buffer in front,
LEMMA InFront ==
    ASSUME NEW l, NEW S, Lists(l, S), NEW b \in Buffers, b \notin S
    PROVE  Lists(<<b>> \o l, S \cup {b})
<1> DEFINE r == <<b>> \o l
<1>1. /\ l \in Seq(Buffers) /\ Len(l) \in Nat
      /\ \A m, n \in 1..Len(l) : l[m] = l[n] => m = n
      /\ \A n \in 1..Len(l) : l[n] \in S
      /\ \A i \in S : \E n \in 1..Len(l) : l[n] = i
  BY LenProperties DEF Lists
<1>2. /\ r \in Seq(Buffers) /\ Len(r) = Len(l) + 1
      /\ \A n \in 1..(Len(l) + 1) : r[n] = IF n = 1 THEN b ELSE l[n - 1]
  <2>1. <<b>> \in Seq(Buffers) /\ Len(<<b>>) = 1 /\ <<b>>[1] = b
    OBVIOUS
  <2>2. /\ r \in Seq(Buffers) /\ Len(r) = 1 + Len(l)
        /\ \A n \in 1..(1 + Len(l)) : r[n] = IF n =< 1 THEN <<b>>[n] ELSE l[n - 1]
    BY <1>1, <2>1, ConcatProperties
  <2> HIDE DEF r
  <2>3. \A n \in 1..(Len(l) + 1) : n =< 1 <=> n = 1
    BY <1>1
  <2> QED
    BY <1>1, <2>1, <2>2, <2>3
<1> HIDE DEF r
<1>3. ASSUME NEW m \in 1..Len(r), NEW n \in 1..Len(r), r[m] = r[n] PROVE m = n
  <2>1. \A p \in 1..Len(r) : p = 1 \/ (p - 1 \in 1..Len(l) /\ r[p] = l[p - 1])
    BY <1>1, <1>2
  <2>2. r[1] = b /\ \A p \in 1..Len(l) : l[p] # b
    BY <1>1, <1>2
  <2>3. CASE m = 1 \/ n = 1
    BY <1>3, <2>1, <2>2, <2>3
  <2>4. CASE m # 1 /\ n # 1
    <3>1. l[m - 1] = l[n - 1] /\ m - 1 \in 1..Len(l) /\ n - 1 \in 1..Len(l)
      BY <1>3, <2>1, <2>4
    <3>2. m - 1 = n - 1
      BY ONLY <1>1, <3>1
    <3> QED
      BY <1>1, <1>2, <3>2
  <2> QED
    BY <2>3, <2>4
<1>4. ASSUME NEW n \in 1..Len(r) PROVE r[n] \in S \cup {b}
  <2>1. n = 1 \/ n - 1 \in 1..Len(l)
    BY <1>1, <1>2
  <2>2. CASE n = 1
    BY <1>1, <1>2, <2>2
  <2>3. CASE n # 1
    <3>1. r[n] = l[n - 1]
      BY <1>2, <2>3
    <3> QED
      BY <1>1, <2>1, <2>3, <3>1
  <2> QED
    BY <2>2, <2>3
<1>5. ASSUME NEW i \in S \cup {b} PROVE \E n \in 1..Len(r) : r[n] = i
  <2>1. CASE i = b
    <3>1. 1 \in 1..Len(r) /\ r[1] = b
      BY <1>1, <1>2
    <3> QED
      BY <2>1, <3>1
  <2>2. CASE i \in S
    <3>1. PICK n \in 1..Len(l) : l[n] = i
      BY <1>1, <2>2
    <3>2. n + 1 \in 1..Len(r) /\ r[n + 1] = l[n]
      BY <1>1, <1>2
    <3> QED
      BY <3>1, <3>2
  <2> QED
    BY <2>1, <2>2
<1> QED
  BY <1>2, <1>3, <1>4, <1>5 DEF Lists, r

\* and with one at the rear.
LEMMA AtRear ==
    ASSUME NEW l, NEW S, Lists(l, S), NEW b \in Buffers, b \notin S
    PROVE  Lists(Append(l, b), S \cup {b})
<1> DEFINE r == Append(l, b)
<1>1. /\ l \in Seq(Buffers) /\ Len(l) \in Nat
      /\ \A m, n \in 1..Len(l) : l[m] = l[n] => m = n
      /\ \A n \in 1..Len(l) : l[n] \in S
      /\ \A i \in S : \E n \in 1..Len(l) : l[n] = i
  BY LenProperties DEF Lists
<1>2. /\ r \in Seq(Buffers) /\ Len(r) = Len(l) + 1
      /\ \A n \in 1..Len(l) : r[n] = l[n]
      /\ r[Len(l) + 1] = b
  BY <1>1, AppendProperties
<1> HIDE DEF r
<1>3. \A m, n \in 1..Len(r) : r[m] = r[n] => m = n
  <2>1. \A m, n \in 1..Len(r) : m = Len(l) + 1 \/ m \in 1..Len(l)
    BY <1>1, <1>2
  <2> QED
    BY <1>1, <1>2, <2>1
<1>4. ASSUME NEW n \in 1..Len(r) PROVE r[n] \in S \cup {b}
  <2>1. n = Len(l) + 1 \/ n \in 1..Len(l)
    BY <1>1, <1>2
  <2> QED
    BY <1>1, <1>2, <2>1
<1>5. ASSUME NEW i \in S \cup {b} PROVE \E n \in 1..Len(r) : r[n] = i
  <2>1. CASE i = b
    <3>1. Len(l) + 1 \in 1..Len(r)
      BY <1>1, <1>2
    <3> QED
      BY <1>2, <2>1, <3>1
  <2>2. CASE i \in S
    <3>1. PICK n \in 1..Len(l) : l[n] = i
      BY <1>1, <2>2
    <3>2. n \in 1..Len(r) /\ r[n] = i
      BY <1>1, <1>2, <3>1
    <3> QED
      BY <3>2
  <2> QED
    BY <2>1, <2>2
<1> QED
  BY <1>2, <1>3, <1>4, <1>5 DEF Lists, r

\* The buffer at the front is on the chain.
LEMMA HeadIs ==
    ASSUME NEW l, NEW S, Lists(l, S), l # <<>>
    PROVE  Head(l) \in S
<1>1. l \in Seq(Buffers) /\ Len(l) \in Nat /\ (Len(l) = 0 <=> l = <<>>)
  BY LenProperties, EmptySeq DEF Lists
<1>2. 1 \in 1..Len(l)
  BY <1>1
<1>3. Head(l) = l[1]
  BY <1>1, HeadTailProperties
<1> QED
  BY <1>2, <1>3 DEF Lists

\* A chain is as long as there are buffers on it.
LEMMA ChainLength ==
    ASSUME NEW l, NEW S, Lists(l, S)
    PROVE  IsFiniteSet(S) /\ Cardinality(S) = Len(l)
<1>1. /\ l \in Seq(Buffers) /\ Len(l) \in Nat /\ l \in [1..Len(l) -> Buffers]
      /\ \A m, n \in 1..Len(l) : l[m] = l[n] => m = n
      /\ \A n \in 1..Len(l) : l[n] \in S
      /\ \A i \in S : \E n \in 1..Len(l) : l[n] = i
  BY LenProperties DEF Lists
<1>2. l \in [1..Len(l) -> S]
  BY <1>1
<1>3. ExistsBijection(1..Len(l), S)
  <2>1. l \in Injection(1..Len(l), S)
    BY <1>1, <1>2 DEF Injection, IsInjective
  <2>2. l \in Surjection(1..Len(l), S)
    BY <1>1, <1>2 DEF Surjection
  <2> QED
    BY <2>1, <2>2 DEF ExistsBijection, Bijection
<1>4. IsFiniteSet(1..Len(l)) /\ Cardinality(1..Len(l)) = Len(l)
  <2>1. IsFiniteSet(1..Len(l)) /\ Cardinality(1..Len(l)) = IF 1 > Len(l) THEN 0 ELSE Len(l) - 1 + 1
    BY <1>1, FS_Interval
  <2> QED
    BY <1>1, <2>1
<1> QED
  BY <1>3, <1>4, FS_Bijection

-----------------------------------------------------------------------------
(* States that differ in contents, dirt and lost names *)

Alike(s, t) ==
    /\ t \in Cache /\ t.lru = s.lru /\ t.hash = s.hash /\ t.inuse = s.inuse
    /\ \A i \in Buffers : /\ t.buf[i].blk = s.buf[i].blk /\ t.buf[i].count = s.buf[i].count
                          /\ t.buf[i].dev = s.buf[i].dev \/ t.buf[i].dev = NO_DEV

Loses(s, t) ==
    Alike(s, t) /\ \A i \in Buffers : t.buf[i].data = s.buf[i].data

\* The types of the fields,
LEMMA Fields ==
    ASSUME NEW s \in Cache
    PROVE  /\ s.buf \in [Buffers -> Buffer] /\ s.lru \in Seq(Buffers)
           /\ s.hash \in [Hashes -> Seq(Buffers)] /\ s.inuse \in Int
           /\ s.disk \in [Ids -> Values] /\ s.vm \in [Ids -> Values \cup {Unknown}]
           /\ s.drv \in [{Disk, Ram} -> {"up", "dead", "none"}] /\ s.bad \subseteq Ids
           /\ s.rdwt_err \in {"OK", "EIO"} /\ s.lostdev \subseteq {Disk, Ram}
           /\ s.most \in Nat
BY DEF Cache

\* and of those of a buffer.
LEMMA BufferFields ==
    ASSUME NEW s \in Cache, NEW i \in Buffers
    PROVE  /\ s.buf[i] \in Buffer
           /\ s.buf[i].dev \in {NO_DEV, Disk, Ram} /\ s.buf[i].blk \in Nat
           /\ s.buf[i].count \in Nat /\ s.buf[i].dirt \in {"CLEAN", "DIRTY"}
           /\ s.buf[i].data \in Values \cup {Unknown}
BY DEF Cache, Buffer

\* The chains and the names stay right, and what has a name keeps a content.
LEMMA AlikeKeeps ==
    ASSUME NEW X, NEW Y, NEW s, Good(s, X), NEW t, Alike(s, t), Filled(t.buf, Y)
    PROVE  Good(t, Y) /\ Counts(t) = Counts(s)
<1>1. \A h : OfHash(t.buf, h) = OfHash(s.buf, h)
  BY DEF Alike, OfHash
<1>2. Idle(t.buf) = Idle(s.buf) /\ Busy(t.buf) = Busy(s.buf)
  BY DEF Alike, Idle, Busy
<1>3. Chained(t.buf, t.hash) /\ Counted(t.buf, t.lru, t.inuse)
  BY <1>1, <1>2 DEF Good, Chained, Counted, Alike
<1>4. Named(t.buf)
  <2> SUFFICES ASSUME NEW i \in Buffers, t.buf[i].dev # NO_DEV
               PROVE  /\ Id(t.buf[i]) \in Ids
                      /\ \A j \in Buffers : Id(t.buf[i]) = Id(t.buf[j]) => i = j
    BY DEF Named
  <2>1. t.buf[i].dev = s.buf[i].dev /\ Id(t.buf[i]) = Id(s.buf[i])
    BY DEF Alike, Id
  <2>2. ASSUME NEW j \in Buffers, Id(t.buf[i]) = Id(t.buf[j]) PROVE i = j
    <3>1. t.buf[j].dev = t.buf[i].dev
      BY <2>2 DEF Id
    <3>2. Id(t.buf[j]) = Id(s.buf[j])
      BY <3>1 DEF Alike, Id
    <3> QED
      BY <2>1, <2>2, <3>2 DEF Good, Named
  <2> QED
    BY <2>1, <2>2 DEF Good, Named
<1>5. Counts(t) = Counts(s)
  BY DEF Alike, Counts
<1> QED
  BY <1>3, <1>4, <1>5 DEF Good, Alike

\* What loses names only leaves all the rest as it was.
LEMMA LosesKeeps ==
    ASSUME NEW X, NEW s, Good(s, X), NEW t, Loses(s, t)
    PROVE  Good(t, X) /\ Counts(t) = Counts(s)
<1>1. Filled(t.buf, X)
  BY DEF Good, Loses, Alike, Filled
<1> QED
  BY <1>1, AlikeKeeps DEF Loses

\* Losses add up.
LEMMA LosesMore ==
    ASSUME NEW s, NEW t, Loses(s, t), NEW u, Loses(t, u)
    PROVE  Loses(s, u)
BY DEF Loses, Alike

\* A request that fails costs its first buffer the name.
LEMMA FailedLoses ==
    ASSUME NEW s \in Cache, NEW i \in Buffers
    PROVE  Loses(s, FirstFailed(s, i))
<1> DEFINE t == FirstFailed(s, i)
           b == [s.buf EXCEPT ![i] = [s.buf[i] EXCEPT !.dev = NO_DEV]]
           v == [id \in Ids |-> Unknown]
<1>1. t = [s EXCEPT !.buf = b, !.vm = v]
  BY Fields DEF FirstFailed, vm_forgetblocks, Cache
<1>2. t.buf = b /\ t.lru = s.lru /\ t.hash = s.hash /\ t.inuse = s.inuse /\ t \in Cache
  <2>1. [s.buf[i] EXCEPT !.dev = NO_DEV] \in Buffer
    BY BufferFields DEF Buffer
  <2>2. b \in [Buffers -> Buffer]
    BY <2>1, Fields
  <2>3. v \in [Ids -> Values \cup {Unknown}]
    OBVIOUS
  <2> HIDE DEF t, b, v
  <2> QED
    BY <1>1, <2>2, <2>3 DEF Cache
<1> HIDE DEF t
<1>3. \A j \in Buffers : /\ t.buf[j].blk = s.buf[j].blk /\ t.buf[j].count = s.buf[j].count
                         /\ t.buf[j].data = s.buf[j].data
                         /\ t.buf[j].dev = s.buf[j].dev \/ t.buf[j].dev = NO_DEV
  BY <1>2, Fields, BufferFields DEF Buffer
<1> QED
  BY <1>2, <1>3 DEF Loses, Alike, t

\* block_dev_io changes nothing but what is known of the driver.
LEMMA DevIoIs ==
    ASSUME NEW s \in Cache, NEW d \in {Disk, Ram}
    PROVE  \E r \in [{Disk, Ram} -> {"up", "dead", "none"}] :
              block_dev_io(s, d) = [s EXCEPT !.drv = r]
<1>1. CASE Reachable(s, d)
  <2>1. s = [s EXCEPT !.drv = s.drv]
    BY DEF Cache
  <2> QED
    BY <1>1, <2>1, Fields DEF block_dev_io
<1>2. CASE ~Reachable(s, d)
  <2>1. [s.drv EXCEPT ![d] = "none"] \in [{Disk, Ram} -> {"up", "dead", "none"}]
    BY Fields
  <2>2. block_dev_io(s, d) = [s EXCEPT !.drv = [s.drv EXCEPT ![d] = "none"]]
    BY <1>2 DEF block_dev_io
  <2> QED
    BY <2>1, <2>2
<1> QED
  BY <1>1, <1>2

-----------------------------------------------------------------------------
(* Writing *)

\* Buffers of device d with a content.
Writable(s, d, q) ==
    q \subseteq Buffers /\ \A i \in q : s.buf[i].dev = d /\ s.buf[i].data \in Values

\* A request that succeeds changes no name and no content of a buffer.
LEMMA WrittenIs ==
    ASSUME NEW s \in Cache, NEW d \in {Disk, Ram}, NEW q, Writable(s, d, q)
    PROVE  /\ Loses(s, Written(s, d, q))
           /\ \A i \in Buffers : Written(s, d, q).buf[i].dev = s.buf[i].dev
<1> DEFINE B == [i \in Buffers |->
                    IF i \in q THEN [s.buf[i] EXCEPT !.dirt = "CLEAN"] ELSE s.buf[i]]
           K == [id \in Ids |->
                    IF \E i \in q : Id(s.buf[i]) = id
                    THEN s.buf[CHOOSE i \in q : Id(s.buf[i]) = id].data ELSE s.disk[id]]
           L == IF q = {} THEN s.lostdev \cup {d} ELSE s.lostdev
           t == Written(s, d, q)
<1>1. PICK r \in [{Disk, Ram} -> {"up", "dead", "none"}] :
            block_dev_io(s, d) = [s EXCEPT !.drv = r]
  BY DevIoIs
<1>2. t = [s EXCEPT !.drv = r, !.buf = B, !.disk = K, !.lostdev = L]
  <2>1. /\ [s EXCEPT !.drv = r].buf = s.buf /\ [s EXCEPT !.drv = r].disk = s.disk
        /\ [s EXCEPT !.drv = r].lostdev = s.lostdev
    BY DEF Cache
  <2>2. t = [[s EXCEPT !.drv = r] EXCEPT !.buf = B, !.disk = K, !.lostdev = L]
    BY <1>1, <2>1 DEF Written
  <2> HIDE DEF B, K, L, t
  <2> QED
    BY <2>2 DEF Cache
<1>3. B \in [Buffers -> Buffer]
  <2>1. \A i \in Buffers : [s.buf[i] EXCEPT !.dirt = "CLEAN"] \in Buffer /\ s.buf[i] \in Buffer
    BY BufferFields DEF Buffer
  <2> QED
    BY <2>1
<1>4. K \in [Ids -> Values]
  <2> SUFFICES ASSUME NEW id \in Ids PROVE K[id] \in Values
    OBVIOUS
  <2>1. CASE \E i \in q : Id(s.buf[i]) = id
    <3>1. (CHOOSE i \in q : Id(s.buf[i]) = id) \in q
      BY <2>1
    <3> QED
      BY <2>1, <3>1 DEF Writable
  <2>2. CASE ~\E i \in q : Id(s.buf[i]) = id
    BY <2>2, Fields
  <2> QED
    BY <2>1, <2>2
<1>5. L \subseteq {Disk, Ram}
  BY Fields
<1>6. \A i \in Buffers :
        /\ B[i].blk = s.buf[i].blk /\ B[i].count = s.buf[i].count
        /\ B[i].dev = s.buf[i].dev /\ B[i].data = s.buf[i].data
  BY BufferFields DEF Buffer
<1> HIDE DEF B, K, L
<1>7. /\ t \in Cache /\ t.buf = B /\ t.lru = s.lru /\ t.hash = s.hash /\ t.inuse = s.inuse
  <2> HIDE DEF t
  <2> QED
    BY <1>2, <1>3, <1>4, <1>5 DEF Cache
<1> HIDE DEF t
<1>8. Loses(s, t) /\ \A i \in Buffers : t.buf[i].dev = s.buf[i].dev
  BY <1>6, <1>7 DEF Loses, Alike
<1> QED
  BY <1>8 DEF t

\* Of a set of buffers, the one with the lowest block.
LEMMA FirstOfIs ==
    ASSUME NEW s \in Cache, NEW q \in SUBSET Buffers, q # {}
    PROVE  FirstOf(s, q) \in q
<1> DEFINE N == {n \in Nat : \E i \in q : s.buf[i].blk = n}
<1>1. N # {} /\ N \subseteq Nat
  BY BufferFields
<1>2. PICK n \in N : \A m \in N : ~(<<m, n>> \in OpToRel(<, Nat))
  BY <1>1, NatLessThanWellFounded, WFMin
<1>3. PICK i \in q : s.buf[i].blk = n
  BY <1>2
<1>4. \A j \in q : s.buf[i].blk =< s.buf[j].blk
  <2> TAKE j \in q
  <2>1. s.buf[j].blk \in N /\ s.buf[j].blk \in Nat /\ n \in Nat
    BY BufferFields
  <2>2. ~(s.buf[j].blk < n)
    BY <1>2, <2>1 DEF OpToRel
  <2> QED
    BY <1>3, <2>1, <2>2
<1> QED
  BY <1>4 DEF FirstOf

\* One request of a queue.
WriteOK(s, d, p) == Loses(s, p.s) /\ Writable(p.s, d, p.q)

LEMMA WriteRequestIs ==
    ASSUME NEW s, NEW d \in {Disk, Ram}, NEW p, WriteOK(s, d, p)
    PROVE  WriteOK(s, d, WriteRequest(p, d))
<1> DEFINE done == Moved(p.s, d, p.q)
           t == Written(p.s, d, done)
<1>1. p.s \in Cache /\ Loses(s, p.s) /\ Writable(p.s, d, p.q)
  BY DEF WriteOK, Loses, Alike
<1>2. done \subseteq p.q
  BY DEF Moved
<1> HIDE DEF done
<1>3. Writable(p.s, d, done)
  BY <1>1, <1>2 DEF Writable
<1>4. Loses(p.s, t) /\ \A i \in Buffers : t.buf[i].dev = p.s.buf[i].dev
  BY <1>1, <1>3, WrittenIs
<1> HIDE DEF t
<1>5. t \in Cache
  BY <1>4 DEF Loses, Alike
<1>6. CASE p.q = {}
  BY <1>6 DEF WriteRequest
<1>7. CASE p.q # {} /\ done = {}
  <2> DEFINE f == FirstOf(p.s, p.q)
             u == FirstFailed(t, f)
  <2>1. f \in Buffers
    BY <1>1, <1>7, FirstOfIs DEF Writable
  <2>2. Loses(t, u)
    BY <1>5, <2>1, FailedLoses
  <2>3. WriteRequest(p, d) = [s |-> u, q |-> {}]
    BY <1>7 DEF WriteRequest, done, t
  <2> HIDE DEF u
  <2>4. Loses(s, u)
    BY <1>1, <1>4, <2>2, LosesMore
  <2> QED
    BY <2>3, <2>4 DEF WriteOK, Writable
<1>8. CASE p.q # {} /\ done # {}
  <2>1. WriteRequest(p, d) = [s |-> t, q |-> p.q \ done]
    BY <1>8 DEF WriteRequest, done, t
  <2>2. Loses(s, t)
    BY <1>1, <1>4, LosesMore
  <2>3. Writable(t, d, p.q \ done)
    BY <1>1, <1>4 DEF Writable, Loses
  <2> QED
    BY <2>1, <2>2, <2>3 DEF WriteOK
<1> QED
  BY <1>6, <1>7, <1>8

\* The requests one after the other are a function,
LEMMA WriteAfter ==
    ASSUME NEW d, NEW p, NEW n \in Nat
    PROVE  \E f : f = [m \in 0..n |-> IF m = 0 THEN p ELSE WriteRequest(f[m - 1], d)]
<1> DEFINE Is(f, k) == f = [m \in 0..k |-> IF m = 0 THEN p ELSE WriteRequest(f[m - 1], d)]
           Bad == {k \in Nat : ~\E f : Is(f, k)}
<1>1. Bad = {}
  <2> SUFFICES ASSUME Bad # {} PROVE FALSE
    OBVIOUS
  <2>1. PICK k \in Bad : \A m \in Bad : ~(<<m, k>> \in OpToRel(<, Nat))
    BY NatLessThanWellFounded, WFMin, Bad \subseteq Nat
  <2>2. k \in Nat /\ (~\E f : Is(f, k)) /\ \A m \in Bad : ~(m < k)
    BY <2>1 DEF OpToRel
  <2>3. CASE k = 0
    <3>1. Is([m \in 0..0 |-> p], 0)
      OBVIOUS
    <3> QED
      BY <2>2, <2>3, <3>1
  <2>4. CASE k # 0
    <3>1. k - 1 \in Nat /\ k - 1 < k
      BY <2>2, <2>4
    <3>2. PICK g : Is(g, k - 1)
      BY <2>2, <3>1
    <3> DEFINE F == [m \in 0..k |-> IF m = k THEN WriteRequest(g[k - 1], d) ELSE g[m]]
    <3>3. \A m \in 0..(k - 1) : g[m] = IF m = 0 THEN p ELSE WriteRequest(g[m - 1], d)
      BY <3>2
    <3>4. ASSUME NEW m \in 0..k
          PROVE  F[m] = IF m = 0 THEN p ELSE WriteRequest(F[m - 1], d)
      <4>1. CASE m = k
        BY <2>2, <2>4, <3>1, <4>1
      <4>2. CASE m # k
        <5>1. m \in 0..(k - 1) /\ (m # 0 => m - 1 \in 0..k /\ m - 1 # k)
          BY <2>2, <3>1, <4>2
        <5>2. F[m] = g[m] /\ (m # 0 => F[m - 1] = g[m - 1])
          BY <4>2, <5>1
        <5> HIDE DEF F
        <5> QED
          BY <3>3, <5>1, <5>2
      <4> QED
        BY <4>1, <4>2
    <3>5. Is(F, k)
      BY <3>4
    <3> QED
      BY <2>2, <3>5
  <2> QED
    BY <2>3, <2>4
<1> QED
  BY <1>1

\* and lose names only.
LEMMA WriteScatteredLoses ==
    ASSUME NEW s \in Cache, NEW d \in {Disk, Ram}, NEW q, Writable(s, d, q)
    PROVE  Loses(s, WriteScattered(s, d, q))
<1> DEFINE n == Cardinality(q)
           p == [s |-> s, q |-> q]
           f == CHOOSE g : g = [m \in 0..n |-> IF m = 0 THEN p ELSE WriteRequest(g[m - 1], d)]
<1>1. n \in Nat
  <2>1. IsFiniteSet(Buffers)
    BY FS_Interval, MfsCacheAssumption DEF Buffers
  <2> QED
    BY <2>1, FS_Subset, FS_CardinalityType DEF Writable
<1>2. WriteScattered(s, d, q) = f[n].s
  BY DEF WriteScattered
<1> HIDE DEF n
<1>3. f = [m \in 0..n |-> IF m = 0 THEN p ELSE WriteRequest(f[m - 1], d)]
  BY <1>1, WriteAfter
<1>4. WriteOK(s, d, p)
  <2>1. Loses(s, s)
    BY DEF Loses, Alike
  <2> QED
    BY <2>1 DEF WriteOK
<1> HIDE DEF f, p
<1> DEFINE Off == {m \in Nat : m \in 0..n /\ ~WriteOK(s, d, f[m])}
<1>5. Off = {}
  <2> SUFFICES ASSUME Off # {} PROVE FALSE
    OBVIOUS
  <2>1. PICK m \in Off : \A k \in Off : ~(<<k, m>> \in OpToRel(<, Nat))
    BY NatLessThanWellFounded, WFMin, Off \subseteq Nat
  <2>2. m \in 0..n /\ ~WriteOK(s, d, f[m]) /\ \A k \in Off : ~(k < m)
    BY <2>1 DEF OpToRel
  <2>3. m # 0
    BY <1>1, <1>3, <1>4, <2>2
  <2>4. m - 1 \in 0..n /\ m - 1 \in Nat /\ m - 1 < m
    BY <1>1, <2>2, <2>3
  <2>5. WriteOK(s, d, f[m - 1])
    BY <2>2, <2>4
  <2>6. f[m] = WriteRequest(f[m - 1], d)
    BY <1>3, <2>2, <2>3
  <2> QED
    BY <2>2, <2>5, <2>6, WriteRequestIs
<1>6. WriteOK(s, d, f[n])
  BY <1>1, <1>5
<1> QED
  BY <1>2, <1>6 DEF WriteOK

\* A flush needs no more than that what has a name has a content.
LEMMA FlushLoses ==
    ASSUME NEW s \in Cache, Filled(s.buf, {}), NEW d \in {Disk, Ram}
    PROVE  Loses(s, flushall(s, d))
<1>1. d # NO_DEV
  BY MfsCacheAssumption DEF NO_DEV
<1>2. Writable(s, d, Dirty(s, d))
  BY <1>1 DEF Writable, Dirty, Filled
<1> QED
  BY <1>2, WriteScatteredLoses DEF flushall

-----------------------------------------------------------------------------
(* Use and release *)

\* The buffers are the same but for who uses them.
Recounted(s, t) ==
    /\ t \in Cache /\ t.hash = s.hash
    /\ \A j \in Buffers : /\ t.buf[j].blk = s.buf[j].blk /\ t.buf[j].dev = s.buf[j].dev
                          /\ t.buf[j].data = s.buf[j].data

\* Then it is enough that the LRU chain agrees.
LEMMA RecountedKeeps ==
    ASSUME NEW X, NEW s, Good(s, X), NEW t, Recounted(s, t),
           Counted(t.buf, t.lru, t.inuse)
    PROVE  Good(t, X)
<1>1. \A h : OfHash(t.buf, h) = OfHash(s.buf, h)
  BY DEF Recounted, OfHash
<1>2. Chained(t.buf, t.hash)
  BY <1>1 DEF Good, Chained, Recounted
<1>3. \A j \in Buffers : Id(t.buf[j]) = Id(s.buf[j])
  BY DEF Recounted, Id
<1>4. Named(t.buf)
  BY <1>3 DEF Good, Recounted, Named
<1>5. Filled(t.buf, X)
  BY DEF Good, Recounted, Filled
<1> QED
  BY <1>2, <1>4, <1>5 DEF Good, Recounted

\* The buffers with another count for one of them.
LEMMA CountSet ==
    ASSUME NEW s \in Cache, NEW i \in Buffers, NEW k \in Nat
    PROVE  LET b == [s.buf EXCEPT ![i] = [s.buf[i] EXCEPT !.count = k]]
           IN /\ b \in [Buffers -> Buffer]
              /\ \A j \in Buffers :
                    /\ b[j].blk = s.buf[j].blk /\ b[j].dev = s.buf[j].dev
                    /\ b[j].data = s.buf[j].data
                    /\ b[j].count = IF j = i THEN k ELSE s.buf[j].count
<1>1. [s.buf[i] EXCEPT !.count = k] \in Buffer
  BY BufferFields DEF Buffer
<1> QED
  BY <1>1, Fields, BufferFields DEF Buffer

\* The number of buffers is finite.
LEMMA BuffersFinite == IsFiniteSet(Buffers) /\ \A S \in SUBSET Buffers : IsFiniteSet(S)
<1>1. IsFiniteSet(Buffers)
  BY FS_Interval, MfsCacheAssumption DEF Buffers
<1> QED
  BY <1>1, FS_Subset

\* put_block takes one use away, and changes nothing else.
LEMMA PutIs ==
    ASSUME NEW X, NEW s, Good(s, X), NEW i \in Buffers, s.buf[i].count # 0
    PROVE  /\ Good(put_block(s, i), X) /\ Recounted(s, put_block(s, i))
           /\ Counts(put_block(s, i)) = [Counts(s) EXCEPT ![i] = @ - 1]
<1>1. s \in Cache /\ s.buf[i].count \in Nat /\ Counted(s.buf, s.lru, s.inuse)
  BY BufferFields DEF Good
<1>2. s.buf = [s.buf EXCEPT ![i] = s.buf[i]] /\ s.inuse \in Int
  BY <1>1, Fields
<1>3. CASE s.buf[i].count > 1
  <2> DEFINE k == s.buf[i].count - 1
             b == [s.buf EXCEPT ![i] = [s.buf[i] EXCEPT !.count = k]]
             t == [s EXCEPT !.buf = b, !.lru = s.lru, !.inuse = s.inuse]
  <2>1. put_block(s, i) = t
    <3>1. put_block(s, i) = [s EXCEPT !.buf = b]
      BY <1>1, <1>3, Fields, BufferFields DEF put_block, Buffer
    <3> HIDE DEF b
    <3> QED
      BY <1>1, <3>1 DEF Cache
  <2>2. k \in Nat /\ k # 0
    BY <1>1, <1>3
  <2>3. /\ b \in [Buffers -> Buffer]
        /\ \A j \in Buffers :
              /\ b[j].blk = s.buf[j].blk /\ b[j].dev = s.buf[j].dev
              /\ b[j].data = s.buf[j].data
              /\ b[j].count = IF j = i THEN k ELSE s.buf[j].count
    BY <1>1, <2>2, CountSet
  <2> HIDE DEF b
  <2>4. t \in Cache /\ t.buf = b /\ t.lru = s.lru /\ t.inuse = s.inuse /\ t.hash = s.hash
    BY <1>1, <2>3, Fields DEF Cache
  <2> HIDE DEF t
  <2>5. Idle(b) = Idle(s.buf) /\ Busy(b) = Busy(s.buf)
    BY <2>2, <2>3 DEF Idle, Busy
  <2>6. Counted(t.buf, t.lru, t.inuse)
    BY <1>1, <2>4, <2>5 DEF Counted
  <2>7. Recounted(s, t)
    BY <2>3, <2>4 DEF Recounted
  <2>8. Counts(t) = [Counts(s) EXCEPT ![i] = @ - 1]
    BY <2>3, <2>4 DEF Counts, k
  <2> QED
    BY <2>1, <2>6, <2>7, <2>8, RecountedKeeps
<1>4. CASE ~(s.buf[i].count > 1)
  <2> DEFINE b == [s.buf EXCEPT ![i] = [s.buf[i] EXCEPT !.count = 0]]
             l == IF s.buf[i].dev = Ram THEN <<i>> \o s.lru ELSE Append(s.lru, i)
             t == [s EXCEPT !.buf = b, !.lru = l, !.inuse = s.inuse - 1]
  <2>1. put_block(s, i) = t
    <3>1. b[i].dev = s.buf[i].dev
      BY <1>1, CountSet
    <3>2. /\ [s EXCEPT !.buf[i].count = 0].buf = b
          /\ [s EXCEPT !.buf[i].count = 0].lru = s.lru
      BY <1>1 DEF Cache
    <3>3. put_block(s, i) = [s EXCEPT !.buf = b, !.inuse = s.inuse - 1, !.lru = l]
      BY <1>1, <1>4 DEF put_block, Cache
    <3> HIDE DEF b, l
    <3> QED
      BY <1>1, <3>3 DEF Cache
  <2>2. s.buf[i].count = 1
    BY <1>1, <1>4
  <2>3. /\ b \in [Buffers -> Buffer]
        /\ \A j \in Buffers :
              /\ b[j].blk = s.buf[j].blk /\ b[j].dev = s.buf[j].dev
              /\ b[j].data = s.buf[j].data
              /\ b[j].count = IF j = i THEN 0 ELSE s.buf[j].count
    BY <1>1, CountSet
  <2> HIDE DEF b
  <2>4. i \notin Idle(s.buf) /\ Idle(b) = Idle(s.buf) \cup {i}
    BY <2>2, <2>3 DEF Idle
  <2>5. Lists(l, Idle(b))
    BY <1>1, <2>4, InFront, AtRear DEF Counted
  <2>6. i \in Busy(s.buf) /\ Busy(b) = Busy(s.buf) \ {i}
    BY <2>2, <2>3 DEF Busy
  <2>7. Cardinality(Busy(b)) = s.inuse - 1
    <3>1. IsFiniteSet(Busy(s.buf))
      BY BuffersFinite DEF Busy
    <3>2. s.inuse = Cardinality(Busy(s.buf))
      BY <1>1 DEF Counted
    <3> QED
      BY <2>6, <3>1, <3>2, FS_RemoveElement
  <2>8. l \in Seq(Buffers) /\ s.inuse - 1 \in Int
    BY <1>2, <2>5 DEF Lists
  <2> HIDE DEF l
  <2>9. t \in Cache /\ t.buf = b /\ t.lru = l /\ t.inuse = s.inuse - 1 /\ t.hash = s.hash
    BY <1>1, <2>3, <2>8 DEF Cache
  <2> HIDE DEF t
  <2>10. Counted(t.buf, t.lru, t.inuse)
    BY <2>5, <2>7, <2>9 DEF Counted
  <2>11. Recounted(s, t)
    BY <2>3, <2>9 DEF Recounted
  <2>12. Counts(t) = [Counts(s) EXCEPT ![i] = @ - 1]
    <3>1. \A j \in Buffers : t.buf[j].count = IF j = i THEN s.buf[i].count - 1
                                               ELSE s.buf[j].count
      BY <2>2, <2>3, <2>9
    <3> QED
      BY <3>1 DEF Counts
  <2> QED
    BY <2>1, <2>10, <2>11, <2>12, RecountedKeeps
<1> QED
  BY <1>3, <1>4

\* A buffer that was found gets one use more.
LEMMA UseIs ==
    ASSUME NEW X, NEW s, Good(s, X), NEW i \in Buffers
    PROVE  /\ Good(Use(s, i), X) /\ Recounted(s, Use(s, i))
           /\ Counts(Use(s, i)) = [Counts(s) EXCEPT ![i] = @ + 1]
<1> DEFINE k == s.buf[i].count + 1
           b == [s.buf EXCEPT ![i] = [s.buf[i] EXCEPT !.count = k]]
<1>1. s \in Cache /\ s.buf[i].count \in Nat /\ Counted(s.buf, s.lru, s.inuse) /\ s.inuse \in Int
  BY BufferFields, Fields DEF Good
<1>2. /\ b \in [Buffers -> Buffer]
      /\ \A j \in Buffers :
            /\ b[j].blk = s.buf[j].blk /\ b[j].dev = s.buf[j].dev
            /\ b[j].data = s.buf[j].data
            /\ b[j].count = IF j = i THEN k ELSE s.buf[j].count
  BY <1>1, CountSet
<1>3. k \in Nat /\ k # 0
  BY <1>1
<1>4. CASE s.buf[i].count # 0
  <2> DEFINE t == [s EXCEPT !.buf = b, !.lru = s.lru, !.inuse = s.inuse]
  <2>1. Use(s, i) = t
    <3>1. Use(s, i) = [s EXCEPT !.buf = b]
      BY <1>1, <1>4 DEF Use, Cache
    <3> HIDE DEF b
    <3> QED
      BY <1>1, <3>1 DEF Cache
  <2> HIDE DEF b
  <2>2. t \in Cache /\ t.buf = b /\ t.lru = s.lru /\ t.inuse = s.inuse /\ t.hash = s.hash
    BY <1>1, <1>2, Fields DEF Cache
  <2> HIDE DEF t
  <2>3. Idle(b) = Idle(s.buf) /\ Busy(b) = Busy(s.buf)
    BY <1>2, <1>3, <1>4 DEF Idle, Busy
  <2>4. Counted(t.buf, t.lru, t.inuse)
    BY <1>1, <2>2, <2>3 DEF Counted
  <2>5. Recounted(s, t)
    BY <1>2, <2>2 DEF Recounted
  <2>6. Counts(t) = [Counts(s) EXCEPT ![i] = @ + 1]
    BY <1>2, <2>2 DEF Counts, k
  <2> QED
    BY <2>1, <2>4, <2>5, <2>6, RecountedKeeps
<1>5. CASE s.buf[i].count = 0
  <2> DEFINE l == Unlinked(s.lru, i)
             t == [s EXCEPT !.buf = b, !.lru = l, !.inuse = s.inuse + 1]
  <2>1. Use(s, i) = t
    <3>1. Use(s, i) = [rm_lru(s, i) EXCEPT !.buf[i].count = @ + 1]
      BY <1>5 DEF Use
    <3>2. rm_lru(s, i) = [s EXCEPT !.lru = l, !.inuse = s.inuse + 1]
      BY DEF rm_lru
    <3>3. rm_lru(s, i).buf = s.buf
      BY <1>1, <3>2 DEF Cache
    <3>4. Use(s, i) = [rm_lru(s, i) EXCEPT !.buf = b]
      BY <3>1, <3>3
    <3> HIDE DEF b, l
    <3> QED
      BY <1>1, <3>2, <3>4 DEF Cache
  <2> HIDE DEF b
  <2>2. i \in Idle(s.buf) /\ Idle(b) = Idle(s.buf) \ {i}
    BY <1>2, <1>3, <1>5 DEF Idle
  <2>3. Lists(l, Idle(b))
    BY <1>1, <2>2, UnlinkedIs DEF Counted
  <2>4. i \notin Busy(s.buf) /\ Busy(b) = Busy(s.buf) \cup {i}
    BY <1>2, <1>3, <1>5 DEF Busy
  <2>5. Cardinality(Busy(b)) = s.inuse + 1
    <3>1. IsFiniteSet(Busy(s.buf))
      BY BuffersFinite DEF Busy
    <3>2. s.inuse = Cardinality(Busy(s.buf))
      BY <1>1 DEF Counted
    <3> QED
      BY <2>4, <3>1, <3>2, FS_AddElement
  <2>6. l \in Seq(Buffers) /\ s.inuse + 1 \in Int
    BY <1>1, <2>3 DEF Lists
  <2> HIDE DEF l
  <2>7. t \in Cache /\ t.buf = b /\ t.lru = l /\ t.inuse = s.inuse + 1 /\ t.hash = s.hash
    BY <1>1, <1>2, <2>6 DEF Cache
  <2> HIDE DEF t
  <2>8. Counted(t.buf, t.lru, t.inuse)
    BY <2>3, <2>5, <2>7 DEF Counted
  <2>9. Recounted(s, t)
    BY <1>2, <2>7 DEF Recounted
  <2>10. Counts(t) = [Counts(s) EXCEPT ![i] = @ + 1]
    BY <1>2, <2>7 DEF Counts, k
  <2> QED
    BY <2>1, <2>8, <2>9, <2>10, RecountedKeeps
<1> QED
  BY <1>4, <1>5

-----------------------------------------------------------------------------
(* A buffer for a block *)

\* The victim i is off its chains; the others have lost names at most.
Evicted(s, i, e) ==
    /\ e \in Cache /\ i \in Idle(s.buf)
    /\ Lists(e.lru, Idle(s.buf) \ {i}) /\ e.inuse = s.inuse + 1
    /\ \A h \in Hashes : Lists(e.hash[h], OfHash(s.buf, h) \ {i})
    /\ \A j \in Buffers :
        /\ e.buf[j].blk = s.buf[j].blk /\ e.buf[j].count = s.buf[j].count
        /\ e.buf[j].data = s.buf[j].data
        /\ e.buf[j].dev = s.buf[j].dev \/ e.buf[j].dev = NO_DEV

\* The hash of a block number.
LEMMA HashIs ==
    ASSUME NEW n \in Nat
    PROVE  BUFHASH(n) \in Hashes
BY MfsCacheAssumption DEF BUFHASH, Hashes

LEMMA EvictIs ==
    ASSUME NEW s, Good(s, {}), s.lru # <<>>
    PROVE  Evicted(s, Head(s.lru), Evict(s))
<1> DEFINE i == Head(s.lru)
           h0 == BUFHASH(s.buf[i].blk)
           l == Unlinked(s.lru, i)
           hash == [s.hash EXCEPT ![h0] = Unlinked(s.hash[h0], i)]
           u == [s EXCEPT !.lru = l, !.inuse = s.inuse + 1, !.hash = hash]
<1>1. /\ s \in Cache /\ Lists(s.lru, Idle(s.buf)) /\ s.inuse \in Int
      /\ s.hash \in [Hashes -> Seq(Buffers)] /\ s.buf \in [Buffers -> Buffer]
      /\ \A h \in Hashes : Lists(s.hash[h], OfHash(s.buf, h))
  BY Fields DEF Good, Counted, Chained
<1>2. i \in Idle(s.buf) /\ i \in Buffers
  BY <1>1, HeadIs DEF Idle
<1> HIDE DEF i
<1>3. h0 \in Hashes /\ i \in OfHash(s.buf, h0)
  BY <1>1, <1>2, HashIs, BufferFields DEF OfHash
<1>4. Lists(l, Idle(s.buf) \ {i})
  BY <1>1, <1>2, UnlinkedIs
<1>5. Lists(Unlinked(s.hash[h0], i), OfHash(s.buf, h0) \ {i})
  BY <1>1, <1>3, UnlinkedIs
<1>6. \A h \in Hashes : h # h0 => OfHash(s.buf, h) \ {i} = OfHash(s.buf, h)
  BY <1>2 DEF OfHash
<1>7. Unhash(rm_lru(s, i), i) = u
  <2>1. rm_lru(s, i) = [s EXCEPT !.lru = l, !.inuse = s.inuse + 1]
    BY DEF rm_lru
  <2>2. rm_lru(s, i).buf = s.buf /\ rm_lru(s, i).hash = s.hash
    BY <1>1, <2>1 DEF Cache
  <2>3. Unhash(rm_lru(s, i), i) = [rm_lru(s, i) EXCEPT !.hash = hash]
    BY <2>2 DEF Unhash
  <2> HIDE DEF hash, l
  <2> QED
    BY <1>1, <2>1, <2>3 DEF Cache
<1> HIDE DEF h0
<1>8. /\ hash \in [Hashes -> Seq(Buffers)]
      /\ \A h \in Hashes : hash[h] = IF h = h0 THEN Unlinked(s.hash[h0], i) ELSE s.hash[h]
  BY <1>1, <1>3, <1>5 DEF Lists
<1> HIDE DEF hash
<1>9. \A h \in Hashes : Lists(hash[h], OfHash(s.buf, h) \ {i})
  <2> TAKE h \in Hashes
  <2>1. CASE h = h0
    BY <1>3, <1>5, <1>8, <2>1
  <2>2. CASE h # h0
    BY <1>1, <1>6, <1>8, <2>2
  <2> QED
    BY <2>1, <2>2
<1>10. l \in Seq(Buffers) /\ s.inuse + 1 \in Int
  BY <1>1, <1>4 DEF Lists
<1> HIDE DEF l
<1>11. u \in Cache /\ u.buf = s.buf /\ u.lru = l /\ u.inuse = s.inuse + 1 /\ u.hash = hash
  BY <1>1, <1>8, <1>10 DEF Cache
<1> HIDE DEF u
<1>12. CASE s.buf[i].dev # NO_DEV /\ s.buf[i].dirt = "DIRTY"
  <2> DEFINE d == s.buf[i].dev
             t == flushall(u, d)
  <2>1. d \in {Disk, Ram}
    BY <1>1, <1>2, <1>12, BufferFields
  <2>2. Filled(u.buf, {})
    BY <1>11 DEF Good
  <2>3. Loses(u, t)
    BY <1>11, <2>1, <2>2, FlushLoses
  <2>4. Evict(s) = t
    BY <1>7, <1>11, <1>12 DEF Evict, i
  <2> HIDE DEF t
  <2>5. /\ t \in Cache /\ t.lru = l /\ t.hash = hash /\ t.inuse = s.inuse + 1
        /\ \A j \in Buffers :
            /\ t.buf[j].blk = s.buf[j].blk /\ t.buf[j].count = s.buf[j].count
            /\ t.buf[j].data = s.buf[j].data
            /\ t.buf[j].dev = s.buf[j].dev \/ t.buf[j].dev = NO_DEV
    BY <1>11, <2>3 DEF Loses, Alike
  <2>6. Evicted(s, i, t)
    BY <1>2, <1>4, <1>9, <2>5 DEF Evicted
  <2> QED
    BY <2>4, <2>6 DEF i
<1>13. CASE ~(s.buf[i].dev # NO_DEV /\ s.buf[i].dirt = "DIRTY")
  <2>1. Evict(s) = u
    BY <1>7, <1>11, <1>13 DEF Evict, i
  <2>2. Evicted(s, i, u)
    BY <1>2, <1>4, <1>9, <1>11 DEF Evicted
  <2> QED
    BY <2>1, <2>2 DEF i
<1> QED
  BY <1>12, <1>13

\* VM is offered the content; the cache stays as it is.
LEMMA YieldIs ==
    ASSUME NEW s, NEW i \in Buffers, NEW e, Evicted(s, i, e)
    PROVE  Evicted(s, i, Yield(e, i))
<1>1. e \in Cache
  BY DEF Evicted
<1>2. CASE e.buf[i].dev = NO_DEV
  BY <1>2 DEF Yield
<1>3. CASE e.buf[i].dev # NO_DEV
  <2> DEFINE v == [e.vm EXCEPT ![Id(e.buf[i])] = e.buf[i].data]
             t == [e EXCEPT !.vm = v]
  <2>1. v \in [Ids -> Values \cup {Unknown}]
    BY <1>1, Fields, BufferFields
  <2>2. Yield(e, i) = t
    BY <1>3 DEF Yield
  <2> HIDE DEF v
  <2>3. /\ t \in Cache /\ t.buf = e.buf /\ t.lru = e.lru /\ t.inuse = e.inuse
        /\ t.hash = e.hash
    BY <1>1, <2>1 DEF Cache
  <2> HIDE DEF t
  <2>4. Evicted(s, i, t)
    BY <2>3 DEF Evicted
  <2> QED
    BY <2>2, <2>4
<1> QED
  BY <1>2, <1>3

\* The name that is asked for: none, or that of a block no buffer has.
NewName(s, d, blk) ==
    \/ d = NO_DEV /\ blk = NO_BLOCK
    \/ /\ d \in {Disk, Ram} /\ <<d, blk>> \in Ids
       /\ \A j \in Buffers : Id(s.buf[j]) # <<d, blk>>

\* The buffers but i have lost names at most.
Others(s, t, i) ==
    \A j \in Buffers \ {i} :
        /\ t.buf[j].blk = s.buf[j].blk /\ t.buf[j].count = s.buf[j].count
        /\ t.buf[j].dev = s.buf[j].dev \/ t.buf[j].dev = NO_DEV

\* Blocks are numbered.
LEMMA IdsAre ==
    ASSUME NEW d, NEW blk, <<d, blk>> \in Ids
    PROVE  blk \in Nat /\ d \in {Disk, Ram} /\ d # NO_DEV /\ blk \in BlocksOf(d)
<1>1. DiskBlocks \subseteq Nat /\ RamBlocks \subseteq Nat
  <2>1. Cardinality(DiskBlocks) \in Nat /\ Cardinality(RamBlocks) \in Nat
    BY MfsCacheAssumption, FS_CardinalityType
  <2> QED
    BY <2>1, MfsCacheAssumption
<1> QED
  BY <1>1, MfsCacheAssumption DEF Ids, NO_DEV, BlocksOf

LEMMA NameIs ==
    ASSUME NEW s, Good(s, {}), NEW i \in Buffers, NEW e, Evicted(s, i, e),
           NEW d, NEW blk, NewName(s, d, blk)
    PROVE  LET n == Name(e, i, d, blk)
           IN /\ Good(n, {i}) /\ Others(s, n, i)
              /\ s.buf[i].count = 0 /\ n.buf[i].count = 1
              /\ n.buf[i].dev = d /\ n.buf[i].blk = blk
<1> DEFINE n == Name(e, i, d, blk)
           r == [e.buf[i] EXCEPT !.dev = d, !.blk = blk, !.count = 1]
           b == [e.buf EXCEPT ![i] = r]
           h0 == BUFHASH(blk)
           hash == [e.hash EXCEPT ![h0] = <<i>> \o e.hash[h0]]
<1>1. /\ e \in Cache /\ s \in Cache /\ e.buf[i].count = 0 /\ s.buf[i].count = 0
      /\ e.hash \in [Hashes -> Seq(Buffers)] /\ e.buf \in [Buffers -> Buffer]
      /\ e.buf[i] \in Buffer /\ s.inuse \in Int
  BY Fields, BufferFields DEF Evicted, Idle, Good
<1>2. blk \in Nat /\ d \in {NO_DEV, Disk, Ram}
  BY IdsAre DEF NewName, NO_BLOCK
<1>3. h0 \in Hashes
  BY <1>2, HashIs
<1>4. n = [e EXCEPT !.buf = b, !.hash = hash]
  <2>1. e.buf[i].count + 1 = 1
    BY <1>1
  <2>2. r = [e.buf[i] EXCEPT !.dev = d, !.blk = blk, !.count = e.buf[i].count + 1]
    BY <2>1
  <2> HIDE DEF r
  <2> QED
    BY <2>2 DEF Name
<1>5. r \in Buffer /\ r.dev = d /\ r.blk = blk /\ r.count = 1 /\ r.data = e.buf[i].data
  BY <1>1, <1>2 DEF Buffer
<1> HIDE DEF r
<1>6. b \in [Buffers -> Buffer] /\ b[i] = r /\ \A j \in Buffers \ {i} : b[j] = e.buf[j]
  BY <1>1, <1>5
<1> HIDE DEF b
<1>7. \A h \in Hashes : Lists(e.hash[h], OfHash(s.buf, h) \ {i})
  BY DEF Evicted
<1>8. \A h \in Hashes :
        OfHash(b, h) = IF h = h0 THEN (OfHash(s.buf, h) \ {i}) \cup {i}
                       ELSE OfHash(s.buf, h) \ {i}
  <2>1. \A j \in Buffers : b[j].blk = IF j = i THEN blk ELSE s.buf[j].blk
    BY <1>5, <1>6 DEF Evicted
  <2> QED
    BY <2>1 DEF OfHash
<1>9. Lists(<<i>> \o e.hash[h0], (OfHash(s.buf, h0) \ {i}) \cup {i})
  BY <1>3, <1>7, InFront
<1>10. /\ hash \in [Hashes -> Seq(Buffers)]
       /\ \A h \in Hashes : hash[h] = IF h = h0 THEN <<i>> \o e.hash[h0] ELSE e.hash[h]
  <2>1. <<i>> \o e.hash[h0] \in Seq(Buffers)
    BY <1>9 DEF Lists
  <2> QED
    BY <1>1, <1>3, <2>1
<1> HIDE DEF hash, h0
<1>11. Chained(b, hash)
  <2> SUFFICES ASSUME NEW h \in Hashes PROVE Lists(hash[h], OfHash(b, h))
    BY DEF Chained
  <2>1. CASE h = h0
    BY <1>3, <1>8, <1>9, <1>10, <2>1
  <2>2. CASE h # h0
    BY <1>7, <1>8, <1>10, <2>2
  <2> QED
    BY <2>1, <2>2
<1>12. n \in Cache /\ n.buf = b /\ n.hash = hash /\ n.lru = e.lru /\ n.inuse = e.inuse
  <2> HIDE DEF n
  <2> QED
    BY <1>1, <1>4, <1>6, <1>10 DEF Cache
<1> HIDE DEF n
<1>13. Others(s, n, i) /\ n.buf[i].dev = d /\ n.buf[i].blk = blk /\ n.buf[i].count = 1
  BY <1>5, <1>6, <1>12 DEF Others, Evicted
<1>14. Counted(n.buf, n.lru, n.inuse)
  <2>1. Idle(b) = Idle(s.buf) \ {i} /\ Busy(b) = Busy(s.buf) \cup {i} /\ i \notin Busy(s.buf)
    BY <1>1, <1>5, <1>6, <1>12, <1>13 DEF Others, Idle, Busy
  <2>2. s.inuse = Cardinality(Busy(s.buf)) /\ IsFiniteSet(Busy(s.buf))
    BY BuffersFinite DEF Good, Counted, Busy
  <2>3. Cardinality(Busy(b)) = s.inuse + 1
    BY <2>1, <2>2, FS_AddElement
  <2> QED
    BY <1>12, <2>1, <2>3 DEF Counted, Evicted
<1>15. Named(n.buf)
  <2> SUFFICES ASSUME NEW j \in Buffers, n.buf[j].dev # NO_DEV
               PROVE  /\ Id(n.buf[j]) \in Ids
                      /\ \A k \in Buffers : Id(n.buf[j]) = Id(n.buf[k]) => j = k
    BY DEF Named
  <2>1. \A k \in Buffers \ {i} : n.buf[k].dev # NO_DEV => Id(n.buf[k]) = Id(s.buf[k])
                                    /\ s.buf[k].dev # NO_DEV
    BY <1>13 DEF Others, Id
  <2>2. Id(n.buf[i]) = <<d, blk>>
    BY <1>13 DEF Id
  <2>3. \A k \in Buffers : Id(n.buf[j]) = Id(n.buf[k]) => n.buf[k].dev # NO_DEV
    BY DEF Id
  <2>4. CASE j = i
    <3>1. <<d, blk>> \in Ids /\ \A k \in Buffers : Id(s.buf[k]) # <<d, blk>>
      BY <1>13, <2>4 DEF NewName
    <3> QED
      BY <2>1, <2>2, <2>3, <2>4, <3>1
  <2>5. CASE j # i
    <3>1. /\ Id(n.buf[j]) = Id(s.buf[j]) /\ Id(s.buf[j]) \in Ids
          /\ \A k \in Buffers : Id(s.buf[j]) = Id(s.buf[k]) => j = k
      BY <2>1, <2>5 DEF Good, Named
    <3>2. Id(n.buf[j]) # Id(n.buf[i])
      <4>1. CASE n.buf[i].dev = NO_DEV
        BY <2>3, <4>1
      <4>2. CASE n.buf[i].dev # NO_DEV
        BY <1>13, <2>2, <3>1, <4>2 DEF NewName
      <4> QED
        BY <4>1, <4>2
    <3> QED
      BY <2>1, <2>3, <3>1, <3>2
  <2> QED
    BY <2>4, <2>5
<1>16. Filled(n.buf, {i})
  <2>1. \A j \in Buffers \ {i} : n.buf[j].data = s.buf[j].data
    BY <1>6, <1>12 DEF Evicted
  <2> QED
    BY <1>13, <2>1 DEF Filled, Good, Others
<1> QED
  BY <1>1, <1>11, <1>12, <1>13, <1>14, <1>15, <1>16 DEF Good, n

\* The victim under its new name.
NamedAnew(s, i, n, d, blk) ==
    /\ i \in Buffers /\ Good(n, {i}) /\ Others(s, n, i)
    /\ s.buf[i].count = 0 /\ n.buf[i].count = 1
    /\ n.buf[i].dev = d /\ n.buf[i].blk = blk

LEMMA RenamedIs ==
    ASSUME NEW s, Good(s, {}), s.lru # <<>>, NEW d, NEW blk, NewName(s, d, blk), NEW mode
    PROVE  NamedAnew(s, Head(s.lru), Renamed(s, Head(s.lru), d, blk, mode), d, blk)
<1> DEFINE i == Head(s.lru)
           e == IF d # Ram /\ mode # "NO_READ" THEN Yield(Evict(s), i) ELSE Evict(s)
<1>1. Evicted(s, i, Evict(s))
  BY EvictIs
<1>2. i \in Buffers
  BY <1>1 DEF Evicted, Idle
<1> HIDE DEF i
<1>3. Evicted(s, i, Yield(Evict(s), i))
  BY <1>1, <1>2, YieldIs
<1>4. Evicted(s, i, e)
  BY <1>1, <1>3
<1>5. Renamed(s, i, d, blk, mode) = Name(e, i, d, blk)
  BY DEF Renamed
<1> HIDE DEF e
<1>6. LET n == Name(e, i, d, blk)
      IN /\ Good(n, {i}) /\ Others(s, n, i)
         /\ s.buf[i].count = 0 /\ n.buf[i].count = 1
         /\ n.buf[i].dev = d /\ n.buf[i].blk = blk
  BY <1>2, <1>4, NameIs
<1> QED
  BY <1>2, <1>5, <1>6 DEF i, NamedAnew

\* The fields that a read error sets.
Nameless(buf, i) == [buf EXCEPT ![i] = [buf[i] EXCEPT !.dev = NO_DEV, !.dirt = "CLEAN"]]
ReadError(w, i) == [w EXCEPT !.buf[i].dev = NO_DEV, !.buf[i].dirt = "CLEAN", !.rdwt_err = "EIO"]

LEMMA NamelessIs ==
    ASSUME NEW w \in Cache, NEW i \in Buffers
    PROVE  ReadError(w, i) = [w EXCEPT !.buf = Nameless(w.buf, i), !.rdwt_err = "EIO"]
<1> DEFINE x == [w.buf EXCEPT ![i] = [w.buf[i] EXCEPT !.dev = NO_DEV]]
           y == [w EXCEPT !.buf = x]
           b == Nameless(w.buf, i)
<1>1. w.buf \in [Buffers -> Buffer] /\ w.buf[i] \in Buffer
  BY Fields, BufferFields
<1>2. [w EXCEPT !.buf[i].dev = NO_DEV] = y
  OBVIOUS
<1>3. [x EXCEPT ![i].dirt = "CLEAN"] = b
  BY <1>1 DEF Buffer, Nameless
<1> HIDE DEF x, b
<1>4. [y EXCEPT !.buf[i].dirt = "CLEAN"] = [w EXCEPT !.buf = b]
  BY <1>3 DEF Cache
<1> QED
  BY <1>2, <1>4 DEF b, ReadError

\* What a read leaves: the content of the block, or a buffer without a name.
LEMMA ReadIs ==
    ASSUME NEW s, NEW i \in Buffers, Good(s, {i}), Id(s.buf[i]) \in Ids
    PROVE  Alike(s, rw_block_read(s, i)) /\ Filled(rw_block_read(s, i).buf, {})
<1> DEFINE id == Id(s.buf[i])
           t == rw_block_read(s, i)
<1>1. s \in Cache /\ s.buf \in [Buffers -> Buffer] /\ s.buf[i] \in Buffer
  BY Fields, BufferFields DEF Good
<1>2. CASE Transferred(s, <<id>>) = 1
  <2> DEFINE r == [s.buf[i] EXCEPT !.data = s.disk[id], !.dirt = "CLEAN"]
             b == [s.buf EXCEPT ![i] = r]
  <2>1. t = [s EXCEPT !.buf = b]
    <3>1. t = [s EXCEPT !.buf = [[s.buf EXCEPT ![i] = [s.buf[i] EXCEPT !.data = s.disk[id]]]
                                    EXCEPT ![i].dirt = "CLEAN"]]
      BY <1>1, <1>2 DEF rw_block_read, Cache
    <3> QED
      BY <1>1, <3>1 DEF Buffer
  <2>2. s.disk[id] \in Values
    BY <1>1, Fields
  <2>3. /\ r \in Buffer /\ r.dev = s.buf[i].dev /\ r.blk = s.buf[i].blk
        /\ r.count = s.buf[i].count /\ r.data \in Values
    BY <1>1, <2>2 DEF Buffer
  <2> HIDE DEF r
  <2>4. b \in [Buffers -> Buffer] /\ b[i] = r /\ \A j \in Buffers \ {i} : b[j] = s.buf[j]
    BY <1>1, <2>3
  <2> HIDE DEF b, t
  <2>5. t \in Cache /\ t.buf = b /\ t.lru = s.lru /\ t.hash = s.hash /\ t.inuse = s.inuse
    BY <1>1, <2>1, <2>4 DEF Cache
  <2>6. Alike(s, t)
    <3>1. \A j \in Buffers : j = i \/ j \in Buffers \ {i}
      OBVIOUS
    <3> QED
      BY <2>3, <2>4, <2>5, <3>1 DEF Alike
  <2>7. Filled(t.buf, {})
    BY <2>3, <2>4, <2>5 DEF Filled, Good
  <2> QED
    BY <2>6, <2>7 DEF t
<1>3. CASE Transferred(s, <<id>>) # 1
  <2> DEFINE r == [s.buf[i] EXCEPT !.dev = NO_DEV, !.dirt = "CLEAN"]
             b == [s.buf EXCEPT ![i] = r]
  <2>0. id[1] \in {Disk, Ram}
    BY DEF Ids
  <2>1. PICK v \in [{Disk, Ram} -> {"up", "dead", "none"}] :
            block_dev_io(s, id[1]) = [s EXCEPT !.drv = v]
    BY <1>1, <2>0, DevIoIs
  <2>2. t = [s EXCEPT !.drv = v, !.buf = b, !.rdwt_err = "EIO"]
    <3> DEFINE w == [s EXCEPT !.drv = v]
    <3>1. w \in Cache /\ w.buf = s.buf
      BY <1>1 DEF Cache
    <3>2. t = ReadError(w, i)
      BY <1>3, <2>1 DEF rw_block_read, ReadError
    <3>3. b = Nameless(s.buf, i)
      BY DEF Nameless
    <3> HIDE DEF b, t, w
    <3>4. t = [w EXCEPT !.buf = b, !.rdwt_err = "EIO"]
      BY <3>1, <3>2, <3>3, NamelessIs
    <3> QED
      BY <3>4 DEF w
  <2>3. /\ r \in Buffer /\ r.dev = NO_DEV /\ r.blk = s.buf[i].blk
        /\ r.count = s.buf[i].count
    BY <1>1 DEF Buffer
  <2> HIDE DEF r
  <2>4. b \in [Buffers -> Buffer] /\ b[i] = r /\ \A j \in Buffers \ {i} : b[j] = s.buf[j]
    BY <1>1, <2>3
  <2> HIDE DEF b, t
  <2>5. t \in Cache /\ t.buf = b /\ t.lru = s.lru /\ t.hash = s.hash /\ t.inuse = s.inuse
    BY <1>1, <2>2, <2>4 DEF Cache
  <2>6. Alike(s, t)
    <3>1. \A j \in Buffers : j = i \/ j \in Buffers \ {i}
      OBVIOUS
    <3> QED
      BY <2>3, <2>4, <2>5, <3>1 DEF Alike
  <2>7. Filled(t.buf, {})
    BY <2>3, <2>4, <2>5 DEF Filled, Good
  <2> QED
    BY <2>6, <2>7 DEF t
<1> QED
  BY <1>2, <1>3

\* What the buffer holds once its block is fetched, if it still has a name.
Unless(mode, i) == IF mode = "NO_READ" THEN {i} ELSE {}

FetchedOK(s, t, Y) == Good(t, Y) /\ Alike(s, t) /\ Counts(t) = Counts(s)

LEMMA FetchIs ==
    ASSUME NEW s, NEW i \in Buffers, Good(s, {i}),
           NEW id \in Ids, Id(s.buf[i]) = id, NEW mode
    PROVE  FetchedOK(s, Fetch(s, i, id, mode), Unless(mode, i))
<1> DEFINE t == Fetch(s, i, id, mode)
           Y == IF mode = "NO_READ" THEN {i} ELSE {}
<1> SUFFICES Good(t, Y) /\ Alike(s, t) /\ Counts(t) = Counts(s)
  BY DEF FetchedOK, Unless
<1>1. s \in Cache /\ s.buf \in [Buffers -> Buffer] /\ s.buf[i] \in Buffer
  BY Fields, BufferFields DEF Good
<1>2. \A v \in [Ids -> Values \cup {Unknown}], b \in [Buffers -> Buffer] :
        LET u == [s EXCEPT !.buf = b, !.vm = v]
        IN /\ u \in Cache /\ u.buf = b /\ u.lru = s.lru
           /\ u.hash = s.hash /\ u.inuse = s.inuse
  BY <1>1 DEF Cache
<1>3. s = [s EXCEPT !.buf = s.buf, !.vm = s.vm]
  BY <1>1 DEF Cache
<1>4. [s.vm EXCEPT ![id] = Unknown] \in [Ids -> Values \cup {Unknown}]
  BY <1>1, Fields
<1>5. s.vm \in [Ids -> Values \cup {Unknown}]
  BY <1>1, Fields
<1>6. Alike(s, s)
  BY <1>1 DEF Alike
<1>7. CASE mode = "NO_READ"
  <2>1. CASE id[1] # Ram
    <3> DEFINE u == [s EXCEPT !.buf = s.buf, !.vm = [s.vm EXCEPT ![id] = Unknown]]
    <3>1. t = u
      BY <1>1, <1>7, <2>1 DEF Fetch, Cache
    <3>2. Alike(s, u) /\ u.buf = s.buf
      BY <1>1, <1>2, <1>4 DEF Alike
    <3> HIDE DEF u, t
    <3>3. Filled(t.buf, Y)
      BY <1>7, <3>1, <3>2 DEF Good
    <3> QED
      BY <3>1, <3>2, <3>3, AlikeKeeps DEF t, Y
  <2>2. CASE id[1] = Ram
    <3>1. t = s
      BY <1>7, <2>2 DEF Fetch
    <3> QED
      BY <1>6, <1>7, <3>1 DEF Y
  <2> QED
    BY <2>1, <2>2
<1>8. CASE mode # "NO_READ" /\ id[1] # Ram /\ s.vm[id] # Unknown
  <2> DEFINE r == [s.buf[i] EXCEPT !.data = s.vm[id]]
             b == [s.buf EXCEPT ![i] = r]
             u == [s EXCEPT !.buf = b, !.vm = [s.vm EXCEPT ![id] = Unknown]]
  <2>1. t = u
    BY <1>1, <1>8 DEF Fetch, FromVM
  <2>2. s.vm[id] \in Values
    BY <1>5, <1>8
  <2>3. /\ r \in Buffer /\ r.dev = s.buf[i].dev /\ r.blk = s.buf[i].blk
        /\ r.count = s.buf[i].count /\ r.data \in Values
    BY <1>1, <2>2 DEF Buffer
  <2> HIDE DEF r
  <2>4. b \in [Buffers -> Buffer] /\ b[i] = r /\ \A j \in Buffers \ {i} : b[j] = s.buf[j]
    BY <1>1, <2>3
  <2> HIDE DEF b
  <2>5. u \in Cache /\ u.buf = b /\ u.lru = s.lru /\ u.hash = s.hash /\ u.inuse = s.inuse
    BY <1>2, <1>4, <2>4
  <2> HIDE DEF u, t
  <2>6. Alike(s, t)
    <3>1. \A j \in Buffers : j = i \/ j \in Buffers \ {i}
      OBVIOUS
    <3> QED
      BY <2>1, <2>3, <2>4, <2>5, <3>1 DEF Alike
  <2>7. Filled(t.buf, Y)
    BY <1>8, <2>1, <2>3, <2>4, <2>5 DEF Filled, Good
  <2> QED
    BY <2>6, <2>7, AlikeKeeps DEF t, Y
<1>9. CASE ~(id[1] # Ram /\ s.vm[id] # Unknown) /\ mode = "PREFETCH"
  <2> DEFINE r == [s.buf[i] EXCEPT !.dev = NO_DEV]
             b == [s.buf EXCEPT ![i] = r]
             u == [s EXCEPT !.buf = b, !.vm = s.vm]
  <2>1. t = u
    <3>1. t = [s EXCEPT !.buf = b]
      BY <1>1, <1>9 DEF Fetch
    <3> HIDE DEF b, t
    <3> QED
      BY <1>1, <3>1 DEF Cache
  <2>3. /\ r \in Buffer /\ r.dev = NO_DEV /\ r.blk = s.buf[i].blk
        /\ r.count = s.buf[i].count
    BY <1>1 DEF Buffer
  <2> HIDE DEF r
  <2>4. b \in [Buffers -> Buffer] /\ b[i] = r /\ \A j \in Buffers \ {i} : b[j] = s.buf[j]
    BY <1>1, <2>3
  <2> HIDE DEF b
  <2>5. u \in Cache /\ u.buf = b /\ u.lru = s.lru /\ u.hash = s.hash /\ u.inuse = s.inuse
    BY <1>2, <1>5, <2>4
  <2> HIDE DEF u, t
  <2>6. Alike(s, t)
    <3>1. \A j \in Buffers : j = i \/ j \in Buffers \ {i}
      OBVIOUS
    <3> QED
      BY <2>1, <2>3, <2>4, <2>5, <3>1 DEF Alike
  <2>7. Filled(t.buf, Y)
    BY <1>9, <2>1, <2>3, <2>4, <2>5 DEF Filled, Good
  <2> QED
    BY <2>6, <2>7, AlikeKeeps DEF t, Y
<1>10. CASE ~(id[1] # Ram /\ s.vm[id] # Unknown) /\ mode # "PREFETCH" /\ mode # "NO_READ"
  <2>1. t = rw_block_read(s, i)
    BY <1>10 DEF Fetch
  <2>2. Alike(s, t) /\ Filled(t.buf, {})
    BY <2>1, ReadIs
  <2> HIDE DEF t
  <2> QED
    BY <1>10, <2>2, AlikeKeeps DEF t, Y
<1> QED
  BY <1>7, <1>8, <1>9, <1>10

\* The search of the chain finds a buffer just when there is one.
LEMMA FoundIs ==
    ASSUME NEW X, NEW s, Good(s, X), NEW d \in {Disk, Ram}, NEW blk \in Nat
    PROVE  /\ Found(s, d, blk) = {} => \A j \in Buffers : Id(s.buf[j]) # <<d, blk>>
           /\ Found(s, d, blk) # {} =>
                /\ s.hash[BUFHASH(blk)][Min(Found(s, d, blk))] \in Buffers
                /\ Id(s.buf[s.hash[BUFHASH(blk)][Min(Found(s, d, blk))]]) = <<d, blk>>
<1> DEFINE h == BUFHASH(blk)
           l == s.hash[h]
           F == Found(s, d, blk)
<1>1. h \in Hashes
  BY HashIs
<1>2. Lists(l, OfHash(s.buf, h))
  BY <1>1 DEF Good, Chained
<1>3. DOMAIN l = 1..Len(l) /\ Len(l) \in Nat
  BY <1>2, LenProperties DEF Lists
<1>4. F = {k \in 1..Len(l) : s.buf[l[k]].blk = blk /\ s.buf[l[k]].dev = d}
  BY <1>3 DEF Found
<1>5. ASSUME NEW j \in Buffers, Id(s.buf[j]) = <<d, blk>> PROVE F # {}
  <2>1. s.buf[j].dev = d /\ s.buf[j].blk = blk
    BY <1>5 DEF Id
  <2>2. j \in OfHash(s.buf, h)
    BY <2>1 DEF OfHash
  <2>3. PICK k \in 1..Len(l) : l[k] = j
    BY <1>2, <2>2 DEF Lists
  <2> QED
    BY <1>4, <2>1, <2>3
<1>6. ASSUME F # {} PROVE Min(F) \in F
  <2>1. F \subseteq Nat
    BY <1>3, <1>4
  <2> HIDE DEF F
  <2>2. PICK k \in F : \A m \in F : ~(<<m, k>> \in OpToRel(<, Nat))
    BY <1>6, <2>1, NatLessThanWellFounded, WFMin
  <2>3. \A m \in F : k =< m
    <3> TAKE m \in F
    <3>1. m \in Nat /\ k \in Nat /\ ~(m < k)
      BY <2>1, <2>2 DEF OpToRel
    <3> QED
      BY <3>1
  <2> QED
    BY <2>3 DEF Min
<1>7. ASSUME NEW k \in F
      PROVE  l[k] \in Buffers /\ Id(s.buf[l[k]]) = <<d, blk>>
  <2>1. k \in 1..Len(l) /\ s.buf[l[k]].blk = blk /\ s.buf[l[k]].dev = d
    BY <1>4
  <2> QED
    BY <1>2, <2>1 DEF Lists, OfHash, Id
<1> QED
  BY <1>5, <1>6, <1>7

\* What get_block gives: the buffer has one use more, and either no name or
\* the one asked for; it was free before or had the name already.
Got(s, g, d, blk, X) ==
    /\ g.i \in Buffers /\ Good(g.s, X) /\ Others(s, g.s, g.i)
    /\ Counts(g.s) = [Counts(s) EXCEPT ![g.i] = @ + 1]
    /\ g.s.buf[g.i].dev = NO_DEV \/ Id(g.s.buf[g.i]) = <<d, blk>>
    /\ s.buf[g.i].count = 0 \/ Id(s.buf[g.i]) = <<d, blk>>
    /\ g.s.buf[g.i].dev = NO_DEV =>
        /\ s.buf[g.i].count = 0 /\ g.s.buf[g.i].blk = blk
        /\ \A j \in Buffers : Id(s.buf[j]) # <<d, blk>>

LEMMA GetIs ==
    ASSUME NEW s, Good(s, {}), s.lru # <<>>, NEW d, NEW blk, <<d, blk>> \in Ids, NEW mode
    PROVE  LET g == get_block(s, d, blk, mode)
           IN  Got(s, g, d, blk, Unless(mode, g.i))
<1> DEFINE g == get_block(s, d, blk, mode)
           hit == s.hash[BUFHASH(blk)][Min(Found(s, d, blk))]
           i == Head(s.lru)
           n == Renamed(s, i, d, blk, mode)
           t == Fetch(n, i, <<d, blk>>, mode)
<1>1. blk \in Nat /\ d \in {Disk, Ram} /\ d # NO_DEV
  BY IdsAre
<1>2. CASE Found(s, d, blk) # {}
  <2>1. g = [s |-> Use(s, hit), i |-> hit]
    BY <1>1, <1>2 DEF get_block
  <2>2. hit \in Buffers /\ Id(s.buf[hit]) = <<d, blk>>
    BY <1>1, <1>2, FoundIs
  <2> HIDE DEF hit
  <2>3. /\ Good(Use(s, hit), {}) /\ Recounted(s, Use(s, hit))
        /\ Counts(Use(s, hit)) = [Counts(s) EXCEPT ![hit] = @ + 1]
    BY <2>2, UseIs
  <2>4. g.s = Use(s, hit) /\ g.i = hit
    BY <2>1
  <2> DEFINE u == Use(s, hit)
             X == Unless(mode, hit)
  <2> HIDE DEF u, g, X
  <2>5. Good(u, X)
    BY <2>3 DEF Good, Filled, X, u, Unless
  <2>6. \A j \in Buffers : Counts(u)[j] = u.buf[j].count /\ Counts(s)[j] = s.buf[j].count
    BY DEF Counts
  <2>7. Others(s, u, hit)
    <3>1. \A j \in Buffers \ {hit} : u.buf[j].count = s.buf[j].count
      BY <2>3, <2>6 DEF u, Counts
    <3> QED
      BY <2>3, <3>1 DEF Others, Recounted, u
  <2>8. Id(u.buf[hit]) = <<d, blk>> /\ u.buf[hit].dev # NO_DEV
    BY <1>1, <2>2, <2>3 DEF Recounted, Id, u
  <2>9. Got(s, g, d, blk, X)
    BY <2>2, <2>3, <2>4, <2>5, <2>7, <2>8 DEF Got, u
  <2> QED
    BY <2>4, <2>9 DEF g, X
<1>3. CASE Found(s, d, blk) = {}
  <2>1. g = [s |-> t, i |-> i]
    BY <1>1, <1>3 DEF get_block
  <2>2. \A j \in Buffers : Id(s.buf[j]) # <<d, blk>>
    BY <1>1, <1>3, FoundIs
  <2>3. NewName(s, d, blk)
    BY <1>1, <2>2 DEF NewName
  <2>4. /\ i \in Buffers /\ Good(n, {i}) /\ Others(s, n, i)
        /\ s.buf[i].count = 0 /\ n.buf[i].count = 1
        /\ n.buf[i].dev = d /\ n.buf[i].blk = blk
    <3>1. NamedAnew(s, Head(s.lru), Renamed(s, Head(s.lru), d, blk, mode), d, blk)
      BY <2>3, RenamedIs, Zenon
    <3> QED
      BY <3>1 DEF NamedAnew
  <2> DEFINE X == Unless(mode, i)
  <2> HIDE DEF i, n
  <2>5. Id(n.buf[i]) = <<d, blk>>
    BY <2>4 DEF Id
  <2>6. Good(t, X) /\ Alike(n, t) /\ Counts(t) = Counts(n)
    BY <2>4, <2>5, FetchIs DEF FetchedOK
  <2>7. g.s = t /\ g.i = i
    BY <2>1
  <2> HIDE DEF t, g, X
  <2>8. Others(s, t, i)
    BY <2>4, <2>6 DEF Others, Alike
  <2>9. Counts(t) = [Counts(s) EXCEPT ![i] = @ + 1]
    <3>1. \A j \in Buffers : n.buf[j].count = IF j = i THEN s.buf[j].count + 1
                                             ELSE s.buf[j].count
      BY <2>4 DEF Others
    <3> QED
      BY <2>6, <3>1 DEF Counts
  <2>10. /\ t.buf[i].blk = blk
         /\ t.buf[i].dev = NO_DEV \/ Id(t.buf[i]) = <<d, blk>>
    BY <2>4, <2>6 DEF Alike, Id
  <2>11. Got(s, g, d, blk, X)
    BY <2>2, <2>4, <2>6, <2>7, <2>8, <2>9, <2>10 DEF Got
  <2> QED
    BY <2>7, <2>11 DEF g, X
<1> QED
  BY <1>2, <1>3

-----------------------------------------------------------------------------
(* Read-ahead *)

On(q, i) == \E k \in 1..Len(q) : q[k] = i

\* The releases one after the other are a function,
Releases(f, s, q, n) ==
    f = [m \in 0..n |-> IF m = 0 THEN s ELSE put_block(f[m - 1], q[m])]

LEMMA PutAfter ==
    ASSUME NEW s, NEW q, NEW n \in Nat
    PROVE  \E f : Releases(f, s, q, n)
<1> DEFINE Is(f, k) == f = [m \in 0..k |-> IF m = 0 THEN s ELSE put_block(f[m - 1], q[m])]
           Bad == {k \in Nat : ~\E f : Is(f, k)}
<1>1. Bad = {}
  <2> SUFFICES ASSUME Bad # {} PROVE FALSE
    OBVIOUS
  <2>1. PICK k \in Bad : \A m \in Bad : ~(<<m, k>> \in OpToRel(<, Nat))
    BY NatLessThanWellFounded, WFMin, Bad \subseteq Nat
  <2>2. k \in Nat /\ (~\E f : Is(f, k)) /\ \A m \in Bad : ~(m < k)
    BY <2>1 DEF OpToRel
  <2>3. CASE k = 0
    <3>1. Is([m \in 0..0 |-> s], 0)
      OBVIOUS
    <3> QED
      BY <2>2, <2>3, <3>1
  <2>4. CASE k # 0
    <3>1. k - 1 \in Nat /\ k - 1 < k
      BY <2>2, <2>4
    <3>2. PICK g : Is(g, k - 1)
      BY <2>2, <3>1
    <3> DEFINE F == [m \in 0..k |-> IF m = k THEN put_block(g[k - 1], q[k]) ELSE g[m]]
    <3>3. \A m \in 0..(k - 1) : g[m] = IF m = 0 THEN s ELSE put_block(g[m - 1], q[m])
      BY <3>2
    <3>4. ASSUME NEW m \in 0..k
          PROVE  F[m] = IF m = 0 THEN s ELSE put_block(F[m - 1], q[m])
      <4>1. CASE m = k
        BY <2>2, <2>4, <3>1, <4>1
      <4>2. CASE m # k
        <5>1. m \in 0..(k - 1) /\ (m # 0 => m - 1 \in 0..k /\ m - 1 # k)
          BY <2>2, <3>1, <4>2
        <5>2. F[m] = g[m] /\ (m # 0 => F[m - 1] = g[m - 1])
          BY <4>2, <5>1
        <5> HIDE DEF F
        <5> QED
          BY <3>3, <5>1, <5>2
      <4> QED
        BY <4>1, <4>2
    <3>5. Is(F, k)
      BY <3>4
    <3> QED
      BY <2>2, <3>5
  <2> QED
    BY <2>3, <2>4
<1> QED
  BY <1>1 DEF Releases
\* and after them the buffers of the queue are in nobody's use.
Released(s, q, k, t) ==
    /\ Good(t, {})
    /\ \A i \in Buffers : t.buf[i].count = IF \E m \in 1..k : q[m] = i THEN 0
                                           ELSE s.buf[i].count

LEMMA PutAllIs ==
    ASSUME NEW s, Good(s, {}), NEW q \in Seq(Buffers),
           \A k, m \in 1..Len(q) : q[k] = q[m] => k = m,
           \A k \in 1..Len(q) : s.buf[q[k]].count = 1
    PROVE  Released(s, q, Len(q), put_all(s, q))
<1> DEFINE n == Len(q)
           f == CHOOSE g : g = [m \in 0..n |-> IF m = 0 THEN s ELSE put_block(g[m - 1], q[m])]
<1>1. n \in Nat
  BY LenProperties
<1>2. put_all(s, q) = f[n]
  BY DEF put_all
<1> HIDE DEF n
<1>3. f = [m \in 0..n |-> IF m = 0 THEN s ELSE put_block(f[m - 1], q[m])]
  <2>1. \E g : g = [m \in 0..n |-> IF m = 0 THEN s ELSE put_block(g[m - 1], q[m])]
    <3>1. PICK g : Releases(g, s, q, n)
      BY <1>1, PutAfter
    <3>2. g = [m \in 0..n |-> IF m = 0 THEN s ELSE put_block(g[m - 1], q[m])]
      BY <3>1 DEF Releases
    <3> QED
      BY <3>2
  <2> QED
    BY <2>1
<1> HIDE DEF f
<1>4. Released(s, q, 0, s)
  BY DEF Released
<1> DEFINE Off == {m \in Nat : m \in 0..n /\ ~Released(s, q, m, f[m])}
<1>5. Off = {}
  <2> SUFFICES ASSUME Off # {} PROVE FALSE
    OBVIOUS
  <2>1. PICK m \in Off : \A k \in Off : ~(<<k, m>> \in OpToRel(<, Nat))
    BY NatLessThanWellFounded, WFMin, Off \subseteq Nat
  <2>2. m \in 0..n /\ ~Released(s, q, m, f[m]) /\ \A k \in Off : ~(k < m)
    BY <2>1 DEF OpToRel
  <2>3. m # 0
    BY <1>1, <1>3, <1>4, <2>2
  <2>4. m - 1 \in 0..n /\ m - 1 \in Nat /\ m - 1 < m /\ m \in 1..n
    BY <1>1, <2>2, <2>3
  <2> DEFINE t == f[m - 1]
  <2>5. Released(s, q, m - 1, t)
    BY <2>2, <2>4
  <2>6. f[m] = put_block(t, q[m])
    BY <1>3, <2>2, <2>3
  <2> HIDE DEF t
  <2>7. q[m] \in Buffers /\ s.buf[q[m]].count = 1
    BY <2>4 DEF n
  <2>8. ~\E k \in 1..(m - 1) : q[k] = q[m]
    BY <1>1, <2>4 DEF n
  <2>9. t.buf[q[m]].count = 1
    BY <2>5, <2>7, <2>8 DEF Released
  <2>10. /\ Good(f[m], {})
         /\ Counts(f[m]) = [Counts(t) EXCEPT ![q[m]] = @ - 1]
    <3> DEFINE j == q[m]
    <3>1. Good(t, {}) /\ j \in Buffers /\ t.buf[j].count # 0
      BY <2>5, <2>7, <2>9 DEF Released
    <3> HIDE DEF j
    <3>2. /\ Good(put_block(t, j), {})
          /\ Counts(put_block(t, j)) = [Counts(t) EXCEPT ![j] = @ - 1]
      BY <3>1, PutIs
    <3> QED
      BY <2>6, <3>2 DEF j
  <2>11. \A i \in Buffers : f[m].buf[i].count = IF i = q[m] THEN 0 ELSE t.buf[i].count
    BY <2>7, <2>9, <2>10 DEF Counts
  <2>12. \A i \in Buffers : (\E k \in 1..m : q[k] = i)
                                <=> i = q[m] \/ \E k \in 1..(m - 1) : q[k] = i
    BY <2>4
  <2>13. \A i \in Buffers : f[m].buf[i].count = IF \E k \in 1..m : q[k] = i THEN 0
                                               ELSE s.buf[i].count
    BY <2>5, <2>11, <2>12 DEF Released
  <2> QED
    BY <2>2, <2>10, <2>13 DEF Released
<1>6. Released(s, q, n, f[n])
  BY <1>1, <1>5
<1> QED
  BY <1>2, <1>6 DEF n

\* Buffers for the blocks from base on, which no buffer has.
Prefetched(s, q, d, base) ==
    /\ q \in Seq(Buffers)
    /\ \A k \in 1..Len(q) :
        /\ s.buf[q[k]].dev = NO_DEV /\ s.buf[q[k]].blk = base + k - 1
        /\ s.buf[q[k]].count = 1
        /\ <<d, base + k - 1>> \in Ids
        /\ \A j \in Buffers : Id(s.buf[j]) # <<d, base + k - 1>>

\* Those that are read get the names.
LEMMA FetchedKeeps ==
    ASSUME NEW s, Good(s, {}), NEW d \in {Disk, Ram}, NEW base \in Nat,
           NEW q, Prefetched(s, q, d, base), NEW done, \A i \in done : On(q, i)
    PROVE  Good(Fetched(s, d, done), {}) /\ Counts(Fetched(s, d, done)) = Counts(s)
<1> DEFINE r(i) == [s.buf[i] EXCEPT !.dev = d, !.data = s.disk[<<d, s.buf[i].blk>>]]
           b == [i \in Buffers |-> IF i \in done THEN r(i) ELSE s.buf[i]]
           t == Fetched(s, d, done)
<1>1. s \in Cache /\ s.buf \in [Buffers -> Buffer] /\ s.disk \in [Ids -> Values]
  BY Fields DEF Good
<1>2. Len(q) \in Nat
  BY LenProperties DEF Prefetched
<1>3. ASSUME NEW i \in done
      PROVE  /\ i \in Buffers /\ s.buf[i].dev = NO_DEV
             /\ <<d, s.buf[i].blk>> \in Ids
             /\ \A j \in Buffers : Id(s.buf[j]) # <<d, s.buf[i].blk>>
             /\ \A j \in done : s.buf[i].blk = s.buf[j].blk => i = j
  <2>1. PICK k \in 1..Len(q) : q[k] = i
    BY DEF On
  <2>2. /\ i \in Buffers /\ s.buf[i].dev = NO_DEV /\ s.buf[i].blk = base + k - 1
        /\ <<d, base + k - 1>> \in Ids
        /\ \A j \in Buffers : Id(s.buf[j]) # <<d, base + k - 1>>
    BY <2>1 DEF Prefetched
  <2>3. ASSUME NEW j \in done, s.buf[i].blk = s.buf[j].blk PROVE i = j
    <3>1. PICK m \in 1..Len(q) : q[m] = j
      BY DEF On
    <3>2. s.buf[j].blk = base + m - 1
      BY <3>1 DEF Prefetched
    <3>3. base + k - 1 = base + m - 1
      BY <2>2, <2>3, <3>2
    <3>4. k = m
      BY <1>2, <3>3
    <3> QED
      BY <2>1, <3>1, <3>4
  <2> QED
    BY <2>2, <2>3
<1>4. ASSUME NEW i \in done
      PROVE  /\ r(i) \in Buffer /\ r(i).dev = d /\ r(i).blk = s.buf[i].blk
             /\ r(i).count = s.buf[i].count /\ r(i).data \in Values
  <2>1. s.buf[i] \in Buffer /\ s.disk[<<d, s.buf[i].blk>>] \in Values
    BY <1>1, <1>3
  <2> QED
    BY <2>1 DEF Buffer
<1>5. PICK v \in [{Disk, Ram} -> {"up", "dead", "none"}] :
            block_dev_io(s, d) = [s EXCEPT !.drv = v]
  BY <1>1, DevIoIs
<1>6. t = [s EXCEPT !.drv = v, !.buf = b]
  <2>1. [s EXCEPT !.drv = v].buf = s.buf
    BY <1>1 DEF Cache
  <2>2. t = [[s EXCEPT !.drv = v] EXCEPT !.buf = b]
    BY <1>5, <2>1 DEF Fetched
  <2> HIDE DEF b, t
  <2> QED
    BY <1>1, <2>2 DEF Cache
<1> HIDE DEF r
<1>7. b \in [Buffers -> Buffer]
  BY <1>1, <1>4
<1>8. \A i \in Buffers : b[i] = IF i \in done THEN r(i) ELSE s.buf[i]
  OBVIOUS
<1> HIDE DEF b, t
<1>9. t \in Cache /\ t.buf = b /\ t.lru = s.lru /\ t.hash = s.hash /\ t.inuse = s.inuse
  BY <1>1, <1>6, <1>7 DEF Cache
<1>10. \A i \in Buffers : /\ t.buf[i].blk = s.buf[i].blk /\ t.buf[i].count = s.buf[i].count
                          /\ i \in done => t.buf[i].dev = d /\ t.buf[i].data \in Values
                          /\ i \notin done => t.buf[i] = s.buf[i]
  BY <1>4, <1>8, <1>9
<1>11. \A h : OfHash(t.buf, h) = OfHash(s.buf, h)
  BY <1>10 DEF OfHash
<1>12. Idle(t.buf) = Idle(s.buf) /\ Busy(t.buf) = Busy(s.buf)
  BY <1>10 DEF Idle, Busy
<1>13. Chained(t.buf, t.hash) /\ Counted(t.buf, t.lru, t.inuse)
  BY <1>9, <1>11, <1>12 DEF Good, Chained, Counted
<1>14. Filled(t.buf, {})
  BY <1>10 DEF Good, Filled
<1>15. Named(t.buf)
  <2> SUFFICES ASSUME NEW i \in Buffers, t.buf[i].dev # NO_DEV
               PROVE  /\ Id(t.buf[i]) \in Ids
                      /\ \A j \in Buffers : Id(t.buf[i]) = Id(t.buf[j]) => i = j
    BY DEF Named
  <2>1. \A j \in done : Id(t.buf[j]) = <<d, s.buf[j].blk>>
    BY <1>3, <1>10 DEF Id
  <2>2. \A j \in Buffers : j \notin done => Id(t.buf[j]) = Id(s.buf[j])
    BY <1>10
  <2>3. CASE i \in done
    <3>1. Id(t.buf[i]) = <<d, s.buf[i].blk>> /\ Id(t.buf[i]) \in Ids
      BY <1>3, <2>1, <2>3
    <3>2. ASSUME NEW j \in Buffers, Id(t.buf[i]) = Id(t.buf[j]) PROVE i = j
      <4>1. j \in done
        BY <1>3, <2>2, <2>3, <3>1, <3>2
      <4>2. s.buf[i].blk = s.buf[j].blk
        BY <2>1, <3>1, <3>2, <4>1
      <4> QED
        BY <1>3, <2>3, <4>1, <4>2
    <3> QED
      BY <3>1, <3>2
  <2>4. CASE i \notin done
    <3>1. /\ s.buf[i].dev # NO_DEV /\ Id(t.buf[i]) = Id(s.buf[i]) /\ Id(s.buf[i]) \in Ids
          /\ \A j \in Buffers : Id(s.buf[i]) = Id(s.buf[j]) => i = j
      BY <1>10, <2>2, <2>4 DEF Good, Named
    <3>2. \A j \in done : Id(t.buf[j]) # Id(s.buf[i])
      BY <1>3, <2>1
    <3> QED
      BY <2>2, <3>1, <3>2
  <2> QED
    BY <2>3, <2>4
<1>16. Counts(t) = Counts(s)
  BY <1>10 DEF Counts
<1> QED
  BY <1>9, <1>13, <1>14, <1>15, <1>16 DEF Good, t

\* The cache while buffers are acquired: those of the queue were free before.
Ahead(s, a, d, base, most) ==
    /\ Good(a.s, {}) /\ Prefetched(a.s, a.q, d, base)
    /\ \A i \in Buffers : /\ On(a.q, i) => s.buf[i].count = 0
                          /\ ~On(a.q, i) => a.s.buf[i].count = s.buf[i].count
    /\ a.left \in Nat /\ Len(a.q) >= 1 /\ Len(a.q) + a.left =< most

\* A free buffer is on the LRU chain.
LEMMA SomeFree ==
    ASSUME NEW X, NEW s, Good(s, X)
    PROVE  /\ \A i \in Buffers : s.buf[i].count = 0 => s.lru # <<>>
           /\ s.inuse < NrBufs => s.lru # <<>>
<1>1. Lists(s.lru, Idle(s.buf)) /\ s.inuse = Cardinality(Busy(s.buf))
  BY DEF Good, Counted
<1>2. s.lru = <<>> => Idle(s.buf) = {}
  BY <1>1 DEF Lists
<1>3. Idle(s.buf) = {} => Busy(s.buf) = Buffers
  BY DEF Idle, Busy
<1>4. Cardinality(Buffers) = NrBufs
  <2>1. Cardinality(1..NrBufs) = IF 1 > NrBufs THEN 0 ELSE NrBufs - 1 + 1
    BY FS_Interval, MfsCacheAssumption
  <2> QED
    BY <2>1, MfsCacheAssumption DEF Buffers
<1>5. \A i \in Buffers : s.buf[i].count = 0 => i \in Idle(s.buf)
  BY DEF Idle
<1> QED
  BY <1>1, <1>2, <1>3, <1>4, <1>5, MfsCacheAssumption

\* One more buffer is acquired.
LEMMA AcquireKeeps ==
    ASSUME NEW s, NEW d \in {Disk, Ram}, NEW base \in Nat, NEW most \in Nat,
           \A k \in 0..(most - 1) : <<d, base + k>> \in Ids,
           NEW a, Ahead(s, a, d, base, most)
    PROVE  Ahead(s, Acquire(a, d, base), d, base, most)
<1> DEFINE t == a.s
           q == a.q
           blk == base + Len(q)
           g == get_block(t, d, blk, "PREFETCH")
           i == g.i
           u == g.s
<1>1. CASE a.left = 0 \/ a.s.inuse >= NrBufs - LeaveFree
  BY <1>1 DEF Acquire
<1>2. CASE ~(a.left = 0 \/ a.s.inuse >= NrBufs - LeaveFree)
  <2>1. /\ Good(t, {}) /\ Prefetched(t, q, d, base) /\ q \in Seq(Buffers)
        /\ \A j \in Buffers : /\ On(q, j) => s.buf[j].count = 0
                              /\ ~On(q, j) => t.buf[j].count = s.buf[j].count
        /\ a.left \in Nat /\ Len(q) >= 1 /\ Len(q) + a.left =< most /\ Len(q) \in Nat
    BY LenProperties DEF Ahead, Prefetched
  <2>2. a.left - 1 \in Nat /\ Len(q) \in 0..(most - 1) /\ blk \in Nat
    BY <1>2, <2>1
  <2>3. <<d, blk>> \in Ids
    BY <2>2
  <2>4. t.lru # <<>>
    <3>1. t.inuse \in Int
      BY <2>1, Fields DEF Good
    <3>2. t.inuse < NrBufs
      BY <1>2, <3>1, MfsCacheAssumption
    <3> QED
      BY <2>1, <3>2, SomeFree
  <2>5. Got(t, g, d, blk, {})
    <3> HIDE DEF t, blk
    <3>1. Got(t, g, d, blk, Unless("PREFETCH", g.i))
      BY <2>1, <2>3, <2>4, GetIs
    <3>2. Unless("PREFETCH", g.i) = {}
      BY DEF Unless
    <3> QED
      BY <3>1, <3>2
  <2>6. d # NO_DEV /\ t \in Cache
    BY <2>1, MfsCacheAssumption DEF NO_DEV, Good
  <2>7. Acquire(a, d, base) =
            IF u.buf[i].dev # NO_DEV THEN [s |-> put_block(u, i), q |-> q, left |-> 0]
            ELSE [s |-> u, q |-> Append(q, i), left |-> a.left - 1]
    BY <1>2 DEF Acquire
  <2>8. /\ i \in Buffers /\ Good(u, {}) /\ Others(t, u, i)
        /\ Counts(u) = [Counts(t) EXCEPT ![i] = @ + 1]
        /\ u.buf[i].dev = NO_DEV \/ Id(u.buf[i]) = <<d, blk>>
        /\ t.buf[i].count = 0 \/ Id(t.buf[i]) = <<d, blk>>
        /\ u.buf[i].dev = NO_DEV =>
            /\ t.buf[i].count = 0 /\ u.buf[i].blk = blk
            /\ \A j \in Buffers : Id(t.buf[j]) # <<d, blk>>
    BY <2>5 DEF Got
  <2> HIDE DEF t, q, g, u, i
  <2>9. ~On(q, i)
    <3> SUFFICES ASSUME NEW k \in 1..Len(q), q[k] = i PROVE FALSE
      BY DEF On
    <3>1. t.buf[i].count = 1 /\ t.buf[i].dev = NO_DEV
      BY <2>1 DEF Prefetched
    <3>2. Id(t.buf[i]) # <<d, blk>>
      BY <2>6, <3>1 DEF Id
    <3> QED
      BY <2>8, <3>1, <3>2
  <2>10. \A j \in Buffers : u.buf[j].count = IF j = i THEN t.buf[j].count + 1
                                            ELSE t.buf[j].count
    BY <2>8 DEF Counts
  \* the queue is what it was,
  <2>11. ASSUME NEW k \in 1..Len(q)
         PROVE  /\ q[k] \in Buffers /\ q[k] # i
                /\ u.buf[q[k]].dev = NO_DEV /\ u.buf[q[k]].blk = base + k - 1
                /\ u.buf[q[k]].count = 1
                /\ <<d, base + k - 1>> \in Ids
                /\ \A j \in Buffers : Id(u.buf[j]) # <<d, base + k - 1>>
    <3>1. /\ q[k] \in Buffers /\ q[k] # i
          /\ t.buf[q[k]].dev = NO_DEV /\ t.buf[q[k]].blk = base + k - 1
          /\ t.buf[q[k]].count = 1
          /\ <<d, base + k - 1>> \in Ids
          /\ \A j \in Buffers : Id(t.buf[j]) # <<d, base + k - 1>>
      BY <2>1, <2>9 DEF Prefetched, On
    <3>2. /\ u.buf[q[k]].dev = NO_DEV /\ u.buf[q[k]].blk = base + k - 1
          /\ u.buf[q[k]].count = 1
      BY <2>8, <3>1 DEF Others
    <3>3. ASSUME NEW j \in Buffers PROVE Id(u.buf[j]) # <<d, base + k - 1>>
      <4>1. CASE u.buf[j].dev = NO_DEV
        BY <2>6, <4>1 DEF Id
      <4>2. CASE u.buf[j].dev # NO_DEV /\ j = i
        <5>1. blk # base + k - 1
          BY <2>1
        <5> QED
          BY <2>8, <4>2, <5>1
      <4>3. CASE u.buf[j].dev # NO_DEV /\ j # i
        <5>1. Id(u.buf[j]) = Id(t.buf[j])
          BY <2>8, <4>3 DEF Others, Id
        <5> QED
          BY <3>1, <5>1
      <4> QED
        BY <4>1, <4>2, <4>3
    <3> QED
      BY <3>1, <3>2, <3>3
  <2>12. CASE u.buf[i].dev # NO_DEV
    <3> DEFINE v == put_block(u, i)
    <3>1. u.buf[i].count # 0
      <4>1. t.buf[i].count \in Nat
        BY <2>6, <2>8, BufferFields
      <4> QED
        BY <2>8, <2>10, <4>1
    <3>2. /\ Good(v, {}) /\ Recounted(u, v)
          /\ Counts(v) = [Counts(u) EXCEPT ![i] = @ - 1]
      <4>1. Good(u, {}) /\ i \in Buffers /\ u.buf[i].count # 0
        BY <2>8, <3>1
      <4> QED
        BY ONLY <4>1, PutIs
    <3> HIDE DEF v
    <3>3. \A j \in Buffers : v.buf[j].count = t.buf[j].count
      <4>1. \A j \in Buffers : v.buf[j].count = IF j = i THEN u.buf[j].count - 1
                                               ELSE u.buf[j].count
        BY <3>2 DEF Counts
      <4>2. \A j \in Buffers : t.buf[j].count \in Nat
        BY <2>6, BufferFields
      <4> QED
        BY <2>10, <4>1, <4>2
    <3>4. \A j \in Buffers : Id(v.buf[j]) = Id(u.buf[j])
      BY <3>2 DEF Recounted, Id
    <3>5. Prefetched(v, q, d, base)
      <4>1. \A k \in 1..Len(q) :
                v.buf[q[k]].dev = NO_DEV /\ v.buf[q[k]].blk = base + k - 1
        BY <2>11, <3>2 DEF Recounted
      <4>2. \A k \in 1..Len(q) : v.buf[q[k]].count = 1
        BY <2>1, <2>11, <3>3 DEF Prefetched
      <4> QED
        BY <2>1, <2>11, <3>4, <4>1, <4>2 DEF Prefetched
    <3>6. \A j \in Buffers : /\ On(q, j) => s.buf[j].count = 0
                             /\ ~On(q, j) => v.buf[j].count = s.buf[j].count
      BY <2>1, <3>3
    <3>7. Acquire(a, d, base) = [s |-> v, q |-> q, left |-> 0]
      BY <2>7, <2>12 DEF v
    <3>8. Len(q) + 0 =< most
      BY <2>1
    <3> QED
      BY <2>1, <3>2, <3>5, <3>6, <3>7, <3>8 DEF Ahead
  <2>13. CASE u.buf[i].dev = NO_DEV
    <3> DEFINE p == Append(q, i)
    <3>1. /\ p \in Seq(Buffers) /\ Len(p) = Len(q) + 1
          /\ \A k \in 1..Len(q) : p[k] = q[k]
          /\ p[Len(q) + 1] = i
      BY <2>1, <2>8, AppendProperties
    <3> HIDE DEF p
    <3>2. t.buf[i].count = 0 /\ u.buf[i].blk = blk /\ u.buf[i].count = 1
      BY <2>8, <2>10, <2>13
    <3>3. \A j \in Buffers : Id(u.buf[j]) # <<d, blk>>
      <4> TAKE j \in Buffers
      <4>1. CASE u.buf[j].dev = NO_DEV
        BY <2>6, <4>1 DEF Id
      <4>2. CASE u.buf[j].dev # NO_DEV
        <5>1. Id(u.buf[j]) = Id(t.buf[j])
          BY <2>8, <2>13, <4>2 DEF Others, Id
        <5> QED
          BY <2>8, <2>13, <5>1
      <4> QED
        BY <4>1, <4>2
    <3>4. ASSUME NEW k \in 1..Len(p)
          PROVE  /\ u.buf[p[k]].dev = NO_DEV /\ u.buf[p[k]].blk = base + k - 1
                 /\ u.buf[p[k]].count = 1
                 /\ <<d, base + k - 1>> \in Ids
                 /\ \A j \in Buffers : Id(u.buf[j]) # <<d, base + k - 1>>
      <4>1. CASE k = Len(q) + 1
        <5>1. p[k] = i /\ base + k - 1 = blk
          BY <2>1, <3>1, <4>1
        <5> HIDE DEF blk
        <5> QED
          BY <2>3, <2>13, <3>2, <3>3, <5>1
      <4>2. CASE k # Len(q) + 1
        <5>1. k \in 1..Len(q) /\ p[k] = q[k]
          BY <2>1, <3>1, <4>2
        <5> QED
          BY <2>11, <5>1
      <4> QED
        BY <4>1, <4>2
    <3>5. \A j \in Buffers : On(p, j) <=> On(q, j) \/ j = i
      <4>1. \A k \in 1..(Len(q) + 1) : k \in 1..Len(q) \/ k = Len(q) + 1
        BY <2>1
      <4>2. \A k \in 1..Len(q) : k \in 1..Len(p)
        BY <2>1, <3>1
      <4>3. Len(q) + 1 \in 1..Len(p)
        BY <2>1, <3>1
      <4> QED
        BY <3>1, <4>1, <4>2, <4>3 DEF On
    <3>6. \A j \in Buffers : /\ On(p, j) => s.buf[j].count = 0
                             /\ ~On(p, j) => u.buf[j].count = s.buf[j].count
      BY <2>1, <2>9, <2>10, <3>2, <3>5
    <3>7. Prefetched(u, p, d, base)
      BY <3>1, <3>4 DEF Prefetched
    <3>8. Acquire(a, d, base) = [s |-> u, q |-> p, left |-> a.left - 1]
      BY <2>7, <2>13 DEF p
    <3>9. Len(p) >= 1 /\ Len(p) + (a.left - 1) =< most
      BY <2>1, <2>2, <3>1
    <3> QED
      BY <2>2, <2>8, <3>6, <3>7, <3>8, <3>9 DEF Ahead
  <2> QED
    BY <2>12, <2>13
<1> QED
  BY <1>1, <1>2

\* The acquisitions one after the other are a function,
Acquisitions(f, d, base, a, n) ==
    f = [m \in 0..n |-> IF m = 0 THEN a ELSE Acquire(f[m - 1], d, base)]

LEMMA AcquireAfter ==
    ASSUME NEW d, NEW base, NEW a, NEW n \in Nat
    PROVE  \E f : Acquisitions(f, d, base, a, n)
<1> DEFINE Is(f, k) == f = [m \in 0..k |-> IF m = 0 THEN a ELSE Acquire(f[m - 1], d, base)]
           Bad == {k \in Nat : ~\E f : Is(f, k)}
<1>1. Bad = {}
  <2> SUFFICES ASSUME Bad # {} PROVE FALSE
    OBVIOUS
  <2>1. PICK k \in Bad : \A m \in Bad : ~(<<m, k>> \in OpToRel(<, Nat))
    BY NatLessThanWellFounded, WFMin, Bad \subseteq Nat
  <2>2. k \in Nat /\ (~\E f : Is(f, k)) /\ \A m \in Bad : ~(m < k)
    BY <2>1 DEF OpToRel
  <2>3. CASE k = 0
    <3>1. Is([m \in 0..0 |-> a], 0)
      OBVIOUS
    <3> QED
      BY <2>2, <2>3, <3>1
  <2>4. CASE k # 0
    <3>1. k - 1 \in Nat /\ k - 1 < k
      BY <2>2, <2>4
    <3>2. PICK g : Is(g, k - 1)
      BY <2>2, <3>1
    <3> DEFINE F == [m \in 0..k |-> IF m = k THEN Acquire(g[k - 1], d, base) ELSE g[m]]
    <3>3. \A m \in 0..(k - 1) : g[m] = IF m = 0 THEN a ELSE Acquire(g[m - 1], d, base)
      BY <3>2
    <3>4. ASSUME NEW m \in 0..k
          PROVE  F[m] = IF m = 0 THEN a ELSE Acquire(F[m - 1], d, base)
      <4>1. CASE m = k
        BY <2>2, <2>4, <3>1, <4>1
      <4>2. CASE m # k
        <5>1. m \in 0..(k - 1) /\ (m # 0 => m - 1 \in 0..k /\ m - 1 # k)
          BY <2>2, <3>1, <4>2
        <5>2. F[m] = g[m] /\ (m # 0 => F[m - 1] = g[m - 1])
          BY <4>2, <5>1
        <5> HIDE DEF F
        <5> QED
          BY <3>3, <5>1, <5>2
      <4> QED
        BY <4>1, <4>2
    <3>5. Is(F, k)
      BY <3>4
    <3> QED
      BY <2>2, <3>5
  <2> QED
    BY <2>3, <2>4
<1> QED
  BY <1>1 DEF Acquisitions

\* Read-ahead acquires a queue.
LEMMA AcquiredIs ==
    ASSUME NEW s, NEW d \in {Disk, Ram}, NEW base \in Nat, NEW ahead \in Nat \ {0},
           \A k \in 0..(ahead - 1) : <<d, base + k>> \in Ids,
           NEW first,
           Ahead(s, [s |-> first.s, q |-> <<first.i>>, left |-> ahead - 1], d, base, ahead)
    PROVE  Ahead(s, Acquired(first, d, base, ahead), d, base, ahead)
<1> DEFINE n == ahead - 1
           a == [s |-> first.s, q |-> <<first.i>>, left |-> ahead - 1]
           f == CHOOSE g : g = [m \in 0..n |-> IF m = 0 THEN a ELSE Acquire(g[m - 1], d, base)]
<1>1. n \in Nat
  OBVIOUS
<1>2. Acquired(first, d, base, ahead) = f[n]
  BY DEF Acquired
<1>3. Ahead(s, a, d, base, ahead)
  OBVIOUS
<1> HIDE DEF n, a
<1>4. f = [m \in 0..n |-> IF m = 0 THEN a ELSE Acquire(f[m - 1], d, base)]
  <2>1. \E g : g = [m \in 0..n |-> IF m = 0 THEN a ELSE Acquire(g[m - 1], d, base)]
    <3>1. PICK g : Acquisitions(g, d, base, a, n)
      BY <1>1, AcquireAfter
    <3>2. g = [m \in 0..n |-> IF m = 0 THEN a ELSE Acquire(g[m - 1], d, base)]
      BY <3>1 DEF Acquisitions
    <3> QED
      BY <3>2
  <2> QED
    BY <2>1
<1> HIDE DEF f
<1> DEFINE Off == {m \in Nat : m \in 0..n /\ ~Ahead(s, f[m], d, base, ahead)}
<1>5. Off = {}
  <2> SUFFICES ASSUME Off # {} PROVE FALSE
    OBVIOUS
  <2>1. PICK m \in Off : \A k \in Off : ~(<<k, m>> \in OpToRel(<, Nat))
    BY NatLessThanWellFounded, WFMin, Off \subseteq Nat
  <2>2. m \in 0..n /\ ~Ahead(s, f[m], d, base, ahead) /\ \A k \in Off : ~(k < m)
    BY <2>1 DEF OpToRel
  <2>3. m # 0
    BY <1>1, <1>3, <1>4, <2>2
  <2>4. m - 1 \in 0..n /\ m - 1 \in Nat /\ m - 1 < m
    BY <1>1, <2>2, <2>3
  <2>5. Ahead(s, f[m - 1], d, base, ahead)
    BY <2>2, <2>4
  <2>6. f[m] = Acquire(f[m - 1], d, base)
    BY <1>4, <2>2, <2>3
  <2>7. Ahead(s, Acquire(f[m - 1], d, base), d, base, ahead)
    BY <2>5, AcquireKeeps
  <2> QED
    BY <2>2, <2>6, <2>7
<1> QED
  BY <1>1, <1>2, <1>5

\* The queue is read, in part or not at all, and all of it is let go.
LEMMA ReadScatteredIs ==
    ASSUME NEW s, Good(s, {}), NEW d \in {Disk, Ram}, NEW base \in Nat,
           NEW q, Prefetched(s, q, d, base), Len(q) >= 1
    PROVE  Released(s, q, Len(q), ReadScattered(s, d, q))
<1> DEFINE done == Moved(s, d, ToSet(q))
           t == Fetched(s, d, done)
           u == IF done = {} THEN FirstFailed(t, q[1]) ELSE t
<1>1. /\ q \in Seq(Buffers) /\ Len(q) \in Nat /\ 1 \in 1..Len(q) /\ q[1] \in Buffers
      /\ \A k \in 1..Len(q) : /\ q[k] \in Buffers /\ s.buf[q[k]].count = 1
                              /\ s.buf[q[k]].blk = base + k - 1
  <2>1. q \in Seq(Buffers) /\ Len(q) \in Nat
    BY LenProperties DEF Prefetched
  <2>2. 1 \in 1..Len(q) /\ \A k \in 1..Len(q) : q[k] \in Buffers
    BY <2>1
  <2>3. \A k \in 1..Len(q) : s.buf[q[k]].count = 1 /\ s.buf[q[k]].blk = base + k - 1
    BY DEF Prefetched
  <2> QED
    BY <2>1, <2>2, <2>3
<1>2. \A i \in done : On(q, i)
  <2>1. \A i \in ToSet(q) : On(q, i)
    BY <1>1 DEF ToSet, On
  <2> QED
    BY <2>1 DEF Moved
<1>3. ReadScattered(s, d, q) = put_all(u, q)
  BY DEF ReadScattered
<1> HIDE DEF done
<1>4. Good(t, {}) /\ Counts(t) = Counts(s)
  BY <1>2, FetchedKeeps
<1> HIDE DEF t
<1>5. Good(u, {}) /\ Counts(u) = Counts(s)
  <2>1. CASE done = {}
    <3> DEFINE v == FirstFailed(t, q[1])
    <3>1. t \in Cache /\ q[1] \in Buffers
      BY <1>1, <1>4 DEF Good
    <3>2. Loses(t, v)
      BY <3>1, FailedLoses
    <3> HIDE DEF v
    <3>3. Good(v, {}) /\ Counts(v) = Counts(t)
      BY <1>4, <3>2, LosesKeeps
    <3> QED
      BY <1>4, <2>1, <3>3 DEF v
  <2>2. CASE done # {}
    BY <1>4, <2>2
  <2> QED
    BY <2>1, <2>2
<1> HIDE DEF u
<1>6. \A i \in Buffers : u.buf[i].count = s.buf[i].count
  BY <1>5 DEF Counts
<1>7. ASSUME NEW k \in 1..Len(q), NEW m \in 1..Len(q), q[k] = q[m] PROVE k = m
  <2>1. base + k - 1 = base + m - 1
    BY <1>1, <1>7
  <2> QED
    BY <2>1
<1>8. \A k \in 1..Len(q) : u.buf[q[k]].count = 1
  BY <1>1, <1>6
<1>9. Released(u, q, Len(q), put_all(u, q))
  BY <1>1, <1>5, <1>7, <1>8, PutAllIs
<1> QED
  BY <1>3, <1>6, <1>9 DEF Released

\* A request has taken one more buffer.
Taken(s, g, X) ==
    /\ g.i \in Buffers /\ Good(g.s, X)
    /\ Counts(g.s) = [Counts(s) EXCEPT ![g.i] = @ + 1]

\* The queue starts with the first buffer, if that got no name.
LEMMA AheadStarts ==
    ASSUME NEW s, NEW d \in {Disk, Ram}, NEW base \in Nat, NEW ahead \in Nat \ {0},
           <<d, base>> \in Ids, NEW first, Got(s, first, d, base, {}),
           first.s.buf[first.i].dev = NO_DEV
    PROVE  Ahead(s, [s |-> first.s, q |-> <<first.i>>, left |-> ahead - 1], d, base, ahead)
<1> DEFINE i == first.i
           t == first.s
           a == [s |-> first.s, q |-> <<first.i>>, left |-> ahead - 1]
           q == <<i>>
<1>1. /\ i \in Buffers /\ Good(t, {}) /\ s.buf[i].count = 0
      /\ Counts(t) = [Counts(s) EXCEPT ![i] = @ + 1] /\ Others(s, t, i)
      /\ t.buf[i].dev = NO_DEV /\ t.buf[i].blk = base
      /\ \A j \in Buffers : Id(s.buf[j]) # <<d, base>>
  BY DEF Got
<1>2. \A j \in Buffers : t.buf[j].count = IF j = i THEN 1 ELSE s.buf[j].count
  BY <1>1 DEF Counts
<1>3. ASSUME NEW j \in Buffers PROVE Id(t.buf[j]) # <<d, base>>
  <2>1. d # NO_DEV
    BY MfsCacheAssumption DEF NO_DEV
  <2>2. CASE t.buf[j].dev = NO_DEV
    BY <2>1, <2>2 DEF Id
  <2>3. CASE t.buf[j].dev # NO_DEV
    <3>1. Id(t.buf[j]) = Id(s.buf[j])
      BY <1>1, <2>3 DEF Others, Id
    <3> QED
      BY <1>1, <3>1
  <2> QED
    BY <2>2, <2>3
<1>4. a.s = t /\ a.q = q /\ a.left = ahead - 1
  OBVIOUS
<1> HIDE DEF t, i
<1>5. q \in Seq(Buffers) /\ Len(q) = 1 /\ q[1] = i
  BY <1>1
<1> HIDE DEF a, q
<1>6. \A j \in Buffers : On(q, j) <=> j = i
  BY <1>5 DEF On
<1>7. Prefetched(t, q, d, base)
  BY <1>1, <1>2, <1>3, <1>5 DEF Prefetched
<1>8. ahead - 1 \in Nat /\ 1 + (ahead - 1) =< ahead
  OBVIOUS
<1>9. Ahead(s, a, d, base, ahead)
  BY <1>1, <1>2, <1>4, <1>5, <1>6, <1>7, <1>8 DEF Ahead
<1> QED
  BY <1>9 DEF a

\* When the queue is read and let go the buffers are used as before, and the
\* first of the queue is free.
LEMMA AheadReads ==
    ASSUME NEW s, Good(s, {}), NEW d \in {Disk, Ram}, NEW base \in Nat, NEW most,
           NEW b, Ahead(s, b, d, base, most)
    PROVE  /\ Good(ReadScattered(b.s, d, b.q), {})
           /\ Counts(ReadScattered(b.s, d, b.q)) = Counts(s)
           /\ ReadScattered(b.s, d, b.q).lru # <<>>
<1> DEFINE r == ReadScattered(b.s, d, b.q)
<1>1. /\ Good(b.s, {}) /\ Prefetched(b.s, b.q, d, base) /\ Len(b.q) >= 1
      /\ \A j \in Buffers : /\ On(b.q, j) => s.buf[j].count = 0
                            /\ ~On(b.q, j) => b.s.buf[j].count = s.buf[j].count
  BY DEF Ahead
<1>2. Released(b.s, b.q, Len(b.q), r)
  BY <1>1, ReadScatteredIs
<1> HIDE DEF r
<1>3. Good(r, {}) /\ \A j \in Buffers : r.buf[j].count = s.buf[j].count
  BY <1>1, <1>2 DEF Released, On
<1>4. b.q[1] \in Buffers /\ On(b.q, b.q[1])
  <2>1. b.q \in Seq(Buffers) /\ Len(b.q) \in Nat
    BY <1>1, LenProperties DEF Prefetched
  <2>2. 1 \in 1..Len(b.q)
    BY <1>1, <2>1
  <2> QED
    BY <2>1, <2>2 DEF On
<1>5. r.lru # <<>>
  BY <1>1, <1>3, <1>4, SomeFree
<1>6. Counts(r) = Counts(s)
  BY <1>3 DEF Counts
<1> QED
  BY <1>3, <1>5, <1>6 DEF r

\* A block is read with those that follow it.
LEMMA ReadAheadIs ==
    ASSUME NEW s, Good(s, {}), s.lru # <<>>,
           NEW d \in {Disk, Ram}, NEW base \in Nat, NEW ahead \in Nat \ {0},
           \A k \in 0..(ahead - 1) : <<d, base + k>> \in Ids
    PROVE  Taken(s, rahead(s, d, base, ahead), {})
<1> DEFINE first == get_block(s, d, base, "PREFETCH")
           b == Acquired(first, d, base, ahead)
           r == ReadScattered(b.s, d, b.q)
           g == get_block(r, d, base, "NORMAL")
<1>1. <<d, base>> \in Ids
  <2>1. <<d, base + 0>> \in Ids
    OBVIOUS
  <2> QED
    BY <2>1
<1>2. rahead(s, d, base, ahead) = IF first.s.buf[first.i].dev # NO_DEV THEN first ELSE g
  BY DEF rahead, ReadAhead
<1>3. Got(s, first, d, base, {})
  <2>1. Got(s, first, d, base, Unless("PREFETCH", first.i))
    BY <1>1, GetIs
  <2>2. Unless("PREFETCH", first.i) = {}
    BY DEF Unless
  <2> QED
    BY <2>1, <2>2
<1> HIDE DEF first
<1>4. CASE first.s.buf[first.i].dev # NO_DEV
  BY <1>2, <1>3, <1>4 DEF Got, Taken
<1>5. CASE first.s.buf[first.i].dev = NO_DEV
  <2>1. Ahead(s, b, d, base, ahead)
    BY <1>1, <1>3, <1>5, AheadStarts, AcquiredIs
  <2> HIDE DEF b
  <2>2. Good(r, {}) /\ Counts(r) = Counts(s) /\ r.lru # <<>>
    BY <2>1, AheadReads
  <2> HIDE DEF r
  <2>3. Got(r, g, d, base, {})
    <3>1. Got(r, g, d, base, Unless("NORMAL", g.i))
      BY <1>1, <2>2, GetIs
    <3>2. Unless("NORMAL", g.i) = {}
      BY DEF Unless
    <3> QED
      BY <3>1, <3>2
  <2> HIDE DEF g
  <2>4. Taken(s, g, {})
    BY <2>2, <2>3 DEF Got, Taken
  <2> QED
    BY <1>2, <1>5, <2>4
<1> QED
  BY <1>4, <1>5

\* The flushes one after the other are a function,
Flushes(f, s, n) ==
    f = [m \in 0..n |-> IF m = 0 THEN s ELSE SyncBuffer(f[m - 1], m)]

LEMMA SyncAfter ==
    ASSUME NEW s, NEW n \in Nat
    PROVE  \E f : Flushes(f, s, n)
<1> DEFINE Is(f, k) == f = [m \in 0..k |-> IF m = 0 THEN s ELSE SyncBuffer(f[m - 1], m)]
           Bad == {k \in Nat : ~\E f : Is(f, k)}
<1>1. Bad = {}
  <2> SUFFICES ASSUME Bad # {} PROVE FALSE
    OBVIOUS
  <2>1. PICK k \in Bad : \A m \in Bad : ~(<<m, k>> \in OpToRel(<, Nat))
    BY NatLessThanWellFounded, WFMin, Bad \subseteq Nat
  <2>2. k \in Nat /\ (~\E f : Is(f, k)) /\ \A m \in Bad : ~(m < k)
    BY <2>1 DEF OpToRel
  <2>3. CASE k = 0
    <3>1. Is([m \in 0..0 |-> s], 0)
      OBVIOUS
    <3> QED
      BY <2>2, <2>3, <3>1
  <2>4. CASE k # 0
    <3>1. k - 1 \in Nat /\ k - 1 < k
      BY <2>2, <2>4
    <3>2. PICK g : Is(g, k - 1)
      BY <2>2, <3>1
    <3> DEFINE F == [m \in 0..k |-> IF m = k THEN SyncBuffer(g[k - 1], k) ELSE g[m]]
    <3>3. \A m \in 0..(k - 1) : g[m] = IF m = 0 THEN s ELSE SyncBuffer(g[m - 1], m)
      BY <3>2
    <3>4. ASSUME NEW m \in 0..k
          PROVE  F[m] = IF m = 0 THEN s ELSE SyncBuffer(F[m - 1], m)
      <4>1. CASE m = k
        BY <2>2, <2>4, <3>1, <4>1
      <4>2. CASE m # k
        <5>1. m \in 0..(k - 1) /\ (m # 0 => m - 1 \in 0..k /\ m - 1 # k)
          BY <2>2, <3>1, <4>2
        <5>2. F[m] = g[m] /\ (m # 0 => F[m - 1] = g[m - 1])
          BY <4>2, <5>1
        <5> HIDE DEF F
        <5> QED
          BY <3>3, <5>1, <5>2
      <4> QED
        BY <4>1, <4>2
    <3>5. Is(F, k)
      BY <3>4
    <3> QED
      BY <2>2, <3>5
  <2> QED
    BY <2>3, <2>4
<1> QED
  BY <1>1 DEF Flushes

\* sync takes names, and nothing else.
LEMMA SyncLoses ==
    ASSUME NEW s, Good(s, {})
    PROVE  Loses(s, fs_sync(s))
<1> DEFINE n == NrBufs
           f == CHOOSE g : g = [m \in 0..n |-> IF m = 0 THEN s ELSE SyncBuffer(g[m - 1], m)]
<1>1. n \in Nat /\ Buffers = 1..n
  BY MfsCacheAssumption DEF Buffers
<1>2. fs_sync(s) = f[n]
  BY DEF fs_sync
<1> HIDE DEF n
<1>3. f = [m \in 0..n |-> IF m = 0 THEN s ELSE SyncBuffer(f[m - 1], m)]
  <2>1. \E g : g = [m \in 0..n |-> IF m = 0 THEN s ELSE SyncBuffer(g[m - 1], m)]
    <3>1. PICK g : Flushes(g, s, n)
      BY <1>1, SyncAfter
    <3>2. g = [m \in 0..n |-> IF m = 0 THEN s ELSE SyncBuffer(g[m - 1], m)]
      BY <3>1 DEF Flushes
    <3> QED
      BY <3>2
  <2> QED
    BY <2>1
<1> HIDE DEF f
<1>4. Loses(s, s)
  BY DEF Good, Loses, Alike
<1> DEFINE Off == {m \in Nat : m \in 0..n /\ ~Loses(s, f[m])}
<1>5. Off = {}
  <2> SUFFICES ASSUME Off # {} PROVE FALSE
    OBVIOUS
  <2>1. PICK m \in Off : \A k \in Off : ~(<<k, m>> \in OpToRel(<, Nat))
    BY NatLessThanWellFounded, WFMin, Off \subseteq Nat
  <2>2. m \in 0..n /\ ~Loses(s, f[m]) /\ \A k \in Off : ~(k < m)
    BY <2>1 DEF OpToRel
  <2>3. m # 0
    BY <1>1, <1>3, <1>4, <2>2
  <2>4. m - 1 \in 0..n /\ m - 1 \in Nat /\ m - 1 < m /\ m \in 1..n
    BY <1>1, <2>2, <2>3
  <2> DEFINE t == f[m - 1]
             d == t.buf[m].dev
             u == flushall(t, d)
  <2>5. Loses(s, t)
    BY <2>2, <2>4
  <2>6. f[m] = SyncBuffer(t, m)
    BY <1>3, <2>2, <2>3
  <2> HIDE DEF t
  <2>7. Good(t, {})
    BY <2>5, LosesKeeps
  <2>8. t \in Cache /\ Filled(t.buf, {}) /\ m \in Buffers
    BY <1>1, <2>4, <2>7 DEF Good
  <2>9. CASE d # NO_DEV /\ t.buf[m].dirt = "DIRTY"
    <3>1. d \in {Disk, Ram}
      BY <2>8, <2>9, BufferFields
    <3> HIDE DEF d
    <3>2. Loses(t, u)
      BY <2>8, <3>1, FlushLoses
    <3>3. f[m] = u
      BY <2>6, <2>9 DEF SyncBuffer, d
    <3> HIDE DEF u
    <3> QED
      BY <2>2, <2>5, <3>2, <3>3, LosesMore
  <2>10. CASE ~(d # NO_DEV /\ t.buf[m].dirt = "DIRTY")
    <3>1. f[m] = t
      BY <2>6, <2>10 DEF SyncBuffer
    <3> QED
      BY <2>2, <2>5, <3>1
  <2> QED
    BY <2>9, <2>10
<1> QED
  BY <1>1, <1>2, <1>5

\* So does the invalidation of a device.
LEMMA InvalidateLoses ==
    ASSUME NEW s \in Cache, NEW d \in {Disk, Ram}
    PROVE  Loses(s, invalidate(s, d))
<1> DEFINE b == [i \in Buffers |-> IF s.buf[i].dev = d THEN [s.buf[i] EXCEPT !.dev = NO_DEV]
                                   ELSE s.buf[i]]
           v == [id \in Ids |-> Unknown]
<1>1. invalidate(s, d) = [s EXCEPT !.buf = b, !.vm = v]
  BY Fields DEF invalidate, vm_forgetblocks
<1>2. ASSUME NEW i \in Buffers
      PROVE  /\ b[i] \in Buffer /\ b[i].blk = s.buf[i].blk /\ b[i].count = s.buf[i].count
             /\ b[i].data = s.buf[i].data
             /\ b[i].dev = s.buf[i].dev \/ b[i].dev = NO_DEV
  BY BufferFields DEF Buffer
<1>3. b \in [Buffers -> Buffer] /\ v \in [Ids -> Values \cup {Unknown}]
  BY <1>2
<1> HIDE DEF b, v
<1>4. [s EXCEPT !.buf = b, !.vm = v] \in Cache
  BY <1>3 DEF Cache
<1> QED
  BY <1>1, <1>2, <1>4, Fields DEF Loses, Alike

-----------------------------------------------------------------------------
(* The requests *)

\* A buffer is filled, and is dirty.
Filling(s, i, v) == [s EXCEPT !.buf[i].data = v, !.buf[i].dirt = "DIRTY"]

LEMMA FillingIs ==
    ASSUME NEW s, NEW i \in Buffers, Good(s, {i}), NEW v \in Values \cup {Unknown},
           v \in Values \/ s.buf[i].dev = NO_DEV
    PROVE  Good(Filling(s, i, v), {}) /\ Counts(Filling(s, i, v)) = Counts(s)
<1> DEFINE b == [s.buf EXCEPT ![i] = [s.buf[i] EXCEPT !.data = v, !.dirt = "DIRTY"]]
           t == [s EXCEPT !.buf = b]
<1>1. s \in Cache /\ Filled(s.buf, {i})
  BY DEF Good
<1>2. Filling(s, i, v) = t
  BY <1>1, Fields DEF Filling
<1>3. ASSUME NEW j \in Buffers
      PROVE  /\ b[j] \in Buffer /\ b[j].blk = s.buf[j].blk /\ b[j].count = s.buf[j].count
             /\ b[j].dev = s.buf[j].dev
             /\ b[j].data = IF j = i THEN v ELSE s.buf[j].data
  <2> DEFINE x == s.buf[i]
             y == [x EXCEPT !.data = v, !.dirt = "DIRTY"]
  <2>1. s.buf \in [Buffers -> Buffer] /\ x \in Buffer
    BY <1>1, Fields
  <2>2. /\ y \in Buffer /\ y.blk = x.blk /\ y.count = x.count
        /\ y.dev = x.dev /\ y.data = v
    <3> HIDE DEF x
    <3> QED
      BY <2>1 DEF Buffer
  <2>3. b[j] = IF j = i THEN y ELSE s.buf[j]
    BY <2>1
  <2> HIDE DEF b, y
  <2> QED
    BY <2>1, <2>2, <2>3
<1>4. b \in [Buffers -> Buffer]
  BY <1>1, <1>3, Fields
<1> HIDE DEF b
<1>5. t \in Cache
  BY <1>1, <1>4 DEF Cache
<1>6. Alike(s, t)
  BY <1>1, <1>3, <1>5, Fields DEF Alike
<1>7. Filled(t.buf, {})
  <2>1. t.buf = b
    BY <1>1, Fields
  <2> QED
    BY <1>1, <1>3, <2>1 DEF Filled
<1> HIDE DEF t
<1>8. Good(t, {}) /\ Counts(t) = Counts(s)
  BY <1>6, <1>7, AlikeKeeps
<1> QED
  BY <1>2, <1>8

\* What was taken is let go.
LEMMA PutBack ==
    ASSUME NEW X, NEW Y, NEW s \in Cache, NEW g, Taken(s, g, X), NEW t, Good(t, Y),
           Counts(t) = Counts(g.s)
    PROVE  Good(put_block(t, g.i), Y) /\ Counts(put_block(t, g.i)) = Counts(s)
<1> DEFINE i == g.i
<1>1. i \in Buffers /\ Counts(t) = [Counts(s) EXCEPT ![i] = @ + 1]
  BY DEF Taken
<1> HIDE DEF i
<1>2. \A j \in Buffers : s.buf[j].count \in Nat
  BY BufferFields
<1>3. t.buf[i].count = s.buf[i].count + 1 /\ t.buf[i].count # 0
  BY <1>1, <1>2 DEF Counts
<1>4. /\ Good(put_block(t, i), Y)
      /\ Counts(put_block(t, i)) = [Counts(t) EXCEPT ![i] = @ - 1]
  <2>1. Good(t, Y) /\ i \in Buffers /\ t.buf[i].count # 0
    BY <1>1, <1>3
  <2> QED
    BY ONLY <2>1, PutIs
<1>5. Counts(put_block(t, i)) = Counts(s)
  <2> DEFINE n == Counts(s)
             m == Counts(t)
  <2>1. n \in [Buffers -> Nat]
    BY <1>2 DEF Counts
  <2>2. m = [n EXCEPT ![i] = @ + 1] /\ Counts(put_block(t, i)) = [m EXCEPT ![i] = @ - 1]
    BY <1>1, <1>4
  <2> HIDE DEF n, m
  <2>3. [m EXCEPT ![i] = @ - 1] = n
    BY <1>1, <2>1, <2>2
  <2> QED
    BY <2>2, <2>3 DEF n
<1> QED
  BY <1>4, <1>5 DEF i

\* The end of a request takes the marks out, and no more.
LEMMA DoneKeeps ==
    ASSUME NEW s, Good(s, {}), Done(s), Counts(s) = Takes(held'),
           held' \in Seq(Buffers), Len(held') =< 1, failed \subseteq {Disk, Ram}
    PROVE  IInv'
<1> DEFINE t == [s EXCEPT !.lostdev = {}, !.rdwt_err = "OK"]
<1>1. s \in Cache /\ Filled(s.buf, {})
  BY DEF Good
<1>2. t \in Cache
  BY <1>1 DEF Cache
<1>3. Alike(s, t) /\ t.buf = s.buf
  BY <1>1, <1>2 DEF Alike, Cache
<1>4. c' = t /\ failed' = failed \cup s.lostdev
  BY DEF Done
<1> HIDE DEF t
<1>5. Filled(t.buf, {})
  BY <1>1, <1>3
<1>6. Good(t, {}) /\ Counts(t) = Counts(s)
  BY <1>3, <1>5, AlikeKeeps
<1>7. Counts(c') = Takes(held') /\ Good(c', {})
  BY <1>4, <1>6
<1>8. failed' \subseteq {Disk, Ram}
  BY <1>1, <1>4, Fields
<1> QED
  BY <1>7, <1>8 DEF IInv, Counts, Takes

\* What has a content without an exception has one with any.
LEMMA GoodMore ==
    ASSUME NEW s, Good(s, {}), NEW X
    PROVE  Good(s, X)
BY DEF Good, Filled

\* What a request keeps.
LEMMA TakesIs ==
    /\ Takes(<<>>) = [i \in Buffers |-> 0]
    /\ \A i \in Buffers : Takes(<<i>>) = [Takes(<<>>) EXCEPT ![i] = @ + 1]
<1>1. Takes(<<>>) = [i \in Buffers |-> 0]
  BY DEF Takes
<1>2. ASSUME NEW i \in Buffers PROVE Takes(<<i>>) = [Takes(<<>>) EXCEPT ![i] = @ + 1]
  <2> DEFINE q == <<i>>
  <2>1. Len(q) = 1 /\ q[1] = i
    OBVIOUS
  <2> HIDE DEF q
  <2>2. Takes(q) = [j \in Buffers |-> IF j = i THEN 1 ELSE 0]
    BY <2>1 DEF Takes
  <2>3. [Takes(<<>>) EXCEPT ![i] = @ + 1] = [j \in Buffers |-> IF j = i THEN 1 ELSE 0]
    BY <1>1
  <2> QED
    BY <2>2, <2>3 DEF q
<1> QED
  BY <1>1, <1>2

\* Block numbers up to one of a device are blocks of it.
LEMMA BlocksBelow ==
    ASSUME NEW d, NEW blk, <<d, blk>> \in Ids, NEW ahead \in Nat \ {0},
           blk + ahead - 1 \in BlocksOf(d)
    PROVE  \A k \in 0..(ahead - 1) : <<d, blk + k>> \in Ids
<1>1. blk \in Nat /\ d \in {Disk, Ram} /\ blk \in BlocksOf(d)
  BY IdsAre
<1>2. /\ Cardinality(DiskBlocks) \in Nat /\ DiskBlocks = 1..Cardinality(DiskBlocks)
      /\ Cardinality(RamBlocks) \in Nat /\ RamBlocks = 1..Cardinality(RamBlocks)
  BY FS_CardinalityType, MfsCacheAssumption
<1>3. PICK n \in Nat : BlocksOf(d) = 1..n
  BY <1>2 DEF BlocksOf
<1>4. ASSUME NEW k \in 0..(ahead - 1) PROVE blk + k \in BlocksOf(d)
  <2>1. blk + ahead - 1 \in 1..n /\ blk \in 1..n
    BY <1>1, <1>3
  <2>2. blk + k \in 1..n
    BY <1>1, <1>3, <2>1
  <2> QED
    BY <1>3, <2>2
<1>5. \A b \in BlocksOf(d) : <<d, b>> \in Ids
  BY <1>1, MfsCacheAssumption DEF BlocksOf, Ids
<1> QED
  BY <1>4, <1>5

\* A block is read.
LEMMA ReadChunkKeeps ==
    ASSUME IInv, NEW id \in Ids, ReadChunk(id[1], id[2])
    PROVE  IInv'
<1> DEFINE d == id[1]
           blk == id[2]
<1>1. <<d, blk>> \in Ids /\ ReadChunk(d, blk)
  BY DEF Ids
<1> HIDE DEF d, blk
<1>2. blk \in Nat /\ d \in {Disk, Ram}
  BY <1>1, IdsAre
<1>3. PICK ahead \in 1..Cardinality(BlocksOf(d)) :
        /\ CanGet(c) /\ blk + ahead - 1 \in BlocksOf(d)
        /\ \E g \in {rahead(c, d, blk, ahead)} : Done(put_block(g.s, g.i))
        /\ UNCHANGED held
  BY <1>1 DEF ReadChunk
<1> DEFINE g == rahead(c, d, blk, ahead)
<1>4. Done(put_block(g.s, g.i))
  BY <1>3
<1>5. ahead \in Nat \ {0}
  BY <1>3, FS_CardinalityType, MfsCacheAssumption DEF BlocksOf
<1>6. \A k \in 0..(ahead - 1) : <<d, blk + k>> \in Ids
  BY <1>1, <1>3, <1>5, BlocksBelow
<1>7. c.lru # <<>>
  BY <1>3 DEF CanGet
<1>8. Good(c, {}) /\ c \in Cache
  BY DEF IInv, Good
<1>9. Taken(c, g, {})
  BY <1>2, <1>5, <1>6, <1>7, <1>8, ReadAheadIs
<1> HIDE DEF g
<1>10. Good(g.s, {})
  BY <1>9 DEF Taken
<1>11. Good(put_block(g.s, g.i), {}) /\ Counts(put_block(g.s, g.i)) = Counts(c)
  BY <1>8, <1>9, <1>10, PutBack
<1>12. /\ Counts(put_block(g.s, g.i)) = Takes(held')
       /\ held' \in Seq(Buffers) /\ Len(held') =< 1 /\ failed \subseteq {Disk, Ram}
  BY <1>3, <1>11 DEF IInv
<1> QED
  BY <1>4, <1>11, <1>12, DoneKeeps

\* What get_block took.
LEMMA GotTaken ==
    ASSUME NEW s, NEW g, NEW d, NEW blk, NEW X, Got(s, g, d, blk, X)
    PROVE  Taken(s, g, X)
BY DEF Got, Taken

\* A block is written.
LEMMA WriteChunkKeeps ==
    ASSUME IInv, NEW id \in Ids, NEW v \in Values, WriteChunk(id[1], id[2], v)
    PROVE  IInv'
<1> DEFINE d == id[1]
           blk == id[2]
<1>1. <<d, blk>> \in Ids /\ WriteChunk(d, blk, v)
  BY DEF Ids
<1> HIDE DEF d, blk
<1>2. PICK mode \in {"NORMAL", "NO_READ"} :
        /\ CanGet(c)
        /\ \E g \in {get_block(c, d, blk, mode)} :
              Done(put_block([g.s EXCEPT !.buf[g.i].data = v,
                                         !.buf[g.i].dirt = "DIRTY"], g.i))
        /\ UNCHANGED held
  BY <1>1 DEF WriteChunk
<1> DEFINE g == get_block(c, d, blk, mode)
           X == Unless(mode, g.i)
           t == Filling(g.s, g.i, v)
<1>3. Done(put_block(t, g.i))
  BY <1>2 DEF Filling
<1>4. c.lru # <<>>
  BY <1>2 DEF CanGet
<1>5. Good(c, {}) /\ c \in Cache
  BY DEF IInv, Good
<1>6. Taken(c, g, X)
  <2>1. Got(c, g, d, blk, X)
    BY <1>1, <1>4, <1>5, GetIs
  <2> HIDE DEF g, X
  <2> QED
    BY <2>1, GotTaken
<1>7. X = {} \/ X = {g.i}
  BY DEF Unless
<1> HIDE DEF g, X
<1>8. g.i \in Buffers /\ Good(g.s, {g.i})
  <2>1. g.i \in Buffers /\ Good(g.s, X)
    BY <1>6 DEF Taken
  <2> QED
    BY <1>7, <2>1, GoodMore
<1>9. Good(t, {}) /\ Counts(t) = Counts(g.s)
  BY <1>8, FillingIs
<1> HIDE DEF t
<1>10. Good(put_block(t, g.i), {}) /\ Counts(put_block(t, g.i)) = Counts(c)
  BY <1>5, <1>6, <1>9, PutBack
<1>11. /\ Counts(put_block(t, g.i)) = Takes(held')
       /\ held' \in Seq(Buffers) /\ Len(held') =< 1 /\ failed \subseteq {Disk, Ram}
  BY <1>2, <1>10 DEF IInv
<1> QED
  BY <1>3, <1>10, <1>11, DoneKeeps

\* A hole is read: the buffer has no name and is let go without one.
LEMMA ReadHoleKeeps ==
    ASSUME IInv, ReadHole
    PROVE  IInv'
<1> DEFINE g == get_block(c, NO_DEV, NO_BLOCK, "NORMAL")
           i == Head(c.lru)
           n == Renamed(c, i, NO_DEV, NO_BLOCK, "NORMAL")
           t == Filling(n, i, Unknown)
<1>1. CanGet(c) /\ UNCHANGED held
      /\ Done(put_block([g.s EXCEPT !.buf[g.i].data = Unknown,
                                    !.buf[g.i].dirt = "DIRTY"], g.i))
  BY DEF ReadHole
<1>2. g.s = n /\ g.i = i
  BY DEF get_block
<1>3. Done(put_block(t, i))
  BY <1>1, <1>2 DEF Filling
<1>4. c.lru # <<>> /\ Good(c, {}) /\ c \in Cache
  BY <1>1 DEF CanGet, IInv, Good
<1>5. NewName(c, NO_DEV, NO_BLOCK)
  BY DEF NewName
<1> HIDE DEF g
<1>6. NamedAnew(c, i, n, NO_DEV, NO_BLOCK)
  BY <1>4, <1>5, RenamedIs
<1> HIDE DEF i, n
<1>7. /\ i \in Buffers /\ Good(n, {i}) /\ Others(c, n, i)
      /\ c.buf[i].count = 0 /\ n.buf[i].count = 1 /\ n.buf[i].dev = NO_DEV
  BY <1>6 DEF NamedAnew
<1>8. Counts(n) = [Counts(c) EXCEPT ![i] = @ + 1]
  <2>1. \A j \in Buffers : n.buf[j].count = IF j = i THEN c.buf[j].count + 1
                                           ELSE c.buf[j].count
    BY <1>7 DEF Others
  <2> QED
    BY <1>7, <2>1 DEF Counts
<1> DEFINE h == [s |-> n, i |-> i]
<1>9. Taken(c, h, {i}) /\ h.s = n /\ h.i = i
  BY <1>7, <1>8 DEF Taken
<1> HIDE DEF h
<1>10. Good(t, {}) /\ Counts(t) = Counts(n)
  BY <1>7, FillingIs
<1> HIDE DEF t
<1>11. Good(put_block(t, h.i), {}) /\ Counts(put_block(t, h.i)) = Counts(c)
  BY <1>4, <1>9, <1>10, PutBack
<1>12. /\ Good(put_block(t, i), {}) /\ Counts(put_block(t, i)) = Takes(held')
       /\ held' \in Seq(Buffers) /\ Len(held') =< 1 /\ failed \subseteq {Disk, Ram}
  BY <1>1, <1>9, <1>11 DEF IInv
<1> QED
  BY <1>3, <1>12, DoneKeeps

\* A block is taken and kept.
LEMMA TakeKeeps ==
    ASSUME IInv, NEW blk \in DiskBlocks, Take(blk)
    PROVE  IInv'
<1> DEFINE g == get_block(c, Disk, blk, "NORMAL")
<1>1. c.lru # <<>> /\ held = <<>> /\ Done(g.s) /\ held' = <<g.i>>
  BY DEF Take, CanGet
<1>2. <<Disk, blk>> \in Ids /\ Good(c, {}) /\ Counts(c) = Takes(<<>>)
      /\ failed \subseteq {Disk, Ram}
  BY <1>1 DEF Ids, IInv
<1>3. Taken(c, g, {})
  <2>1. Got(c, g, Disk, blk, Unless("NORMAL", g.i))
    BY <1>1, <1>2, GetIs
  <2>2. Unless("NORMAL", g.i) = {}
    BY DEF Unless
  <2> HIDE DEF g
  <2> QED
    BY <2>1, <2>2, GotTaken
<1> HIDE DEF g
<1>4. g.i \in Buffers /\ Good(g.s, {}) /\ Counts(g.s) = [Takes(<<>>) EXCEPT ![g.i] = @ + 1]
  BY <1>2, <1>3 DEF Taken
<1>5. Counts(g.s) = Takes(held')
  BY <1>1, <1>4, TakesIs
<1>6. held' \in Seq(Buffers) /\ Len(held') =< 1
  BY <1>1, <1>4
<1> QED
  BY <1>1, <1>2, <1>4, <1>5, <1>6, DoneKeeps

\* The block that a request keeps is one buffer, used once.
LEMMA HeldIs ==
    ASSUME IInv, held # <<>>
    PROVE  LET g == [s |-> c, i |-> held[1]]
           IN /\ g.i \in Buffers /\ Good(c, {})
              /\ Counts(c) = [Takes(<<>>) EXCEPT ![held[1]] = @ + 1]
<1>1. Good(c, {}) /\ Counts(c) = Takes(held) /\ held \in Seq(Buffers) /\ Len(held) =< 1
  BY DEF IInv
<1>2. Len(held) = 1 /\ held[1] \in Buffers /\ held = <<held[1]>>
  <2>1. Len(held) \in Nat /\ Len(held) # 0
    BY <1>1, EmptySeq, LenProperties
  <2>2. Len(held) = 1 /\ held[1] \in Buffers
    <3>1. Len(held) = 1
      <4> DEFINE n == Len(held)
      <4>1. n \in Nat /\ n # 0 /\ n =< 1
        BY <1>1, <2>1
      <4> HIDE DEF n
      <4>2. n = 1
        BY <4>1
      <4> QED
        BY <4>2 DEF n
    <3>2. 1 \in 1..Len(held)
      BY <3>1
    <3> QED
      BY <1>1, <3>1, <3>2, ElementOfSeq
  <2>3. <<held[1]>> \in Seq(Buffers) /\ Len(<<held[1]>>) = 1 /\ <<held[1]>>[1] = held[1]
    BY <2>2
  <2>4. held = <<held[1]>>
    BY <1>1, <2>2, <2>3, SeqEqual
  <2> QED
    BY <2>2, <2>4
<1> QED
  BY <1>1, <1>2, TakesIs

\* Without it none is used.
LEMMA ReleasedHeld ==
    ASSUME IInv, held # <<>>, NEW t, Good(t, {}), Counts(t) = Counts(c)
    PROVE  /\ Good(put_block(t, held[1]), {})
           /\ Counts(put_block(t, held[1])) = Takes(<<>>)
<1> DEFINE i == held[1]
<1>1. i \in Buffers /\ Counts(t) = [Takes(<<>>) EXCEPT ![i] = @ + 1]
  BY HeldIs
<1> HIDE DEF i
<1>2. \A j \in Buffers : t.buf[j].count = IF j = i THEN 1 ELSE 0
  BY <1>1, TakesIs DEF Counts
<1>3. /\ Good(put_block(t, i), {})
      /\ Counts(put_block(t, i)) = [Counts(t) EXCEPT ![i] = @ - 1]
  <2>1. Good(t, {}) /\ i \in Buffers /\ t.buf[i].count # 0
    BY <1>1, <1>2
  <2> QED
    BY ONLY <2>1, PutIs
<1>4. Counts(put_block(t, i)) = Takes(<<>>)
  <2> DEFINE n == Takes(<<>>)
             m == Counts(t)
  <2>1. n \in [Buffers -> Nat]
    BY TakesIs
  <2>2. m = [n EXCEPT ![i] = @ + 1] /\ Counts(put_block(t, i)) = [m EXCEPT ![i] = @ - 1]
    BY <1>1, <1>3
  <2> HIDE DEF n, m
  <2>3. [m EXCEPT ![i] = @ - 1] = n
    BY <1>1, <2>1, <2>2
  <2> QED
    BY <2>2, <2>3 DEF n
<1> QED
  BY <1>3, <1>4 DEF i

\* It is let go,
LEMMA ReleaseKeeps ==
    ASSUME IInv, Release
    PROVE  IInv'
<1>1. held # <<>> /\ Done(put_block(c, held[1])) /\ held' = <<>>
  BY DEF Release
<1>2. Good(c, {}) /\ failed \subseteq {Disk, Ram}
  BY DEF IInv
<1>3. /\ Good(put_block(c, held[1]), {})
      /\ Counts(put_block(c, held[1])) = Takes(<<>>)
  BY <1>1, <1>2, ReleasedHeld
<1>4. held' \in Seq(Buffers) /\ Len(held') =< 1
  BY <1>1
<1> QED
  BY <1>1, <1>2, <1>3, <1>4, DoneKeeps

\* or changed and let go.
LEMMA ReleaseChangedKeeps ==
    ASSUME IInv, NEW v \in Values, ReleaseChanged(v)
    PROVE  IInv'
<1> DEFINE i == held[1]
           t == Filling(c, i, v)
<1>1. held # <<>> /\ held' = <<>> /\ Done(put_block(t, i))
  BY DEF ReleaseChanged, Filling
<1>2. i \in Buffers /\ Good(c, {i}) /\ failed \subseteq {Disk, Ram}
  <2>1. i \in Buffers /\ Good(c, {}) /\ failed \subseteq {Disk, Ram}
    BY <1>1, HeldIs DEF IInv
  <2> QED
    BY <2>1, GoodMore
<1>3. Good(t, {}) /\ Counts(t) = Counts(c)
  <2> HIDE DEF i
  <2> QED
    BY <1>2, FillingIs
<1> HIDE DEF t
<1>4. Good(put_block(t, i), {}) /\ Counts(put_block(t, i)) = Takes(<<>>)
  BY <1>1, <1>3, ReleasedHeld
<1>5. held' \in Seq(Buffers) /\ Len(held') =< 1
  BY <1>1
<1> QED
  BY <1>1, <1>2, <1>4, <1>5, DoneKeeps

\* sync
LEMMA SyncKeeps ==
    ASSUME IInv, Sync
    PROVE  IInv'
<1> DEFINE t == fs_sync(c)
<1>1. Done(t) /\ UNCHANGED held
  BY DEF Sync
<1>2. Good(c, {}) /\ Counts(c) = Takes(held) /\ held \in Seq(Buffers) /\ Len(held) =< 1
      /\ failed \subseteq {Disk, Ram}
  BY DEF IInv
<1>3. Loses(c, t)
  BY <1>2, SyncLoses
<1> HIDE DEF t
<1>4. Good(t, {}) /\ Counts(t) = Counts(c)
  BY <1>2, <1>3, LosesKeeps
<1>5. Counts(t) = Takes(held') /\ held' \in Seq(Buffers) /\ Len(held') =< 1
  BY <1>1, <1>2, <1>4
<1> QED
  BY <1>1, <1>2, <1>4, <1>5, DoneKeeps

\* flush
LEMMA FsFlushKeeps ==
    ASSUME IInv, fs_flush
    PROVE  IInv'
<1> DEFINE t == flushall(c, Ram)
           u == invalidate(t, Ram)
<1>1. Done(u) /\ UNCHANGED held
  BY DEF fs_flush
<1>2. Good(c, {}) /\ Counts(c) = Takes(held) /\ held \in Seq(Buffers) /\ Len(held) =< 1
      /\ failed \subseteq {Disk, Ram}
  BY DEF IInv
<1>3. Loses(c, t)
  BY <1>2, FlushLoses DEF Good
<1> HIDE DEF t
<1>4. Good(t, {}) /\ Counts(t) = Counts(c)
  BY <1>2, <1>3, LosesKeeps
<1>5. Loses(t, u)
  <2>1. t \in Cache /\ Ram \in {Disk, Ram}
    BY <1>4 DEF Good
  <2> QED
    BY <2>1, InvalidateLoses
<1> HIDE DEF u
<1>6. Good(u, {}) /\ Counts(u) = Counts(t)
  BY <1>4, <1>5, LosesKeeps
<1>7. Counts(u) = Takes(held') /\ held' \in Seq(Buffers) /\ Len(held') =< 1
  BY <1>1, <1>2, <1>4, <1>6
<1> QED
  BY <1>1, <1>2, <1>6, <1>7, DoneKeeps

\* What changes neither the chains nor the buffers.
LEMMA AlikeStep ==
    ASSUME IInv, Alike(c, c'), c'.buf = c.buf, UNCHANGED <<held, failed>>
    PROVE  IInv'
<1>1. Good(c, {}) /\ Counts(c) = Takes(held) /\ held \in Seq(Buffers) /\ Len(held) =< 1
      /\ failed \subseteq {Disk, Ram} /\ Filled(c'.buf, {})
  BY DEF IInv, Good
<1>2. Good(c', {}) /\ Counts(c') = Counts(c)
  BY <1>1, AlikeKeeps
<1> QED
  BY <1>1, <1>2 DEF IInv, Counts, Takes

\* Drivers come and go, sectors go bad, VM drops blocks.
LEMMA EnvironmentKeeps ==
    ASSUME IInv,
           \/ \E d \in {Disk, Ram} : fs_new_driver(d) \/ DriverDies(d)
           \/ \E id \in Ids : SectorFails(id) \/ VMForgets(id)
    PROVE  IInv'
<1>1. c \in Cache
  BY DEF IInv, Good
<1>2. ASSUME NEW r \in [{Disk, Ram} -> {"up", "dead", "none"}], NEW b \in SUBSET Ids,
             NEW v \in [Ids -> Values \cup {Unknown}],
             c' = [c EXCEPT !.drv = r, !.bad = b, !.vm = v],
             UNCHANGED <<held, failed>>
      PROVE  IInv'
  <2>1. c' \in Cache
    BY <1>1, <1>2 DEF Cache
  <2>2. Alike(c, c') /\ c'.buf = c.buf
    BY <1>1, <1>2, <2>1 DEF Alike, Cache
  <2> QED
    BY <1>2, <2>2, AlikeStep
<1>3. /\ c.drv \in [{Disk, Ram} -> {"up", "dead", "none"}] /\ c.bad \in SUBSET Ids
      /\ c.vm \in [Ids -> Values \cup {Unknown}]
  BY <1>1, Fields
<1>4. ASSUME NEW d \in {Disk, Ram}, fs_new_driver(d) \/ DriverDies(d)
      PROVE  IInv'
  <2>1. PICK x \in {"up", "dead"} : c' = [c EXCEPT !.drv[d] = x]
    BY <1>4 DEF fs_new_driver, DriverDies
  <2> DEFINE r == [c.drv EXCEPT ![d] = x]
  <2>2. r \in [{Disk, Ram} -> {"up", "dead", "none"}]
    BY <1>3
  <2>3. c' = [c EXCEPT !.drv = r, !.bad = c.bad, !.vm = c.vm]
    BY <1>1, <2>1 DEF Cache
  <2>4. UNCHANGED <<held, failed>>
    BY <1>4 DEF fs_new_driver, DriverDies
  <2> HIDE DEF r
  <2> QED
    BY <1>2, <1>3, <2>2, <2>3, <2>4
<1>5. ASSUME NEW id \in Ids, SectorFails(id)
      PROVE  IInv'
  <2>1. c' = [c EXCEPT !.drv = c.drv, !.bad = {id}, !.vm = c.vm]
    BY <1>1, <1>5 DEF SectorFails, Cache
  <2>2. UNCHANGED <<held, failed>>
    BY <1>5 DEF SectorFails
  <2> QED
    BY <1>2, <1>3, <2>1, <2>2
<1>6. ASSUME NEW id \in Ids, VMForgets(id)
      PROVE  IInv'
  <2> DEFINE v == [c.vm EXCEPT ![id] = Unknown]
  <2>1. v \in [Ids -> Values \cup {Unknown}]
    BY <1>3
  <2>2. c' = [c EXCEPT !.drv = c.drv, !.bad = c.bad, !.vm = v]
    BY <1>1, <1>6 DEF VMForgets, Cache
  <2>3. UNCHANGED <<held, failed>>
    BY <1>6 DEF VMForgets
  <2> HIDE DEF v
  <2> QED
    BY <1>2, <1>3, <2>1, <2>2, <2>3
<1> QED
  BY <1>4, <1>5, <1>6

\* At first all buffers are free, unnamed and on the chain of block 0.
LEMMA InitIs ==
    ASSUME Init
    PROVE  IInv
<1> DEFINE b == [i \in Buffers |-> [dev |-> NO_DEV, blk |-> NO_BLOCK, count |-> 0,
                                    dirt |-> "CLEAN", data |-> Unknown]]
           l == [i \in Buffers |-> i]
           h == [n \in Hashes |-> IF n = 0 THEN l ELSE <<>>]
           disk == [id \in Ids |-> CHOOSE v \in Values : TRUE]
           vm == [id \in Ids |-> Unknown]
           drv == [d \in {Disk, Ram} |-> "up"]
<1>1. PICK most \in 1..NR_IOREQS :
        c = [buf |-> b, lru |-> l, hash |-> h, inuse |-> 0, disk |-> disk, vm |-> vm,
             drv |-> drv, bad |-> {}, rdwt_err |-> "OK", lostdev |-> {}, most |-> most]
  BY DEF Init, Hashes
<1>2. b \in [Buffers -> Buffer]
  BY DEF Buffer, NO_BLOCK
<1>3. Lists(l, Buffers)
  <2>1. l \in Seq(Buffers) /\ Len(l) = NrBufs
    BY MfsCacheAssumption DEF Buffers
  <2> QED
    BY <2>1 DEF Lists, Buffers
<1>4. Lists(<<>>, {})
  BY DEF Lists
<1>5. disk \in [Ids -> Values] /\ vm \in [Ids -> Values \cup {Unknown}]
      /\ drv \in [{Disk, Ram} -> {"up", "dead", "none"}] /\ most \in Nat
      /\ h \in [Hashes -> Seq(Buffers)]
  BY <1>3, MfsCacheAssumption DEF Lists
<1>6. \A i \in Buffers : b[i].dev = NO_DEV /\ b[i].blk = 0 /\ b[i].count = 0
  BY DEF NO_BLOCK
<1>7. Chained(b, h)
  <2> SUFFICES ASSUME NEW n \in Hashes PROVE Lists(h[n], OfHash(b, n))
    BY DEF Chained
  <2>1. BUFHASH(0) = 0
    BY MfsCacheAssumption DEF BUFHASH
  <2>2. OfHash(b, n) = IF n = 0 THEN Buffers ELSE {}
    BY <1>6, <2>1 DEF OfHash
  <2>3. h[n] = IF n = 0 THEN l ELSE <<>>
    OBVIOUS
  <2> HIDE DEF h, l
  <2> QED
    BY <1>3, <1>4, <2>2, <2>3
<1>8. Counted(b, l, 0)
  <2>1. Idle(b) = Buffers /\ Busy(b) = {}
    BY <1>6 DEF Idle, Busy
  <2>2. Cardinality({}) = 0
    BY FS_EmptySet
  <2> QED
    BY <1>3, <2>1, <2>2 DEF Counted
<1>9. Named(b) /\ Filled(b, {})
  BY <1>6 DEF Named, Filled
<1> HIDE DEF b, h, disk, vm, drv
<1>10. c \in Cache
  BY <1>1, <1>2, <1>3, <1>5 DEF Cache, Lists
<1>11. c.buf = b /\ c.hash = h /\ c.lru = l /\ c.inuse = 0
  BY <1>1
<1>12. Good(c, {})
  BY <1>7, <1>8, <1>9, <1>10, <1>11 DEF Good
<1>13. held = <<>> /\ failed = {}
  BY DEF Init
<1>14. Counts(c) = Takes(held)
  BY <1>6, <1>11, <1>13, TakesIs DEF Counts
<1>15. held \in Seq(Buffers) /\ Len(held) =< 1
  BY <1>13
<1> QED
  BY <1>12, <1>13, <1>14, <1>15 DEF IInv

\* Every step keeps the invariant.
LEMMA NextKeeps ==
    ASSUME IInv, [Next]_vars
    PROVE  IInv'
<1>1. CASE UNCHANGED vars
  BY <1>1 DEF vars, IInv, Good, Counts, Takes, Chained, Counted, Named, Filled
<1>2. CASE Next
  BY <1>2, ReadChunkKeeps, WriteChunkKeeps, ReadHoleKeeps, TakeKeeps, ReleaseKeeps,
     ReleaseChangedKeeps, SyncKeeps, FsFlushKeeps, EnvironmentKeeps DEF Next
<1> QED
  BY <1>1, <1>2

\* The elements of a chain.
LEMMA ListedIs ==
    ASSUME NEW l, NEW S, Lists(l, S)
    PROVE  ToSet(l) = S /\ IsInjective(l) /\ IsFiniteSet(S) /\ Cardinality(S) = Len(l)
<1>1. DOMAIN l = 1..Len(l)
  BY LenProperties DEF Lists
<1>2. ToSet(l) = S
  BY <1>1 DEF Lists, ToSet
<1>3. IsInjective(l)
  BY <1>1 DEF Lists, IsInjective
<1> QED
  BY <1>2, <1>3, ChainLength

\* The invariant says the types,
LEMMA TypesAre ==
    ASSUME IInv
    PROVE  MfsCacheTypeOK
<1>1. /\ c \in Cache /\ Named(c.buf) /\ Counts(c) = Takes(held)
      /\ Lists(c.lru, Idle(c.buf)) /\ c.inuse = Cardinality(Busy(c.buf))
      /\ held \in Seq(Buffers) /\ failed \subseteq {Disk, Ram}
  BY DEF IInv, Good, Counted
<1>2. ASSUME NEW i \in Buffers
      PROVE  c.buf[i] \in [dev : {NO_DEV, Disk, Ram}, blk : Nat, count : 0..3,
                           dirt : {"CLEAN", "DIRTY"}, data : Values \cup {Unknown}]
  <2>1. Counts(c)[i] \in {0, 1}
    BY <1>1 DEF Takes
  <2>2. c.buf[i].count \in 0..3
    BY <2>1 DEF Counts
  <2>3. c.buf[i] \in Buffer
    BY <1>1, BufferFields
  <2> DEFINE b == c.buf[i]
  <2> HIDE DEF b
  <2> QED
    BY <2>2, <2>3 DEF Buffer
<1>3. \A i \in Buffers : c.buf[i].dev # NO_DEV => Id(c.buf[i]) \in Ids
  BY <1>1 DEF Named
<1>4. ToSet(c.lru) \subseteq Buffers
  BY <1>1, ListedIs DEF Idle
<1>5. c.inuse \in 0..NrBufs
  <2>1. Busy(c.buf) \subseteq Buffers
    BY DEF Busy
  <2>2. Cardinality(1..NrBufs) = IF 1 > NrBufs THEN 0 ELSE NrBufs - 1 + 1
    BY FS_Interval, MfsCacheAssumption
  <2>3. Cardinality(Buffers) = NrBufs
    BY <2>2, MfsCacheAssumption DEF Buffers
  <2>4. Cardinality(Busy(c.buf)) =< NrBufs /\ Cardinality(Busy(c.buf)) \in Nat
    BY <2>1, <2>3, BuffersFinite, FS_Subset, FS_CardinalityType
  <2> QED
    BY <1>1, <2>4, MfsCacheAssumption
<1>6. ToSet(held) \subseteq Buffers
  BY <1>1, LenProperties DEF ToSet
<1>7. /\ c.buf \in [Buffers -> [dev : {NO_DEV, Disk, Ram}, blk : Nat, count : 0..3,
                      dirt : {"CLEAN", "DIRTY"}, data : Values \cup {Unknown}]]
      /\ c.disk \in [Ids -> Values] /\ c.vm \in [Ids -> Values \cup {Unknown}]
      /\ c.drv \in [{Disk, Ram} -> {"up", "dead", "none"}] /\ c.bad \subseteq Ids
  <2>1. c.buf \in [Buffers -> Buffer]
    BY <1>1, Fields
  <2>2. c.buf \in [Buffers -> [dev : {NO_DEV, Disk, Ram}, blk : Nat, count : 0..3,
                      dirt : {"CLEAN", "DIRTY"}, data : Values \cup {Unknown}]]
    BY <1>2, <2>1
  <2> QED
    BY <1>1, <2>2, Fields
<1> QED
  BY <1>1, <1>3, <1>4, <1>5, <1>6, <1>7 DEF MfsCacheTypeOK

\* and how the chains agree.
LEMMA ChainsAre ==
    ASSUME IInv
    PROVE  ChainsAgree
<1>1. /\ c \in Cache /\ Named(c.buf) /\ Counts(c) = Takes(held)
      /\ Lists(c.lru, Idle(c.buf)) /\ c.inuse = Cardinality(Busy(c.buf))
      /\ Chained(c.buf, c.hash) /\ held \in Seq(Buffers)
  BY DEF IInv, Good, Counted
<1>2. \A i, j \in Buffers :
        i # j /\ c.buf[i].dev # NO_DEV => Id(c.buf[i]) # Id(c.buf[j])
  BY <1>1 DEF Named
<1>3. \A h \in 0..(NrBufs - 1) :
        /\ ToSet(c.hash[h]) = {i \in Buffers : BUFHASH(c.buf[i].blk) = h}
        /\ IsInjective(c.hash[h])
  <2> TAKE h \in 0..(NrBufs - 1)
  <2>1. Lists(c.hash[h], OfHash(c.buf, h))
    BY <1>1 DEF Chained, Hashes
  <2>2. ToSet(c.hash[h]) = OfHash(c.buf, h) /\ IsInjective(c.hash[h])
    BY <2>1, ListedIs
  <2> QED
    BY <2>2 DEF OfHash
<1>4. ToSet(c.lru) = Idle(c.buf) /\ IsInjective(c.lru) /\ Cardinality(Idle(c.buf)) = Len(c.lru)
  BY <1>1, ListedIs
<1>5. Len(c.lru) = NrBufs - c.inuse
  <2>1. Cardinality(1..NrBufs) = IF 1 > NrBufs THEN 0 ELSE NrBufs - 1 + 1
    BY FS_Interval, MfsCacheAssumption
  <2>2. Cardinality(Buffers) = NrBufs
    BY <2>1, MfsCacheAssumption DEF Buffers
  <2>3. Idle(c.buf) = Buffers \ Busy(c.buf) /\ Buffers \cap Busy(c.buf) = Busy(c.buf)
    BY DEF Idle, Busy
  <2>4. Cardinality(Buffers \ Busy(c.buf))
            = Cardinality(Buffers) - Cardinality(Buffers \cap Busy(c.buf))
    BY BuffersFinite, FS_Difference
  <2> QED
    BY <1>1, <1>4, <2>2, <2>3, <2>4
<1>6. c.inuse = Cardinality(ToSet(held))
  <2>1. DOMAIN held = 1..Len(held) /\ \A n \in 1..Len(held) : held[n] \in Buffers
    BY <1>1, LenProperties
  <2>2. \A i \in Buffers : c.buf[i].count = IF \E n \in 1..Len(held) : held[n] = i
                                           THEN 1 ELSE 0
    BY <1>1 DEF Counts, Takes
  <2>3. Busy(c.buf) = ToSet(held)
    BY <2>1, <2>2 DEF Busy, ToSet
  <2> QED
    BY <1>1, <2>3
<1>7. ToSet(c.lru) = {i \in Buffers : c.buf[i].count = 0}
  BY <1>4 DEF Idle
<1> QED
  BY <1>2, <1>3, <1>4, <1>5, <1>6, <1>7, TypesAre DEF ChainsAgree

-----------------------------------------------------------------------------
(* Theorems *)

\* Between two requests the chains, the names and the counts are as above, a
\* buffer with a name has a content, and only what the request under way has
\* taken is in use: no error path of get_block, of a vectored request or of
\* read-ahead keeps a buffer or leaves a named one empty (cache.c, read.c,
\* misc.c, device.c).
THEOREM CacheSound == Spec => []IInv
<1>1. Init => IInv
  BY InitIs
<1>2. IInv /\ [Next]_vars => IInv'
  BY NextKeeps
<1> QED
  BY <1>1, <1>2, PTL DEF Spec

\* No block is in two buffers, every buffer is on the chain of its block and on
\* no other, and the LRU chain holds once each the buffers in nobody's use, of
\* which bufs_in_use is the rest: whatever evictions, prefetches, failures
\* and invalidations came before (cache.c:33-272, 430-546).
THEOREM CacheChainsAgree == Spec => []ChainsAgree
<1>1. IInv => ChainsAgree
  BY ChainsAre
<1> QED
  BY <1>1, CacheSound, PTL

-----------------------------------------------------------------------------
(* The store of blocks. *)

(***************************************************************************)
(* V is what the blocks hold, whatever holds it: a buffer with the name of *)
(* a block shows it, the disk has it unless a dirty buffer does, and VM    *)
(* has it or nothing, and that only while no buffer does.  F are devices   *)
(* on which a write has failed before, lostdev those on which one failed   *)
(* in the step; X are buffers that have their name but not yet their       *)
(* content, and Y those whose block VM may still have.                     *)
(***************************************************************************)
Lost(s, F) == F \cup s.lostdev

Shown(s, F, V, X) ==
    \A i \in Buffers \ X :
        s.buf[i].dev # NO_DEV /\ s.buf[i].dev \notin Lost(s, F)
            => s.buf[i].data = V[Id(s.buf[i])]

Stored(s, F, V, X) ==
    \A id \in Ids : id[1] \notin Lost(s, F) =>
        \/ s.disk[id] = V[id]
        \/ \E i \in Buffers \ X : Id(s.buf[i]) = id /\ s.buf[i].dirt = "DIRTY"

Offered(s, F, V, Y) ==
    \A id \in Ids : id[1] # Ram /\ s.vm[id] # Unknown =>
        /\ \A i \in Buffers \ Y : Id(s.buf[i]) # id
        /\ id[1] \notin Lost(s, F) => s.vm[id] = V[id]

Fits(s, F, V, X, Y) == Shown(s, F, V, X) /\ Stored(s, F, V, X) /\ Offered(s, F, V, Y)

\* Between two requests V is what the file system finds, and nothing is left
\* of the marks of the request before.
Views == [id \in Ids |-> View(id)]

SInv ==
    /\ IInv /\ Fits(c, failed, Views, {}, {})
    /\ c.lostdev = {} /\ c.rdwt_err = "OK"

-----------------------------------------------------------------------------
(* What the chains and the counts have no part in *)

\* The contents and the names are the same.
Untouched(s, t) ==
    /\ t.disk = s.disk /\ t.vm = s.vm
    /\ t.lostdev = s.lostdev /\ t.rdwt_err = s.rdwt_err
    /\ \A i \in Buffers : /\ t.buf[i].dev = s.buf[i].dev /\ t.buf[i].blk = s.buf[i].blk
                          /\ t.buf[i].data = s.buf[i].data /\ t.buf[i].dirt = s.buf[i].dirt

LEMMA UntouchedFits ==
    ASSUME NEW F, NEW V, NEW X, NEW Y, NEW s, Fits(s, F, V, X, Y), NEW t, Untouched(s, t)
    PROVE  Fits(t, F, V, X, Y)
<1>1. \A i \in Buffers : Id(t.buf[i]) = Id(s.buf[i])
  BY DEF Untouched, Id
<1>2. Shown(t, F, V, X)
  BY <1>1 DEF Fits, Shown, Untouched, Lost
<1>3. Stored(t, F, V, X)
  BY <1>1 DEF Fits, Stored, Untouched, Lost
<1>4. Offered(t, F, V, Y)
  BY <1>1 DEF Fits, Offered, Untouched, Lost
<1> QED
  BY <1>2, <1>3, <1>4 DEF Fits

\* A count and the LRU chain are set.
Recount(s, i, k, l, n) ==
    [s EXCEPT !.buf = [s.buf EXCEPT ![i] = [s.buf[i] EXCEPT !.count = k]],
              !.lru = l, !.inuse = n]

LEMMA CountUntouched ==
    ASSUME NEW s \in Cache, NEW i \in Buffers, NEW k, NEW l, NEW n
    PROVE  Untouched(s, Recount(s, i, k, l, n))
<1> DEFINE r == [s.buf[i] EXCEPT !.count = k]
           b == [s.buf EXCEPT ![i] = r]
           t == [s EXCEPT !.buf = b, !.lru = l, !.inuse = n]
<1>1. s.buf \in [Buffers -> Buffer] /\ s.buf[i] \in Buffer
  BY Fields, BufferFields
<1>2. /\ r.dev = s.buf[i].dev /\ r.blk = s.buf[i].blk
      /\ r.data = s.buf[i].data /\ r.dirt = s.buf[i].dirt
  BY <1>1 DEF Buffer
<1> HIDE DEF r
<1>3. b[i] = r /\ \A j \in Buffers : j # i => b[j] = s.buf[j]
  BY <1>1
<1> HIDE DEF b
<1>4. /\ t.buf = b /\ t.disk = s.disk /\ t.vm = s.vm
      /\ t.lostdev = s.lostdev /\ t.rdwt_err = s.rdwt_err
  BY DEF Cache
<1> HIDE DEF t
<1>5. Untouched(s, t)
  BY <1>2, <1>3, <1>4 DEF Untouched
<1> QED
  BY <1>5 DEF t, b, r, Recount

\* put_block,
LEMMA PutUntouched ==
    ASSUME NEW s \in Cache, NEW i \in Buffers
    PROVE  Untouched(s, put_block(s, i))
<1> DEFINE n == s.buf[i].count
           l == IF s.buf[i].dev = Ram THEN <<i>> \o s.lru ELSE Append(s.lru, i)
<1>1. s.buf \in [Buffers -> Buffer] /\ s.buf[i] \in Buffer
  BY Fields, BufferFields
<1>2. CASE n > 1
  <2>1. put_block(s, i) = Recount(s, i, n - 1, s.lru, s.inuse)
    BY <1>1, <1>2 DEF put_block, Cache, Recount
  <2> QED
    BY <2>1, CountUntouched
<1>3. CASE ~(n > 1)
  <2>1. put_block(s, i) = Recount(s, i, 0, l, s.inuse - 1)
    <3>1. put_block(s, i) = [s EXCEPT !.buf[i].count = 0, !.inuse = s.inuse - 1, !.lru = l]
      BY <1>1, <1>3 DEF put_block
    <3> HIDE DEF l
    <3> QED
      BY <1>1, <3>1 DEF Cache, Recount
  <2> HIDE DEF l
  <2> QED
    BY <2>1, CountUntouched
<1> QED
  BY <1>2, <1>3

\* a hit,
LEMMA UseUntouched ==
    ASSUME NEW s \in Cache, NEW i \in Buffers
    PROVE  Untouched(s, Use(s, i))
<1> DEFINE n == s.buf[i].count + 1
           l == Unlinked(s.lru, i)
<1>1. s.buf \in [Buffers -> Buffer] /\ s.buf[i] \in Buffer
  BY Fields, BufferFields
<1>2. CASE s.buf[i].count = 0
  <2>1. Use(s, i) = Recount(s, i, n, l, s.inuse + 1)
    <3>1. rm_lru(s, i) = [s EXCEPT !.lru = l, !.inuse = s.inuse + 1]
      BY DEF rm_lru
    <3>2. Use(s, i) = [[s EXCEPT !.lru = l, !.inuse = s.inuse + 1] EXCEPT !.buf[i].count = @ + 1]
      BY <1>2, <3>1 DEF Use
    <3> HIDE DEF l
    <3> QED
      BY <1>1, <3>2 DEF Cache, Recount
  <2> HIDE DEF l
  <2> QED
    BY <2>1, CountUntouched
<1>3. CASE s.buf[i].count # 0
  <2>1. Use(s, i) = Recount(s, i, n, s.lru, s.inuse)
    BY <1>1, <1>3 DEF Use, Cache, Recount
  <2> QED
    BY <2>1, CountUntouched
<1> QED
  BY <1>2, <1>3

\* and the victim that leaves its chains.
LEMMA UnlinkUntouched ==
    ASSUME NEW s \in Cache, NEW i \in Buffers
    PROVE  Untouched(s, Unhash(rm_lru(s, i), i))
<1> DEFINE l == Unlinked(s.lru, i)
           h == [s.hash EXCEPT ![BUFHASH(s.buf[i].blk)] = Unlinked(@, i)]
           t == Unhash(rm_lru(s, i), i)
<1>1. t = [s EXCEPT !.lru = l, !.inuse = s.inuse + 1, !.hash = h]
  <2>1. rm_lru(s, i) = [s EXCEPT !.lru = l, !.inuse = s.inuse + 1]
    BY DEF rm_lru
  <2> HIDE DEF l
  <2>2. rm_lru(s, i).buf = s.buf /\ rm_lru(s, i).hash = s.hash
    BY <2>1 DEF Cache
  <2>3. t = [rm_lru(s, i) EXCEPT !.hash = h]
    BY <2>2 DEF Unhash
  <2> HIDE DEF h
  <2> QED
    BY <2>1, <2>3 DEF Cache
<1> HIDE DEF l, h, t
<1>2. /\ t.buf = s.buf /\ t.disk = s.disk /\ t.vm = s.vm
      /\ t.lostdev = s.lostdev /\ t.rdwt_err = s.rdwt_err
  BY <1>1 DEF Cache
<1>3. Untouched(s, t)
  BY <1>2 DEF Untouched
<1> QED
  BY <1>3 DEF t

-----------------------------------------------------------------------------
(* Writing *)

\* What a request does to the parts of the cache that hold contents,
Wrote(s, t, d, q) ==
    /\ t.vm = s.vm /\ t.rdwt_err = s.rdwt_err
    /\ t.lostdev = IF q = {} THEN s.lostdev \cup {d} ELSE s.lostdev
    /\ \A i \in Buffers :
        /\ t.buf[i].dev = s.buf[i].dev /\ t.buf[i].blk = s.buf[i].blk
        /\ t.buf[i].data = s.buf[i].data
        /\ t.buf[i].dirt = IF i \in q THEN "CLEAN" ELSE s.buf[i].dirt
    /\ \A id \in Ids :
        t.disk[id] = IF \E i \in q : Id(s.buf[i]) = id
                     THEN s.buf[CHOOSE i \in q : Id(s.buf[i]) = id].data
                     ELSE s.disk[id]

LEMMA WrittenParts ==
    ASSUME NEW s \in Cache, NEW d \in {Disk, Ram}, NEW q, Writable(s, d, q)
    PROVE  Wrote(s, Written(s, d, q), d, q)
<1> DEFINE t == Written(s, d, q)
<1> DEFINE B == [i \in Buffers |->
                    IF i \in q THEN [s.buf[i] EXCEPT !.dirt = "CLEAN"] ELSE s.buf[i]]
           K == [id \in Ids |->
                    IF \E i \in q : Id(s.buf[i]) = id
                    THEN s.buf[CHOOSE i \in q : Id(s.buf[i]) = id].data ELSE s.disk[id]]
           L == IF q = {} THEN s.lostdev \cup {d} ELSE s.lostdev
<1>1. PICK r \in [{Disk, Ram} -> {"up", "dead", "none"}] :
            block_dev_io(s, d) = [s EXCEPT !.drv = r]
  BY DevIoIs
<1>2. t = [s EXCEPT !.drv = r, !.buf = B, !.disk = K, !.lostdev = L]
  <2>1. /\ [s EXCEPT !.drv = r].buf = s.buf /\ [s EXCEPT !.drv = r].disk = s.disk
        /\ [s EXCEPT !.drv = r].lostdev = s.lostdev
    BY DEF Cache
  <2>2. t = [[s EXCEPT !.drv = r] EXCEPT !.buf = B, !.disk = K, !.lostdev = L]
    BY <1>1, <2>1 DEF Written
  <2> HIDE DEF B, K, L
  <2> QED
    BY <2>2 DEF Cache
<1>3. \A i \in Buffers :
        /\ B[i].dev = s.buf[i].dev /\ B[i].blk = s.buf[i].blk
        /\ B[i].data = s.buf[i].data
        /\ B[i].dirt = IF i \in q THEN "CLEAN" ELSE s.buf[i].dirt
  BY BufferFields DEF Buffer
<1>4. \A id \in Ids :
        K[id] = IF \E i \in q : Id(s.buf[i]) = id
                THEN s.buf[CHOOSE i \in q : Id(s.buf[i]) = id].data ELSE s.disk[id]
  OBVIOUS
<1>5. L = IF q = {} THEN s.lostdev \cup {d} ELSE s.lostdev
  OBVIOUS
<1> HIDE DEF B, K, L
<1>6. /\ t.vm = s.vm /\ t.rdwt_err = s.rdwt_err /\ t.lostdev = L
      /\ t.buf = B /\ t.disk = K
  BY <1>2 DEF Cache
<1> HIDE DEF t
<1> QED
  BY <1>3, <1>4, <1>5, <1>6 DEF Wrote, t

\* and to what the blocks hold: nothing.
LEMMA WrittenFits ==
    ASSUME NEW F, NEW V, NEW s \in Cache, Fits(s, F, V, {}, {}),
           NEW d \in {Disk, Ram}, NEW q, Writable(s, d, q)
    PROVE  Fits(Written(s, d, q), F, V, {}, {})
<1> DEFINE t == Written(s, d, q)
<1>a. t = Written(s, d, q)
  OBVIOUS
<1>0. Wrote(s, t, d, q)
  BY <1>a, WrittenParts
<1> HIDE DEF t
<1>b. /\ t.vm = s.vm /\ t.rdwt_err = s.rdwt_err
      /\ t.lostdev = IF q = {} THEN s.lostdev \cup {d} ELSE s.lostdev
      /\ \A i \in Buffers :
           /\ t.buf[i].dev = s.buf[i].dev /\ t.buf[i].blk = s.buf[i].blk
           /\ t.buf[i].data = s.buf[i].data
           /\ t.buf[i].dirt = IF i \in q THEN "CLEAN" ELSE s.buf[i].dirt
      /\ \A id \in Ids :
           t.disk[id] = IF \E i \in q : Id(s.buf[i]) = id
                        THEN s.buf[CHOOSE i \in q : Id(s.buf[i]) = id].data
                        ELSE s.disk[id]
  BY <1>0 DEF Wrote
<1>c. s.lostdev \subseteq t.lostdev
  BY <1>b
<1>d. \A i \in Buffers : Id(t.buf[i]) = Id(s.buf[i])
  BY <1>b DEF Id
<1>1. /\ t.vm = s.vm /\ s.lostdev \subseteq t.lostdev
      /\ \A i \in Buffers :
           /\ t.buf[i].dev = s.buf[i].dev /\ t.buf[i].data = s.buf[i].data
           /\ Id(t.buf[i]) = Id(s.buf[i])
           /\ i \notin q => t.buf[i].dirt = s.buf[i].dirt
      /\ \A id \in Ids :
           t.disk[id] = IF \E i \in q : Id(s.buf[i]) = id
                        THEN s.buf[CHOOSE i \in q : Id(s.buf[i]) = id].data
                        ELSE s.disk[id]
  BY <1>b, <1>c, <1>d
<1>2. Lost(s, F) \subseteq Lost(t, F)
  BY <1>1 DEF Lost
<1>3. Shown(t, F, V, {})
  BY <1>1, <1>2 DEF Fits, Shown
<1>4. Stored(t, F, V, {})
  <2> SUFFICES ASSUME NEW id \in Ids, id[1] \notin Lost(t, F)
               PROVE  \/ t.disk[id] = V[id]
                      \/ \E i \in Buffers \ {} : Id(t.buf[i]) = id /\ t.buf[i].dirt = "DIRTY"
    BY DEF Stored
  <2>1. CASE \E i \in q : Id(s.buf[i]) = id
    <3> DEFINE i == CHOOSE j \in q : Id(s.buf[j]) = id
    <3>1. i \in q /\ Id(s.buf[i]) = id
      BY <2>1
    <3>2. t.disk[id] = s.buf[i].data
      BY <1>1, <2>1
    <3> HIDE DEF i
    <3>3. i \in Buffers /\ s.buf[i].dev = id[1] /\ s.buf[i].dev # NO_DEV
      BY <3>1, MfsCacheAssumption DEF Writable, Id, NO_DEV
    <3>4. s.buf[i].data = V[Id(s.buf[i])]
      BY <1>2, <3>3 DEF Fits, Shown
    <3> QED
      BY <3>1, <3>2, <3>4
  <2>2. CASE ~\E i \in q : Id(s.buf[i]) = id
    <3>1. t.disk[id] = s.disk[id]
      BY <1>1, <2>2
    <3>2. \/ s.disk[id] = V[id]
          \/ \E i \in Buffers : Id(s.buf[i]) = id /\ s.buf[i].dirt = "DIRTY"
      BY <1>2 DEF Fits, Stored
    <3> QED
      BY <1>1, <2>2, <3>1, <3>2
  <2> QED
    BY <2>1, <2>2
<1>5. Offered(t, F, V, {})
  BY <1>1, <1>2 DEF Fits, Offered
<1> QED
  BY <1>3, <1>4, <1>5 DEF Fits, t

\* A request that failed takes a name of a device that is lost.
LEMMA FailedParts ==
    ASSUME NEW s \in Cache, NEW i \in Buffers, NEW t, t = FirstFailed(s, i)
    PROVE  /\ t.disk = s.disk /\ t.lostdev = s.lostdev /\ t.rdwt_err = s.rdwt_err
           /\ \A id \in Ids : t.vm[id] = Unknown
           /\ \A j \in Buffers :
                /\ t.buf[j].blk = s.buf[j].blk /\ t.buf[j].data = s.buf[j].data
                /\ t.buf[j].dirt = s.buf[j].dirt
                /\ t.buf[j].dev = IF j = i THEN NO_DEV ELSE s.buf[j].dev
<1> DEFINE r == [s.buf[i] EXCEPT !.dev = NO_DEV]
           b == [s.buf EXCEPT ![i] = r]
           v == [id \in Ids |-> Unknown]
<1>1. s.buf \in [Buffers -> Buffer] /\ s.buf[i] \in Buffer
  BY Fields, BufferFields
<1>2. t = [s EXCEPT !.buf = b, !.vm = v]
  BY <1>1 DEF FirstFailed, vm_forgetblocks
<1>3. /\ r.dev = NO_DEV /\ r.blk = s.buf[i].blk
      /\ r.data = s.buf[i].data /\ r.dirt = s.buf[i].dirt
  BY <1>1 DEF Buffer
<1> HIDE DEF r
<1>4. b[i] = r /\ \A j \in Buffers : j # i => b[j] = s.buf[j]
  BY <1>1
<1>5. \A id \in Ids : v[id] = Unknown
  OBVIOUS
<1> HIDE DEF b, v
<1>6. /\ t.buf = b /\ t.vm = v /\ t.disk = s.disk
      /\ t.lostdev = s.lostdev /\ t.rdwt_err = s.rdwt_err
  BY <1>2 DEF Cache
<1> QED
  BY <1>3, <1>4, <1>5, <1>6

LEMMA FailedFits ==
    ASSUME NEW F, NEW V, NEW s \in Cache, Fits(s, F, V, {}, {}), NEW i \in Buffers,
           s.buf[i].dev = NO_DEV \/ s.buf[i].dev \in Lost(s, F)
    PROVE  Fits(FirstFailed(s, i), F, V, {}, {})
<1> DEFINE t == FirstFailed(s, i)
<1>1. /\ t.disk = s.disk /\ t.lostdev = s.lostdev
      /\ \A id \in Ids : t.vm[id] = Unknown
      /\ \A j \in Buffers :
           /\ t.buf[j].blk = s.buf[j].blk /\ t.buf[j].data = s.buf[j].data
           /\ t.buf[j].dirt = s.buf[j].dirt
           /\ t.buf[j].dev = IF j = i THEN NO_DEV ELSE s.buf[j].dev
  BY FailedParts
<1> HIDE DEF t
<1>2. Lost(t, F) = Lost(s, F)
  BY <1>1 DEF Lost
<1>3. \A j \in Buffers : j # i => Id(t.buf[j]) = Id(s.buf[j])
  BY <1>1 DEF Id
<1>4. Shown(t, F, V, {})
  BY <1>1, <1>2, <1>3 DEF Fits, Shown
<1>5. Stored(t, F, V, {})
  <2> SUFFICES ASSUME NEW id \in Ids, id[1] \notin Lost(s, F)
               PROVE  \/ s.disk[id] = V[id]
                      \/ \E j \in Buffers : Id(t.buf[j]) = id /\ t.buf[j].dirt = "DIRTY"
    BY <1>1, <1>2 DEF Stored
  <2>1. Id(s.buf[i]) # id
    <3>1. id[1] # NO_DEV
      BY MfsCacheAssumption DEF Ids, NO_DEV
    <3> QED
      BY <3>1 DEF Id
  <2>2. \/ s.disk[id] = V[id]
        \/ \E j \in Buffers : Id(s.buf[j]) = id /\ s.buf[j].dirt = "DIRTY"
    BY DEF Fits, Stored
  <2> QED
    BY <1>1, <1>3, <2>1, <2>2
<1>6. Offered(t, F, V, {})
  BY <1>1 DEF Offered
<1> QED
  BY <1>4, <1>5, <1>6 DEF Fits, t

\* What flushes do on the side: they make buffers clean, and VM may forget.
Onward(s, t) ==
    /\ s.lostdev \subseteq t.lostdev /\ t.rdwt_err = s.rdwt_err
    /\ \A id \in Ids : t.vm[id] = s.vm[id] \/ t.vm[id] = Unknown
    /\ \A i \in Buffers : t.buf[i].dirt = s.buf[i].dirt \/ t.buf[i].dirt = "CLEAN"

LEMMA OnwardMore ==
    ASSUME NEW s, NEW t, Onward(s, t), NEW u, Onward(t, u)
    PROVE  Onward(s, u)
<1>1. s.lostdev \subseteq u.lostdev /\ u.rdwt_err = s.rdwt_err
  BY DEF Onward
<1>2. \A id \in Ids : u.vm[id] = s.vm[id] \/ u.vm[id] = Unknown
  BY DEF Onward
<1>3. \A i \in Buffers : u.buf[i].dirt = s.buf[i].dirt \/ u.buf[i].dirt = "CLEAN"
  BY DEF Onward
<1> QED
  BY <1>1, <1>2, <1>3 DEF Onward

-----------------------------------------------------------------------------
(* The requests of a flush *)

\* What is left to be written after some requests, at most m buffers.
WriteRound(s, d, F, V, p, m) ==
    /\ WriteOK(s, d, p) /\ Onward(s, p.s) /\ Fits(p.s, F, V, {}, {})
    /\ Cardinality(p.q) =< m
    /\ \A i \in Buffers \ p.q :
        p.s.buf[i].dev = d => p.s.buf[i].dirt = "CLEAN" \/ d \in p.s.lostdev

\* Each request writes one at least, or it is the last.
LEMMA WriteRoundLess ==
    ASSUME NEW s, NEW d \in {Disk, Ram}, NEW F, NEW V, NEW p, NEW m \in Nat,
           WriteRound(s, d, F, V, p, m + 1)
    PROVE  WriteRound(s, d, F, V, WriteRequest(p, d), m)
<1> DEFINE done == Moved(p.s, d, p.q)
           t == Written(p.s, d, done)
           w == WriteRequest(p, d)
<1>1. /\ p.s \in Cache /\ Writable(p.s, d, p.q) /\ p.q \subseteq Buffers
      /\ WriteOK(s, d, p) /\ Onward(s, p.s) /\ Fits(p.s, F, V, {}, {})
      /\ Cardinality(p.q) =< m + 1
      /\ \A i \in Buffers \ p.q :
            p.s.buf[i].dev = d => p.s.buf[i].dirt = "CLEAN" \/ d \in p.s.lostdev
  BY DEF WriteRound, WriteOK, Loses, Alike, Writable
<1>2. WriteOK(s, d, w)
  BY <1>1, WriteRequestIs
<1>3. done \subseteq p.q /\ IsFiniteSet(p.q) /\ IsFiniteSet(done)
  BY <1>1, BuffersFinite DEF Moved
<1> HIDE DEF done
<1>4. Writable(p.s, d, done)
  BY <1>1, <1>3 DEF Writable
<1>5. Fits(t, F, V, {}, {}) /\ Wrote(p.s, t, d, done)
  BY <1>1, <1>4, WrittenFits, WrittenParts
<1>6. Loses(p.s, t)
  BY <1>1, <1>4, WrittenIs
<1>7. t \in Cache
  BY <1>6 DEF Loses, Alike
<1>8. CASE p.q = {}
  <2>1. w = p
    BY <1>8 DEF WriteRequest
  <2>2. Cardinality(p.q) = 0
    BY <1>8, FS_EmptySet
  <2> HIDE DEF w
  <2> QED
    BY <1>1, <1>2, <2>1, <2>2 DEF WriteRound, w
<1>9. CASE p.q # {} /\ done = {}
  <2> DEFINE f == FirstOf(p.s, p.q)
             u == FirstFailed(t, f)
  <2>1. f \in p.q /\ f \in Buffers
    BY <1>1, <1>9, FirstOfIs
  <2>2. w = [s |-> u, q |-> {}]
    BY <1>9 DEF WriteRequest, done, t
  <2>3. /\ t.vm = p.s.vm /\ t.rdwt_err = p.s.rdwt_err
        /\ t.lostdev = p.s.lostdev \cup {d}
        /\ \A i \in Buffers : t.buf[i].dev = p.s.buf[i].dev /\ t.buf[i].dirt = p.s.buf[i].dirt
    BY <1>5, <1>9 DEF Wrote
  <2> HIDE DEF t, f, w
  <2>4. t.buf[f].dev \in Lost(t, F)
    BY <1>1, <2>1, <2>3 DEF Writable, Lost
  <2>5. Fits(u, F, V, {}, {})
    BY <1>5, <1>7, <2>1, <2>4, FailedFits
  <2>6. /\ u.lostdev = t.lostdev /\ u.rdwt_err = t.rdwt_err
        /\ \A id \in Ids : u.vm[id] = Unknown
        /\ \A j \in Buffers : u.buf[j].dirt = t.buf[j].dirt
    BY <1>7, <2>1, FailedParts
  <2> HIDE DEF u
  <2>7. Onward(p.s, u)
    BY <2>3, <2>6 DEF Onward
  <2>8. Onward(s, u)
    BY <1>1, <2>7, OnwardMore
  <2>9. d \in u.lostdev
    BY <2>3, <2>6
  <2>10. w.s = u /\ w.q = {} /\ Cardinality(w.q) =< m
    BY <2>2, FS_EmptySet
  <2> QED
    BY <1>2, <2>5, <2>8, <2>9, <2>10 DEF WriteRound, w
<1>10. CASE p.q # {} /\ done # {}
  <2>1. w = [s |-> t, q |-> p.q \ done]
    BY <1>10 DEF WriteRequest, done, t
  <2>2. /\ t.vm = p.s.vm /\ t.rdwt_err = p.s.rdwt_err
        /\ t.lostdev = p.s.lostdev
        /\ \A i \in Buffers :
            /\ t.buf[i].dev = p.s.buf[i].dev
            /\ t.buf[i].dirt = IF i \in done THEN "CLEAN" ELSE p.s.buf[i].dirt
    BY <1>5, <1>10 DEF Wrote
  <2> HIDE DEF t, w
  <2>3. Onward(p.s, t)
    BY <2>2 DEF Onward
  <2>4. Onward(s, t)
    BY <1>1, <2>3, OnwardMore
  <2>5. w.s = t /\ w.q = p.q \ done
    BY <2>1
  <2>6. Cardinality(p.q \ done) =< m
    <3>1. PICK i \in done : TRUE
      BY <1>10
    <3>2. p.q \ done \subseteq p.q \ {i}
      BY <3>1
    <3>3. IsFiniteSet(p.q \ {i}) /\ Cardinality(p.q \ {i}) = Cardinality(p.q) - 1
      BY <1>3, <3>1, FS_RemoveElement
    <3>4. IsFiniteSet(p.q \ done) /\ Cardinality(p.q \ done) =< Cardinality(p.q \ {i})
      BY <3>2, <3>3, FS_Subset
    <3>5. Cardinality(p.q) \in Nat /\ Cardinality(p.q \ done) \in Nat
      BY <1>3, <3>4, FS_CardinalityType
    <3> QED
      BY <1>1, <3>3, <3>4, <3>5
  <2>7. \A i \in Buffers \ w.q : t.buf[i].dev = d => t.buf[i].dirt = "CLEAN" \/ d \in t.lostdev
    BY <1>1, <2>2, <2>5
  <2> QED
    BY <1>2, <1>5, <2>4, <2>5, <2>6, <2>7 DEF WriteRound, w
<1> QED
  BY <1>8, <1>9, <1>10

\* After a flush nothing dirty of the device is left, unless a write failed.
Flushed(s, t, d, F, V) ==
    /\ Loses(s, t) /\ Onward(s, t) /\ Fits(t, F, V, {}, {})
    /\ \A i \in Buffers : t.buf[i].dev = d => t.buf[i].dirt = "CLEAN" \/ d \in t.lostdev

LEMMA FlushIs ==
    ASSUME NEW F, NEW V, NEW s \in Cache, Filled(s.buf, {}), Fits(s, F, V, {}, {}),
           NEW d \in {Disk, Ram}
    PROVE  Flushed(s, flushall(s, d), d, F, V)
<1> DEFINE q == Dirty(s, d)
           n == Cardinality(q)
           p == [s |-> s, q |-> q]
           f == CHOOSE g : g = [m \in 0..n |-> IF m = 0 THEN p ELSE WriteRequest(g[m - 1], d)]
<1>1. d # NO_DEV
  BY MfsCacheAssumption DEF NO_DEV
<1>2. Writable(s, d, q)
  BY <1>1 DEF Writable, Dirty, Filled
<1>3. n \in Nat
  BY <1>2, BuffersFinite, FS_CardinalityType DEF Writable
<1>4. flushall(s, d) = f[n].s
  BY DEF flushall, WriteScattered
<1>5. WriteRound(s, d, F, V, p, n)
  <2>1. Loses(s, s) /\ Onward(s, s)
    BY DEF Loses, Alike, Onward
  <2>2. \A i \in Buffers \ q : s.buf[i].dev = d => s.buf[i].dirt = "CLEAN"
    BY BufferFields DEF Dirty
  <2>3. p.s = s /\ p.q = q
    OBVIOUS
  <2> HIDE DEF p, q
  <2> QED
    BY <1>2, <1>3, <2>1, <2>2, <2>3 DEF WriteRound, WriteOK
<1> HIDE DEF n
<1>6. f = [m \in 0..n |-> IF m = 0 THEN p ELSE WriteRequest(f[m - 1], d)]
  BY <1>3, WriteAfter
<1> HIDE DEF f, p
<1> DEFINE Off == {m \in Nat : m \in 0..n /\ ~WriteRound(s, d, F, V, f[m], n - m)}
<1>7. Off = {}
  <2> SUFFICES ASSUME Off # {} PROVE FALSE
    OBVIOUS
  <2>1. PICK m \in Off : \A k \in Off : ~(<<k, m>> \in OpToRel(<, Nat))
    BY NatLessThanWellFounded, WFMin, Off \subseteq Nat
  <2>2. m \in 0..n /\ ~WriteRound(s, d, F, V, f[m], n - m) /\ \A k \in Off : ~(k < m)
    BY <2>1 DEF OpToRel
  <2>3. m # 0
    <3>1. f[0] = p /\ n - 0 = n
      BY <1>3, <1>6
    <3> QED
      BY <1>5, <2>2, <3>1
  <2>4. /\ m - 1 \in 0..n /\ m - 1 \in Nat /\ m - 1 < m
        /\ n - m \in Nat /\ n - (m - 1) = (n - m) + 1
    BY <1>3, <2>2, <2>3
  <2>5. WriteRound(s, d, F, V, f[m - 1], (n - m) + 1)
    BY <2>2, <2>4
  <2>6. f[m] = WriteRequest(f[m - 1], d)
    BY <1>6, <2>2, <2>3
  <2>7. WriteRound(s, d, F, V, WriteRequest(f[m - 1], d), n - m)
    BY <2>4, <2>5, WriteRoundLess
  <2> QED
    BY <2>2, <2>6, <2>7
<1>8. n \in 0..n /\ n - n = 0
  BY <1>3
<1>9. WriteRound(s, d, F, V, f[n], 0)
  BY <1>3, <1>7, <1>8
<1>10. f[n].q = {}
  <2>1. f[n].q \subseteq Buffers /\ Cardinality(f[n].q) =< 0
    BY <1>9 DEF WriteRound, WriteOK, Writable
  <2>2. IsFiniteSet(f[n].q) /\ Cardinality(f[n].q) \in Nat
    BY <2>1, BuffersFinite, FS_CardinalityType
  <2>3. Cardinality(f[n].q) = 0
    BY <2>1, <2>2
  <2> QED
    BY <2>2, <2>3, FS_EmptySet
<1>11. Flushed(s, f[n].s, d, F, V)
  BY <1>9, <1>10 DEF WriteRound, WriteOK, Flushed
<1> QED
  BY <1>4, <1>11

-----------------------------------------------------------------------------
(* A buffer for a block *)

\* VM is offered nothing that no buffer had.
Spared(s, t) ==
    \A id \in Ids : s.vm[id] = Unknown /\ (\A j \in Buffers : Id(s.buf[j]) # id)
        => t.vm[id] = Unknown

Carried(s, t) ==
    s.lostdev \subseteq t.lostdev /\ t.rdwt_err = s.rdwt_err /\ Spared(s, t)

\* The victim can go: it is clean, or its device is lost, or it has no name.
Victim(s, i, e, F, V, Y) ==
    /\ Fits(e, F, V, {}, Y) /\ Carried(s, e)
    /\ e.buf[i].dev # NO_DEV => e.buf[i].dirt = "CLEAN" \/ e.buf[i].dev \in e.lostdev

LEMMA EvictFits ==
    ASSUME NEW F, NEW V, NEW s, Good(s, {}), s.lru # <<>>, Fits(s, F, V, {}, {})
    PROVE  Victim(s, Head(s.lru), Evict(s), F, V, {})
<1> DEFINE i == Head(s.lru)
           u == Unhash(rm_lru(s, i), i)
<1>1. s \in Cache /\ Filled(s.buf, {}) /\ i \in Buffers
  BY HeadIs DEF Good, Counted, Idle
<1> HIDE DEF i
<1>2. Untouched(s, u)
  BY <1>1, UnlinkUntouched
<1>3. Fits(u, F, V, {}, {})
  BY <1>2, UntouchedFits
<1>4. u \in Cache
  <2> DEFINE l == Unlinked(s.lru, i)
             h0 == BUFHASH(s.buf[i].blk)
             h == [s.hash EXCEPT ![h0] = Unlinked(s.hash[h0], i)]
  <2>1. /\ Lists(s.lru, Idle(s.buf)) /\ i \in Idle(s.buf) /\ h0 \in Hashes
        /\ Lists(s.hash[h0], OfHash(s.buf, h0)) /\ i \in OfHash(s.buf, h0)
    BY <1>1, HeadIs, HashIs, BufferFields DEF Good, Counted, Chained, OfHash, i
  <2> HIDE DEF h0
  <2>2. l \in Seq(Buffers) /\ Unlinked(s.hash[h0], i) \in Seq(Buffers)
    <3>1. Lists(l, Idle(s.buf) \ {i})
      BY <2>1, UnlinkedIs
    <3>2. Lists(Unlinked(s.hash[h0], i), OfHash(s.buf, h0) \ {i})
      BY <2>1, UnlinkedIs
    <3> QED
      BY <3>1, <3>2 DEF Lists
  <2>3. h \in [Hashes -> Seq(Buffers)] /\ s.inuse + 1 \in Int
    <3>1. s.hash \in [Hashes -> Seq(Buffers)] /\ s.inuse \in Int
      BY <1>1, Fields
    <3> DEFINE z == Unlinked(s.hash[h0], i)
    <3>2. z \in Seq(Buffers)
      BY <2>2
    <3> HIDE DEF z
    <3>3. [s.hash EXCEPT ![h0] = z] \in [Hashes -> Seq(Buffers)]
      BY <3>1, <3>2
    <3> QED
      BY <3>1, <3>3 DEF z
  <2>4. u = [s EXCEPT !.lru = l, !.inuse = s.inuse + 1, !.hash = h]
    <3>1. rm_lru(s, i) = [s EXCEPT !.lru = l, !.inuse = s.inuse + 1]
      BY DEF rm_lru
    <3>2. rm_lru(s, i).buf = s.buf /\ rm_lru(s, i).hash = s.hash
      BY <1>1, <3>1 DEF Cache
    <3>3. Unhash(rm_lru(s, i), i) = [rm_lru(s, i) EXCEPT !.hash = h]
      BY <3>2 DEF Unhash, h0
    <3> HIDE DEF h, l
    <3> QED
      BY <1>1, <3>1, <3>3 DEF Cache
  <2> HIDE DEF h, l, u
  <2> QED
    BY <1>1, <2>2, <2>3, <2>4 DEF Cache
<1>5. /\ u.vm = s.vm /\ u.lostdev = s.lostdev /\ u.rdwt_err = s.rdwt_err
      /\ \A j \in Buffers : /\ u.buf[j].dev = s.buf[j].dev /\ u.buf[j].dirt = s.buf[j].dirt
                            /\ u.buf[j].data = s.buf[j].data
  BY <1>2 DEF Untouched
<1>6. Evict(s) = IF u.buf[i].dev # NO_DEV /\ u.buf[i].dirt = "DIRTY"
                 THEN flushall(u, u.buf[i].dev) ELSE u
  BY DEF Evict, i
<1> HIDE DEF u
<1>7. CASE u.buf[i].dev # NO_DEV /\ u.buf[i].dirt = "DIRTY"
  <2> DEFINE d == u.buf[i].dev
             t == flushall(u, d)
  <2>1. d \in {Disk, Ram} /\ Filled(u.buf, {})
    BY <1>1, <1>4, <1>5, <1>7, BufferFields DEF Filled
  <2>2. Flushed(u, t, d, F, V)
    BY <1>3, <1>4, <2>1, FlushIs
  <2>3. Evict(s) = t
    BY <1>6, <1>7
  <2>4. t.buf[i].dev = d \/ t.buf[i].dev = NO_DEV
    BY <1>1, <2>2 DEF Flushed, Loses, Alike
  <2> HIDE DEF t, d
  <2>5. Carried(s, t)
    BY <1>5, <2>2 DEF Flushed, Onward, Carried, Spared
  <2>6. Victim(s, i, t, F, V, {})
    BY <1>1, <2>2, <2>4, <2>5 DEF Victim, Flushed
  <2> QED
    BY <2>3, <2>6 DEF i
<1>8. CASE ~(u.buf[i].dev # NO_DEV /\ u.buf[i].dirt = "DIRTY")
  <2>1. Evict(s) = u
    BY <1>6, <1>8
  <2>2. Carried(s, u)
    BY <1>5 DEF Carried, Spared
  <2>3. u.buf[i].dirt \in {"CLEAN", "DIRTY"}
    BY <1>1, <1>4, BufferFields
  <2>4. Victim(s, i, u, F, V, {})
    BY <1>3, <1>8, <2>2, <2>3 DEF Victim
  <2> QED
    BY <2>1, <2>4 DEF i
<1> QED
  BY <1>7, <1>8

\* Now VM may have what the victim shows.
LEMMA YieldFits ==
    ASSUME NEW F, NEW V, NEW s, Good(s, {}), NEW i \in Buffers, NEW e, Evicted(s, i, e),
           Victim(s, i, e, F, V, {})
    PROVE  Victim(s, i, e, F, V, {i}) /\ Victim(s, i, Yield(e, i), F, V, {i})
<1>1. /\ e \in Cache /\ Fits(e, F, V, {}, {}) /\ Carried(s, e)
      /\ e.buf[i].dev # NO_DEV => e.buf[i].dirt = "CLEAN" \/ e.buf[i].dev \in e.lostdev
  BY DEF Evicted, Victim
<1>2. Victim(s, i, e, F, V, {i})
  BY <1>1 DEF Victim, Fits, Offered
<1>3. CASE e.buf[i].dev = NO_DEV
  BY <1>2, <1>3 DEF Yield
<1>4. CASE e.buf[i].dev # NO_DEV
  <2> DEFINE x == Id(e.buf[i])
             v == [e.vm EXCEPT ![x] = e.buf[i].data]
             t == [e EXCEPT !.vm = v]
  <2>1. Yield(e, i) = t
    BY <1>4 DEF Yield
  <2>2. x = Id(s.buf[i]) /\ x \in Ids /\ \A j \in Buffers : j # i => Id(e.buf[j]) # x
    <3>1. \A j \in Buffers : Id(e.buf[j]) = Id(s.buf[j]) \/ e.buf[j].dev = NO_DEV
      BY DEF Evicted, Id
    <3>2. x = Id(s.buf[i]) /\ s.buf[i].dev # NO_DEV
      BY <1>4, <3>1 DEF Evicted, Id
    <3>3. x \in Ids /\ \A j \in Buffers : Id(s.buf[i]) = Id(s.buf[j]) => i = j
      BY <3>2 DEF Good, Named
    <3>4. \A j \in Buffers : e.buf[j].dev = NO_DEV => Id(e.buf[j]) # x
      BY <1>4 DEF Id
    <3> QED
      BY <3>1, <3>2, <3>3, <3>4
  <2>3. x[1] = e.buf[i].dev
    BY DEF Id
  <2> HIDE DEF x
  <2>4. \A id \in Ids : v[id] = IF id = x THEN e.buf[i].data ELSE e.vm[id]
    BY <1>1, Fields
  <2> HIDE DEF v
  <2>5. /\ t.vm = v /\ t.buf = e.buf /\ t.disk = e.disk
        /\ t.lostdev = e.lostdev /\ t.rdwt_err = e.rdwt_err
    BY <1>1 DEF Cache
  <2> HIDE DEF t
  <2>6. Shown(t, F, V, {}) /\ Stored(t, F, V, {}) /\ Lost(t, F) = Lost(e, F)
    BY <1>1, <2>5 DEF Fits, Shown, Stored, Lost
  <2>7. Offered(t, F, V, {i})
    <3> SUFFICES ASSUME NEW id \in Ids, id[1] # Ram, v[id] # Unknown
                 PROVE  /\ \A j \in Buffers \ {i} : Id(e.buf[j]) # id
                        /\ id[1] \notin Lost(e, F) => v[id] = V[id]
      BY <2>5, <2>6 DEF Offered
    <3>1. CASE id = x
      <4>1. e.buf[i].dev \notin Lost(e, F) => e.buf[i].data = V[x]
        BY <1>1, <1>4 DEF Fits, Shown, x
      <4> QED
        BY <2>2, <2>3, <2>4, <3>1, <4>1
    <3>2. CASE id # x
      <4>1. e.vm[id] # Unknown
        BY <2>4, <3>2
      <4> QED
        BY <1>1, <2>4, <3>2, <4>1 DEF Fits, Offered
    <3> QED
      BY <3>1, <3>2
  <2>8. Carried(s, t)
    <3>1. Spared(s, t)
      BY <1>1, <2>2, <2>4, <2>5 DEF Carried, Spared
    <3> QED
      BY <1>1, <2>5, <3>1 DEF Carried
  <2>9. Victim(s, i, t, F, V, {i})
    BY <1>1, <2>5, <2>6, <2>7, <2>8 DEF Victim, Fits
  <2> QED
    BY <1>2, <2>1, <2>9
<1> QED
  BY <1>3, <1>4

\* The victim takes its new name, and shows nothing yet.
LEMMA NameFits ==
    ASSUME NEW F, NEW V, NEW s, NEW i \in Buffers, NEW e, Evicted(s, i, e),
           Victim(s, i, e, F, V, {i}), NEW d, NEW blk
    PROVE  Fits(Name(e, i, d, blk), F, V, {i}, {i}) /\ Carried(s, Name(e, i, d, blk))
<1> DEFINE r == [e.buf[i] EXCEPT !.dev = d, !.blk = blk, !.count = e.buf[i].count + 1]
           b == [e.buf EXCEPT ![i] = r]
           h == [e.hash EXCEPT ![BUFHASH(blk)] = <<i>> \o @]
           n == Name(e, i, d, blk)
<1>1. e \in Cache /\ e.buf \in [Buffers -> Buffer]
  BY Fields DEF Evicted
<1>2. n = [e EXCEPT !.buf = b, !.hash = h]
  BY DEF Name
<1> HIDE DEF r, h
<1>3. \A j \in Buffers \ {i} : b[j] = e.buf[j]
  BY <1>1
<1> HIDE DEF b, n
<1>4. /\ n.buf = b /\ n.disk = e.disk /\ n.vm = e.vm
      /\ n.lostdev = e.lostdev /\ n.rdwt_err = e.rdwt_err
  BY <1>1, <1>2 DEF Cache
<1>5. /\ Fits(e, F, V, {}, {i}) /\ Carried(s, e)
      /\ e.buf[i].dev # NO_DEV => e.buf[i].dirt = "CLEAN" \/ e.buf[i].dev \in e.lostdev
  BY DEF Victim
<1>6. Lost(n, F) = Lost(e, F)
  BY <1>4 DEF Lost
<1>7. Shown(n, F, V, {i})
  BY <1>3, <1>4, <1>5, <1>6 DEF Fits, Shown
<1>8. Stored(n, F, V, {i})
  <2> SUFFICES ASSUME NEW id \in Ids, id[1] \notin Lost(e, F), e.disk[id] # V[id]
               PROVE  \E j \in Buffers \ {i} : Id(e.buf[j]) = id /\ e.buf[j].dirt = "DIRTY"
    BY <1>3, <1>4, <1>6 DEF Stored
  <2>1. PICK j \in Buffers : Id(e.buf[j]) = id /\ e.buf[j].dirt = "DIRTY"
    BY <1>5 DEF Fits, Stored
  <2>2. e.buf[j].dev = id[1] /\ id[1] # NO_DEV
    BY <2>1, MfsCacheAssumption DEF Id, Ids, NO_DEV
  <2>3. e.buf[j].dev \notin e.lostdev
    BY <2>2 DEF Lost
  <2>4. j # i
    BY <1>5, <2>1, <2>2, <2>3
  <2> QED
    BY <2>1, <2>4
<1>9. Offered(n, F, V, {i})
  BY <1>3, <1>4, <1>5, <1>6 DEF Fits, Offered
<1>10. Carried(s, n)
  BY <1>4, <1>5 DEF Carried, Spared
<1> QED
  BY <1>7, <1>8, <1>9, <1>10 DEF Fits, n

LEMMA RenamedFits ==
    ASSUME NEW F, NEW V, NEW s, Good(s, {}), s.lru # <<>>, Fits(s, F, V, {}, {}),
           NEW d, NEW blk, NEW mode
    PROVE  /\ Fits(Renamed(s, Head(s.lru), d, blk, mode), F, V, {Head(s.lru)}, {Head(s.lru)})
           /\ Carried(s, Renamed(s, Head(s.lru), d, blk, mode))
<1> DEFINE i == Head(s.lru)
           y == IF d # Ram /\ mode # "NO_READ" THEN Yield(Evict(s), i) ELSE Evict(s)
<1>1. Evicted(s, i, Evict(s)) /\ Victim(s, i, Evict(s), F, V, {})
  BY EvictIs, EvictFits
<1>2. i \in Buffers
  BY <1>1 DEF Evicted, Idle
<1>3. Renamed(s, i, d, blk, mode) = Name(y, i, d, blk)
  BY DEF Renamed
<1> HIDE DEF i
<1>4. /\ Victim(s, i, Evict(s), F, V, {i}) /\ Victim(s, i, Yield(Evict(s), i), F, V, {i})
      /\ Evicted(s, i, Yield(Evict(s), i))
  BY <1>1, <1>2, YieldFits, YieldIs
<1>5. Victim(s, i, y, F, V, {i}) /\ Evicted(s, i, y)
  BY <1>1, <1>4
<1> HIDE DEF y
<1>6. Fits(Name(y, i, d, blk), F, V, {i}, {i}) /\ Carried(s, Name(y, i, d, blk))
  BY <1>2, <1>5, NameFits
<1> QED
  BY <1>3, <1>6 DEF i

-----------------------------------------------------------------------------
(* The content of a buffer *)

\* The blocks and their contents, but for the buffers in X.
Holds(s, F, V, X) == Shown(s, F, V, X) /\ Stored(s, F, V, {}) /\ Offered(s, F, V, {})

\* The others are as they were, and VM has nothing new, or of buffer i's block.
Settled(n, t, i) ==
    /\ t.disk = n.disk /\ t.lostdev = n.lostdev
    /\ \A j \in Buffers \ {i} : t.buf[j] = n.buf[j]
    /\ \A id \in Ids : t.vm[id] = n.vm[id] \/ t.vm[id] = Unknown
    /\ \A id \in Ids : Id(t.buf[i]) = id /\ id[1] # Ram => t.vm[id] = Unknown

LEMMA SettledFits ==
    ASSUME NEW F, NEW V, NEW i \in Buffers, NEW n, Fits(n, F, V, {i}, {i}),
           NEW t, Settled(n, t, i), NEW X,
           \/ X = {i}
           \/ t.buf[i].dev = NO_DEV
           \/ t.buf[i].dev \notin Lost(t, F) => t.buf[i].data = V[Id(t.buf[i])]
    PROVE  Holds(t, F, V, X)
<1>1. Lost(t, F) = Lost(n, F)
  BY DEF Settled, Lost
<1>2. Shown(t, F, V, X)
  <2> SUFFICES ASSUME NEW j \in Buffers \ X,
                      t.buf[j].dev # NO_DEV, t.buf[j].dev \notin Lost(t, F)
               PROVE  t.buf[j].data = V[Id(t.buf[j])]
    BY DEF Shown
  <2>1. CASE j = i
    BY <2>1
  <2>2. CASE j # i
    BY <1>1, <2>2 DEF Settled, Fits, Shown
  <2> QED
    BY <2>1, <2>2
<1>3. Stored(t, F, V, {})
  BY <1>1 DEF Settled, Fits, Stored
<1>4. Offered(t, F, V, {})
  <2> SUFFICES ASSUME NEW id \in Ids, id[1] # Ram, t.vm[id] # Unknown
               PROVE  /\ \A j \in Buffers : Id(t.buf[j]) # id
                      /\ id[1] \notin Lost(n, F) => t.vm[id] = V[id]
    BY <1>1 DEF Offered
  <2>1. t.vm[id] = n.vm[id] /\ Id(t.buf[i]) # id
    BY DEF Settled
  <2>2. /\ \A j \in Buffers \ {i} : Id(n.buf[j]) # id
        /\ id[1] \notin Lost(n, F) => n.vm[id] = V[id]
    BY <2>1 DEF Fits, Offered
  <2> QED
    BY <2>1, <2>2 DEF Settled
<1> QED
  BY <1>2, <1>3, <1>4 DEF Holds

\* A buffer and what VM has are set.
Refill(s, i, r, v) == [s EXCEPT !.buf = [s.buf EXCEPT ![i] = r], !.vm = v]

Refilled(s, t, i, r, v) ==
    /\ t.disk = s.disk /\ t.lostdev = s.lostdev /\ t.rdwt_err = s.rdwt_err
    /\ t.vm = v /\ t.buf[i] = r /\ \A j \in Buffers \ {i} : t.buf[j] = s.buf[j]

LEMMA RefillIs ==
    ASSUME NEW s \in Cache, NEW i \in Buffers, NEW r, NEW v
    PROVE  Refilled(s, Refill(s, i, r, v), i, r, v)
<1> DEFINE b == [s.buf EXCEPT ![i] = r]
           t == [s EXCEPT !.buf = b, !.vm = v]
<1>1. b[i] = r /\ \A j \in Buffers \ {i} : b[j] = s.buf[j]
  BY Fields
<1> HIDE DEF b
<1>2. /\ t.disk = s.disk /\ t.lostdev = s.lostdev /\ t.rdwt_err = s.rdwt_err
      /\ t.vm = v /\ t.buf = b
  BY DEF Cache
<1> HIDE DEF t
<1>3. Refilled(s, t, i, r, v)
  BY <1>1, <1>2 DEF Refilled
<1> QED
  BY <1>3 DEF Refill, t, b

\* A read of the device gives what it has, or takes the name and marks an error.
HasRead(s, t, i) ==
    /\ t.disk = s.disk /\ t.vm = s.vm /\ t.lostdev = s.lostdev
    /\ \A j \in Buffers \ {i} : t.buf[j] = s.buf[j]
    /\ \/ /\ t.rdwt_err = s.rdwt_err
          /\ t.buf[i].dev = s.buf[i].dev /\ t.buf[i].blk = s.buf[i].blk
          /\ t.buf[i].data = s.disk[Id(s.buf[i])]
       \/ t.rdwt_err = "EIO" /\ t.buf[i].dev = NO_DEV

LEMMA ReadParts ==
    ASSUME NEW s \in Cache, NEW i \in Buffers, Id(s.buf[i]) \in Ids
    PROVE  HasRead(s, rw_block_read(s, i), i)
<1> DEFINE id == Id(s.buf[i])
           t == rw_block_read(s, i)
<1>1. s \in Cache /\ s.buf \in [Buffers -> Buffer] /\ s.buf[i] \in Buffer
  BY Fields, BufferFields
<1>2. CASE Transferred(s, <<id>>) = 1
  <2> DEFINE r == [s.buf[i] EXCEPT !.data = s.disk[id], !.dirt = "CLEAN"]
             u == Refill(s, i, r, s.vm)
  <2>1. t = [s EXCEPT !.buf = [[s.buf EXCEPT ![i] = [s.buf[i] EXCEPT !.data = s.disk[id]]]
                                    EXCEPT ![i].dirt = "CLEAN"]]
    BY <1>1, <1>2 DEF rw_block_read, Cache
  <2>2. t = [s EXCEPT !.buf = [s.buf EXCEPT ![i] = r]]
    BY <1>1, <2>1 DEF Buffer
  <2>3. r.dev = s.buf[i].dev /\ r.blk = s.buf[i].blk /\ r.data = s.disk[id]
    BY <1>1 DEF Buffer
  <2> HIDE DEF r, t
  <2>4. t = u
    BY <2>2 DEF Refill, Cache
  <2>5. Refilled(s, u, i, r, s.vm)
    BY RefillIs
  <2> HIDE DEF u
  <2>6. HasRead(s, t, i)
    BY <2>3, <2>4, <2>5 DEF Refilled, HasRead
  <2> QED
    BY <2>6 DEF t
<1>3. CASE Transferred(s, <<id>>) # 1
  <2> DEFINE r == [s.buf[i] EXCEPT !.dev = NO_DEV, !.dirt = "CLEAN"]
             b == [s.buf EXCEPT ![i] = r]
  <2>0. id[1] \in {Disk, Ram}
    BY DEF Ids
  <2>1. PICK v \in [{Disk, Ram} -> {"up", "dead", "none"}] :
            block_dev_io(s, id[1]) = [s EXCEPT !.drv = v]
    BY <2>0, DevIoIs
  <2>2. t = [s EXCEPT !.drv = v, !.buf = b, !.rdwt_err = "EIO"]
    <3> DEFINE w == [s EXCEPT !.drv = v]
    <3>1. w \in Cache /\ w.buf = s.buf
      BY <1>1 DEF Cache
    <3>2. t = ReadError(w, i)
      BY <1>3, <2>1 DEF rw_block_read, ReadError
    <3>3. b = Nameless(s.buf, i)
      BY DEF Nameless
    <3> HIDE DEF b, t, w
    <3>4. t = [w EXCEPT !.buf = b, !.rdwt_err = "EIO"]
      BY <3>1, <3>2, <3>3, NamelessIs
    <3> QED
      BY <3>4 DEF w
  <2>3. r.dev = NO_DEV
    BY <1>1 DEF Buffer
  <2> HIDE DEF r
  <2>4. b[i] = r /\ \A j \in Buffers \ {i} : b[j] = s.buf[j]
    BY <1>1
  <2> HIDE DEF b, t
  <2>5. /\ t.buf = b /\ t.disk = s.disk /\ t.vm = s.vm
        /\ t.lostdev = s.lostdev /\ t.rdwt_err = "EIO"
    BY <2>2 DEF Cache
  <2>6. HasRead(s, t, i)
    BY <2>3, <2>4, <2>5 DEF HasRead
  <2> QED
    BY <2>6 DEF t
<1> QED
  BY <1>2, <1>3

\* What a block is fetched from has what it should hold; an error is marked
\* just when the buffer has lost its name.
Brought(n, t, i, id, mode, F, V) ==
    /\ Holds(t, F, V, Unless(mode, i)) /\ t.lostdev = n.lostdev
    /\ \A x \in Ids : t.vm[x] = n.vm[x] \/ t.vm[x] = Unknown
    /\ mode = "PREFETCH" =>
        /\ t.rdwt_err = n.rdwt_err
        /\ t.buf[i].dev = NO_DEV /\ id[1] # Ram => t.vm[id] = Unknown
    /\ mode # "PREFETCH" =>
        /\ t.buf[i].dev = NO_DEV => t.rdwt_err = "EIO"
        /\ t.buf[i].dev # NO_DEV => t.rdwt_err = n.rdwt_err

LEMMA FetchFits ==
    ASSUME NEW F, NEW V, NEW i \in Buffers, NEW n, Good(n, {i}), Fits(n, F, V, {i}, {i}),
           NEW id \in Ids, Id(n.buf[i]) = id, NEW mode
    PROVE  Brought(n, Fetch(n, i, id, mode), i, id, mode, F, V)
<1> DEFINE t == Fetch(n, i, id, mode)
           X == Unless(mode, i)
           w == [n.vm EXCEPT ![id] = Unknown]
<1>1. /\ n \in Cache /\ n.buf[i] \in Buffer
      /\ n.buf[i].dev = id[1] /\ n.buf[i].blk = id[2] /\ id[1] # NO_DEV
      /\ \A j \in Buffers \ {i} : Id(n.buf[j]) # id
  <2>1. n.buf[i].dev = id[1] /\ n.buf[i].blk = id[2]
    BY DEF Id
  <2>2. id[1] # NO_DEV
    BY MfsCacheAssumption DEF Ids, NO_DEV
  <2> QED
    BY <2>1, <2>2, BufferFields DEF Good, Named
<1>2. n.vm \in [Ids -> Values \cup {Unknown}] /\ n.disk \in [Ids -> Values]
  BY <1>1, Fields
<1>3. \A x \in Ids : w[x] = IF x = id THEN Unknown ELSE n.vm[x]
  BY <1>2
<1>4. \A x \in Ids : w[x] = n.vm[x] \/ w[x] = Unknown
  BY <1>3
<1>5. w[id] = Unknown
  BY <1>3
<1> HIDE DEF w
<1>6. CASE mode = "NO_READ"
  <2>0. X = {i}
    BY <1>6 DEF Unless
  <2>1. CASE id[1] # Ram
    <3> DEFINE u == Refill(n, i, n.buf[i], w)
    <3>1. t = [n EXCEPT !.vm = w]
      BY <1>6, <2>1 DEF Fetch, w
    <3>2. n.buf = [n.buf EXCEPT ![i] = n.buf[i]]
      BY <1>1, Fields
    <3> HIDE DEF t
    <3>3. t = u
      BY <1>1, <3>1, <3>2 DEF Refill, Cache
    <3>4. Refilled(n, u, i, n.buf[i], w)
      BY <1>1, RefillIs
    <3> HIDE DEF u
    <3>5. Settled(n, t, i)
      BY <1>4, <1>5, <3>3, <3>4 DEF Refilled, Settled
    <3>6. Holds(t, F, V, X)
      BY <2>0, <3>5, SettledFits
    <3>7. Brought(n, t, i, id, mode, F, V)
      BY <1>1, <1>4, <1>6, <3>3, <3>4, <3>6 DEF Refilled, Brought
    <3> QED
      BY <3>7 DEF t
  <2>2. CASE id[1] = Ram
    <3>1. t = n
      BY <1>6, <2>2 DEF Fetch
    <3> HIDE DEF t
    <3>2. Settled(n, t, i)
      BY <2>2, <3>1 DEF Settled
    <3>3. Holds(t, F, V, X)
      BY <2>0, <3>2, SettledFits
    <3>4. Brought(n, t, i, id, mode, F, V)
      BY <1>1, <1>6, <3>1, <3>3 DEF Brought
    <3> QED
      BY <3>4 DEF t
  <2> QED
    BY <2>1, <2>2
<1>7. CASE mode # "NO_READ" /\ id[1] # Ram /\ n.vm[id] # Unknown
  <2> DEFINE r == [n.buf[i] EXCEPT !.data = n.vm[id]]
             u == Refill(n, i, r, w)
  <2>1. t = u
    BY <1>1, <1>7 DEF Fetch, FromVM, Refill, w
  <2>2. r.dev = id[1] /\ r.blk = id[2] /\ r.data = n.vm[id]
    BY <1>1 DEF Buffer
  <2>3. Id(r) = id
    <3>1. id = <<id[1], id[2]>>
      BY DEF Ids
    <3> QED
      BY <2>2, <3>1 DEF Id
  <2>4. Refilled(n, u, i, r, w)
    BY <1>1, RefillIs
  <2> HIDE DEF r, t, u
  <2>5. Settled(n, t, i)
    BY <1>4, <1>5, <2>1, <2>3, <2>4 DEF Refilled, Settled
  <2>6. Lost(t, F) = Lost(n, F)
    BY <2>5 DEF Settled, Lost
  <2>7. id[1] \notin Lost(t, F) => n.vm[id] = V[id]
    BY <1>7, <2>6 DEF Fits, Offered
  <2>8. Holds(t, F, V, X)
    BY <2>1, <2>2, <2>3, <2>4, <2>5, <2>7, SettledFits DEF Refilled
  <2>9. Brought(n, t, i, id, mode, F, V)
    BY <1>1, <1>4, <2>1, <2>2, <2>4, <2>8 DEF Refilled, Brought
  <2> QED
    BY <2>9 DEF t
<1>8. CASE ~(id[1] # Ram /\ n.vm[id] # Unknown) /\ mode = "PREFETCH"
  <2> DEFINE r == [n.buf[i] EXCEPT !.dev = NO_DEV]
             u == Refill(n, i, r, n.vm)
  <2>1. t = [n EXCEPT !.buf = [n.buf EXCEPT ![i] = r]]
    BY <1>1, <1>8 DEF Fetch
  <2>2. r.dev = NO_DEV
    BY <1>1 DEF Buffer
  <2> HIDE DEF r, t
  <2>3. t = u
    BY <1>1, <2>1 DEF Refill, Cache
  <2>4. Refilled(n, u, i, r, n.vm)
    BY <1>1, RefillIs
  <2> HIDE DEF u
  <2>5. \A x \in Ids : Id(r) # x
    BY <2>2, MfsCacheAssumption DEF Id, Ids, NO_DEV
  <2>6. Settled(n, t, i)
    BY <2>3, <2>4, <2>5 DEF Refilled, Settled
  <2>7. Holds(t, F, V, X)
    BY <2>2, <2>3, <2>4, <2>6, SettledFits DEF Refilled
  <2>8. Brought(n, t, i, id, mode, F, V)
    BY <1>8, <2>3, <2>4, <2>7 DEF Refilled, Brought
  <2> QED
    BY <2>8 DEF t
<1>9. CASE ~(id[1] # Ram /\ n.vm[id] # Unknown) /\ mode # "PREFETCH" /\ mode # "NO_READ"
  <2>1. t = rw_block_read(n, i)
    BY <1>9 DEF Fetch
  <2>2. HasRead(n, t, i)
    BY <1>1, <2>1, ReadParts
  <2> HIDE DEF t
  <2>3. t.buf[i].dev # NO_DEV => Id(t.buf[i]) = id /\ t.rdwt_err = n.rdwt_err
                                 /\ t.buf[i].data = n.disk[id]
    BY <2>2 DEF HasRead, Id
  <2>4. t.buf[i].dev = NO_DEV => t.rdwt_err = "EIO" /\ \A x \in Ids : Id(t.buf[i]) # x
    <3>1. \A x \in Ids : x[1] # NO_DEV
      BY MfsCacheAssumption DEF Ids, NO_DEV
    <3>2. Id(t.buf[i])[1] = t.buf[i].dev
      BY DEF Id
    <3> QED
      BY <1>1, <2>2, <3>1, <3>2 DEF HasRead
  <2>5. Settled(n, t, i)
    BY <1>9, <2>2, <2>3, <2>4 DEF HasRead, Settled
  <2>6. Lost(t, F) = Lost(n, F)
    BY <2>5 DEF Settled, Lost
  <2>7. id[1] \notin Lost(t, F) => n.disk[id] = V[id]
    BY <1>1, <2>6 DEF Fits, Stored
  <2>8. Id(t.buf[i]) = id => t.buf[i].dev = id[1]
    BY DEF Id
  <2>9. Holds(t, F, V, X)
    BY <2>3, <2>5, <2>7, <2>8, SettledFits
  <2>10. Brought(n, t, i, id, mode, F, V)
    BY <1>9, <2>2, <2>3, <2>4, <2>9 DEF HasRead, Brought
  <2> QED
    BY <2>10 DEF t
<1> QED
  BY <1>6, <1>7, <1>8, <1>9

\* What get_block gives has its content, or no name and an error marked;
\* a prefetched buffer has no name, and then VM does not have its block.
Gotten(s, g, id, mode, F, V) ==
    /\ Holds(g.s, F, V, Unless(mode, g.i))
    /\ s.lostdev \subseteq g.s.lostdev /\ Spared(s, g.s)
    /\ mode = "PREFETCH" =>
        /\ g.s.rdwt_err = s.rdwt_err
        /\ g.s.buf[g.i].dev = NO_DEV /\ id[1] # Ram => g.s.vm[id] = Unknown
    /\ mode # "PREFETCH" =>
        /\ g.s.buf[g.i].dev = NO_DEV => g.s.rdwt_err = "EIO"
        /\ g.s.buf[g.i].dev # NO_DEV => g.s.rdwt_err = s.rdwt_err

LEMMA FitsHolds ==
    ASSUME NEW F, NEW V, NEW s, Fits(s, F, V, {}, {}), NEW X
    PROVE  Holds(s, F, V, X)
BY DEF Fits, Holds, Shown

LEMMA GetFits ==
    ASSUME NEW F, NEW V, NEW s, Good(s, {}), s.lru # <<>>, Fits(s, F, V, {}, {}),
           NEW d, NEW blk, <<d, blk>> \in Ids, NEW mode
    PROVE  Gotten(s, get_block(s, d, blk, mode), <<d, blk>>, mode, F, V)
<1> DEFINE g == get_block(s, d, blk, mode)
           hit == s.hash[BUFHASH(blk)][Min(Found(s, d, blk))]
           i == Head(s.lru)
           n == Renamed(s, i, d, blk, mode)
           id == <<d, blk>>
           t == Fetch(n, i, id, mode)
<1>1. blk \in Nat /\ d \in {Disk, Ram} /\ d # NO_DEV /\ s \in Cache
  BY IdsAre DEF Good
<1>2. CASE Found(s, d, blk) # {}
  <2>1. g = [s |-> Use(s, hit), i |-> hit]
    BY <1>1, <1>2 DEF get_block
  <2>2. hit \in Buffers /\ Id(s.buf[hit]) = <<d, blk>>
    BY <1>1, <1>2, FoundIs
  <2> HIDE DEF hit
  <2> DEFINE u == Use(s, hit)
  <2>3. Untouched(s, u)
    BY <1>1, <2>2, UseUntouched
  <2>4. g.s = u /\ g.i = hit
    BY <2>1
  <2> HIDE DEF u, g
  <2>5. Fits(u, F, V, {}, {})
    BY <2>3, UntouchedFits
  <2>6. Holds(u, F, V, Unless(mode, hit))
    BY <2>5, FitsHolds
  <2>7. /\ u.vm = s.vm /\ u.lostdev = s.lostdev /\ u.rdwt_err = s.rdwt_err
        /\ u.buf[hit].dev = s.buf[hit].dev
    BY <2>2, <2>3 DEF Untouched
  <2>8. u.buf[hit].dev # NO_DEV
    BY <1>1, <2>2, <2>7 DEF Id
  <2>9. Gotten(s, g, id, mode, F, V)
    BY <2>4, <2>6, <2>7, <2>8 DEF Gotten, Spared
  <2> QED
    BY <2>9 DEF g
<1>3. CASE Found(s, d, blk) = {}
  <2>1. g = [s |-> t, i |-> i]
    BY <1>1, <1>3 DEF get_block
  <2>2. NewName(s, d, blk)
    BY <1>1, <1>3, FoundIs DEF NewName
  <2>3. NamedAnew(s, i, n, d, blk)
    BY <2>2, RenamedIs, Zenon
  <2>4. Fits(n, F, V, {i}, {i}) /\ Carried(s, n)
    BY RenamedFits
  <2>5. i \in Buffers /\ Good(n, {i}) /\ Id(n.buf[i]) = id
    BY <2>3 DEF NamedAnew, Id
  <2> HIDE DEF n, i, id
  <2>6. Brought(n, t, i, id, mode, F, V)
    BY <2>4, <2>5, FetchFits DEF id
  <2>7. g.s = t /\ g.i = i
    BY <2>1
  <2> HIDE DEF t, g
  <2>8. Spared(s, t)
    BY <2>4, <2>6 DEF Carried, Brought, Spared
  <2>9. Gotten(s, g, id, mode, F, V)
    BY <2>4, <2>6, <2>7, <2>8 DEF Carried, Brought, Gotten
  <2> QED
    BY <2>9 DEF g, id
<1> QED
  BY <1>2, <1>3

\* A buffer for no block shows nothing.
LEMMA GetNoneFits ==
    ASSUME NEW F, NEW V, NEW s, Good(s, {}), s.lru # <<>>, Fits(s, F, V, {}, {})
    PROVE  /\ Fits(get_block(s, NO_DEV, NO_BLOCK, "NORMAL").s, F, V, {}, {})
           /\ Carried(s, get_block(s, NO_DEV, NO_BLOCK, "NORMAL").s)
<1> DEFINE g == get_block(s, NO_DEV, NO_BLOCK, "NORMAL")
           i == Head(s.lru)
           n == Renamed(s, i, NO_DEV, NO_BLOCK, "NORMAL")
<1>1. g.s = n
  BY DEF get_block
<1>2. NewName(s, NO_DEV, NO_BLOCK)
  BY DEF NewName
<1>3. NamedAnew(s, i, n, NO_DEV, NO_BLOCK)
  BY <1>2, RenamedIs, Zenon
<1>4. Fits(n, F, V, {i}, {i}) /\ Carried(s, n)
  BY RenamedFits
<1> HIDE DEF g, i, n
<1>5. i \in Buffers /\ n.buf[i].dev = NO_DEV
  BY <1>3 DEF NamedAnew
<1>6. \A x \in Ids : Id(n.buf[i]) # x
  BY <1>5, MfsCacheAssumption DEF Id, Ids, NO_DEV
<1>7. Settled(n, n, i)
  BY <1>6 DEF Settled
<1>8. Holds(n, F, V, {})
  BY <1>4, <1>5, <1>7, SettledFits
<1> QED
  BY <1>1, <1>4, <1>8 DEF Holds, Fits, g

-----------------------------------------------------------------------------
(* Read-ahead *)

\* While buffers are acquired VM has none of the blocks they are for.
AheadFits(s, a, d, base, F, V) ==
    /\ Fits(a.s, F, V, {}, {})
    /\ s.lostdev \subseteq a.s.lostdev /\ a.s.rdwt_err = s.rdwt_err
    /\ d # Ram => \A k \in 1..Len(a.q) : a.s.vm[<<d, base + k - 1>>] = Unknown

LEMMA AcquireFits ==
    ASSUME NEW F, NEW V, NEW s, NEW d \in {Disk, Ram}, NEW base \in Nat, NEW most \in Nat,
           \A k \in 0..(most - 1) : <<d, base + k>> \in Ids,
           NEW a, Ahead(s, a, d, base, most), AheadFits(s, a, d, base, F, V)
    PROVE  AheadFits(s, Acquire(a, d, base), d, base, F, V)
<1> DEFINE t == a.s
           q == a.q
           blk == base + Len(q)
           g == get_block(t, d, blk, "PREFETCH")
           i == g.i
           u == g.s
<1>1. CASE a.left = 0 \/ a.s.inuse >= NrBufs - LeaveFree
  BY <1>1 DEF Acquire
<1>2. CASE ~(a.left = 0 \/ a.s.inuse >= NrBufs - LeaveFree)
  <2>1. /\ Good(t, {}) /\ Prefetched(t, q, d, base) /\ q \in Seq(Buffers)
        /\ a.left \in Nat /\ Len(q) >= 1 /\ Len(q) + a.left =< most /\ Len(q) \in Nat
    BY LenProperties DEF Ahead, Prefetched
  <2>2. a.left - 1 \in Nat /\ Len(q) \in 0..(most - 1) /\ blk \in Nat
    BY <1>2, <2>1
  <2>3. <<d, blk>> \in Ids
    BY <2>2
  <2>4. t.lru # <<>>
    <3>1. t.inuse \in Int
      BY <2>1, Fields DEF Good
    <3>2. t.inuse < NrBufs
      BY <1>2, <3>1, MfsCacheAssumption
    <3> QED
      BY <2>1, <3>2, SomeFree
  <2>5. /\ Fits(t, F, V, {}, {})
        /\ s.lostdev \subseteq t.lostdev /\ t.rdwt_err = s.rdwt_err
        /\ d # Ram => \A k \in 1..Len(q) : t.vm[<<d, base + k - 1>>] = Unknown
    BY DEF AheadFits
  <2>6. Acquire(a, d, base) = IF u.buf[i].dev # NO_DEV
                              THEN [s |-> put_block(u, i), q |-> q, left |-> 0]
                              ELSE [s |-> u, q |-> Append(q, i), left |-> a.left - 1]
    BY <1>2 DEF Acquire
  <2> DEFINE id == <<d, blk>>
  <2> HIDE DEF t, q, blk
  <2>7. Got(t, g, d, blk, Unless("PREFETCH", g.i))
    BY <2>1, <2>3, <2>4, GetIs
  <2>8. Gotten(t, g, id, "PREFETCH", F, V)
    BY <2>1, <2>3, <2>4, <2>5, GetFits
  <2>9. Unless("PREFETCH", g.i) = {} /\ id[1] = d
    BY DEF Unless
  <2> HIDE DEF g, id
  <2>10. /\ Fits(u, F, V, {}, {}) /\ t.lostdev \subseteq u.lostdev
         /\ u.rdwt_err = t.rdwt_err /\ Spared(t, u) /\ i \in Buffers /\ u \in Cache
         /\ u.buf[i].dev = NO_DEV /\ d # Ram => u.vm[id] = Unknown
    BY <2>7, <2>8, <2>9 DEF Gotten, Got, Holds, Fits, Good
  <2> HIDE DEF u, i
  <2>11. ASSUME d # Ram PROVE \A k \in 1..Len(q) : u.vm[<<d, base + k - 1>>] = Unknown
    <3> TAKE k \in 1..Len(q)
    <3>1. /\ <<d, base + k - 1>> \in Ids
          /\ \A j \in Buffers : Id(t.buf[j]) # <<d, base + k - 1>>
      BY <2>1 DEF Prefetched
    <3>2. t.vm[<<d, base + k - 1>>] = Unknown
      BY <2>5, <2>11
    <3> QED
      BY <2>10, <3>1, <3>2 DEF Spared
  <2>12. CASE u.buf[i].dev # NO_DEV
    <3> DEFINE p == put_block(u, i)
    <3>1. Untouched(u, p)
      BY <2>10, PutUntouched
    <3>2. Acquire(a, d, base) = [s |-> p, q |-> q, left |-> 0]
      BY <2>6, <2>12
    <3> HIDE DEF p
    <3>3. Fits(p, F, V, {}, {})
      BY <2>10, <3>1, UntouchedFits
    <3>4. p.vm = u.vm /\ p.lostdev = u.lostdev /\ p.rdwt_err = u.rdwt_err
      BY <3>1 DEF Untouched
    <3>5. Acquire(a, d, base).s = p /\ Acquire(a, d, base).q = q
      BY <3>2
    <3> QED
      BY <2>5, <2>10, <2>11, <3>3, <3>4, <3>5 DEF AheadFits
  <2>13. CASE u.buf[i].dev = NO_DEV
    <3> DEFINE p == Append(q, i)
    <3>1. Acquire(a, d, base).s = u /\ Acquire(a, d, base).q = p
      BY <2>6, <2>13
    <3>2. Len(p) = Len(q) + 1
      BY <2>1, <2>10
    <3> HIDE DEF p
    <3>3. ASSUME d # Ram, NEW k \in 1..Len(p) PROVE u.vm[<<d, base + k - 1>>] = Unknown
      <4>1. CASE k \in 1..Len(q)
        BY <2>11, <3>3, <4>1
      <4>2. CASE k \notin 1..Len(q)
        <5>1. base + k - 1 = blk
          BY <2>1, <3>2, <4>2 DEF blk
        <5> QED
          BY <2>10, <2>13, <3>3, <5>1 DEF id
      <4> QED
        BY <4>1, <4>2
    <3> QED
      BY <2>5, <2>10, <3>1, <3>3 DEF AheadFits
  <2> QED
    BY <2>12, <2>13
<1> QED
  BY <1>1, <1>2

LEMMA AcquiredFits ==
    ASSUME NEW F, NEW V, NEW s, NEW d \in {Disk, Ram}, NEW base \in Nat, NEW ahead \in Nat \ {0},
           \A k \in 0..(ahead - 1) : <<d, base + k>> \in Ids,
           NEW first,
           Ahead(s, [s |-> first.s, q |-> <<first.i>>, left |-> ahead - 1], d, base, ahead),
           AheadFits(s, [s |-> first.s, q |-> <<first.i>>, left |-> ahead - 1], d, base, F, V)
    PROVE  AheadFits(s, Acquired(first, d, base, ahead), d, base, F, V)
<1> DEFINE n == ahead - 1
           a == [s |-> first.s, q |-> <<first.i>>, left |-> ahead - 1]
           f == CHOOSE g : g = [m \in 0..n |-> IF m = 0 THEN a ELSE Acquire(g[m - 1], d, base)]
           Is(x) == Ahead(s, x, d, base, ahead) /\ AheadFits(s, x, d, base, F, V)
<1>1. n \in Nat
  OBVIOUS
<1>2. Acquired(first, d, base, ahead) = f[n]
  BY DEF Acquired
<1>3. Is(a)
  OBVIOUS
<1> HIDE DEF n, a
<1>4. f = [m \in 0..n |-> IF m = 0 THEN a ELSE Acquire(f[m - 1], d, base)]
  <2>1. \E g : g = [m \in 0..n |-> IF m = 0 THEN a ELSE Acquire(g[m - 1], d, base)]
    <3>1. PICK g : Acquisitions(g, d, base, a, n)
      BY <1>1, AcquireAfter
    <3>2. g = [m \in 0..n |-> IF m = 0 THEN a ELSE Acquire(g[m - 1], d, base)]
      BY <3>1 DEF Acquisitions
    <3> QED
      BY <3>2
  <2> QED
    BY <2>1
<1> HIDE DEF f
<1> DEFINE Off == {m \in Nat : m \in 0..n /\ ~Is(f[m])}
<1>5. Off = {}
  <2> SUFFICES ASSUME Off # {} PROVE FALSE
    OBVIOUS
  <2>1. PICK m \in Off : \A k \in Off : ~(<<k, m>> \in OpToRel(<, Nat))
    BY NatLessThanWellFounded, WFMin, Off \subseteq Nat
  <2>2. m \in 0..n /\ ~Is(f[m]) /\ \A k \in Off : ~(k < m)
    BY <2>1 DEF OpToRel
  <2>3. m # 0
    BY <1>1, <1>3, <1>4, <2>2
  <2>4. m - 1 \in 0..n /\ m - 1 \in Nat /\ m - 1 < m
    BY <1>1, <2>2, <2>3
  <2>5. Is(f[m - 1])
    BY <2>2, <2>4
  <2>6. f[m] = Acquire(f[m - 1], d, base)
    BY <1>4, <2>2, <2>3
  <2>7. Is(Acquire(f[m - 1], d, base))
    BY <2>5, AcquireKeeps, AcquireFits
  <2> QED
    BY <2>2, <2>6, <2>7
<1> QED
  BY <1>1, <1>2, <1>5

\* A release leaves a cache, whoever uses its buffers.
LEMMA PutCache ==
    ASSUME NEW s \in Cache, NEW i \in Buffers
    PROVE  put_block(s, i) \in Cache
<1> DEFINE k == IF s.buf[i].count > 1 THEN s.buf[i].count - 1 ELSE 0
           l == IF s.buf[i].count > 1 THEN s.lru
                ELSE IF s.buf[i].dev = Ram THEN <<i>> \o s.lru ELSE Append(s.lru, i)
           n == IF s.buf[i].count > 1 THEN s.inuse ELSE s.inuse - 1
           b == [s.buf EXCEPT ![i] = [s.buf[i] EXCEPT !.count = k]]
<1>1. /\ s.buf \in [Buffers -> Buffer] /\ s.buf[i] \in Buffer /\ s.buf[i].count \in Nat
      /\ s.lru \in Seq(Buffers) /\ s.inuse \in Int
  BY Fields, BufferFields
<1>2. k \in Nat /\ n \in Int /\ l \in Seq(Buffers)
  BY <1>1
<1>3. put_block(s, i) = [s EXCEPT !.buf = b, !.lru = l, !.inuse = n]
  <2>1. CASE s.buf[i].count > 1
    BY <1>1, <2>1 DEF put_block, Cache
  <2>2. CASE ~(s.buf[i].count > 1)
    BY <1>1, <2>2 DEF put_block, Cache
  <2> QED
    BY <2>1, <2>2
<1> HIDE DEF k, l, n
<1>4. b \in [Buffers -> Buffer]
  BY <1>2, CountSet
<1> HIDE DEF b
<1> QED
  BY <1>2, <1>3, <1>4 DEF Cache

LEMMA UntouchedMore ==
    ASSUME NEW s, NEW t, Untouched(s, t), NEW u, Untouched(t, u)
    PROVE  Untouched(s, u)
BY DEF Untouched

\* The queue is let go.
LEMMA PutAllUntouched ==
    ASSUME NEW s \in Cache, NEW q \in Seq(Buffers)
    PROVE  Untouched(s, put_all(s, q))
<1> DEFINE n == Len(q)
           f == CHOOSE g : g = [m \in 0..n |-> IF m = 0 THEN s ELSE put_block(g[m - 1], q[m])]
           Is(t) == t \in Cache /\ Untouched(s, t)
<1>1. n \in Nat
  BY LenProperties
<1>2. put_all(s, q) = f[n]
  BY DEF put_all
<1> HIDE DEF n
<1>3. f = [m \in 0..n |-> IF m = 0 THEN s ELSE put_block(f[m - 1], q[m])]
  <2>1. \E g : g = [m \in 0..n |-> IF m = 0 THEN s ELSE put_block(g[m - 1], q[m])]
    <3>1. PICK g : Releases(g, s, q, n)
      BY <1>1, PutAfter
    <3>2. g = [m \in 0..n |-> IF m = 0 THEN s ELSE put_block(g[m - 1], q[m])]
      BY <3>1 DEF Releases
    <3> QED
      BY <3>2
  <2> QED
    BY <2>1
<1> HIDE DEF f
<1>4. Is(s)
  BY DEF Untouched
<1> DEFINE Off == {m \in Nat : m \in 0..n /\ ~Is(f[m])}
<1>5. Off = {}
  <2> SUFFICES ASSUME Off # {} PROVE FALSE
    OBVIOUS
  <2>1. PICK m \in Off : \A k \in Off : ~(<<k, m>> \in OpToRel(<, Nat))
    BY NatLessThanWellFounded, WFMin, Off \subseteq Nat
  <2>2. m \in 0..n /\ ~Is(f[m]) /\ \A k \in Off : ~(k < m)
    BY <2>1 DEF OpToRel
  <2>3. m # 0
    BY <1>1, <1>3, <1>4, <2>2
  <2>4. m - 1 \in 0..n /\ m - 1 \in Nat /\ m - 1 < m /\ m \in 1..n
    BY <1>1, <2>2, <2>3
  <2> DEFINE t == f[m - 1]
             i == q[m]
  <2>5. t \in Cache /\ Untouched(s, t)
    BY <2>2, <2>4
  <2>6. f[m] = put_block(t, i)
    BY <1>3, <2>2, <2>3
  <2>7. i \in Buffers
    BY <2>4 DEF n
  <2> HIDE DEF t, i
  <2>8. put_block(t, i) \in Cache /\ Untouched(t, put_block(t, i))
    BY <2>5, <2>7, PutCache, PutUntouched
  <2>9. Untouched(s, put_block(t, i))
    BY <2>5, <2>8, UntouchedMore
  <2> QED
    BY <2>2, <2>6, <2>8, <2>9
<1> QED
  BY <1>1, <1>2, <1>5

\* What is read into the buffers of the queue is what the blocks hold.
HasFetched(s, t, d, done) ==
    /\ t.disk = s.disk /\ t.vm = s.vm
    /\ t.lostdev = s.lostdev /\ t.rdwt_err = s.rdwt_err
    /\ \A i \in Buffers :
        /\ i \in done => /\ t.buf[i].dev = d /\ t.buf[i].blk = s.buf[i].blk
                         /\ t.buf[i].data = s.disk[<<d, s.buf[i].blk>>]
        /\ i \notin done => t.buf[i] = s.buf[i]

LEMMA FetchedParts ==
    ASSUME NEW s \in Cache, NEW d \in {Disk, Ram}, NEW done
    PROVE  HasFetched(s, Fetched(s, d, done), d, done)
<1> DEFINE r(i) == [s.buf[i] EXCEPT !.dev = d, !.data = s.disk[<<d, s.buf[i].blk>>]]
           b == [i \in Buffers |-> IF i \in done THEN r(i) ELSE s.buf[i]]
           t == Fetched(s, d, done)
<1>1. PICK w \in [{Disk, Ram} -> {"up", "dead", "none"}] :
            block_dev_io(s, d) = [s EXCEPT !.drv = w]
  BY DevIoIs
<1>2. t = [s EXCEPT !.drv = w, !.buf = b]
  <2>1. [s EXCEPT !.drv = w].buf = s.buf
    BY DEF Cache
  <2>2. t = [[s EXCEPT !.drv = w] EXCEPT !.buf = b]
    BY <1>1, <2>1 DEF Fetched
  <2> HIDE DEF b
  <2> QED
    BY <2>2 DEF Cache
<1>3. \A i \in Buffers :
        /\ r(i).dev = d /\ r(i).blk = s.buf[i].blk
        /\ r(i).data = s.disk[<<d, s.buf[i].blk>>]
  BY BufferFields DEF Buffer
<1>4. \A i \in Buffers : /\ i \in done => b[i] = r(i)
                         /\ i \notin done => b[i] = s.buf[i]
  OBVIOUS
<1> HIDE DEF r, b, t
<1>5. /\ t.buf = b /\ t.disk = s.disk /\ t.vm = s.vm
      /\ t.lostdev = s.lostdev /\ t.rdwt_err = s.rdwt_err
  BY <1>2 DEF Cache
<1>6. HasFetched(s, t, d, done)
  BY <1>3, <1>4, <1>5 DEF HasFetched
<1> QED
  BY <1>6 DEF t

LEMMA FetchedFits ==
    ASSUME NEW F, NEW V, NEW s, Good(s, {}), NEW d \in {Disk, Ram}, NEW base \in Nat,
           NEW q, Prefetched(s, q, d, base), NEW done, \A i \in done : On(q, i),
           Fits(s, F, V, {}, {}),
           d # Ram => \A k \in 1..Len(q) : s.vm[<<d, base + k - 1>>] = Unknown
    PROVE  Fits(Fetched(s, d, done), F, V, {}, {})
<1> DEFINE t == Fetched(s, d, done)
<1>1. s \in Cache
  BY DEF Good
<1>2. HasFetched(s, t, d, done)
  BY <1>1, FetchedParts
<1> HIDE DEF t
<1>3. Lost(t, F) = Lost(s, F)
  BY <1>2 DEF HasFetched, Lost
<1>4. ASSUME NEW i \in done
      PROVE  /\ i \in Buffers /\ s.buf[i].dev = NO_DEV
             /\ <<d, s.buf[i].blk>> \in Ids
             /\ \A j \in Buffers : Id(s.buf[j]) # <<d, s.buf[i].blk>>
             /\ d # Ram => s.vm[<<d, s.buf[i].blk>>] = Unknown
             /\ Id(t.buf[i]) = <<d, s.buf[i].blk>>
             /\ t.buf[i].data = s.disk[<<d, s.buf[i].blk>>]
  <2>1. PICK k \in 1..Len(q) : q[k] = i
    BY DEF On
  <2>2. /\ i \in Buffers /\ s.buf[i].dev = NO_DEV /\ s.buf[i].blk = base + k - 1
        /\ <<d, base + k - 1>> \in Ids
        /\ \A j \in Buffers : Id(s.buf[j]) # <<d, base + k - 1>>
    BY <2>1 DEF Prefetched
  <2>3. Id(t.buf[i]) = <<d, s.buf[i].blk>> /\ t.buf[i].data = s.disk[<<d, s.buf[i].blk>>]
    BY <1>2, <2>2 DEF HasFetched, Id
  <2> QED
    BY <2>2, <2>3
<1>5. Shown(t, F, V, {})
  <2> SUFFICES ASSUME NEW i \in Buffers, t.buf[i].dev # NO_DEV, t.buf[i].dev \notin Lost(s, F)
               PROVE  t.buf[i].data = V[Id(t.buf[i])]
    BY <1>3 DEF Shown
  <2>1. CASE i \in done
    <3> DEFINE id == <<d, s.buf[i].blk>>
    <3>1. /\ id \in Ids /\ \A j \in Buffers : Id(s.buf[j]) # id
          /\ Id(t.buf[i]) = id /\ t.buf[i].data = s.disk[id]
      BY <1>4, <2>1
    <3>2. id[1] = t.buf[i].dev
      BY <1>2, <2>1 DEF HasFetched
    <3> HIDE DEF id
    <3>3. s.disk[id] = V[id]
      BY <3>1, <3>2 DEF Fits, Stored
    <3> QED
      BY <3>1, <3>3
  <2>2. CASE i \notin done
    BY <1>2, <2>2 DEF HasFetched, Fits, Shown
  <2> QED
    BY <2>1, <2>2
<1>6. Stored(t, F, V, {})
  <2> SUFFICES ASSUME NEW id \in Ids, id[1] \notin Lost(s, F), s.disk[id] # V[id]
               PROVE  \E j \in Buffers : Id(t.buf[j]) = id /\ t.buf[j].dirt = "DIRTY"
    BY <1>2, <1>3 DEF Stored, HasFetched
  <2>1. PICK j \in Buffers : Id(s.buf[j]) = id /\ s.buf[j].dirt = "DIRTY"
    BY DEF Fits, Stored
  <2>2. s.buf[j].dev # NO_DEV
    BY <2>1, MfsCacheAssumption DEF Id, Ids, NO_DEV
  <2>3. j \notin done
    BY <1>4, <2>2
  <2> QED
    BY <1>2, <2>1, <2>3 DEF HasFetched
<1>7. Offered(t, F, V, {})
  <2> SUFFICES ASSUME NEW id \in Ids, id[1] # Ram, s.vm[id] # Unknown
               PROVE  /\ \A j \in Buffers : Id(t.buf[j]) # id
                      /\ id[1] \notin Lost(s, F) => s.vm[id] = V[id]
    BY <1>2, <1>3 DEF Offered, HasFetched
  <2>1. /\ \A j \in Buffers : Id(s.buf[j]) # id
        /\ id[1] \notin Lost(s, F) => s.vm[id] = V[id]
    BY DEF Fits, Offered
  <2>2. ASSUME NEW j \in done PROVE Id(t.buf[j]) # id
    <3>1. Id(t.buf[j]) = <<d, s.buf[j].blk>>
      BY <1>4
    <3>2. d # Ram => s.vm[<<d, s.buf[j].blk>>] = Unknown
      BY <1>4
    <3>3. id = <<d, s.buf[j].blk>> => id[1] = d
      OBVIOUS
    <3> QED
      BY <3>1, <3>2, <3>3
  <2> QED
    BY <1>2, <2>1, <2>2 DEF HasFetched
<1> QED
  BY <1>5, <1>6, <1>7 DEF Fits, t

LEMMA ReadScatteredFits ==
    ASSUME NEW F, NEW V, NEW s, Good(s, {}), NEW d \in {Disk, Ram}, NEW base \in Nat,
           NEW q, Prefetched(s, q, d, base), Len(q) >= 1, Fits(s, F, V, {}, {}),
           d # Ram => \A k \in 1..Len(q) : s.vm[<<d, base + k - 1>>] = Unknown
    PROVE  /\ Fits(ReadScattered(s, d, q), F, V, {}, {})
           /\ ReadScattered(s, d, q).lostdev = s.lostdev
           /\ ReadScattered(s, d, q).rdwt_err = s.rdwt_err
<1> DEFINE done == Moved(s, d, ToSet(q))
           t == Fetched(s, d, done)
           u == IF done = {} THEN FirstFailed(t, q[1]) ELSE t
           r == put_all(u, q)
<1>1. /\ q \in Seq(Buffers) /\ Len(q) \in Nat /\ 1 \in 1..Len(q) /\ q[1] \in Buffers
      /\ s.buf[q[1]].dev = NO_DEV
  <2>1. q \in Seq(Buffers) /\ Len(q) \in Nat
    BY LenProperties DEF Prefetched
  <2>2. 1 \in 1..Len(q)
    BY <2>1
  <2>3. q[1] \in Buffers
    BY <2>1, <2>2
  <2>4. s.buf[q[1]].dev = NO_DEV
    BY <2>2 DEF Prefetched
  <2> QED
    BY <2>1, <2>2, <2>3, <2>4
<1>2. \A i \in done : On(q, i)
  <2>1. \A i \in ToSet(q) : On(q, i)
    BY <1>1 DEF ToSet, On
  <2> QED
    BY <2>1 DEF Moved
<1>3. ReadScattered(s, d, q) = r
  BY DEF ReadScattered
<1> HIDE DEF done
<1>4. /\ Good(t, {}) /\ Fits(t, F, V, {}, {})
      /\ HasFetched(s, t, d, done) /\ t \in Cache
  BY <1>2, FetchedKeeps, FetchedFits, FetchedParts DEF Good
<1> HIDE DEF t
<1>5. /\ u \in Cache /\ Fits(u, F, V, {}, {})
      /\ u.lostdev = s.lostdev /\ u.rdwt_err = s.rdwt_err
  <2>1. CASE done = {}
    <3> DEFINE v == FirstFailed(t, q[1])
    <3>1. Loses(t, v)
      BY <1>1, <1>4, FailedLoses
    <3>2. t.buf[q[1]].dev = NO_DEV
      BY <1>1, <1>4, <2>1 DEF HasFetched
    <3>3. Fits(v, F, V, {}, {})
      BY <1>1, <1>4, <3>2, FailedFits
    <3>4. v.lostdev = t.lostdev /\ v.rdwt_err = t.rdwt_err
      BY <1>1, <1>4, FailedParts
    <3> HIDE DEF v
    <3>5. v \in Cache
      BY <3>1 DEF Loses, Alike
    <3> QED
      BY <1>4, <2>1, <3>3, <3>4, <3>5 DEF v, HasFetched
  <2>2. CASE done # {}
    BY <1>4, <2>2 DEF HasFetched
  <2> QED
    BY <2>1, <2>2
<1> HIDE DEF u
<1>6. Untouched(u, r)
  BY <1>1, <1>5, PutAllUntouched
<1> HIDE DEF r
<1>7. Fits(r, F, V, {}, {})
  BY <1>5, <1>6, UntouchedFits
<1> QED
  BY <1>3, <1>5, <1>6, <1>7 DEF Untouched

\* With all that a block is read: it is there, or an error is marked.
Arrived(s, g, id, F, V) ==
    /\ Fits(g.s, F, V, {}, {}) /\ s.lostdev \subseteq g.s.lostdev
    /\ g.s.buf[g.i].dev = NO_DEV => g.s.rdwt_err = "EIO"
    /\ g.s.buf[g.i].dev # NO_DEV => g.s.rdwt_err = s.rdwt_err /\ Id(g.s.buf[g.i]) = id

LEMMA RaheadFits ==
    ASSUME NEW F, NEW V, NEW s, Good(s, {}), s.lru # <<>>, Fits(s, F, V, {}, {}),
           NEW d \in {Disk, Ram}, NEW base \in Nat, NEW ahead \in Nat \ {0},
           \A k \in 0..(ahead - 1) : <<d, base + k>> \in Ids
    PROVE  Arrived(s, rahead(s, d, base, ahead), <<d, base>>, F, V)
<1> DEFINE first == get_block(s, d, base, "PREFETCH")
           a == [s |-> first.s, q |-> <<first.i>>, left |-> ahead - 1]
           b == Acquired(first, d, base, ahead)
           r == ReadScattered(b.s, d, b.q)
           g == get_block(r, d, base, "NORMAL")
           id == <<d, base>>
<1>1. id \in Ids /\ id[1] = d
  <2>1. <<d, base + 0>> \in Ids
    OBVIOUS
  <2> QED
    BY <2>1
<1>2. rahead(s, d, base, ahead) = IF first.s.buf[first.i].dev # NO_DEV THEN first ELSE g
  BY DEF rahead, ReadAhead
<1>3. Gotten(s, first, id, "PREFETCH", F, V)
  BY <1>1, GetFits
<1>4. Got(s, first, d, base, {})
  <2>1. Got(s, first, d, base, Unless("PREFETCH", first.i))
    BY <1>1, GetIs
  <2>2. Unless("PREFETCH", first.i) = {}
    BY DEF Unless
  <2> QED
    BY <2>1, <2>2
<1> HIDE DEF first
<1>5. /\ Fits(first.s, F, V, {}, {}) /\ s.lostdev \subseteq first.s.lostdev
      /\ first.s.rdwt_err = s.rdwt_err
      /\ first.s.buf[first.i].dev = NO_DEV /\ d # Ram => first.s.vm[id] = Unknown
  BY <1>1, <1>3 DEF Gotten, Holds, Fits, Unless
<1>6. CASE first.s.buf[first.i].dev # NO_DEV
  BY <1>2, <1>4, <1>5, <1>6 DEF Arrived, Got
<1>7. CASE first.s.buf[first.i].dev = NO_DEV
  <2>1. Ahead(s, a, d, base, ahead)
    BY <1>1, <1>4, <1>7, AheadStarts
  <2>2. AheadFits(s, a, d, base, F, V)
    <3>1. a.s = first.s /\ Len(a.q) = 1
      OBVIOUS
    <3>2. \A k \in 1..Len(a.q) : base + k - 1 = base
      BY <3>1
    <3> HIDE DEF a
    <3> QED
      BY <1>5, <1>7, <3>1, <3>2 DEF AheadFits
  <2>3. Ahead(s, b, d, base, ahead) /\ AheadFits(s, b, d, base, F, V)
    BY <2>1, <2>2, AcquiredIs, AcquiredFits
  <2> HIDE DEF b
  <2>4. Good(r, {}) /\ r.lru # <<>>
    BY <2>3, AheadReads
  <2>5. /\ Fits(r, F, V, {}, {}) /\ r.lostdev = b.s.lostdev /\ r.rdwt_err = b.s.rdwt_err
    <3>1. Good(b.s, {}) /\ Prefetched(b.s, b.q, d, base) /\ Len(b.q) >= 1
      BY ONLY <2>3 DEF Ahead
    <3>2. /\ Fits(b.s, F, V, {}, {})
          /\ d # Ram => \A k \in 1..Len(b.q) : b.s.vm[<<d, base + k - 1>>] = Unknown
      BY ONLY <2>3 DEF AheadFits
    <3> DEFINE x == b.s
               q == b.q
    <3>3. /\ Good(x, {}) /\ Prefetched(x, q, d, base) /\ Len(q) >= 1
          /\ Fits(x, F, V, {}, {})
          /\ d # Ram => \A k \in 1..Len(q) : x.vm[<<d, base + k - 1>>] = Unknown
      BY ONLY <3>1, <3>2
    <3>4. d \in {Disk, Ram} /\ base \in Nat
      OBVIOUS
    <3> HIDE DEF x, q
    <3>5. LET z == ReadScattered(x, d, q)
          IN Fits(z, F, V, {}, {}) /\ z.lostdev = x.lostdev /\ z.rdwt_err = x.rdwt_err
      BY ONLY <3>3, <3>4, ReadScatteredFits
    <3> QED
      BY ONLY <3>5 DEF r, x, q
  <2> HIDE DEF r
  <2>6. Gotten(r, g, id, "NORMAL", F, V)
    BY <1>1, <2>4, <2>5, GetFits
  <2>7. Got(r, g, d, base, Unless("NORMAL", g.i))
    BY <1>1, <2>4, GetIs
  <2> HIDE DEF g
  <2>8. g.s.buf[g.i].dev # NO_DEV => Id(g.s.buf[g.i]) = id
    BY <2>7 DEF Got
  <2> HIDE DEF id
  <2>9. Arrived(r, g, id, F, V)
    BY <2>6, <2>8 DEF Gotten, Holds, Fits, Unless, Arrived
  <2>10. Arrived(s, g, id, F, V)
    BY <2>3, <2>5, <2>9 DEF Arrived, AheadFits
  <2> QED
    BY <1>2, <1>7, <2>10 DEF id
<1> QED
  BY <1>6, <1>7

-----------------------------------------------------------------------------
(* sync, flush, and the change of a block *)

\* After a sync nothing dirty with a name is left, but of lost devices.
Synced(s, t, k, F, V) ==
    /\ Loses(s, t) /\ Fits(t, F, V, {}, {})
    /\ s.lostdev \subseteq t.lostdev
    /\ \A i \in 1..k : t.buf[i].dev # NO_DEV
        => t.buf[i].dirt = "CLEAN" \/ t.buf[i].dev \in t.lostdev

LEMMA SyncBufferFits ==
    ASSUME NEW F, NEW V, NEW s, Good(s, {}), NEW m \in Buffers,
           NEW t, Synced(s, t, m - 1, F, V)
    PROVE  Synced(s, SyncBuffer(t, m), m, F, V)
<1> DEFINE d == t.buf[m].dev
           u == flushall(t, d)
           w == SyncBuffer(t, m)
<1>1. m \in 1..NrBufs /\ NrBufs \in Nat
  BY MfsCacheAssumption DEF Buffers
<1>2. \A i \in 1..m : i \in Buffers /\ (i = m \/ i \in 1..(m - 1))
  BY <1>1 DEF Buffers
<1>3. /\ Loses(s, t) /\ Fits(t, F, V, {}, {}) /\ s.lostdev \subseteq t.lostdev
      /\ \A i \in 1..(m - 1) : t.buf[i].dev # NO_DEV
            => t.buf[i].dirt = "CLEAN" \/ t.buf[i].dev \in t.lostdev
  BY DEF Synced
<1>4. t \in Cache /\ Filled(t.buf, {})
  BY <1>3, LosesKeeps DEF Good
<1>5. CASE d # NO_DEV /\ t.buf[m].dirt = "DIRTY"
  <2>1. d \in {Disk, Ram}
    BY <1>4, <1>5, BufferFields
  <2>2. w = u
    BY <1>5 DEF SyncBuffer
  <2> HIDE DEF d, w
  <2>3. Flushed(t, u, d, F, V)
    BY <1>3, <1>4, <2>1, FlushIs
  <2> HIDE DEF u
  <2>4. /\ Loses(t, u) /\ Fits(u, F, V, {}, {}) /\ t.lostdev \subseteq u.lostdev
        /\ \A i \in Buffers :
            /\ u.buf[i].dirt = t.buf[i].dirt \/ u.buf[i].dirt = "CLEAN"
            /\ u.buf[i].dev = t.buf[i].dev \/ u.buf[i].dev = NO_DEV
            /\ u.buf[i].dev = d => u.buf[i].dirt = "CLEAN" \/ d \in u.lostdev
    BY <2>3 DEF Flushed, Onward, Loses, Alike
  <2>5. Loses(s, u) /\ s.lostdev \subseteq u.lostdev
    BY <1>3, <2>4, LosesMore
  <2>6. ASSUME NEW i \in 1..m, u.buf[i].dev # NO_DEV
        PROVE  u.buf[i].dirt = "CLEAN" \/ u.buf[i].dev \in u.lostdev
    <3>1. /\ i \in Buffers /\ u.buf[i].dev = t.buf[i].dev
          /\ u.buf[i].dirt = t.buf[i].dirt \/ u.buf[i].dirt = "CLEAN"
      BY <1>2, <2>4, <2>6
    <3>2. CASE i = m
      BY <2>4, <3>1, <3>2 DEF d
    <3>3. CASE i # m
      BY <1>2, <1>3, <2>4, <2>6, <3>1, <3>3
    <3> QED
      BY <3>2, <3>3
  <2>7. Synced(s, u, m, F, V)
    BY <2>4, <2>5, <2>6 DEF Synced
  <2> QED
    BY <2>2, <2>7 DEF w
<1>6. CASE ~(d # NO_DEV /\ t.buf[m].dirt = "DIRTY")
  <2>1. w = t
    BY <1>6 DEF SyncBuffer
  <2>2. t.buf[m].dirt \in {"CLEAN", "DIRTY"}
    BY <1>4, BufferFields
  <2> HIDE DEF w
  <2>3. Synced(s, t, m, F, V)
    BY <1>2, <1>3, <1>6, <2>2 DEF Synced
  <2> QED
    BY <2>1, <2>3 DEF w
<1> QED
  BY <1>5, <1>6

LEMMA SyncFits ==
    ASSUME NEW F, NEW V, NEW s, Good(s, {}), Fits(s, F, V, {}, {})
    PROVE  Synced(s, fs_sync(s), NrBufs, F, V)
<1> DEFINE n == NrBufs
           f == CHOOSE g : g = [m \in 0..n |-> IF m = 0 THEN s ELSE SyncBuffer(g[m - 1], m)]
<1>1. n \in Nat /\ Buffers = 1..n
  BY MfsCacheAssumption DEF Buffers
<1>2. fs_sync(s) = f[n]
  BY DEF fs_sync
<1> HIDE DEF n
<1>3. f = [m \in 0..n |-> IF m = 0 THEN s ELSE SyncBuffer(f[m - 1], m)]
  <2>1. \E g : g = [m \in 0..n |-> IF m = 0 THEN s ELSE SyncBuffer(g[m - 1], m)]
    <3>1. PICK g : Flushes(g, s, n)
      BY <1>1, SyncAfter
    <3>2. g = [m \in 0..n |-> IF m = 0 THEN s ELSE SyncBuffer(g[m - 1], m)]
      BY <3>1 DEF Flushes
    <3> QED
      BY <3>2
  <2> QED
    BY <2>1
<1> HIDE DEF f
<1>4. Synced(s, s, 0, F, V)
  BY DEF Good, Loses, Alike, Synced
<1> DEFINE Off == {m \in Nat : m \in 0..n /\ ~Synced(s, f[m], m, F, V)}
<1>5. Off = {}
  <2> SUFFICES ASSUME Off # {} PROVE FALSE
    OBVIOUS
  <2>1. PICK m \in Off : \A k \in Off : ~(<<k, m>> \in OpToRel(<, Nat))
    BY NatLessThanWellFounded, WFMin, Off \subseteq Nat
  <2>2. m \in 0..n /\ ~Synced(s, f[m], m, F, V) /\ \A k \in Off : ~(k < m)
    BY <2>1 DEF OpToRel
  <2>3. m # 0
    BY <1>1, <1>3, <1>4, <2>2
  <2>4. m - 1 \in 0..n /\ m - 1 \in Nat /\ m - 1 < m /\ m \in Buffers
    BY <1>1, <2>2, <2>3
  <2>5. Synced(s, f[m - 1], m - 1, F, V)
    BY <2>2, <2>4
  <2>6. f[m] = SyncBuffer(f[m - 1], m)
    BY <1>3, <2>2, <2>3
  <2>7. Synced(s, SyncBuffer(f[m - 1], m), m, F, V)
    BY <2>4, <2>5, SyncBufferFits
  <2> QED
    BY <2>2, <2>6, <2>7
<1> QED
  BY <1>1, <1>2, <1>5 DEF n

\* The blocks of the memory device are only given up when they are written.
LEMMA InvalidateFits ==
    ASSUME NEW F, NEW V, NEW s, NEW t, Flushed(s, t, Ram, F, V)
    PROVE  /\ Fits(invalidate(t, Ram), F, V, {}, {})
           /\ invalidate(t, Ram).lostdev = t.lostdev
<1> DEFINE b == [i \in Buffers |-> IF t.buf[i].dev = Ram THEN [t.buf[i] EXCEPT !.dev = NO_DEV]
                                   ELSE t.buf[i]]
           v == [id \in Ids |-> Unknown]
           u == invalidate(t, Ram)
<1>1. /\ t \in Cache /\ Fits(t, F, V, {}, {})
      /\ \A i \in Buffers : t.buf[i].dev = Ram => t.buf[i].dirt = "CLEAN" \/ Ram \in t.lostdev
  BY DEF Flushed, Loses, Alike
<1>2. u = [t EXCEPT !.buf = b, !.vm = v]
  BY <1>1, Fields DEF invalidate, vm_forgetblocks
<1>3. \A i \in Buffers : /\ t.buf[i].dev = Ram => b[i].dev = NO_DEV
                         /\ t.buf[i].dev # Ram => b[i] = t.buf[i]
  BY <1>1, BufferFields DEF Buffer
<1>4. \A id \in Ids : v[id] = Unknown
  OBVIOUS
<1> HIDE DEF b, v, u
<1>5. u.buf = b /\ u.vm = v /\ u.disk = t.disk /\ u.lostdev = t.lostdev
  BY <1>1, <1>2 DEF Cache
<1>6. Lost(u, F) = Lost(t, F)
  BY <1>5 DEF Lost
<1>7. Shown(u, F, V, {})
  BY <1>1, <1>3, <1>5, <1>6 DEF Fits, Shown
<1>8. Stored(u, F, V, {})
  <2> SUFFICES ASSUME NEW id \in Ids, id[1] \notin Lost(t, F), t.disk[id] # V[id]
               PROVE  \E j \in Buffers : Id(b[j]) = id /\ b[j].dirt = "DIRTY"
    BY <1>5, <1>6 DEF Stored
  <2>1. PICK j \in Buffers : Id(t.buf[j]) = id /\ t.buf[j].dirt = "DIRTY"
    BY <1>1 DEF Fits, Stored
  <2>2. t.buf[j].dev = id[1]
    BY <2>1 DEF Id
  <2>3. t.buf[j].dev # Ram
    BY <1>1, <2>1, <2>2 DEF Lost
  <2> QED
    BY <1>3, <2>1, <2>3
<1>9. Offered(u, F, V, {})
  BY <1>4, <1>5 DEF Offered
<1> QED
  BY <1>5, <1>7, <1>8, <1>9 DEF Fits, u

\* A buffer is filled anew, and is dirty.
HasFilled(s, t, i, v) ==
    /\ t.disk = s.disk /\ t.vm = s.vm
    /\ t.lostdev = s.lostdev /\ t.rdwt_err = s.rdwt_err
    /\ t.buf[i].dev = s.buf[i].dev /\ t.buf[i].blk = s.buf[i].blk
    /\ t.buf[i].data = v /\ t.buf[i].dirt = "DIRTY"
    /\ \A j \in Buffers \ {i} : t.buf[j] = s.buf[j]

LEMMA FillingParts ==
    ASSUME NEW s \in Cache, NEW i \in Buffers, NEW v
    PROVE  HasFilled(s, Filling(s, i, v), i, v)
<1> DEFINE r == [s.buf[i] EXCEPT !.data = v, !.dirt = "DIRTY"]
           u == Refill(s, i, r, s.vm)
<1>1. s.buf \in [Buffers -> Buffer] /\ s.buf[i] \in Buffer
  BY Fields, BufferFields
<1>2. Filling(s, i, v) = [s EXCEPT !.buf = [s.buf EXCEPT ![i] = r]]
  BY <1>1, Fields DEF Filling
<1>3. r.dev = s.buf[i].dev /\ r.blk = s.buf[i].blk /\ r.data = v /\ r.dirt = "DIRTY"
  BY <1>1 DEF Buffer
<1> HIDE DEF r
<1>4. Filling(s, i, v) = u
  BY <1>2 DEF Refill, Cache
<1>5. Refilled(s, u, i, r, s.vm)
  BY RefillIs
<1> HIDE DEF u
<1> QED
  BY <1>3, <1>4, <1>5 DEF Refilled, HasFilled

\* Then its block holds what was filled in, and no other block changes.
Rewritten(V, W, id, v) ==
    /\ W[id] = v
    /\ \A x \in Ids : x # id => W[x] = V[x]

LEMMA FillingFits ==
    ASSUME NEW F, NEW V, NEW s, NEW i \in Buffers, Good(s, {i}), Holds(s, F, V, {i}),
           Id(s.buf[i]) \in Ids, NEW v, NEW W, Rewritten(V, W, Id(s.buf[i]), v)
    PROVE  Fits(Filling(s, i, v), F, W, {}, {})
<1> DEFINE t == Filling(s, i, v)
           id == Id(s.buf[i])
<1>1. s \in Cache
  BY DEF Good
<1>2. HasFilled(s, t, i, v)
  BY <1>1, FillingParts
<1> HIDE DEF t
<1>3. id \in Ids /\ id[1] # NO_DEV /\ s.buf[i].dev = id[1]
  BY MfsCacheAssumption DEF Id, Ids, NO_DEV
<1>4. Id(t.buf[i]) = id /\ \A j \in Buffers \ {i} : Id(t.buf[j]) = Id(s.buf[j])
  BY <1>2 DEF HasFilled, Id
<1>5. \A j \in Buffers \ {i} : Id(s.buf[j]) # id
  BY <1>3 DEF Good, Named
<1> HIDE DEF id
<1>6. W[id] = v /\ \A x \in Ids : x # id => W[x] = V[x]
  BY DEF Rewritten, id
<1>7. Lost(t, F) = Lost(s, F)
  BY <1>2 DEF HasFilled, Lost
<1>8. Shown(t, F, W, {})
  <2> SUFFICES ASSUME NEW j \in Buffers, t.buf[j].dev # NO_DEV, t.buf[j].dev \notin Lost(s, F)
               PROVE  t.buf[j].data = W[Id(t.buf[j])]
    BY <1>7 DEF Shown
  <2>1. CASE j = i
    BY <1>2, <1>4, <1>6, <2>1 DEF HasFilled
  <2>2. CASE j # i
    <3>1. t.buf[j] = s.buf[j] /\ Id(s.buf[j]) # id
      BY <1>2, <1>5, <2>2 DEF HasFilled
    <3>2. s.buf[j].data = V[Id(s.buf[j])]
      BY <2>2, <3>1 DEF Holds, Shown
    <3>3. Id(s.buf[j]) \in Ids
      BY <3>1 DEF Good, Named
    <3> QED
      BY <1>6, <3>1, <3>2, <3>3
  <2> QED
    BY <2>1, <2>2
<1>9. Stored(t, F, W, {})
  <2> SUFFICES ASSUME NEW x \in Ids, x[1] \notin Lost(s, F), s.disk[x] # W[x]
               PROVE  \E j \in Buffers : Id(t.buf[j]) = x /\ t.buf[j].dirt = "DIRTY"
    BY <1>2, <1>7 DEF Stored, HasFilled
  <2>1. CASE x = id
    BY <1>2, <1>4, <2>1 DEF HasFilled
  <2>2. CASE x # id
    <3>1. PICK j \in Buffers : Id(s.buf[j]) = x /\ s.buf[j].dirt = "DIRTY"
      BY <1>6, <2>2 DEF Holds, Stored
    <3>2. j # i
      BY <2>2, <3>1 DEF id
    <3> QED
      BY <1>2, <3>1, <3>2 DEF HasFilled
  <2> QED
    BY <2>1, <2>2
<1>10. Offered(t, F, W, {})
  <2> SUFFICES ASSUME NEW x \in Ids, x[1] # Ram, s.vm[x] # Unknown
               PROVE  /\ \A j \in Buffers : Id(t.buf[j]) # x
                      /\ x[1] \notin Lost(s, F) => s.vm[x] = W[x]
    BY <1>2, <1>7 DEF Offered, HasFilled
  <2>1. /\ \A j \in Buffers : Id(s.buf[j]) # x
        /\ x[1] \notin Lost(s, F) => s.vm[x] = V[x]
    BY DEF Holds, Offered
  <2>2. x # id
    BY <2>1 DEF id
  <2> QED
    BY <1>4, <1>6, <2>1, <2>2
<1> QED
  BY <1>8, <1>9, <1>10 DEF Fits, t

\* A buffer without a name shows nothing, whatever is filled in.
LEMMA FillingNone ==
    ASSUME NEW F, NEW V, NEW s \in Cache, NEW i \in Buffers, Fits(s, F, V, {}, {}),
           s.buf[i].dev = NO_DEV, NEW v
    PROVE  Fits(Filling(s, i, v), F, V, {}, {})
<1> DEFINE t == Filling(s, i, v)
<1>1. HasFilled(s, t, i, v)
  BY FillingParts
<1> HIDE DEF t
<1>2. Id(t.buf[i]) = Id(s.buf[i]) /\ \A j \in Buffers \ {i} : Id(t.buf[j]) = Id(s.buf[j])
  BY <1>1 DEF HasFilled, Id
<1>3. Lost(t, F) = Lost(s, F)
  BY <1>1 DEF HasFilled, Lost
<1>4. Shown(t, F, V, {})
  <2> SUFFICES ASSUME NEW j \in Buffers, t.buf[j].dev # NO_DEV, t.buf[j].dev \notin Lost(s, F)
               PROVE  t.buf[j].data = V[Id(t.buf[j])]
    BY <1>3 DEF Shown
  <2>1. j # i
    BY <1>1 DEF HasFilled
  <2> QED
    BY <1>1, <2>1 DEF HasFilled, Fits, Shown
<1>5. Stored(t, F, V, {})
  <2> SUFFICES ASSUME NEW x \in Ids, x[1] \notin Lost(s, F), s.disk[x] # V[x]
               PROVE  \E j \in Buffers : Id(t.buf[j]) = x /\ t.buf[j].dirt = "DIRTY"
    BY <1>1, <1>3 DEF Stored, HasFilled
  <2>1. PICK j \in Buffers : Id(s.buf[j]) = x /\ s.buf[j].dirt = "DIRTY"
    BY DEF Fits, Stored
  <2> QED
    BY <1>1, <1>2, <2>1 DEF HasFilled
<1>6. Offered(t, F, V, {})
  BY <1>1, <1>2, <1>3 DEF HasFilled, Fits, Offered
<1> QED
  BY <1>4, <1>5, <1>6 DEF Fits, t

-----------------------------------------------------------------------------
(* What the file system finds *)

\* View, of any cache.
ViewOf(s, id) ==
    LET named == {i \in Buffers : Id(s.buf[i]) = id}
    IN IF named # {} THEN s.buf[CHOOSE i \in named : TRUE].data
       ELSE IF id[1] # Ram /\ s.vm[id] # Unknown THEN s.vm[id] ELSE s.disk[id]

LEMMA ViewIs ==
    /\ \A id : View(id) = ViewOf(c, id)
    /\ \A id : View(id)' = ViewOf(c', id)
BY DEF View, ViewOf

\* When nothing is under way what is found is what the block holds.
LEMMA ViewFits ==
    ASSUME NEW s, Good(s, {}), NEW F, NEW V, Fits(s, F, V, {}, {}), s.lostdev = {},
           NEW id \in Ids
    PROVE  /\ id[1] \notin F => ViewOf(s, id) = V[id]
           /\ ViewOf(s, id) \in Values
<1> DEFINE named == {i \in Buffers : Id(s.buf[i]) = id}
           n == CHOOSE i \in named : TRUE
<1>1. s \in Cache /\ Lost(s, F) = F /\ id[1] # NO_DEV
  BY MfsCacheAssumption DEF Good, Lost, Ids, NO_DEV
<1>2. CASE named # {}
  <2>1. n \in named
    BY <1>2
  <2>2. ViewOf(s, id) = s.buf[n].data
    BY <1>2 DEF ViewOf
  <2> HIDE DEF n
  <2>3. n \in Buffers /\ Id(s.buf[n]) = id /\ s.buf[n].dev = id[1] /\ s.buf[n].dev # NO_DEV
    BY <1>1, <2>1 DEF Id
  <2>4. s.buf[n].data \in Values
    BY <2>3 DEF Good, Filled
  <2>5. id[1] \notin F => s.buf[n].data = V[id]
    BY <1>1, <2>3 DEF Fits, Shown
  <2> QED
    BY <2>2, <2>4, <2>5
<1>3. CASE named = {} /\ id[1] # Ram /\ s.vm[id] # Unknown
  <2>1. ViewOf(s, id) = s.vm[id]
    BY <1>3 DEF ViewOf
  <2>2. s.vm[id] \in Values
    BY <1>1, <1>3, Fields
  <2>3. id[1] \notin F => s.vm[id] = V[id]
    BY <1>1, <1>3 DEF Fits, Offered
  <2> QED
    BY <2>1, <2>2, <2>3
<1>4. CASE named = {} /\ ~(id[1] # Ram /\ s.vm[id] # Unknown)
  <2>1. ViewOf(s, id) = s.disk[id]
    BY <1>4 DEF ViewOf
  <2>2. s.disk[id] \in Values
    BY <1>1, Fields
  <2>3. id[1] \notin F => s.disk[id] = V[id]
    BY <1>1, <1>4 DEF Fits, Stored
  <2> QED
    BY <2>1, <2>2, <2>3
<1> QED
  BY <1>2, <1>3, <1>4

\* Of the blocks of lost devices nothing is said.
LEMMA FitsAgree ==
    ASSUME NEW s, Good(s, {}), NEW F, NEW V, Fits(s, F, V, {}, {}), s.lostdev = {},
           NEW W, \A id \in Ids : id[1] \notin F => W[id] = V[id]
    PROVE  Fits(s, F, W, {}, {})
<1>1. Lost(s, F) = F
  BY DEF Lost
<1>2. \A i \in Buffers : s.buf[i].dev # NO_DEV
        => Id(s.buf[i]) \in Ids /\ Id(s.buf[i])[1] = s.buf[i].dev
  BY DEF Good, Named, Id
<1>3. Shown(s, F, W, {})
  BY <1>1, <1>2 DEF Fits, Shown
<1>4. Stored(s, F, W, {})
  BY <1>1 DEF Fits, Stored
<1>5. Offered(s, F, W, {})
  BY <1>1 DEF Fits, Offered
<1> QED
  BY <1>3, <1>4, <1>5 DEF Fits

LEMMA SettledIs ==
    ASSUME IInv', NEW V, Fits(c', failed', V, {}, {}), c'.lostdev = {}, c'.rdwt_err = "OK"
    PROVE  /\ SInv'
           /\ \A id \in Ids : id[1] \notin failed' => View(id)' = V[id]
<1>1. Good(c', {})
  BY DEF IInv
<1>2. \A id \in Ids : id[1] \notin failed' => ViewOf(c', id) = V[id]
  BY <1>1, ViewFits
<1>3. \A id \in Ids : id[1] \notin failed' => View(id)' = V[id]
  BY <1>2, ViewIs
<1> DEFINE W == Views'
<1>4. \A id \in Ids : id[1] \notin failed' => W[id] = V[id]
  BY <1>3 DEF Views
<1> HIDE DEF W
<1>5. Fits(c', failed', W, {}, {})
  BY <1>1, <1>4, FitsAgree
<1> QED
  BY <1>3, <1>5 DEF SInv, W

\* At the end of a request what has failed in it is known.
LEMMA DoneFits ==
    ASSUME IInv', NEW t \in Cache, NEW V, Fits(t, failed, V, {}, {}), Done(t)
    PROVE  /\ SInv' /\ failed' = failed \cup t.lostdev
           /\ \A id \in Ids : id[1] \notin failed' => View(id)' = V[id]
<1> DEFINE u == [t EXCEPT !.lostdev = {}, !.rdwt_err = "OK"]
<1>1. c' = u /\ failed' = failed \cup t.lostdev
  BY DEF Done
<1>2. /\ u.lostdev = {} /\ u.rdwt_err = "OK"
      /\ u.buf = t.buf /\ u.disk = t.disk /\ u.vm = t.vm
  BY DEF Cache
<1> HIDE DEF u
<1>3. Lost(u, failed') = Lost(t, failed)
  BY <1>1, <1>2 DEF Lost
<1>4. Fits(u, failed', V, {}, {})
  BY <1>2, <1>3 DEF Fits, Shown, Stored, Offered
<1>5. Fits(c', failed', V, {}, {}) /\ c'.lostdev = {} /\ c'.rdwt_err = "OK"
  BY <1>1, <1>2, <1>4
<1> QED
  BY <1>1, <1>5, SettledIs

-----------------------------------------------------------------------------
(* The steps of the store *)

\* The store: what is found, but of the devices on which a write has failed.
Holding == [id \in Ids |-> IF id[1] \in failed THEN Unknown ELSE View(id)]

\* A step that only loses what a failed write may lose.
LEMMA KeptBreaks ==
    ASSUME IInv', failed \subseteq failed',
           \A id \in Ids : id[1] \notin failed' => View(id)' = View(id)
    PROVE  \E devs \in SUBSET Store!Devices : Holding' = Store!Breaks(devs)
<1> DEFINE devs == failed' \cap Store!Devices
<1>1. devs \in SUBSET Store!Devices
  OBVIOUS
<1>2. \A id \in Ids : id[1] \in devs <=> id[1] \in failed'
  BY DEF Store!Devices, Store!DeviceOf
<1> HIDE DEF devs
<1>3. Holding' = Store!Breaks(devs)
  BY <1>2 DEF Holding, Store!Breaks, Store!DeviceOf
<1> QED
  BY <1>1, <1>3

\* which is a step of the store without an answer,
LEMMA KeptQuiet ==
    ASSUME IInv', failed \subseteq failed',
           \A id \in Ids : id[1] \notin failed' => View(id)' = View(id),
           reply' \in {NoReply} \cup Store!Errors
    PROVE  Store!Quiet
<1>1. PICK devs \in SUBSET Store!Devices : Holding' = Store!Breaks(devs)
  BY KeptBreaks
<1>2. Store!NoReply = NoReply
  BY DEF Store!NoReply, NoReply
<1> QED
  BY <1>1, <1>2 DEF Store!Quiet, Holding

\* or the answer to a read: what the block holds, if its device is not lost,
LEMMA KeptRead ==
    ASSUME IInv', failed \subseteq failed',
           \A id \in Ids : id[1] \notin failed' => View(id)' = View(id),
           NEW id \in Ids, NEW v \in Values, id[1] \notin failed' => v = View(id),
           \/ reply' = [kind |-> "error", id |-> id]
           \/ reply' = [kind |-> "data", id |-> id, value |-> v]
    PROVE  Store!Read(id)
<1>1. PICK devs \in SUBSET Store!Devices : Holding' = Store!Breaks(devs)
  BY KeptBreaks
<1>2. CASE reply' = [kind |-> "error", id |-> id]
  BY <1>1, <1>2 DEF Store!Read, Holding
<1>3. CASE reply' = [kind |-> "data", id |-> id, value |-> v] /\ id[1] \notin failed'
  <2>1. Holding[id] = v
    BY <1>3 DEF Holding
  <2>2. reply' = [kind |-> "data", id |-> id, value |-> Holding[id]]
    BY <1>3, <2>1
  <2> QED
    BY <1>1, <2>2 DEF Store!Read, Holding
<1>4. CASE reply' = [kind |-> "data", id |-> id, value |-> v] /\ id[1] \in failed'
  <2>1. Holding'[id] = Unknown
    BY <1>4 DEF Holding
  <2>2. reply' \in Store!Answers /\ reply'.id = id
    BY <1>4 DEF Store!Answers
  <2> QED
    BY <1>1, <2>1, <2>2 DEF Store!Read, Holding
<1> QED
  BY <1>2, <1>3, <1>4

\* and a step that sets one block.
LEMMA SetWrites ==
    ASSUME SInv, failed \subseteq failed', NEW id \in Ids, NEW v \in Values,
           \A x \in Ids : x[1] \notin failed' => View(x)' = IF x = id THEN v ELSE View(x),
           reply' = [kind |-> "written"]
    PROVE  Store!Write(id, v)
<1> DEFINE devs == failed' \cap Store!Devices
           b == Store!Breaks(devs)
           w == IF b[id] = Unknown THEN Unknown ELSE v
<1>1. devs \in SUBSET Store!Devices
  OBVIOUS
<1>2. \A x \in Ids : x[1] \in devs <=> x[1] \in failed'
  BY DEF Store!Devices, Store!DeviceOf
<1> HIDE DEF devs
<1>3. b = [x \in Ids |-> IF x[1] \in devs THEN Unknown ELSE Holding[x]]
  BY DEF Store!Breaks, Store!DeviceOf, Holding
<1> HIDE DEF b
<1>4. View(id) \in Values
  BY ViewFits, ViewIs DEF SInv, IInv
<1>5. w = IF id[1] \in failed' THEN Unknown ELSE v
  <2>1. CASE id[1] \in failed'
    BY <1>2, <1>3, <2>1
  <2>2. CASE id[1] \notin failed'
    <3>1. b[id] = View(id)
      BY <1>2, <1>3, <2>2 DEF Holding
    <3> QED
      BY <1>4, <2>2, <3>1, MfsCacheAssumption
  <2> QED
    BY <2>1, <2>2
<1> HIDE DEF w
<1>6. Holding' = [b EXCEPT ![id] = w]
  <2>1. ASSUME NEW x \in Ids
        PROVE  Holding'[x] = IF x = id THEN w ELSE b[x]
    BY <1>2, <1>3, <1>5 DEF Holding
  <2>2. Holding' \in [Ids -> {Holding'[x] : x \in Ids}]
    BY DEF Holding
  <2>3. DOMAIN (Holding') = Ids /\ Holding' = [x \in Ids |-> Holding'[x]]
    BY DEF Holding
  <2> QED
    BY <1>3, <2>1, <2>3
<1>7. Holding' = [b EXCEPT ![id] = IF b[id] = Unknown THEN Unknown ELSE v]
  BY <1>6 DEF w
<1>8. Store!Written = reply'
  BY DEF Store!Written
<1>9. Holding' = [Store!Breaks(devs) EXCEPT ![id] = IF @ = Unknown THEN Unknown ELSE v]
  BY <1>7 DEF b
<1> QED
  BY <1>1, <1>8, <1>9 DEF Store!Write, Holding

-----------------------------------------------------------------------------
(* The steps of the cache *)

\* A request that ends with the release of a buffer.
LEMMA PutDone ==
    ASSUME IInv', NEW u \in Cache, NEW i \in Buffers, NEW V, Fits(u, failed, V, {}, {}),
           Done(put_block(u, i))
    PROVE  /\ SInv' /\ failed' = failed \cup u.lostdev
           /\ \A id \in Ids : id[1] \notin failed' => View(id)' = V[id]
<1> DEFINE t == put_block(u, i)
<1>1. Untouched(u, t) /\ t \in Cache
  BY PutUntouched, PutCache
<1>2. Done(t)
  OBVIOUS
<1> HIDE DEF t
<1>3. Fits(t, failed, V, {}, {}) /\ t.lostdev = u.lostdev
  BY <1>1, UntouchedFits DEF Untouched
<1> QED
  BY <1>1, <1>2, <1>3, DoneFits

\* A block is read.
LEMMA ReadChunkStores ==
    ASSUME SInv, IInv', NEW id \in Ids, ReadChunk(id[1], id[2])
    PROVE  SInv' /\ Store!Read(id)
<1> DEFINE d == id[1]
           blk == id[2]
<1>1. <<d, blk>> = id /\ ReadChunk(d, blk)
  BY DEF Ids
<1> HIDE DEF d, blk
<1>2. blk \in Nat /\ d \in {Disk, Ram}
  BY <1>1, IdsAre
<1>3. PICK ahead \in 1..Cardinality(BlocksOf(d)) :
        /\ CanGet(c) /\ blk + ahead - 1 \in BlocksOf(d)
        /\ \E g \in {rahead(c, d, blk, ahead)} :
              /\ Done(put_block(g.s, g.i))
              /\ reply' = IF g.s.rdwt_err # "OK" THEN [kind |-> "error", id |-> <<d, blk>>]
                          ELSE [kind |-> "data", id |-> <<d, blk>>,
                                value |-> g.s.buf[g.i].data]
  BY <1>1 DEF ReadChunk
<1> DEFINE g == rahead(c, d, blk, ahead)
           v == g.s.buf[g.i].data
<1>4. /\ Done(put_block(g.s, g.i))
      /\ reply' = IF g.s.rdwt_err # "OK" THEN [kind |-> "error", id |-> id]
                  ELSE [kind |-> "data", id |-> id, value |-> v]
  BY <1>1, <1>3
<1>5. ahead \in Nat \ {0}
  BY <1>3, FS_CardinalityType, MfsCacheAssumption DEF BlocksOf
<1>6. \A k \in 0..(ahead - 1) : <<d, blk + k>> \in Ids
  BY <1>1, <1>3, <1>5, BlocksBelow
<1>7. c.lru # <<>>
  BY <1>3 DEF CanGet
<1>8. Good(c, {}) /\ Fits(c, failed, Views, {}, {}) /\ c.rdwt_err = "OK"
  BY DEF SInv, IInv
<1>9. Taken(c, g, {})
  BY <1>2, <1>5, <1>6, <1>7, <1>8, ReadAheadIs
<1>10. Arrived(c, g, <<d, blk>>, failed, Views)
  BY <1>2, <1>5, <1>6, <1>7, <1>8, RaheadFits
<1> HIDE DEF g
<1>11. g.i \in Buffers /\ g.s \in Cache /\ Filled(g.s.buf, {}) /\ Fits(g.s, failed, Views, {}, {})
  BY <1>9, <1>10 DEF Taken, Good, Arrived
<1>12. /\ SInv' /\ failed' = failed \cup g.s.lostdev
       /\ \A x \in Ids : x[1] \notin failed' => View(x)' = Views[x]
  BY <1>4, <1>11, PutDone
<1>13. \A x \in Ids : x[1] \notin failed' => View(x)' = View(x)
  BY <1>12 DEF Views
<1>14. CASE g.s.buf[g.i].dev = NO_DEV
  <2>1. g.s.rdwt_err = "EIO"
    BY <1>10, <1>14 DEF Arrived
  <2>2. reply' = [kind |-> "error", id |-> id]
    BY <1>4, <2>1
  <2>3. PICK w : w \in Values /\ w = View(id)
    BY ViewFits, ViewIs DEF SInv, IInv
  <2> QED
    BY <1>12, <1>13, <2>2, <2>3, KeptRead
<1>15. CASE g.s.buf[g.i].dev # NO_DEV
  <2>1. g.s.rdwt_err = "OK" /\ Id(g.s.buf[g.i]) = id /\ g.s.buf[g.i].dev = id[1]
    BY <1>1, <1>8, <1>10, <1>15 DEF Arrived, Id
  <2>2. reply' = [kind |-> "data", id |-> id, value |-> v]
    BY <1>4, <2>1
  <2>3. v \in Values
    BY <1>11, <1>15 DEF Filled
  <2>4. id[1] \notin failed' => v = View(id)
    <3>1. failed' = Lost(g.s, failed)
      BY <1>12 DEF Lost
    <3> QED
      BY <1>11, <1>15, <2>1, <3>1 DEF Fits, Shown, Views
  <2> HIDE DEF v
  <2> QED
    BY <1>12, <1>13, <2>2, <2>3, <2>4, KeptRead
<1> QED
  BY <1>14, <1>15

\* A block is written, or the buffer for it got no name.
LEMMA WriteChunkStores ==
    ASSUME SInv, IInv', NEW id \in Ids, NEW v \in Values, WriteChunk(id[1], id[2], v)
    PROVE  SInv' /\ (Store!Write(id, v) \/ Store!Quiet)
<1> DEFINE d == id[1]
           blk == id[2]
<1>1. <<d, blk>> = id /\ WriteChunk(d, blk, v)
  BY DEF Ids
<1> HIDE DEF d, blk
<1>2. PICK mode \in {"NORMAL", "NO_READ"} :
        /\ CanGet(c)
        /\ \E g \in {get_block(c, d, blk, mode)} :
              /\ Done(put_block([g.s EXCEPT !.buf[g.i].data = v,
                                            !.buf[g.i].dirt = "DIRTY"], g.i))
              /\ reply' = IF g.s.rdwt_err # "OK" THEN [kind |-> "error", id |-> <<d, blk>>]
                          ELSE [kind |-> "written"]
  BY <1>1 DEF WriteChunk
<1> DEFINE g == get_block(c, d, blk, mode)
           X == Unless(mode, g.i)
           i == g.i
           t == Filling(g.s, i, v)
<1>3. /\ Done(put_block(t, i))
      /\ reply' = IF g.s.rdwt_err # "OK" THEN [kind |-> "error", id |-> id]
                  ELSE [kind |-> "written"]
  BY <1>1, <1>2 DEF Filling
<1>4. c.lru # <<>> /\ <<d, blk>> \in Ids
  BY <1>1, <1>2 DEF CanGet
<1>5. Good(c, {}) /\ Fits(c, failed, Views, {}, {}) /\ c.rdwt_err = "OK"
  BY DEF SInv, IInv
<1>6. Got(c, g, d, blk, X)
  BY <1>4, <1>5, GetIs
<1>7. Gotten(c, g, <<d, blk>>, mode, failed, Views)
  BY <1>4, <1>5, GetFits
<1>8. X \subseteq {i} /\ mode # "PREFETCH"
  BY <1>2 DEF Unless
<1>9. Holds(g.s, failed, Views, X)
  BY <1>7 DEF Gotten
<1> HIDE DEF g, X
<1>10. /\ i \in Buffers /\ g.s \in Cache /\ Good(g.s, X) /\ Good(g.s, {i})
       /\ g.s.buf[i].dev = NO_DEV \/ Id(g.s.buf[i]) = id
  <2>1. i \in Buffers /\ Good(g.s, X) /\ (g.s.buf[i].dev = NO_DEV \/ Id(g.s.buf[i]) = id)
    BY <1>1, <1>6 DEF Got
  <2> QED
    BY <1>8, <2>1 DEF Good, Filled
<1>11. /\ g.s.buf[i].dev = NO_DEV => g.s.rdwt_err = "EIO"
       /\ g.s.buf[i].dev # NO_DEV => g.s.rdwt_err = "OK"
  BY <1>5, <1>7, <1>8 DEF Gotten
<1> HIDE DEF i
<1>12. HasFilled(g.s, t, i, v) /\ t \in Cache
  <2>1. HasFilled(g.s, t, i, v)
    BY <1>10, FillingParts
  <2>2. Good(t, {})
    BY <1>10, FillingIs
  <2> QED
    BY <2>1, <2>2 DEF Good
<1>13. CASE g.s.buf[i].dev = NO_DEV
  <2>1. reply' = [kind |-> "error", id |-> id]
    BY <1>3, <1>11, <1>13
  <2>2. Fits(g.s, failed, Views, {}, {})
    BY <1>8, <1>9, <1>13 DEF Holds, Fits, Shown
  <2>3. Fits(t, failed, Views, {}, {})
    BY <1>10, <1>13, <2>2, FillingNone
  <2> HIDE DEF t
  <2>4. /\ SInv' /\ failed' = failed \cup t.lostdev
        /\ \A x \in Ids : x[1] \notin failed' => View(x)' = Views[x]
    BY <1>3, <1>10, <1>12, <2>3, PutDone
  <2>5. \A x \in Ids : x[1] \notin failed' => View(x)' = View(x)
    BY <2>4 DEF Views
  <2>6. reply' \in {NoReply} \cup Store!Errors
    BY <2>1 DEF Store!Errors
  <2> QED
    BY <2>4, <2>5, <2>6, KeptQuiet
<1>14. CASE g.s.buf[i].dev # NO_DEV
  <2> DEFINE W == [x \in Ids |-> IF x = id THEN v ELSE View(x)]
  <2>1. reply' = [kind |-> "written"]
    BY <1>3, <1>11, <1>14
  <2>2. Holds(g.s, failed, Views, {i})
    BY <1>8, <1>9 DEF Holds, Shown
  <2>3. Id(g.s.buf[i]) = id /\ Rewritten(Views, W, id, v)
    BY <1>10, <1>14 DEF Rewritten, Views
  <2>4. \A x \in Ids : W[x] = IF x = id THEN v ELSE View(x)
    OBVIOUS
  <2> HIDE DEF W
  <2>5. Fits(t, failed, W, {}, {})
    BY <1>10, <2>2, <2>3, FillingFits
  <2> HIDE DEF t
  <2>6. /\ SInv' /\ failed' = failed \cup t.lostdev
        /\ \A x \in Ids : x[1] \notin failed' => View(x)' = W[x]
    BY <1>3, <1>10, <1>12, <2>5, PutDone
  <2>7. \A x \in Ids : x[1] \notin failed' => View(x)' = IF x = id THEN v ELSE View(x)
    BY <2>4, <2>6
  <2> QED
    BY <2>1, <2>6, <2>7, SetWrites
<1> QED
  BY <1>13, <1>14

\* A hole is read: the buffer for it has no name.
LEMMA ReadHoleStores ==
    ASSUME SInv, IInv', ReadHole
    PROVE  SInv' /\ Store!Quiet
<1> DEFINE g == get_block(c, NO_DEV, NO_BLOCK, "NORMAL")
           i == Head(c.lru)
           n == Renamed(c, i, NO_DEV, NO_BLOCK, "NORMAL")
           t == Filling(n, i, Unknown)
<1>1. /\ c.lru # <<>> /\ reply' = NoReply
      /\ Done(put_block([g.s EXCEPT !.buf[g.i].data = Unknown,
                                    !.buf[g.i].dirt = "DIRTY"], g.i))
  BY DEF ReadHole, CanGet
<1>2. g.s = n /\ g.i = i
  BY DEF get_block
<1>3. Done(put_block(t, i))
  BY <1>1, <1>2 DEF Filling
<1>4. Good(c, {}) /\ Fits(c, failed, Views, {}, {})
  BY DEF SInv, IInv
<1>5. Fits(g.s, failed, Views, {}, {})
  BY <1>1, <1>4, GetNoneFits
<1>6. NewName(c, NO_DEV, NO_BLOCK)
  BY DEF NewName
<1>7. NamedAnew(c, i, n, NO_DEV, NO_BLOCK)
  BY <1>1, <1>4, <1>6, RenamedIs
<1>8. Fits(n, failed, Views, {}, {})
  BY <1>2, <1>5
<1> HIDE DEF g, i, n
<1>9. i \in Buffers /\ Good(n, {i}) /\ n \in Cache /\ n.buf[i].dev = NO_DEV
  BY <1>7 DEF NamedAnew, Good
<1>10. Fits(t, failed, Views, {}, {})
  BY <1>8, <1>9, FillingNone
<1>11. t \in Cache
  <2>1. Good(t, {})
    BY <1>9, FillingIs
  <2> QED
    BY <2>1 DEF Good
<1> HIDE DEF t
<1>12. /\ SInv' /\ failed' = failed \cup t.lostdev
       /\ \A x \in Ids : x[1] \notin failed' => View(x)' = Views[x]
  BY <1>3, <1>9, <1>10, <1>11, PutDone
<1>13. \A x \in Ids : x[1] \notin failed' => View(x)' = View(x)
  BY <1>12 DEF Views
<1> QED
  BY <1>1, <1>12, <1>13, KeptQuiet

\* A block is taken and kept,
LEMMA TakeStores ==
    ASSUME SInv, IInv', NEW blk \in DiskBlocks, Take(blk)
    PROVE  SInv' /\ Store!Quiet
<1> DEFINE g == get_block(c, Disk, blk, "NORMAL")
           t == g.s
<1>1. c.lru # <<>> /\ Done(t) /\ reply' = NoReply
  BY DEF Take, CanGet
<1>2. <<Disk, blk>> \in Ids /\ Good(c, {}) /\ Fits(c, failed, Views, {}, {})
  BY DEF Ids, SInv, IInv
<1>3. Got(c, g, Disk, blk, Unless("NORMAL", g.i))
  BY <1>1, <1>2, GetIs
<1>4. Gotten(c, g, <<Disk, blk>>, "NORMAL", failed, Views)
  BY <1>1, <1>2, GetFits
<1>5. Unless("NORMAL", g.i) = {}
  BY DEF Unless
<1> HIDE DEF g
<1>6. t \in Cache /\ Fits(t, failed, Views, {}, {})
  BY <1>3, <1>4, <1>5 DEF Got, Good, Gotten, Holds, Fits
<1> HIDE DEF t
<1>7. /\ SInv' /\ failed' = failed \cup t.lostdev
      /\ \A x \in Ids : x[1] \notin failed' => View(x)' = Views[x]
  BY <1>1, <1>6, DoneFits
<1>8. \A x \in Ids : x[1] \notin failed' => View(x)' = View(x)
  BY <1>7 DEF Views
<1> QED
  BY <1>1, <1>7, <1>8, KeptQuiet

\* let go,
LEMMA ReleaseStores ==
    ASSUME SInv, IInv', Release
    PROVE  SInv' /\ Store!Quiet
<1>1. held # <<>> /\ Done(put_block(c, held[1])) /\ reply' = NoReply
  BY DEF Release
<1>2. held[1] \in Buffers /\ c \in Cache /\ Fits(c, failed, Views, {}, {})
  BY <1>1, HeldIs DEF SInv, Good
<1>3. /\ SInv' /\ failed' = failed \cup c.lostdev
      /\ \A x \in Ids : x[1] \notin failed' => View(x)' = Views[x]
  BY <1>1, <1>2, PutDone
<1>4. \A x \in Ids : x[1] \notin failed' => View(x)' = View(x)
  BY <1>3 DEF Views
<1> QED
  BY <1>1, <1>3, <1>4, KeptQuiet

\* or changed and let go: a write of its block, if it has one.
LEMMA ReleaseChangedStores ==
    ASSUME SInv, IInv', NEW v \in Values, ReleaseChanged(v)
    PROVE  SInv' /\ (Store!Quiet \/ \E id \in Ids : Store!Write(id, v))
<1> DEFINE i == held[1]
           t == Filling(c, i, v)
<1>1. /\ held # <<>> /\ Done(put_block(t, i))
      /\ reply' = IF c.buf[i].dev = NO_DEV THEN NoReply ELSE [kind |-> "written"]
  BY DEF ReleaseChanged, Filling
<1>2. i \in Buffers /\ Good(c, {}) /\ Fits(c, failed, Views, {}, {})
  BY <1>1, HeldIs DEF SInv
<1> HIDE DEF i
<1>3. Good(c, {i}) /\ c \in Cache
  BY <1>2, GoodMore DEF Good
<1>4. t \in Cache
  <2>1. Good(t, {})
    BY <1>2, <1>3, FillingIs
  <2> QED
    BY <2>1 DEF Good
<1>5. CASE c.buf[i].dev = NO_DEV
  <2>1. Fits(t, failed, Views, {}, {})
    BY <1>2, <1>3, <1>5, FillingNone
  <2> HIDE DEF t
  <2>2. /\ SInv' /\ failed' = failed \cup t.lostdev
        /\ \A x \in Ids : x[1] \notin failed' => View(x)' = Views[x]
    BY <1>1, <1>2, <1>4, <2>1, PutDone
  <2>3. \A x \in Ids : x[1] \notin failed' => View(x)' = View(x)
    BY <2>2 DEF Views
  <2>4. reply' \in {NoReply} \cup Store!Errors
    BY <1>1, <1>5
  <2> QED
    BY <2>2, <2>3, <2>4, KeptQuiet
<1>6. CASE c.buf[i].dev # NO_DEV
  <2> DEFINE id == Id(c.buf[i])
             W == [x \in Ids |-> IF x = id THEN v ELSE View(x)]
  <2>1. id \in Ids
    BY <1>2, <1>6 DEF Good, Named
  <2>2. Holds(c, failed, Views, {i})
    BY <1>2, FitsHolds
  <2>3. Rewritten(Views, W, id, v)
    <3> HIDE DEF id
    <3> QED
      BY <2>1 DEF Rewritten, Views
  <2>4. \A x \in Ids : W[x] = IF x = id THEN v ELSE View(x)
    OBVIOUS
  <2> HIDE DEF W
  <2>5. Fits(t, failed, W, {}, {})
    BY <1>2, <1>3, <2>1, <2>2, <2>3, FillingFits
  <2> HIDE DEF t, id
  <2>6. /\ SInv' /\ failed' = failed \cup t.lostdev
        /\ \A x \in Ids : x[1] \notin failed' => View(x)' = W[x]
    BY <1>1, <1>2, <1>4, <2>5, PutDone
  <2>7. \A x \in Ids : x[1] \notin failed' => View(x)' = IF x = id THEN v ELSE View(x)
    BY <2>4, <2>6
  <2>8. reply' = [kind |-> "written"]
    BY <1>1, <1>6
  <2> QED
    BY <2>1, <2>6, <2>7, <2>8, SetWrites
<1> QED
  BY <1>5, <1>6

\* sync, which leaves what is found on the disk,
LEMMA SyncStores ==
    ASSUME SInv, IInv', Sync
    PROVE  /\ SInv' /\ Store!Quiet
           /\ \A id \in Ids : id[1] \notin failed' => c'.disk[id] = View(id)
<1> DEFINE t == fs_sync(c)
<1>1. Done(t) /\ reply' = NoReply
  BY DEF Sync
<1>2. Good(c, {}) /\ Fits(c, failed, Views, {}, {})
  BY DEF SInv, IInv
<1>3. Synced(c, t, NrBufs, failed, Views)
  BY <1>2, SyncFits
<1> HIDE DEF t
<1>4. t \in Cache /\ Fits(t, failed, Views, {}, {})
  BY <1>3 DEF Synced, Loses, Alike
<1>5. /\ SInv' /\ failed' = failed \cup t.lostdev
      /\ \A x \in Ids : x[1] \notin failed' => View(x)' = Views[x]
  BY <1>1, <1>4, DoneFits
<1>6. \A x \in Ids : x[1] \notin failed' => View(x)' = View(x)
  BY <1>5 DEF Views
<1>7. ASSUME NEW id \in Ids, id[1] \notin failed'
      PROVE  c'.disk[id] = View(id)
  <2>1. c'.disk = t.disk
    BY <1>1, <1>4 DEF Done, Cache
  <2>2. id[1] \notin Lost(t, failed) /\ id[1] \notin t.lostdev
    BY <1>5, <1>7 DEF Lost
  <2>3. ASSUME NEW i \in Buffers, Id(t.buf[i]) = id, t.buf[i].dirt = "DIRTY"
        PROVE  FALSE
    <3>1. t.buf[i].dev = id[1] /\ id[1] # NO_DEV
      BY <2>3, MfsCacheAssumption DEF Id, Ids, NO_DEV
    <3> QED
      BY <1>3, <2>2, <2>3, <3>1 DEF Synced, Buffers
  <2>4. t.disk[id] = Views[id]
    BY <1>4, <2>2, <2>3 DEF Fits, Stored
  <2> QED
    BY <2>1, <2>4 DEF Views
<1> QED
  BY <1>1, <1>5, <1>6, <1>7, KeptQuiet

\* and flush.
LEMMA FsFlushStores ==
    ASSUME SInv, IInv', fs_flush
    PROVE  SInv' /\ Store!Quiet
<1> DEFINE t == flushall(c, Ram)
           u == invalidate(t, Ram)
<1>1. Done(u) /\ reply' = NoReply
  BY DEF fs_flush
<1>2. /\ c \in Cache /\ Filled(c.buf, {}) /\ Fits(c, failed, Views, {}, {})
      /\ Ram \in {Disk, Ram}
  BY DEF SInv, IInv, Good
<1>3. Flushed(c, t, Ram, failed, Views)
  BY <1>2, FlushIs
<1> HIDE DEF t
<1>4. t \in Cache
  BY <1>3 DEF Flushed, Loses, Alike
<1>5. Fits(u, failed, Views, {}, {})
  BY <1>3, InvalidateFits
<1>6. u \in Cache
  <2>1. Loses(t, u)
    BY <1>2, <1>4, InvalidateLoses
  <2> QED
    BY <2>1 DEF Loses, Alike
<1> HIDE DEF u
<1>7. /\ SInv' /\ failed' = failed \cup u.lostdev
      /\ \A x \in Ids : x[1] \notin failed' => View(x)' = Views[x]
  BY <1>1, <1>5, <1>6, DoneFits
<1>8. \A x \in Ids : x[1] \notin failed' => View(x)' = View(x)
  BY <1>7 DEF Views
<1> QED
  BY <1>1, <1>7, <1>8, KeptQuiet

\* What moves no block and answers nothing is no step of the store.
LEMMA SameStores ==
    ASSUME SInv, IInv', UNCHANGED <<failed, reply>>,
           c'.buf = c.buf /\ c'.disk = c.disk,
           c'.lostdev = c.lostdev /\ c'.rdwt_err = c.rdwt_err,
           \A x \in Ids : c'.vm[x] = c.vm[x] \/ c'.vm[x] = Unknown
    PROVE  SInv' /\ UNCHANGED Store!vars
<1>1. Fits(c', failed', Views, {}, {})
  BY DEF SInv, Fits, Shown, Stored, Offered, Lost
<1>2. c'.lostdev = {} /\ c'.rdwt_err = "OK"
  BY DEF SInv
<1>3. SInv' /\ \A x \in Ids : x[1] \notin failed' => View(x)' = Views[x]
  BY <1>1, <1>2, SettledIs
<1>4. Holding' = Holding
  BY <1>3 DEF Holding, Views
<1> QED
  BY <1>3, <1>4 DEF Store!vars, Holding

\* Drivers come and go, sectors go bad, VM drops blocks.
LEMMA EnvironmentStores ==
    ASSUME SInv, IInv',
           \/ \E d \in {Disk, Ram} : fs_new_driver(d) \/ DriverDies(d)
           \/ \E id \in Ids : SectorFails(id) \/ VMForgets(id)
    PROVE  SInv' /\ UNCHANGED Store!vars
<1>1. c \in Cache /\ c.vm \in [Ids -> Values \cup {Unknown}]
  <2>1. c \in Cache
    BY DEF SInv, IInv, Good
  <2> QED
    BY <2>1, Fields
<1>2. ASSUME NEW r, NEW b, NEW v, c' = [c EXCEPT !.drv = r, !.bad = b, !.vm = v],
             \A x \in Ids : v[x] = c.vm[x] \/ v[x] = Unknown, UNCHANGED <<failed, reply>>
      PROVE  SInv' /\ UNCHANGED Store!vars
  <2>1. /\ c'.buf = c.buf /\ c'.disk = c.disk /\ c'.vm = v
        /\ c'.lostdev = c.lostdev /\ c'.rdwt_err = c.rdwt_err
    BY <1>1, <1>2 DEF Cache
  <2> QED
    BY <1>2, <2>1, SameStores
<1>3. ASSUME NEW d \in {Disk, Ram}, fs_new_driver(d) \/ DriverDies(d)
      PROVE  SInv' /\ UNCHANGED Store!vars
  <2>1. PICK x \in {"up", "dead"} : c' = [c EXCEPT !.drv[d] = x]
    BY <1>3 DEF fs_new_driver, DriverDies
  <2> DEFINE r == [c.drv EXCEPT ![d] = x]
  <2>2. c' = [c EXCEPT !.drv = r, !.bad = c.bad, !.vm = c.vm]
    BY <1>1, <2>1 DEF Cache
  <2>3. UNCHANGED <<failed, reply>>
    BY <1>3 DEF fs_new_driver, DriverDies
  <2> HIDE DEF r
  <2> QED
    BY <1>2, <2>2, <2>3
<1>4. ASSUME NEW id \in Ids, SectorFails(id)
      PROVE  SInv' /\ UNCHANGED Store!vars
  <2>1. c' = [c EXCEPT !.drv = c.drv, !.bad = {id}, !.vm = c.vm]
    BY <1>1, <1>4 DEF SectorFails, Cache
  <2>2. UNCHANGED <<failed, reply>>
    BY <1>4 DEF SectorFails
  <2> QED
    BY <1>2, <2>1, <2>2
<1>5. ASSUME NEW id \in Ids, VMForgets(id)
      PROVE  SInv' /\ UNCHANGED Store!vars
  <2> DEFINE v == [c.vm EXCEPT ![id] = Unknown]
  <2>1. \A x \in Ids : v[x] = c.vm[x] \/ v[x] = Unknown
    BY <1>1
  <2>2. c' = [c EXCEPT !.drv = c.drv, !.bad = c.bad, !.vm = v]
    BY <1>1, <1>5 DEF VMForgets, Cache
  <2>3. UNCHANGED <<failed, reply>>
    BY <1>5 DEF VMForgets
  <2> HIDE DEF v
  <2> QED
    BY <1>2, <2>1, <2>2, <2>3
<1> QED
  BY <1>3, <1>4, <1>5

\* At first the disk has all.
LEMMA InitStores ==
    ASSUME Init
    PROVE  SInv /\ Store!Init
<1>1. IInv
  BY InitIs
<1>2. /\ \A i \in Buffers : c.buf[i].dev = NO_DEV
      /\ \A id \in Ids : c.vm[id] = Unknown
      /\ c.lostdev = {} /\ c.rdwt_err = "OK" /\ failed = {} /\ reply = NoReply
  BY DEF Init
<1>3. \A id \in Ids : id[1] # NO_DEV
  BY MfsCacheAssumption DEF Ids, NO_DEV
<1>4. \A id \in Ids : View(id) = c.disk[id]
  BY <1>2, <1>3 DEF View, Id
<1>5. Fits(c, failed, Views, {}, {})
  BY <1>2, <1>4 DEF Fits, Shown, Stored, Offered, Views
<1>6. SInv
  BY <1>1, <1>2, <1>5 DEF SInv
<1>7. \A id \in Ids : View(id) \in Values
  BY <1>6, ViewFits, ViewIs DEF SInv, IInv
<1>8. Holding \in [Ids -> Values]
  BY <1>2, <1>7 DEF Holding
<1> QED
  BY <1>2, <1>6, <1>8 DEF Store!Init, Store!NoReply, NoReply, Holding

\* Every step of the cache is one of the store, or none.
LEMMA StepStores ==
    ASSUME SInv, [Next]_vars
    PROVE  SInv' /\ [Store!Next]_Store!vars
<1>1. IInv /\ IInv'
  BY NextKeeps DEF SInv
<1>2. CASE UNCHANGED vars
  BY <1>1, <1>2, SameStores DEF vars
<1>3. ASSUME NEW id \in Ids,
             \/ ReadChunk(id[1], id[2])
             \/ \E v \in Values : WriteChunk(id[1], id[2], v)
      PROVE  SInv' /\ Store!Next
  BY <1>1, <1>3, ReadChunkStores, WriteChunkStores DEF Store!Next
<1>4. ASSUME NEW v \in Values, ReleaseChanged(v)
      PROVE  SInv' /\ Store!Next
  BY <1>1, <1>4, ReleaseChangedStores DEF Store!Next
<1>5. ASSUME \/ ReadHole \/ Release \/ Sync \/ fs_flush
             \/ \E blk \in DiskBlocks : Take(blk)
      PROVE  SInv' /\ Store!Next
  BY <1>1, <1>5, ReadHoleStores, ReleaseStores, SyncStores, FsFlushStores, TakeStores
     DEF Store!Next
<1>6. ASSUME \/ \E d \in {Disk, Ram} : fs_new_driver(d) \/ DriverDies(d)
             \/ \E id \in Ids : SectorFails(id) \/ VMForgets(id)
      PROVE  SInv' /\ UNCHANGED Store!vars
  BY <1>1, <1>6, EnvironmentStores
<1> QED
  BY <1>2, <1>3, <1>4, <1>5, <1>6 DEF Next

\* After a sync the disk has what a buffer had, or what it had itself.
LEMMA SyncWrites ==
    ASSUME SInv, [Next]_vars, Sync
    PROVE  \A id \in Ids : id[1] \notin failed' => c'.disk[id] =
            (IF \E i \in Buffers : Id(c.buf[i]) = id
             THEN (CHOOSE b \in {c.buf[i] : i \in Buffers} : Id(b) = id).data
             ELSE c.disk[id])
<1> SUFFICES ASSUME NEW id \in Ids, id[1] \notin failed'
             PROVE  c'.disk[id] =
                (IF \E i \in Buffers : Id(c.buf[i]) = id
                 THEN (CHOOSE b \in {c.buf[i] : i \in Buffers} : Id(b) = id).data
                 ELSE c.disk[id])
  OBVIOUS
<1>1. IInv /\ IInv' /\ Good(c, {}) /\ Fits(c, failed, Views, {}, {}) /\ c.lostdev = {}
  BY NextKeeps DEF SInv, IInv
<1>2. c'.disk[id] = Views[id]
  BY <1>1, SyncStores DEF Views
<1>3. id[1] \notin Lost(c, failed) /\ id[1] # NO_DEV
  BY <1>1, MfsCacheAssumption DEF Sync, Done, Lost, Ids, NO_DEV
<1>4. CASE \E i \in Buffers : Id(c.buf[i]) = id
  <2> DEFINE b == CHOOSE b \in {c.buf[i] : i \in Buffers} : Id(b) = id
  <2>1. b \in {c.buf[i] : i \in Buffers} /\ Id(b) = id
    BY <1>4
  <2> HIDE DEF b
  <2>2. PICK i \in Buffers : b = c.buf[i] /\ Id(c.buf[i]) = id
    BY <2>1
  <2>3. c.buf[i].dev = id[1]
    BY <2>2 DEF Id
  <2>4. c.buf[i].data = Views[id]
    BY <1>1, <1>3, <2>2, <2>3 DEF Fits, Shown
  <2>5. c'.disk[id] = b.data
    BY <1>2, <2>2, <2>4
  <2> QED
    BY <1>4, <2>5 DEF b
<1>5. CASE ~ \E i \in Buffers : Id(c.buf[i]) = id
  BY <1>1, <1>2, <1>3, <1>5 DEF Fits, Stored
<1> QED
  BY <1>4, <1>5

-----------------------------------------------------------------------------
(* Theorems *)

\* Between two requests a buffer with a name shows what its block holds, the
\* disk has the rest of it, VM has a block only while no buffer does and then
\* as the disk has it, for every device on which no write has failed: no order
\* of evictions, prefetches, partial transfers, driver deaths and flushes
\* leaves an older content where a newer one is looked for (cache.c, read.c,
\* misc.c, device.c).
THEOREM StoreSound == Spec => []SInv
<1>1. Init => SInv
  BY InitStores
<1>2. SInv /\ [Next]_vars => SInv'
  BY StepStores
<1> QED
  BY <1>1, <1>2, PTL DEF Spec

\* The cache, its driver and VM's cache implement a plain store of blocks: only
\* a write changes a block, and a read answers what was written last or an
\* error, until a write to the device has failed (cache.c, read.c:205-288,
\* 490-560).
THEOREM CacheImplementsStore == Spec => ImplementsStore
<1>1. Init => Store!Init
  BY InitStores
<1>2. SInv /\ [Next]_vars => [Store!Next]_Store!vars
  BY StepStores
<1> QED
  BY <1>1, <1>2, StoreSound, PTL DEF Spec, ImplementsStore, Store!Spec

\* sync leaves no block of a device behind, however few blocks the driver takes
\* at a time, if no write to it fails (misc.c:10-34, cache.c:401-523).
THEOREM CacheSyncWritesAll == Spec => SyncWritesAll
<1> DEFINE A == Sync => \A id \in Ids : id[1] \notin failed' => c'.disk[id] =
            (IF \E i \in Buffers : Id(c.buf[i]) = id
             THEN (CHOOSE b \in {c.buf[i] : i \in Buffers} : Id(b) = id).data
             ELSE c.disk[id])
<1>1. SInv /\ [Next]_vars => [A]_vars
  BY SyncWrites
<1> QED
  BY <1>1, StoreSound, PTL DEF Spec, SyncWritesAll
=============================================================================
