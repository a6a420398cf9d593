------------------------------ MODULE LWP_proofs ------------------------------
(***************************************************************************)
(* Proofs about the round-robin scheduler, for every set of threads, and   *)
(* about the thread library that calls it, for any number of creations.    *)
(*                                                                         *)
(* Those of the library are about clients that may be careless in one way  *)
(* only: they may install the scheduler that is installed already, which   *)
(* never ends but breaks nothing.  It does not survive the other two.      *)
(***************************************************************************)
EXTENDS LWP, SequenceTheorems, WellFoundedInduction, TLAPS

-----------------------------------------------------------------------------
(* The scheduler. *)

(***************************************************************************)
(* The length of a pool that is not empty.                                 *)
(***************************************************************************)
LEMMA NonzeroNat ==
    ASSUME NEW n \in Nat, n # 0
    PROVE  /\ n = 1 \/ n > 1
           /\ n > 1 => n # 1
           /\ 1 \in 1..n /\ n \in 1..n
OBVIOUS

(***************************************************************************)
(* Sequences: what is left when one element is removed, place by place.    *)
(***************************************************************************)
LEMMA RemoveAtPlaces ==
    ASSUME NEW S, NEW s \in Seq(S), NEW i \in 1..Len(s)
    PROVE  /\ RemoveAt(s, i) \in Seq(S)
           /\ Len(RemoveAt(s, i)) = Len(s) - 1
           /\ \A k \in 1..Len(s) - 1 :
                 RemoveAt(s, i)[k] = IF k < i THEN s[k] ELSE s[k + 1]
<1> DEFINE a == SubSeq(s, 1, i - 1)
           b == SubSeq(s, i + 1, Len(s))
<1>1. Len(s) \in Nat /\ i \in Nat
  BY LenProperties
<1>2. a \in Seq(S) /\ Len(a) = i - 1 /\ \A k \in 1..i - 1 : a[k] = s[k]
  BY <1>1, SubSeqProperties
<1>3. b \in Seq(S) /\ Len(b) = Len(s) - i /\ \A k \in 1..Len(s) - i : b[k] = s[i + k]
  BY <1>1, SubSeqProperties
<1>4. RemoveAt(s, i) = a \o b
  BY DEF RemoveAt
<1> HIDE DEF a, b
<1>5. /\ a \o b \in Seq(S)
      /\ Len(a \o b) = Len(a) + Len(b)
      /\ \A k \in 1..Len(a) + Len(b) :
            (a \o b)[k] = IF k <= Len(a) THEN a[k] ELSE b[k - Len(a)]
  BY <1>2, <1>3, ConcatProperties
<1>6. ASSUME NEW k \in 1..Len(s) - 1
      PROVE  RemoveAt(s, i)[k] = IF k < i THEN s[k] ELSE s[k + 1]
  <2>1. CASE k < i
    BY <1>1, <1>2, <1>3, <1>4, <1>5, <2>1
  <2>2. CASE ~(k < i)
    <3>1. k - (i - 1) \in 1..Len(s) - i /\ ~(k <= i - 1) /\ i + (k - (i - 1)) = k + 1
      BY <1>1, <2>2
    <3>2. k \in 1..Len(a) + Len(b)
      BY <1>1, <1>2, <1>3
    <3>3. (a \o b)[k] = b[k - (i - 1)]
      BY <1>2, <1>5, <3>1, <3>2
    <3> QED
      BY <1>3, <1>4, <2>2, <3>1, <3>3
  <2> QED
    BY <2>1, <2>2
<1> QED
  BY <1>1, <1>2, <1>3, <1>4, <1>5, <1>6

(***************************************************************************)
(* isInPool is right on a ring: the walk from st_head meets exactly the    *)
(* members.                                                                *)
(***************************************************************************)
LEMMA WalkFindsMembers ==
    ASSUME NEW d \in RRState, NEW s \in Seq(Thread), IsRing(d, s), s # <<>>,
           NEW t \in Thread
    PROVE  isInPool(d, t) <=> t \in Members(s)
<1>1. Len(s) \in Nat \ {0} /\ \A i \in 1..Len(s) : s[i] \in Thread
  BY LenProperties, EmptySeq, ElementOfSeq
<1>2. ASSUME t \notin Members(s) PROVE ~isInPool(d, t)
  <2>1. Members(s) \in SUBSET Thread
    BY <1>1 DEF Members
  <2>2. d.head \in Members(s)
    BY <1>1 DEF Members, IsRing, EndsAre
  <2>3. ASSUME NEW u \in Members(s) PROVE d.next[u] \in Members(s)
    <3>1. PICK i \in 1..Len(s) : u = s[i]
      BY DEF Members
    <3>2. CASE i = Len(s)
      BY <1>1, <3>1, <3>2 DEF IsRing, LinksAre, Members
    <3>3. CASE i # Len(s)
      <4>1. i \in 1..Len(s) - 1 /\ i + 1 \in 1..Len(s)
        BY <1>1, <3>3
      <4> QED
        BY <3>1, <4>1 DEF IsRing, LinksAre, Members
    <3> QED
      BY <3>2, <3>3
  <2> QED
    BY <1>2, <2>1, <2>2, <2>3 DEF isInPool
<1>3. ASSUME t \in Members(s), NEW S \in SUBSET Thread,
             d.head \in S, \A u \in S : d.next[u] \in S,
             t \notin S
      PROVE  FALSE
  <2> DEFINE Missed == {i \in Nat : i \in 1..Len(s) /\ s[i] \notin S}
  <2>1. Missed # {}
    BY <1>1, <1>3 DEF Members
  <2>2. PICK m \in Missed : \A k \in Missed : ~(<<k, m>> \in OpToRel(<, Nat))
    BY <2>1, NatLessThanWellFounded, WFMin, Missed \subseteq Nat
  <2>3. \A k \in Missed : ~(k < m)
    BY <2>2 DEF OpToRel
  <2>4. m # 1
    BY <1>1, <1>3 DEF IsRing, EndsAre
  <2>5. m - 1 \in 1..Len(s) - 1 /\ m - 1 \in 1..Len(s) /\ m - 1 \in Nat
    BY <1>1, <2>4
  <2>6. s[m - 1] \in S
    BY <2>3, <2>5
  <2>7. d.next[s[m - 1]] = s[(m - 1) + 1]
    BY <2>5 DEF IsRing, LinksAre
  <2> QED
    BY <1>3, <2>5, <2>6, <2>7
<1> QED
  BY <1>2, <1>3 DEF isInPool

-----------------------------------------------------------------------------
(***************************************************************************)
(* Each function of scheduler.c keeps the list a ring.                     *)
(***************************************************************************)
LEMMA AdmitType ==
    ASSUME NEW d \in RRState, NEW new \in Thread,
           d.head # NULL => d.head \in Thread /\ d.tail \in Thread
    PROVE  rr_admit(d, new) \in RRState
BY NullAssumption DEF RRState, Link, rr_admit

LEMMA AdmitKeepsRing ==
    ASSUME NEW d \in RRState, NEW s \in Seq(Thread), IsRing(d, s),
           NEW new \in Thread, new \notin Members(s)
    PROVE  /\ rr_admit(d, new) \in RRState
           /\ IsRing(rr_admit(d, new), Append(s, new))
           /\ rr_admit(d, new).current = d.current
           /\ Members(Append(s, new)) = Members(s) \cup {new}
<1> DEFINE e == rr_admit(d, new)
           r == Append(s, new)
           n == Len(s)
<1>1. n \in Nat /\ (\A i \in 1..n : s[i] \in Thread) /\ (s = <<>> <=> n = 0)
  BY LenProperties, EmptySeq, ElementOfSeq
<1>2. /\ r \in Seq(Thread) /\ r # <<>> /\ Len(r) = n + 1 /\ r[n + 1] = new
      /\ \A i \in 1..n : r[i] = s[i]
  BY <1>1, AppendProperties, EmptySeq
<1>3. \A i \in 1..n : s[i] # new
  BY DEF Members
<1>4. d.head # NULL => d.head \in Thread /\ d.tail \in Thread
  BY <1>1 DEF IsRing, EndsAre
<1>5. e \in RRState /\ e.current = d.current
  <2>1. e \in RRState
    BY <1>4, AdmitType
  <2>2. e.current = d.current
    BY DEF rr_admit, RRState
  <2> QED
    BY <2>1, <2>2
<1>6. Members(r) = Members(s) \cup {new}
  BY <1>1, <1>2 DEF Members
<1>7. Distinct(r)
  BY <1>1, <1>2, <1>3 DEF IsRing, Distinct
<1>8. CASE s = <<>>
  <2>1. e.head = new /\ e.tail = new /\ e.next[new] = new
    BY <1>8 DEF rr_admit, RRState, IsRing, EndsAre
  <2> QED
    BY <1>1, <1>2, <1>5, <1>6, <1>7, <1>8, <2>1 DEF IsRing, EndsAre, LinksAre
<1>9. CASE s # <<>>
  <2>1. d.head = s[1] /\ d.tail = s[n] /\ d.head \in Thread /\ d.tail \in Thread /\ n >= 1
    BY <1>1, <1>9 DEF IsRing, EndsAre
  <2>2. /\ e.head = d.head /\ e.tail = new
        /\ e.next = [d.next EXCEPT ![d.tail] = new, ![new] = d.head]
        /\ e.prev = [d.prev EXCEPT ![new] = d.tail, ![d.head] = new]
    BY <2>1, NullAssumption DEF rr_admit, RRState
  <2>3. EndsAre(e, r)
    BY <1>1, <1>2, <2>1, <2>2 DEF EndsAre
  <2>4. ASSUME NEW i \in 1..n, i # n
        PROVE  e.next[r[i]] = r[i + 1] /\ e.prev[r[i + 1]] = r[i]
    <3>1. i \in 1..n - 1 /\ i + 1 \in 1..n /\ 1 \in 1..n /\ n \in 1..n /\ i + 1 # 1
      BY <1>1, <2>1, <2>4
    <3>2. s[i] # s[n] /\ s[i + 1] # s[1]
      BY <2>4, <3>1 DEF IsRing, Distinct
    <3>3. d.next[s[i]] = s[i + 1] /\ d.prev[s[i + 1]] = s[i]
      BY <3>1 DEF IsRing, LinksAre
    <3> QED
      BY <1>1, <1>2, <1>3, <2>1, <2>2, <3>1, <3>2, <3>3 DEF RRState
  <2>5. e.next[s[n]] = new /\ e.prev[new] = s[n] /\ e.next[new] = s[1]
    <3>1. s[n] # new /\ s[1] # new
      BY <1>1, <1>3, <2>1
    <3> QED
      BY <1>1, <2>1, <2>2, <3>1 DEF RRState
  <2>6. LinksAre(e, r)
    BY <1>1, <1>2, <2>1, <2>4, <2>5 DEF LinksAre
  <2> QED
    BY <1>5, <1>6, <1>7, <2>3, <2>6 DEF IsRing
<1> QED
  BY <1>8, <1>9

(***************************************************************************)
(* Removing the member at place i.  The conclusion also says where the     *)
(* cursor goes: to the successor of the victim, which is still a member.   *)
(***************************************************************************)
RemovedAs(d, s, i, e) ==
    /\ e \in RRState
    /\ IsRing(e, RemoveAt(s, i))
    /\ e.removed = TRUE
    /\ e.current = IF i = Len(s) THEN s[1] ELSE s[i + 1]

LEMMA RemoveHeadKeepsRing ==
    ASSUME NEW d \in RRState, NEW s \in Seq(Thread), IsRing(d, s), Len(s) > 1
    PROVE  RemovedAs(d, s, 1, RemoveHead(d))
<1> DEFINE e == RemoveHead(d)
           r == RemoveAt(s, 1)
           n == Len(s)
<1>1. n \in Nat /\ n > 1 /\ (\A i \in 1..n : s[i] \in Thread) /\ s # <<>>
  BY LenProperties, EmptySeq, ElementOfSeq
<1>2. r \in Seq(Thread) /\ Len(r) = n - 1 /\ (\A k \in 1..n - 1 : r[k] = s[k + 1]) /\ r # <<>>
  BY <1>1, RemoveAtPlaces, EmptySeq
<1>3. d.head = s[1] /\ d.tail = s[n] /\ d.next[s[1]] = s[2] /\ d.next[s[n]] = s[1]
  BY <1>1 DEF IsRing, EndsAre, LinksAre
<1>4. /\ e.head = s[2] /\ e.tail = s[n] /\ e.current = s[2] /\ e.removed = TRUE
      /\ e.next = [d.next EXCEPT ![s[n]] = s[2]]
      /\ e.prev = [d.prev EXCEPT ![s[2]] = s[n]]
  BY <1>3 DEF RemoveHead, RRState
<1>5. e \in RRState
  <2>1. s[1] \in Thread /\ s[2] \in Thread /\ s[n] \in Thread
    BY <1>1
  <2> QED
    BY <1>3, <2>1 DEF RemoveHead, RRState, Link
<1>6. Distinct(r)
  BY <1>1, <1>2 DEF IsRing, Distinct
<1>7. EndsAre(e, r)
  BY <1>1, <1>2, <1>4 DEF EndsAre
<1>8. ASSUME NEW i \in 1..(n - 1) - 1
      PROVE  e.next[r[i]] = r[i + 1] /\ e.prev[r[i + 1]] = r[i]
  <2>1. /\ i + 1 \in 1..n - 1 /\ i + 1 \in 1..n /\ i + 2 \in 1..n /\ i + 1 # n /\ i + 2 # 2
        /\ 2 \in 1..n /\ n \in 1..n /\ (i + 1) + 1 = i + 2 /\ i \in 1..n - 1
    BY <1>1
  <2>2. s[i + 1] # s[n] /\ s[i + 2] # s[2]
    BY <2>1 DEF IsRing, Distinct
  <2>3. d.next[s[i + 1]] = s[i + 2] /\ d.prev[s[i + 2]] = s[i + 1]
    BY <2>1 DEF IsRing, LinksAre
  <2> QED
    BY <1>1, <1>2, <1>4, <2>1, <2>2, <2>3 DEF RRState
<1>9. e.next[r[n - 1]] = r[1]
  BY <1>1, <1>2, <1>4 DEF RRState
<1>10. LinksAre(e, r)
  BY <1>2, <1>8, <1>9 DEF LinksAre
<1> QED
  BY <1>1, <1>4, <1>5, <1>6, <1>7, <1>10 DEF RemovedAs, IsRing

LEMMA RemoveTailKeepsRing ==
    ASSUME NEW d \in RRState, NEW s \in Seq(Thread), IsRing(d, s), Len(s) > 1
    PROVE  RemovedAs(d, s, Len(s), RemoveTail(d))
<1> DEFINE e == RemoveTail(d)
           n == Len(s)
           r == RemoveAt(s, n)
<1>1. n \in Nat /\ n > 1 /\ (\A i \in 1..n : s[i] \in Thread) /\ s # <<>>
  BY LenProperties, EmptySeq, ElementOfSeq
<1>2. r \in Seq(Thread) /\ Len(r) = n - 1 /\ (\A k \in 1..n - 1 : r[k] = s[k]) /\ r # <<>>
  BY <1>1, RemoveAtPlaces, EmptySeq
<1>3. /\ d.head = s[1] /\ d.tail = s[n]
      /\ n - 1 \in 1..n - 1 /\ (n - 1) + 1 = n
      /\ d.prev[s[n]] = s[n - 1]
  <2>1. n - 1 \in 1..n - 1 /\ (n - 1) + 1 = n
    BY <1>1
  <2>2. d.prev[s[(n - 1) + 1]] = s[n - 1]
    BY <2>1 DEF IsRing, LinksAre
  <2> QED
    BY <1>1, <2>1, <2>2 DEF IsRing, EndsAre
<1>4. /\ e.head = s[1] /\ e.tail = s[n - 1] /\ e.current = s[1] /\ e.removed = TRUE
      /\ e.next = [d.next EXCEPT ![s[n - 1]] = s[1]]
      /\ e.prev = d.prev
  BY <1>3 DEF RemoveTail, RRState
<1>5. e \in RRState
  <2>1. s[1] \in Thread /\ s[n - 1] \in Thread /\ s[n] \in Thread
    BY <1>1
  <2> QED
    BY <1>3, <2>1 DEF RemoveTail, RRState, Link
<1>6. Distinct(r)
  BY <1>1, <1>2 DEF IsRing, Distinct
<1>7. EndsAre(e, r)
  BY <1>1, <1>2, <1>3, <1>4 DEF EndsAre
<1>8. ASSUME NEW i \in 1..(n - 1) - 1
      PROVE  e.next[r[i]] = r[i + 1] /\ e.prev[r[i + 1]] = r[i]
  <2>1. /\ i \in 1..n - 1 /\ i + 1 \in 1..n - 1 /\ i \in 1..n /\ n - 1 \in 1..n
        /\ i # n - 1
    BY <1>1
  <2>2. s[i] # s[n - 1]
    BY <2>1 DEF IsRing, Distinct
  <2>3. d.next[s[i]] = s[i + 1] /\ d.prev[s[i + 1]] = s[i]
    BY <2>1 DEF IsRing, LinksAre
  <2> QED
    BY <1>1, <1>2, <1>4, <2>1, <2>2, <2>3 DEF RRState
<1>9. e.next[r[n - 1]] = r[1]
  BY <1>1, <1>2, <1>3, <1>4 DEF RRState
<1>10. LinksAre(e, r)
  BY <1>2, <1>8, <1>9 DEF LinksAre
<1> QED
  BY <1>1, <1>4, <1>5, <1>6, <1>7, <1>10 DEF RemovedAs, IsRing

LEMMA RemoveMiddleKeepsRing ==
    ASSUME NEW d \in RRState, NEW s \in Seq(Thread), IsRing(d, s),
           NEW i \in 1..Len(s), i # 1, i # Len(s)
    PROVE  RemovedAs(d, s, i, RemoveMiddle(d, s[i]))
<1> DEFINE e == RemoveMiddle(d, s[i])
           n == Len(s)
           r == RemoveAt(s, i)
<1>1. n \in Nat /\ i \in 2..n - 1 /\ n > 2 /\ (\A k \in 1..n : s[k] \in Thread) /\ s # <<>>
  BY LenProperties, EmptySeq, ElementOfSeq
<1>2. /\ r \in Seq(Thread) /\ Len(r) = n - 1 /\ r # <<>>
      /\ \A k \in 1..n - 1 : r[k] = IF k < i THEN s[k] ELSE s[k + 1]
  BY <1>1, RemoveAtPlaces, EmptySeq
<1>3. /\ d.head = s[1] /\ d.tail = s[n]
      /\ d.prev[s[i]] = s[i - 1] /\ d.next[s[i]] = s[i + 1]
  <2>1. i - 1 \in 1..n - 1 /\ (i - 1) + 1 = i /\ i \in 1..n - 1
    BY <1>1
  <2>2. d.prev[s[(i - 1) + 1]] = s[i - 1] /\ d.next[s[i]] = s[i + 1]
    BY <2>1 DEF IsRing, LinksAre
  <2> QED
    BY <1>1, <2>1, <2>2 DEF IsRing, EndsAre
<1>4. /\ e.head = s[1] /\ e.tail = s[n] /\ e.current = s[i + 1] /\ e.removed = TRUE
      /\ e.next = [d.next EXCEPT ![s[i - 1]] = s[i + 1]]
      /\ e.prev = [d.prev EXCEPT ![s[i + 1]] = s[i - 1]]
  BY <1>3 DEF RemoveMiddle, RRState
<1>5. e \in RRState
  BY <1>1, <1>3 DEF RemoveMiddle, RRState, Link
<1>6. Distinct(r)
  <2> SUFFICES ASSUME NEW j \in 1..n - 1, NEW k \in 1..n - 1, r[j] = r[k]
               PROVE  j = k
    BY <1>2 DEF Distinct
  <2> DEFINE at(x) == IF x < i THEN x ELSE x + 1
  <2>1. at(j) \in 1..n /\ at(k) \in 1..n /\ r[j] = s[at(j)] /\ r[k] = s[at(k)]
    BY <1>1, <1>2
  <2>2. at(j) = at(k)
    BY <2>1 DEF IsRing, Distinct
  <2> QED
    BY <1>1, <2>2
<1>7. EndsAre(e, r)
  <2>1. r[1] = s[1] /\ r[n - 1] = s[n]
    BY <1>1, <1>2
  <2> QED
    BY <1>2, <1>4, <2>1 DEF EndsAre
<1>8. ASSUME NEW k \in 1..(n - 1) - 1
      PROVE  e.next[r[k]] = r[k + 1] /\ e.prev[r[k + 1]] = r[k]
  <2>1. k \in 1..n - 1 /\ k + 1 \in 1..n - 1 /\ i - 1 \in 1..n /\ i + 1 \in 1..n
    BY <1>1
  <2>2. CASE k = i - 1
    <3>1. r[k] = s[i - 1] /\ r[k + 1] = s[i + 1]
      BY <1>1, <1>2, <2>1, <2>2
    <3> QED
      BY <1>1, <1>4, <2>1, <3>1 DEF RRState
  <2>3. CASE k # i - 1
    <3> DEFINE j == IF k < i THEN k ELSE k + 1
    <3>1. j \in 1..n - 1 /\ j \in 1..n /\ j + 1 \in 1..n /\ j # i - 1 /\ j + 1 # i + 1
      BY <1>1, <2>3
    <3>2. r[k] = s[j] /\ r[k + 1] = s[j + 1]
      <4>1. CASE k < i
        BY <1>1, <1>2, <2>1, <2>3, <4>1
      <4>2. CASE ~(k < i)
        BY <1>1, <1>2, <2>1, <2>3, <4>2
      <4> QED
        BY <4>1, <4>2
    <3>3. d.next[s[j]] = s[j + 1] /\ d.prev[s[j + 1]] = s[j]
      BY <3>1 DEF IsRing, LinksAre
    <3>4. s[j] # s[i - 1] /\ s[j + 1] # s[i + 1]
      BY <2>1, <3>1 DEF IsRing, Distinct
    <3> HIDE DEF j
    <3> QED
      BY <1>1, <1>4, <3>1, <3>2, <3>3, <3>4 DEF RRState
  <2> QED
    BY <2>2, <2>3
<1>9. e.next[r[n - 1]] = r[1]
  <2>1. r[n - 1] = s[n] /\ r[1] = s[1] /\ s[n] # s[i - 1] /\ d.next[s[n]] = s[1]
    BY <1>1, <1>2 DEF IsRing, Distinct, LinksAre
  <2> QED
    BY <1>1, <1>4, <2>1 DEF RRState
<1>10. LinksAre(e, r)
  BY <1>2, <1>8, <1>9 DEF LinksAre
<1> QED
  BY <1>1, <1>4, <1>5, <1>6, <1>7, <1>10 DEF RemovedAs, IsRing

(***************************************************************************)
(* rr_remove on a ring, for any argument: it is one of five cases.         *)
(***************************************************************************)
LEMMA RemoveCases ==
    ASSUME NEW d \in RRState, NEW s \in Seq(Thread), IsRing(d, s), s # <<>>,
           NEW t \in Thread
    PROVE  /\ t \notin Members(s) => rr_remove(d, t) = d
           /\ \A i \in 1..Len(s) : s[i] = t =>
                 \/ /\ Len(s) = 1
                    /\ rr_remove(d, t) = RemoveOnly(d)
                 \/ /\ Len(s) > 1
                    /\ RemovedAs(d, s, i, rr_remove(d, t))
<1>0. Len(s) \in Nat /\ Len(s) # 0
  BY LenProperties, EmptySeq
<1>1. d.head = s[1] /\ d.tail = s[Len(s)]
  BY DEF IsRing, EndsAre
<1>2. isInPool(d, t) <=> t \in Members(s)
  BY WalkFindsMembers
<1>3. ASSUME t \notin Members(s) PROVE rr_remove(d, t) = d
  BY <1>2, <1>3 DEF rr_remove
<1>4. ASSUME NEW i \in 1..Len(s), s[i] = t
      PROVE  \/ /\ Len(s) = 1
                /\ rr_remove(d, t) = RemoveOnly(d)
             \/ /\ Len(s) > 1
                /\ RemovedAs(d, s, i, rr_remove(d, t))
  <2>1. isInPool(d, t)
    BY <1>2, <1>4 DEF Members
  <2>2. CASE Len(s) = 1
    BY <1>1, <2>1, <2>2 DEF rr_remove
  <2>3. CASE Len(s) > 1
    <3>1. d.head # d.tail /\ (t = d.head <=> i = 1) /\ (t = d.tail <=> i = Len(s))
      <4>1. 1 \in 1..Len(s) /\ Len(s) \in 1..Len(s) /\ Len(s) # 1
        BY <1>0, <2>3, NonzeroNat, Zenon
      <4> QED
        BY <1>1, <1>4, <4>1 DEF IsRing, Distinct
    <3>2. CASE i = 1
      <4>1. rr_remove(d, t) = RemoveHead(d)
        BY <2>1, <3>1, <3>2 DEF rr_remove
      <4> QED
        BY <2>3, <3>2, <4>1, RemoveHeadKeepsRing
    <3>3. CASE i # 1 /\ i = Len(s)
      <4>1. rr_remove(d, t) = RemoveTail(d)
        BY <2>1, <3>1, <3>3 DEF rr_remove
      <4> QED
        BY <2>3, <3>3, <4>1, RemoveTailKeepsRing
    <3>4. CASE i # 1 /\ i # Len(s)
      <4>1. rr_remove(d, t) = RemoveMiddle(d, s[i])
        BY <1>4, <2>1, <3>1, <3>4 DEF rr_remove
      <4> QED
        BY <2>3, <3>4, <4>1, RemoveMiddleKeepsRing
    <3> QED
      BY <3>2, <3>3, <3>4
  <2>4. Len(s) = 1 \/ Len(s) > 1
    BY <1>0, NonzeroNat, Zenon
  <2> QED
    BY <2>2, <2>3, <2>4, Zenon
<1> QED
  BY <1>3, <1>4

(***************************************************************************)
(* The cursor after a removal is a member of what is left.                 *)
(***************************************************************************)
LEMMA SuccessorStays ==
    ASSUME NEW s \in Seq(Thread), Distinct(s), NEW i \in 1..Len(s), Len(s) > 1
    PROVE  LET j == IF i = Len(s) THEN 1 ELSE i
           IN  /\ j \in 1..Len(RemoveAt(s, i))
               /\ RemoveAt(s, i)[j] = IF i = Len(s) THEN s[1] ELSE s[i + 1]
<1>1. Len(s) \in Nat
  BY LenProperties
<1>2. /\ Len(RemoveAt(s, i)) = Len(s) - 1
      /\ \A k \in 1..Len(s) - 1 :
            RemoveAt(s, i)[k] = IF k < i THEN s[k] ELSE s[k + 1]
  BY RemoveAtPlaces
<1>3. CASE i = Len(s)
  BY <1>1, <1>2, <1>3
<1>4. CASE i # Len(s)
  BY <1>1, <1>2, <1>4
<1> QED
  BY <1>3, <1>4

-----------------------------------------------------------------------------
(***************************************************************************)
(* The list stays a ring, and the cursor in it, under any calls.           *)
(***************************************************************************)
LEMMA InitRing == RRInit => RRTypeOK /\ RingOK
<1> SUFFICES ASSUME RRInit PROVE RRTypeOK /\ RingOK
  OBVIOUS
<1>1. rr \in RRState
  BY DEF RRInit, RREmpty, RRState, Link
<1>2. ring \in Seq(Thread) /\ ring = <<>> /\ Len(ring) = 0
  BY DEF RRInit
<1> QED
  BY <1>1, <1>2 DEF RRInit, RREmpty, RRTypeOK, RingOK, IsRing, Distinct, EndsAre, LinksAre

(***************************************************************************)
(* rr_next on a ring: it leaves the links alone and stands on a member.    *)
(***************************************************************************)
LEMMA SelectKeepsRing ==
    ASSUME NEW d \in RRState, NEW s \in Seq(Thread), IsRing(d, s),
           d.current # NULL => d.current \in Members(s)
    PROVE  /\ s = <<>> => rr_next(d) = d
           /\ rr_next(d) \in RRState
           /\ IsRing(rr_next(d), s)
           /\ rr_next(d).next = d.next
           /\ s # <<>> =>
                /\ rr_next(d).removed = FALSE
                /\ rr_next(d).current =
                     CASE d.current = NULL -> s[1]
                       [] d.current # NULL /\ ~d.removed -> d.next[d.current]
                       [] OTHER -> d.current
                /\ rr_next(d).current \in Members(s)
<1> DEFINE e == rr_next(d)
<1>1. Len(s) \in Nat /\ (s # <<>> => Len(s) > 0) /\ \A i \in 1..Len(s) : s[i] \in Thread
  BY LenProperties, EmptySeq, ElementOfSeq
<1>2. CASE s = <<>>
  BY <1>2 DEF IsRing, EndsAre, rr_next
<1>3. CASE s # <<>>
  <2>1. d.head = s[1] /\ d.head # NULL
    BY <1>1, <1>3, NullAssumption DEF IsRing, EndsAre
  <2>2. /\ e.head = d.head /\ e.tail = d.tail /\ e.next = d.next /\ e.prev = d.prev
        /\ e.removed = FALSE
        /\ e.current = CASE d.current = NULL -> s[1]
                         [] d.current # NULL /\ ~d.removed -> d.next[d.current]
                         [] OTHER -> d.current
    BY <2>1 DEF rr_next, RRState
  <2>3. e.current \in Members(s)
    <3>1. CASE d.current = NULL
      BY <1>1, <1>3, <2>2, <3>1 DEF Members
    <3>2. CASE d.current # NULL
      <4>1. PICK i \in 1..Len(s) : d.current = s[i]
        BY <3>2 DEF Members
      <4>2. d.next[s[i]] \in Members(s)
        <5>1. CASE i = Len(s)
          BY <1>1, <1>3, <5>1 DEF IsRing, LinksAre, Members
        <5>2. CASE i # Len(s)
          <6>1. i \in 1..Len(s) - 1 /\ i + 1 \in 1..Len(s)
            BY <1>1, <5>2
          <6> QED
            BY <6>1 DEF IsRing, LinksAre, Members
        <5> QED
          BY <5>1, <5>2
      <4>3. d.current \in Members(s)
        BY <3>2
      <4>4. CASE ~d.removed
        BY <2>2, <3>2, <4>1, <4>2, <4>4
      <4>5. CASE d.removed
        BY <2>2, <3>2, <4>3, <4>5
      <4> QED
        BY <4>4, <4>5
    <3> QED
      BY <3>1, <3>2
  <2>4. e.current \in Thread
    BY <1>1, <2>3 DEF Members
  <2>5. e \in RRState
    BY <2>1, <2>4, <2>2 DEF rr_next, RRState, Link
  <2>6. IsRing(e, s)
    BY <2>2 DEF IsRing, EndsAre, LinksAre
  <2> QED
    BY <1>3, <2>2, <2>3, <2>5, <2>6
<1> QED
  BY <1>2, <1>3

LEMMA SelectOnRing ==
    ASSUME RRTypeOK, RingOK
    PROVE  /\ ring = <<>> => rr_next(rr) = rr
           /\ rr_next(rr) \in RRState
           /\ IsRing(rr_next(rr), ring)
           /\ ring # <<>> =>
                /\ rr_next(rr).removed = FALSE
                /\ rr_next(rr).current =
                     CASE rr.current = NULL -> ring[1]
                       [] rr.current # NULL /\ ~rr.removed -> rr.next[rr.current]
                       [] OTHER -> rr.current
                /\ rr_next(rr).current \in Members(ring)
BY SelectKeepsRing DEF RRTypeOK, RingOK

LEMMA AdmitPreservesRing ==
    ASSUME RRTypeOK, RingOK, NEW t \in Thread, RRAdmit(t)
    PROVE  RRTypeOK' /\ RingOK'
<1>1. ring' \in Seq(Thread)
  BY AppendProperties DEF RRTypeOK, RRAdmit
<1>2. /\ rr' \in RRState /\ IsRing(rr', ring')
      /\ rr'.current = rr.current
      /\ Members(ring') = Members(ring) \cup {t}
  BY AdmitKeepsRing DEF RRTypeOK, RingOK, RRAdmit
<1> QED
  BY <1>1, <1>2 DEF RRTypeOK, RingOK

LEMMA RemovePreservesRing ==
    ASSUME RRTypeOK, RingOK, NEW t \in Thread, RRRemove(t)
    PROVE  RRTypeOK' /\ RingOK'
<1>1. CASE t \notin Members(ring)
  <2>1. rr' = rr /\ ring' = ring
    BY <1>1, RemoveCases DEF RRTypeOK, RingOK, RRRemove
  <2> QED
    BY <2>1 DEF RRTypeOK, RingOK
<1>2. CASE t \in Members(ring)
  <2>1. PICK i \in 1..Len(ring) : ring[i] = t /\ ring' = RemoveAt(ring, i)
    BY <1>2 DEF RRRemove
  <2>2. ring' \in Seq(Thread) /\ Len(ring') = Len(ring) - 1 /\ Len(ring) \in Nat \ {0}
    BY <2>1, RemoveAtPlaces, LenProperties, EmptySeq DEF RRTypeOK, RRRemove
  <2>3. CASE Len(ring) = 1
    <3>1. rr' = RemoveOnly(rr)
      BY <2>1, <2>3, RemoveCases DEF RRTypeOK, RingOK, RRRemove
    <3>2. rr' \in RRState /\ rr'.head = NULL /\ rr'.tail = NULL /\ rr'.current = NULL
      BY <3>1 DEF RemoveOnly, RRTypeOK, RRState, Link
    <3>3. ring' = <<>> /\ Len(ring') = 0
      BY <2>2, <2>3, EmptySeq
    <3>4. IsRing(rr', ring')
      BY <3>2, <3>3 DEF IsRing, Distinct, EndsAre, LinksAre
    <3> QED
      BY <2>2, <3>2, <3>4 DEF RRTypeOK, RingOK
  <2>4. CASE Len(ring) # 1
    <3>1. RemovedAs(rr, ring, i, rr')
      BY <2>1, <2>4, RemoveCases DEF RRTypeOK, RingOK, RRRemove
    <3>2. rr'.current \in Members(ring')
      <4> DEFINE j == IF i = Len(ring) THEN 1 ELSE i
      <4>1. Len(ring) > 1 /\ Distinct(ring)
        BY <2>2, <2>4 DEF RingOK, IsRing
      <4>2. /\ j \in 1..Len(RemoveAt(ring, i))
            /\ RemoveAt(ring, i)[j] = IF i = Len(ring) THEN ring[1] ELSE ring[i + 1]
        BY <4>1, SuccessorStays DEF RRTypeOK
      <4> HIDE DEF j
      <4> QED
        BY <2>1, <3>1, <4>2 DEF RemovedAs, Members
    <3> QED
      BY <2>1, <2>2, <3>1, <3>2 DEF RRTypeOK, RingOK, RemovedAs
  <2> QED
    BY <2>3, <2>4
<1> QED
  BY <1>1, <1>2

LEMMA NextPreservesRing ==
    RRTypeOK /\ RingOK /\ [RRNext]_rrVars => RRTypeOK' /\ RingOK'
<1> SUFFICES ASSUME RRTypeOK, RingOK, [RRNext]_rrVars
             PROVE  RRTypeOK' /\ RingOK'
  OBVIOUS
<1>1. CASE RRSelect
  <2>1. rr' = rr_next(rr) /\ ring' = ring
    BY <1>1 DEF RRSelect
  <2> QED
    BY <2>1, SelectOnRing DEF RRTypeOK, RingOK
<1>2. ASSUME NEW t \in Thread, RRAdmit(t) PROVE RRTypeOK' /\ RingOK'
  BY <1>2, AdmitPreservesRing
<1>3. ASSUME NEW t \in Thread, RRRemove(t) PROVE RRTypeOK' /\ RingOK'
  BY <1>3, RemovePreservesRing
<1>4. CASE UNCHANGED rrVars
  BY <1>4 DEF rrVars, RRTypeOK, RingOK
<1> QED
  BY <1>1, <1>2, <1>3, <1>4 DEF RRNext

(***************************************************************************)
(* RRTypeOK and RingOK hold of scheduler.c whatever the set of threads and *)
(* whatever the order of the calls: the links always form one ring of      *)
(* exactly the pool, and st_current is never left on a removed thread.     *)
(***************************************************************************)
THEOREM RRCorrect == RRSpec => [](RRTypeOK /\ RingOK)
<1>1. RRInit => RRTypeOK /\ RingOK
  BY InitRing
<1>2. RRTypeOK /\ RingOK /\ [RRNext]_rrVars => RRTypeOK' /\ RingOK'
  BY NextPreservesRing
<1> QED
  BY <1>1, <1>2, PTL DEF RRSpec

-----------------------------------------------------------------------------
(***************************************************************************)
(* Removing the thread that runs passes the turn on as rr_next would have: *)
(* no thread of any pool loses its turn to an exit.                        *)
(***************************************************************************)
LEMMA RemoveStepKeepsTurn ==
    ASSUME RRTypeOK, RingOK, NEW t \in Thread, RRRemove(t),
           t = rr.current, UpNext(rr) # t
    PROVE  UpNext(rr') = UpNext(rr)
<1>1. t # NULL /\ t \in Members(ring)
  BY NullAssumption DEF RingOK
<1>2. PICK i \in 1..Len(ring) : ring[i] = t /\ ring' = RemoveAt(ring, i)
  BY <1>1 DEF RRRemove
<1>3. ring # <<>> /\ Len(ring) \in Nat \ {0} /\ \A k \in 1..Len(ring) : ring[k] \in Thread
  BY LenProperties, EmptySeq, ElementOfSeq DEF RRTypeOK, RRRemove
<1>4. ~rr.removed /\ UpNext(rr) = rr.next[t]
  <2>1. UpNext(rr) = CASE rr.current = NULL -> ring[1]
                       [] rr.current # NULL /\ ~rr.removed -> rr.next[rr.current]
                       [] OTHER -> rr.current
    BY <1>3, SelectOnRing DEF UpNext
  <2> QED
    BY <1>1, <2>1
<1>5. rr.next[t] = IF i = Len(ring) THEN ring[1] ELSE ring[i + 1]
  <2>1. CASE i = Len(ring)
    BY <1>2, <1>3, <2>1 DEF RingOK, IsRing, LinksAre
  <2>2. CASE i # Len(ring)
    <3>1. i \in 1..Len(ring) - 1
      BY <1>3, <2>2
    <3> QED
      BY <1>2, <2>2, <3>1 DEF RingOK, IsRing, LinksAre
  <2> QED
    BY <2>1, <2>2
<1>6. Len(ring) > 1
  BY <1>2, <1>3, <1>4, <1>5
<1>7. RemovedAs(rr, ring, i, rr')
  BY <1>2, <1>3, <1>6, RemoveCases DEF RRTypeOK, RingOK, RRRemove
<1>8. ring' # <<>>
  BY <1>2, <1>3, <1>6, RemoveAtPlaces, EmptySeq DEF RRTypeOK
<1>9. rr'.current \in Thread /\ rr'.removed = TRUE /\ rr'.head \in Thread
  <2>1. rr'.current \in Thread /\ rr'.removed = TRUE
    <3>1. CASE i = Len(ring)
      BY <1>3, <1>7, <3>1 DEF RemovedAs
    <3>2. CASE i # Len(ring)
      BY <1>3, <1>7, <3>2 DEF RemovedAs
    <3> QED
      BY <3>1, <3>2
  <2>2. ring' \in Seq(Thread) /\ rr'.head = ring'[1]
    BY <1>2, <1>7, <1>8, RemoveAtPlaces DEF RRTypeOK, RemovedAs, IsRing, EndsAre
  <2>3. ring'[1] \in Thread
    BY <1>8, <2>2, LenProperties, EmptySeq, ElementOfSeq
  <2> QED
    BY <2>1, <2>2, <2>3
<1>10. UpNext(rr') = rr'.current
  BY <1>7, <1>9, NullAssumption DEF UpNext, rr_next, RemovedAs, RRState
<1> QED
  BY <1>4, <1>5, <1>7, <1>10 DEF RemovedAs

THEOREM RRRemovalKeepsTurn == RRSpec => RemovalKeepsTurn
<1> DEFINE A == \A t \in Thread :
                  (RRRemove(t) /\ t = rr.current /\ UpNext(rr) # t) => UpNext(rr') = UpNext(rr)
<1>1. RRTypeOK /\ RingOK => A
  BY RemoveStepKeepsTurn
<1>2. RRTypeOK /\ RingOK => [A]_rrVars
  BY <1>1
<1> QED
  BY <1>2, RRCorrect, PTL DEF RemovalKeepsTurn

-----------------------------------------------------------------------------
(***************************************************************************)
(* The refinement: every call is the step of RoundRobin it should be.      *)
(***************************************************************************)
LEMMA PositionIs ==
    ASSUME NEW s \in Seq(Thread), Distinct(s), NEW i \in 1..Len(s)
    PROVE  Position(s, s[i]) = i
<1>1. s[i] \in Thread /\ s[i] # NULL
  BY ElementOfSeq, NullAssumption
<1>2. \A j \in 1..Len(s) : s[j] = s[i] => j = i
  BY DEF Distinct
<1> QED
  BY <1>1, <1>2 DEF Position

LEMMA InitRefines == RRInit => RoundRobin!Init
BY DEF RRInit, RREmpty, RoundRobin!Init, Position

LEMMA SelectRefines ==
    ASSUME RRTypeOK, RingOK, RRSelect
    PROVE  [RoundRobin!Next]_(RoundRobin!vars)
<1>1. CASE ring = <<>>
  BY <1>1, SelectOnRing DEF RRSelect, RoundRobin!vars
<1>2. CASE ring # <<>>
  <2>1. Len(ring) \in Nat \ {0} /\ \A k \in 1..Len(ring) : ring[k] \in Thread /\ ring[k] # NULL
    BY <1>2, LenProperties, EmptySeq, ElementOfSeq, NullAssumption DEF RRTypeOK
  <2>2. /\ ring' = ring /\ rr'.removed = FALSE
        /\ rr'.current = CASE rr.current = NULL -> ring[1]
                           [] rr.current # NULL /\ ~rr.removed -> rr.next[rr.current]
                           [] OTHER -> rr.current
    BY <1>2, SelectOnRing DEF RRSelect
  <2> DEFINE p == Position(ring, rr.current)
             q == Position(ring, rr'.current)
  <2>3. q = IF p = 0 THEN 1 ELSE IF rr.removed THEN p ELSE (p % Len(ring)) + 1
    <3>1. CASE rr.current = NULL
      <4>1. p = 0 /\ rr'.current = ring[1]
        BY <2>2, <3>1 DEF Position
      <4>2. q = 1
        BY <2>1, <4>1, PositionIs DEF RRTypeOK, RingOK, IsRing
      <4> QED
        BY <4>1, <4>2
    <3>2. CASE rr.current # NULL
      <4>1. PICK i \in 1..Len(ring) : rr.current = ring[i]
        BY <3>2 DEF RingOK, Members
      <4>2. p = i
        BY <4>1, PositionIs DEF RRTypeOK, RingOK, IsRing
      <4>3. CASE rr.removed
        BY <2>1, <2>2, <3>2, <4>1, <4>2, <4>3
      <4>4. CASE ~rr.removed
        <5>1. rr'.current = rr.next[ring[i]]
          BY <2>2, <3>2, <4>1, <4>4
        <5>2. CASE i = Len(ring)
          <6>1. rr'.current = ring[1] /\ i % Len(ring) = 0
            BY <1>2, <2>1, <5>1, <5>2 DEF RingOK, IsRing, LinksAre
          <6>2. q = 1
            BY <2>1, <6>1, PositionIs DEF RRTypeOK, RingOK, IsRing
          <6> QED
            BY <2>1, <4>2, <4>4, <6>1, <6>2
        <5>3. CASE i # Len(ring)
          <6>1. i \in 1..Len(ring) - 1 /\ i + 1 \in 1..Len(ring) /\ i % Len(ring) = i
            BY <2>1, <5>3
          <6>2. rr'.current = ring[i + 1]
            BY <5>1, <6>1 DEF RingOK, IsRing, LinksAre
          <6>3. q = i + 1
            BY <6>1, <6>2, PositionIs DEF RRTypeOK, RingOK, IsRing
          <6> QED
            BY <2>1, <4>2, <4>4, <6>1, <6>3
        <5> QED
          BY <5>2, <5>3
      <4> QED
        BY <4>3, <4>4
    <3> QED
      BY <3>1, <3>2
  <2>4. RoundRobin!Select
    BY <1>2, <2>2, <2>3 DEF RoundRobin!Select
  <2> QED
    BY <2>4 DEF RoundRobin!Next
<1> QED
  BY <1>1, <1>2

LEMMA AdmitRefines ==
    ASSUME RRTypeOK, RingOK, NEW t \in Thread, RRAdmit(t)
    PROVE  RoundRobin!Next
<1>1. rr'.current = rr.current /\ rr'.removed = rr.removed
  BY DEF RRAdmit, rr_admit, RRTypeOK, RRState
<1>2. ring' = Append(ring, t) /\ t \notin Members(ring)
  BY DEF RRAdmit
<1>3. Position(ring', rr'.current) = Position(ring, rr.current)
  <2>1. CASE rr.current = NULL
    BY <1>1, <2>1 DEF Position
  <2>2. CASE rr.current # NULL
    <3>1. PICK i \in 1..Len(ring) : rr.current = ring[i]
      BY <2>2 DEF RingOK, Members
    <3>2. Len(ring) \in Nat /\ ring' \in Seq(Thread) /\ Len(ring') = Len(ring) + 1 /\ ring'[i] = ring[i]
      BY <1>2, AppendProperties, LenProperties DEF RRTypeOK
    <3>3. Distinct(ring')
      BY RRTypeOK, RingOK, <1>2, AdmitKeepsRing DEF RRTypeOK, RingOK, IsRing
    <3>4. i \in 1..Len(ring')
      BY <3>2
    <3> QED
      BY <1>1, <3>1, <3>2, <3>3, <3>4, PositionIs DEF RRTypeOK, RingOK, IsRing
  <2> QED
    BY <2>1, <2>2
<1>4. \A i \in 1..Len(ring) : ring[i] # t
  BY <1>2 DEF Members
<1>5. RoundRobin!Join(t)
  BY <1>1, <1>2, <1>3, <1>4 DEF RoundRobin!Join
<1> QED
  BY <1>5 DEF RoundRobin!Next

LEMMA RemoveRefines ==
    ASSUME RRTypeOK, RingOK, NEW t \in Thread, RRRemove(t)
    PROVE  [RoundRobin!Next]_(RoundRobin!vars)
<1>1. CASE t \notin Members(ring)
  <2>1. rr' = rr /\ ring' = ring
    BY <1>1, RemoveCases DEF RRTypeOK, RingOK, RRRemove
  <2> QED
    BY <2>1 DEF RoundRobin!vars
<1>2. CASE t \in Members(ring)
  <2>1. PICK i \in 1..Len(ring) : ring[i] = t /\ ring' = RemoveAt(ring, i)
    BY <1>2 DEF RRRemove
  <2>2. Len(ring) \in Nat /\ Len(ring) # 0 /\ ring' \in Seq(Thread)
    BY <2>1, RemoveAtPlaces, LenProperties, EmptySeq DEF RRTypeOK, RRRemove
  <2>5. ring' = RoundRobin!RemoveAt(ring, i)
    BY <2>1 DEF RemoveAt, RoundRobin!RemoveAt
  <2>3. CASE Len(ring) = 1
    <3>1. rr' = RemoveOnly(rr)
      BY <2>1, <2>3, RemoveCases DEF RRTypeOK, RingOK, RRRemove
    <3>2. rr'.current = NULL /\ rr'.removed = rr.removed
      BY <3>1 DEF RemoveOnly, RRTypeOK, RRState
    <3>3. RoundRobin!Leave(i)
      BY <2>5, <2>3, <3>2 DEF RoundRobin!Leave, Position
    <3> QED
      BY <2>1, <3>3 DEF RoundRobin!Next
  <2>4. CASE Len(ring) # 1
    <3> DEFINE j == IF i = Len(ring) THEN 1 ELSE i
    <3>1. RemovedAs(rr, ring, i, rr')
      BY <2>1, <2>4, RemoveCases DEF RRTypeOK, RingOK, RRRemove
    <3>2. Len(ring) > 1 /\ Distinct(ring)
      <4>1. Len(ring) > 1
        BY <2>2, <2>4, NonzeroNat, Zenon
      <4> QED
        BY <4>1 DEF RingOK, IsRing
    <3>3. /\ j \in 1..Len(ring')
          /\ ring'[j] = IF i = Len(ring) THEN ring[1] ELSE ring[i + 1]
      BY <2>1, <3>2, SuccessorStays DEF RRTypeOK
    <3>4. Position(ring', rr'.current) = j
      <4>1. rr'.current = ring'[j] /\ Distinct(ring')
        BY <2>1, <3>1, <3>3 DEF RemovedAs, IsRing
      <4> QED
        BY <2>2, <3>3, <4>1, PositionIs
    <3>5. RoundRobin!Leave(i)
      BY <2>5, <2>4, <3>1, <3>4 DEF RoundRobin!Leave, RemovedAs
    <3> QED
      BY <2>1, <3>5 DEF RoundRobin!Next
  <2> QED
    BY <2>3, <2>4
<1> QED
  BY <1>1, <1>2

(***************************************************************************)
(* scheduler.c implements a round robin: with the list read as a sequence  *)
(* and st_current as a place in it, each call is the abstract step.        *)
(***************************************************************************)
THEOREM RRImplementsRoundRobin == RRSpec => ImplementsRoundRobin
<1>1. RRInit => RoundRobin!Init
  BY InitRefines
<1>2. RRTypeOK /\ RingOK /\ [RRNext]_rrVars => [RoundRobin!Next]_(RoundRobin!vars)
  <2> SUFFICES ASSUME RRTypeOK, RingOK, [RRNext]_rrVars
               PROVE  [RoundRobin!Next]_(RoundRobin!vars)
    OBVIOUS
  <2>1. CASE RRSelect
    BY <2>1, SelectRefines
  <2>2. ASSUME NEW t \in Thread, RRAdmit(t) PROVE RoundRobin!Next
    BY <2>2, AdmitRefines
  <2>3. ASSUME NEW t \in Thread, RRRemove(t) PROVE [RoundRobin!Next]_(RoundRobin!vars)
    BY <2>3, RemoveRefines
  <2>4. CASE UNCHANGED rrVars
    BY <2>4 DEF rrVars, RoundRobin!vars
  <2> QED
    BY <2>1, <2>2, <2>3, <2>4 DEF RRNext
<1> QED
  BY <1>1, <1>2, RRCorrect, PTL DEF RRSpec, ImplementsRoundRobin, RoundRobin!Spec

-----------------------------------------------------------------------------
(* The library. *)

CarefulClient == Careless \subseteq {"same"}

(***************************************************************************)
(* A pool: a list of the scheduler that holds the threads of s in order,   *)
(* with its cursor, if it has one, on one of them.                         *)
(***************************************************************************)
Pool(d, s) ==
    /\ d \in RRState
    /\ s \in Seq(Thread)
    /\ IsRing(d, s)
    /\ d.current # NULL => d.current \in Members(s)

(***************************************************************************)
(* The members of a sequence of threads are threads, and only the empty    *)
(* sequence has none.                                                      *)
(***************************************************************************)
LEMMA MembersAreThreads ==
    ASSUME NEW s \in Seq(Thread)
    PROVE  /\ Len(s) \in Nat /\ (s = <<>> <=> Len(s) = 0)
           /\ \A i \in 1..Len(s) : s[i] \in Thread /\ s[i] \in Members(s)
           /\ Members(s) \subseteq Thread
           /\ s = <<>> <=> Members(s) = {}
<1>1. Len(s) \in Nat /\ (s = <<>> <=> Len(s) = 0) /\ \A i \in 1..Len(s) : s[i] \in Thread
  BY LenProperties, EmptySeq, ElementOfSeq
<1>2. \A i \in 1..Len(s) : s[i] \in Members(s)
  BY DEF Members
<1>3. CASE s = <<>>
  <2>1. 1..Len(s) = {}
    BY <1>1, <1>3
  <2>2. Members(s) = {}
    BY <2>1 DEF Members
  <2> QED
    BY <1>1, <1>3, <2>1, <2>2
<1>4. CASE s # <<>>
  <2>1. 1 \in 1..Len(s)
    BY <1>1, <1>4
  <2>2. Members(s) # {}
    BY <1>2, <2>1
  <2>3. Members(s) \subseteq Thread
    BY <1>1 DEF Members
  <2> QED
    BY <1>1, <1>2, <1>4, <2>2, <2>3
<1> QED
  BY <1>3, <1>4

(***************************************************************************)
(* Drop takes out one thread, and nothing if it is not there.              *)
(***************************************************************************)
LEMMA DropIs ==
    ASSUME NEW s \in Seq(Thread), Distinct(s), NEW t \in Thread
    PROVE  /\ Drop(s, t) \in Seq(Thread)
           /\ Members(Drop(s, t)) = Members(s) \ {t}
           /\ t \notin Members(s) => Drop(s, t) = s
           /\ \A i \in 1..Len(s) : s[i] = t => Drop(s, t) = RemoveAt(s, i)
<1>1. CASE t \notin Members(s)
  BY <1>1 DEF Drop, Members
<1>2. CASE t \in Members(s)
  <2>1. PICK i \in 1..Len(s) : s[i] = t
    BY <1>2 DEF Members
  <2>2. Drop(s, t) = RemoveAt(s, i)
    BY <1>2, <2>1, PositionIs DEF Drop
  <2>3. /\ RemoveAt(s, i) \in Seq(Thread) /\ Len(RemoveAt(s, i)) = Len(s) - 1
        /\ \A k \in 1..Len(s) - 1 : RemoveAt(s, i)[k] = IF k < i THEN s[k] ELSE s[k + 1]
    BY RemoveAtPlaces
  <2>4. \A j \in 1..Len(s) : s[j] = t => j = i
    BY <2>1 DEF Distinct
  <2>5. Len(s) \in Nat
    BY LenProperties
  <2>6. ASSUME NEW u \in Members(s), u # t PROVE u \in Members(RemoveAt(s, i))
    <3>1. PICK j \in 1..Len(s) : s[j] = u
      BY DEF Members
    <3>2. CASE j < i
      <4>1. j \in 1..Len(s) - 1
        BY <2>5, <3>2
      <4> QED
        BY <2>3, <3>1, <3>2, <4>1 DEF Members
    <3>3. CASE ~(j < i)
      <4>1. j - 1 \in 1..Len(s) - 1 /\ ~(j - 1 < i) /\ (j - 1) + 1 = j
        BY <2>1, <2>5, <2>6, <3>1, <3>3
      <4> QED
        BY <2>3, <3>1, <4>1 DEF Members
    <3> QED
      BY <3>2, <3>3
  <2>7. ASSUME NEW u \in Members(RemoveAt(s, i)) PROVE u \in Members(s) /\ u # t
    <3>1. PICK k \in 1..Len(s) - 1 : RemoveAt(s, i)[k] = u
      BY <2>3 DEF Members
    <3>2. CASE k < i
      BY <2>3, <2>4, <2>5, <3>1, <3>2 DEF Members
    <3>3. CASE ~(k < i)
      <4>1. k + 1 \in 1..Len(s) /\ k + 1 # i
        BY <2>5, <3>3
      <4> QED
        BY <2>3, <2>4, <3>1, <3>3, <4>1 DEF Members
    <3> QED
      BY <3>2, <3>3
  <2> QED
    BY <1>2, <2>1, <2>2, <2>3, <2>4, <2>6, <2>7
<1> QED
  BY <1>1, <1>2

-----------------------------------------------------------------------------
(***************************************************************************)
(* The three functions of the scheduler, each on any pool.                 *)
(***************************************************************************)
LEMMA AdmitToPool ==
    ASSUME NEW d, NEW s, Pool(d, s), NEW t \in Thread, t \notin Members(s)
    PROVE  /\ Pool(rr_admit(d, t), Append(s, t))
           /\ Members(Append(s, t)) = Members(s) \cup {t}
           /\ rr_admit(d, t).current = d.current
           /\ rr_admit(d, t).removed = d.removed
<1>1. d \in RRState /\ s \in Seq(Thread) /\ IsRing(d, s)
  BY DEF Pool
<1>2. /\ rr_admit(d, t) \in RRState
      /\ IsRing(rr_admit(d, t), Append(s, t))
      /\ rr_admit(d, t).current = d.current
      /\ Members(Append(s, t)) = Members(s) \cup {t}
  BY <1>1, AdmitKeepsRing
<1>3. Append(s, t) \in Seq(Thread)
  BY <1>1, AppendProperties
<1>4. rr_admit(d, t).removed = d.removed
  BY <1>1 DEF rr_admit, RRState
<1> QED
  BY <1>2, <1>3, <1>4 DEF Pool

\* rr_next leaves a pool a pool, and selects a thread of it.
LEMMA NextInPool ==
    ASSUME NEW d, NEW s, Pool(d, s)
    PROVE  /\ Pool(rr_next(d), s)
           /\ rr_next(d).next = d.next
           /\ s = <<>> => rr_next(d) = d /\ RRReturns(d) = NULL
           /\ s # <<>> =>
                /\ RRReturns(d) = UpNext(d)
                /\ UpNext(d) \in Members(s)
                /\ UpNext(d) \in Thread
                /\ rr_next(d).current = UpNext(d)
                /\ ~rr_next(d).removed
<1>1. d \in RRState /\ s \in Seq(Thread) /\ IsRing(d, s)
  BY DEF Pool
<1>2. /\ s = <<>> => rr_next(d) = d
      /\ rr_next(d) \in RRState
      /\ IsRing(rr_next(d), s)
      /\ rr_next(d).next = d.next
      /\ s # <<>> => rr_next(d).removed = FALSE /\ rr_next(d).current \in Members(s)
  BY <1>1, SelectKeepsRing DEF Pool
<1>3. Pool(rr_next(d), s)
  BY <1>1, <1>2 DEF Pool
<1>4. s = <<>> => RRReturns(d) = NULL
  BY <1>1 DEF RRReturns, IsRing, EndsAre
<1>5. ASSUME s # <<>> PROVE RRReturns(d) = UpNext(d)
  <2>1. 1 \in 1..Len(s) /\ d.head = s[1]
    BY <1>1, <1>5, MembersAreThreads DEF IsRing, EndsAre
  <2>2. d.head # NULL
    BY <1>1, <2>1, MembersAreThreads, NullAssumption
  <2> QED
    BY <2>2 DEF RRReturns, UpNext
<1>6. Members(s) \subseteq Thread
  BY <1>1, MembersAreThreads
<1> QED
  BY <1>2, <1>3, <1>4, <1>5, <1>6 DEF UpNext

\* rr_remove takes exactly the thread it is given out of a pool.
LEMMA RemoveFromPool ==
    ASSUME NEW d, NEW s, Pool(d, s), NEW t \in Members(s)
    PROVE  /\ Pool(rr_remove(d, t), Drop(s, t))
           /\ Members(Drop(s, t)) = Members(s) \ {t}
<1>1. d \in RRState /\ s \in Seq(Thread) /\ IsRing(d, s) /\ Distinct(s)
  BY DEF Pool, IsRing
<1>2. PICK i \in 1..Len(s) : s[i] = t
  BY DEF Members
<1>3. /\ Len(s) \in Nat /\ s # <<>> /\ t \in Thread
      /\ \A k \in 1..Len(s) : s[k] \in Thread
  BY <1>1, <1>2, MembersAreThreads
<1>4. /\ Drop(s, t) \in Seq(Thread)
      /\ Members(Drop(s, t)) = Members(s) \ {t}
      /\ Drop(s, t) = RemoveAt(s, i)
  BY <1>1, <1>2, <1>3, DropIs
<1>5. CASE Len(s) = 1 /\ rr_remove(d, t) = RemoveOnly(d)
  <2>0. Len(RemoveAt(s, i)) = Len(s) - 1
    BY <1>1, <1>2, RemoveAtPlaces
  <2>1. Len(RemoveAt(s, i)) = 0
    BY <1>5, <2>0
  <2>2. Drop(s, t) = <<>>
    BY <1>4, <2>1, EmptySeq
  <2>3. /\ rr_remove(d, t) \in RRState /\ rr_remove(d, t).head = NULL
        /\ rr_remove(d, t).tail = NULL /\ rr_remove(d, t).current = NULL
    BY <1>1, <1>5 DEF RemoveOnly, RRState, Link
  <2>4. IsRing(rr_remove(d, t), Drop(s, t))
    BY <2>1, <1>4, <2>2, <2>3 DEF IsRing, Distinct, EndsAre, LinksAre
  <2> QED
    BY <1>4, <2>3, <2>4 DEF Pool
<1>6. CASE Len(s) > 1 /\ RemovedAs(d, s, i, rr_remove(d, t))
  <2> DEFINE j == IF i = Len(s) THEN 1 ELSE i
  <2>1. /\ j \in 1..Len(RemoveAt(s, i))
        /\ RemoveAt(s, i)[j] = IF i = Len(s) THEN s[1] ELSE s[i + 1]
    BY <1>1, <1>6, SuccessorStays
  <2> HIDE DEF j
  <2>2. rr_remove(d, t).current \in Members(RemoveAt(s, i))
    BY <1>6, <2>1 DEF RemovedAs, Members
  <2> QED
    BY <1>4, <1>6, <2>2 DEF Pool, RemovedAs
<1> QED
  BY <1>1, <1>2, <1>3, <1>5, <1>6, RemoveCases

-----------------------------------------------------------------------------
(***************************************************************************)
(* The library's list is the scheduler's without a cursor: lt_append and   *)
(* remove_lt_thread do to it what rr_admit and rr_remove do to theirs.     *)
(***************************************************************************)
AsPool(d) == [head |-> d.head, tail |-> d.tail, current |-> NULL, removed |-> FALSE,
              next |-> d.next, prev |-> d.prev]

SameList(d, e) == d.head = e.head /\ d.tail = e.tail /\ d.next = e.next /\ d.prev = e.prev

\* A ring is a matter of the links, head and tail alone.
LEMMA SameListSameRing ==
    ASSUME NEW d, NEW e, NEW s, SameList(d, e), IsRing(e, s)
    PROVE  IsRing(d, s)
BY DEF SameList, IsRing, EndsAre, LinksAre

\* The library's list, given a cursor, is a pool of the scheduler's.
LEMMA AsPoolIsPool ==
    ASSUME NEW d \in LibState, NEW s \in Seq(Thread), IsRing(d, s)
    PROVE  Pool(AsPool(d), s) /\ SameList(d, AsPool(d))
<1>1. AsPool(d) \in RRState /\ AsPool(d).current = NULL
  BY DEF AsPool, LibState, RRState, Link
<1>2. SameList(AsPool(d), d) /\ SameList(d, AsPool(d))
  BY DEF AsPool, SameList
<1> QED
  BY <1>1, <1>2, SameListSameRing DEF Pool

\* lt_append puts the thread at the end of the library's ring.
LEMMA AppendToList ==
    ASSUME NEW d \in LibState, NEW s \in Seq(Thread), IsRing(d, s),
           NEW t \in Thread, t \notin Members(s)
    PROVE  /\ lt_append(d, t) \in LibState
           /\ IsRing(lt_append(d, t), Append(s, t))
           /\ Members(Append(s, t)) = Members(s) \cup {t}
<1> DEFINE e == AsPool(d)
<1>1. Pool(e, s) /\ SameList(d, e)
  BY AsPoolIsPool
<1>2. /\ Pool(rr_admit(e, t), Append(s, t))
      /\ Members(Append(s, t)) = Members(s) \cup {t}
  BY <1>1, AdmitToPool
<1>3. SameList(lt_append(d, t), rr_admit(e, t))
  <2>1. CASE d.head = NULL
    BY <2>1 DEF lt_append, rr_admit, SameList, AsPool, LibState
  <2>2. CASE d.head # NULL
    BY <2>2 DEF lt_append, rr_admit, SameList, AsPool, LibState
  <2> QED
    BY <2>1, <2>2
<1>4. lt_append(d, t) = [head |-> lt_append(d, t).head, tail |-> lt_append(d, t).tail,
                         next |-> lt_append(d, t).next, prev |-> lt_append(d, t).prev]
  BY DEF lt_append, LibState
<1>5. rr_admit(e, t) \in RRState
  BY <1>2 DEF Pool
<1>6. lt_append(d, t) \in LibState
  BY <1>3, <1>4, <1>5 DEF SameList, RRState, LibState
<1> QED
  BY <1>2, <1>3, <1>6, SameListSameRing DEF Pool

\* remove_lt_thread takes exactly its thread out of the library's ring.
LEMMA RemoveFromList ==
    ASSUME NEW d \in LibState, NEW s \in Seq(Thread), IsRing(d, s), NEW t \in Members(s)
    PROVE  /\ remove_lt_thread(d, t) \in LibState
           /\ IsRing(remove_lt_thread(d, t), Drop(s, t))
           /\ Members(Drop(s, t)) = Members(s) \ {t}
<1> DEFINE e == AsPool(d)
           r == remove_lt_thread(d, t)
<1>1. Pool(e, s) /\ SameList(d, e)
  BY AsPoolIsPool
<1>2. /\ Pool(rr_remove(e, t), Drop(s, t))
      /\ Members(Drop(s, t)) = Members(s) \ {t}
  BY <1>1, RemoveFromPool
<1>3. isInPool(e, t)
  BY <1>1, MembersAreThreads, WalkFindsMembers DEF Pool
<1>4. SameList(r, rr_remove(e, t))
  <2>1. CASE d.head = d.tail
    <3>1. r = [d EXCEPT !.head = NULL, !.tail = NULL]
      BY <2>1 DEF remove_lt_thread
    <3>2. rr_remove(e, t) = RemoveOnly(e)
      BY <1>1, <1>3, <2>1 DEF rr_remove, SameList
    <3> QED
      BY <3>1, <3>2 DEF RemoveOnly, SameList, AsPool, LibState
  <2>2. CASE d.head # d.tail /\ t = d.head
    <3>1. r = [d EXCEPT !.next[d.tail] = d.next[t], !.prev[d.next[t]] = d.tail,
                        !.head = d.next[t]]
      BY <2>2 DEF remove_lt_thread
    <3>2. rr_remove(e, t) = RemoveHead(e)
      BY <1>1, <1>3, <2>2 DEF rr_remove, SameList
    <3>3. /\ r.head = d.next[t] /\ r.tail = d.tail
          /\ r.next = [d.next EXCEPT ![d.tail] = d.next[t]]
          /\ r.prev = [d.prev EXCEPT ![d.next[t]] = d.tail]
      BY <3>1 DEF LibState
    <3>4. /\ rr_remove(e, t).head = d.next[t] /\ rr_remove(e, t).tail = d.tail
          /\ rr_remove(e, t).next = [d.next EXCEPT ![d.tail] = d.next[t]]
          /\ rr_remove(e, t).prev = [d.prev EXCEPT ![d.next[t]] = d.tail]
      BY <2>2, <3>2 DEF RemoveHead, AsPool
    <3> QED
      BY <3>3, <3>4 DEF SameList
  <2>3. CASE d.head # d.tail /\ t # d.head /\ t = d.tail
    <3>1. r = [d EXCEPT !.next[d.prev[t]] = d.head, !.tail = d.prev[t]]
      BY <2>3 DEF remove_lt_thread
    <3>2. rr_remove(e, t) = RemoveTail(e)
      BY <1>1, <1>3, <2>3 DEF rr_remove, SameList
    <3>3. /\ r.head = d.head /\ r.tail = d.prev[t]
          /\ r.next = [d.next EXCEPT ![d.prev[t]] = d.head]
          /\ r.prev = d.prev
      BY <3>1 DEF LibState
    <3>4. /\ rr_remove(e, t).head = d.head /\ rr_remove(e, t).tail = d.prev[t]
          /\ rr_remove(e, t).next = [d.next EXCEPT ![d.prev[t]] = d.head]
          /\ rr_remove(e, t).prev = d.prev
      BY <2>3, <3>2 DEF RemoveTail, AsPool
    <3> QED
      BY <3>3, <3>4 DEF SameList
  <2>4. CASE d.head # d.tail /\ t # d.head /\ t # d.tail
    <3>1. r = [d EXCEPT !.next[d.prev[t]] = d.next[t], !.prev[d.next[t]] = d.prev[t]]
      BY <2>4 DEF remove_lt_thread
    <3>2. rr_remove(e, t) = RemoveMiddle(e, t)
      BY <1>1, <1>3, <2>4 DEF rr_remove, SameList
    <3>3. /\ r.head = d.head /\ r.tail = d.tail
          /\ r.next = [d.next EXCEPT ![d.prev[t]] = d.next[t]]
          /\ r.prev = [d.prev EXCEPT ![d.next[t]] = d.prev[t]]
      BY <3>1 DEF LibState
    <3>4. /\ rr_remove(e, t).head = d.head /\ rr_remove(e, t).tail = d.tail
          /\ rr_remove(e, t).next = [d.next EXCEPT ![d.prev[t]] = d.next[t]]
          /\ rr_remove(e, t).prev = [d.prev EXCEPT ![d.next[t]] = d.prev[t]]
      BY <2>4, <3>2 DEF RemoveMiddle, AsPool
    <3> QED
      BY <3>3, <3>4 DEF SameList
  <2> QED
    BY <2>1, <2>2, <2>3, <2>4
<1>5. r = [head |-> r.head, tail |-> r.tail, next |-> r.next, prev |-> r.prev]
  BY DEF remove_lt_thread, LibState
<1>6. rr_remove(e, t) \in RRState
  BY <1>2 DEF Pool
<1>7. r \in LibState
  BY <1>4, <1>5, <1>6 DEF SameList, RRState, LibState
<1> QED
  BY <1>2, <1>4, <1>7, SameListSameRing DEF Pool

(***************************************************************************)
(* tid2thread's walk from current, which may stand anywhere in the list,   *)
(* meets every thread of the list and no other.                            *)
(***************************************************************************)
LEMMA WalkFromCurrent ==
    ASSUME threads \in Seq(Thread), IsRing(lib, threads), current \in Members(threads)
    PROVE  FromCurrent = Members(threads)
<1> DEFINE n == Len(threads)
<1>1. n \in Nat /\ Members(threads) \subseteq Thread
  BY MembersAreThreads
<1>2. PICK k \in 1..n : threads[k] = current
  BY DEF Members
<1>3. \A i \in 1..n - 1 : lib.next[threads[i]] = threads[i + 1]
  BY DEF IsRing, LinksAre
<1>4. lib.next[threads[n]] = threads[1]
  BY <1>1, <1>2, MembersAreThreads DEF IsRing, LinksAre
<1>5. ASSUME NEW u \in Members(threads) PROVE lib.next[u] \in Members(threads)
  <2>1. PICK i \in 1..n : threads[i] = u
    BY DEF Members
  <2>2. CASE i = n
    BY <1>2, <1>4, <2>1, <2>2 DEF Members
  <2>3. CASE i # n
    <3>1. i \in 1..n - 1 /\ i + 1 \in 1..n
      BY <1>1, <2>3
    <3> QED
      BY <1>3, <2>1, <3>1 DEF Members
  <2> QED
    BY <2>2, <2>3
<1>6. FromCurrent \subseteq Members(threads)
  BY <1>1, <1>5 DEF FromCurrent
<1>7. ASSUME NEW S \in SUBSET Thread, \A u \in S : lib.next[u] \in S,
             NEW b \in 1..n, threads[b] \in S,
             NEW z \in 1..n, b <= z
      PROVE  threads[z] \in S
  <2> DEFINE Missed == {i \in Nat : i \in b..n /\ threads[i] \notin S}
  <2> SUFFICES ASSUME threads[z] \notin S PROVE FALSE
    OBVIOUS
  <2>1. Missed # {}
    BY <1>1, <1>7
  <2>2. PICK m \in Missed : \A i \in Missed : ~(<<i, m>> \in OpToRel(<, Nat))
    BY <2>1, NatLessThanWellFounded, WFMin, Missed \subseteq Nat
  <2>3. \A i \in Missed : ~(i < m)
    BY <2>2 DEF OpToRel
  <2>4. m # b
    BY <1>7
  <2>5. m - 1 \in 1..n - 1 /\ m - 1 \in b..n /\ m - 1 \in Nat /\ (m - 1) + 1 = m /\ m - 1 < m
    BY <1>1, <2>4
  <2>6. threads[m - 1] \in S
    BY <2>3, <2>5
  <2>7. threads[m] \in S
    BY <1>3, <1>7, <2>5, <2>6
  <2> QED
    BY <2>7
<1>8. ASSUME NEW u \in Members(threads), NEW S \in SUBSET Thread,
             current \in S, \A v \in S : lib.next[v] \in S
      PROVE  u \in S
  <2>1. n \in 1..n /\ 1 \in 1..n /\ k <= n
    BY <1>1, <1>2
  <2>2. threads[n] \in S
    BY <1>2, <1>7, <1>8, <2>1
  <2>3. threads[1] \in S
    BY <1>4, <1>8, <2>2
  <2>4. PICK z \in 1..n : threads[z] = u
    BY DEF Members
  <2> QED
    BY <1>1, <1>7, <1>8, <2>1, <2>3, <2>4
<1> QED
  BY <1>1, <1>6, <1>8 DEF FromCurrent

-----------------------------------------------------------------------------
(***************************************************************************)
(* The order of turns.  From the place c of the thread that is next, place *)
(* j comes after place i on the way round.                                 *)
(***************************************************************************)
After(c, i, j) == IF i >= c THEN j < c \/ j > i ELSE j < c /\ j > i

(***************************************************************************)
(* Whoever ran since a thread's last turn comes after it in what follows.  *)
(***************************************************************************)
TurnsOwed(d, s, S) ==
    \A c, i, j \in 1..Len(s) :
        s[c] = UpNext(d) /\ s[j] \in S[s[i]] => After(c, i, j)

\* The thread up next has not run since any other's last turn.
LEMMA NextIsOwed ==
    ASSUME NEW d, NEW s, NEW S, Pool(d, s), TurnsOwed(d, s, S), s # <<>>,
           NEW t \in Members(s)
    PROVE  UpNext(d) \notin S[t]
<1>1. UpNext(d) \in Members(s)
  BY NextInPool
<1>2. PICK c \in 1..Len(s), i \in 1..Len(s) : s[c] = UpNext(d) /\ s[i] = t
  BY <1>1 DEF Members
<1>3. ~After(c, i, c)
  BY DEF After
<1> QED
  BY <1>2, <1>3 DEF TurnsOwed

(***************************************************************************)
(* Where the turn goes: to the head, to the thread after the cursor, or to *)
(* the cursor.                                                             *)
(***************************************************************************)
LEMMA UpNextIs ==
    ASSUME NEW d, NEW s, Pool(d, s), s # <<>>
    PROVE  UpNext(d) = CASE d.current = NULL -> s[1]
                         [] d.current # NULL /\ ~d.removed -> d.next[d.current]
                         [] OTHER -> d.current
BY SelectKeepsRing DEF Pool, UpNext

\* The link of a thread of a ring names the one after it, the first after the last.
LEMMA FollowerIs ==
    ASSUME NEW d, NEW s, Pool(d, s), NEW i \in 1..Len(s)
    PROVE  d.next[s[i]] = IF i = Len(s) THEN s[1] ELSE s[i + 1]
<1>1. Len(s) \in Nat /\ s # <<>>
  BY MembersAreThreads DEF Pool
<1>2. CASE i = Len(s)
  BY <1>1, <1>2 DEF Pool, IsRing, LinksAre
<1>3. CASE i # Len(s)
  <2>1. i \in 1..Len(s) - 1
    BY <1>1, <1>3
  <2> QED
    BY <1>3, <2>1 DEF Pool, IsRing, LinksAre
<1> QED
  BY <1>2, <1>3

(***************************************************************************)
(* A turn: whoever has it is now the last.                                 *)
(***************************************************************************)
LEMMA TurnKeepsOrder ==
    ASSUME NEW d, NEW s, Pool(d, s), s # <<>>, NEW S, TurnsOwed(d, s, S),
           NEW T, T[UpNext(d)] = {},
           \A t \in Members(s) : T[t] \subseteq S[t] \cup {UpNext(d)}
    PROVE  TurnsOwed(rr_next(d), s, T)
<1> DEFINE n == Len(s)
           e == rr_next(d)
<1>1. n \in Nat /\ Distinct(s) /\ \A i \in 1..n : s[i] \in Members(s) /\ s[i] \in Thread
  BY MembersAreThreads DEF Pool, IsRing
<1>2. Pool(e, s) /\ e.current = UpNext(d) /\ ~e.removed /\ UpNext(d) \in Members(s)
  BY NextInPool
<1>3. PICK k \in 1..n : s[k] = UpNext(d)
  BY <1>2 DEF Members
<1>4. UpNext(e) = e.next[s[k]]
  <2>1. e.current # NULL
    BY <1>1, <1>2, <1>3, NullAssumption
  <2> QED
    BY <1>2, <1>3, <2>1, UpNextIs
<1>5. UpNext(e) = IF k = n THEN s[1] ELSE s[k + 1]
  BY <1>2, <1>4, FollowerIs
<1>6. ASSUME NEW c \in 1..n, NEW i \in 1..n, NEW j \in 1..n,
             s[c] = UpNext(e), s[j] \in T[s[i]]
      PROVE  After(c, i, j)
  <2>1. c = IF k = n THEN 1 ELSE k + 1
    <3>1. (k = n => 1 \in 1..n) /\ (k # n => k + 1 \in 1..n)
      BY <1>1
    <3> QED
      BY <1>1, <1>5, <1>6, <3>1 DEF Distinct
  <2>2. i # k
    BY <1>3, <1>6
  <2>3. j = k \/ s[j] \in S[s[i]]
    BY <1>1, <1>3, <1>6 DEF Distinct
  <2>4. CASE j = k
    BY <1>1, <2>1, <2>2, <2>4 DEF After
  <2>5. CASE s[j] \in S[s[i]]
    <3>1. After(k, i, j)
      BY <1>3, <2>5 DEF TurnsOwed
    <3> QED
      BY <1>1, <2>1, <2>2, <3>1 DEF After
  <2> QED
    BY <2>3, <2>4, <2>5
<1> QED
  BY <1>6 DEF TurnsOwed
(***************************************************************************)
(* A newcomer is the last in the list, and nobody has run past it.         *)
(***************************************************************************)
LEMMA AdmitKeepsOrder ==
    ASSUME NEW d, NEW s, Pool(d, s), NEW S, TurnsOwed(d, s, S),
           NEW t \in Thread, t \notin Members(s),
           NEW T, T[t] = {},
           \A u \in Members(s) : T[u] = S[u] /\ S[u] \subseteq Members(s)
    PROVE  TurnsOwed(rr_admit(d, t), Append(s, t), T)
<1> DEFINE n == Len(s)
           e == rr_admit(d, t)
           r == Append(s, t)
<1>1. n \in Nat /\ s \in Seq(Thread) /\ \A i \in 1..n : s[i] \in Members(s)
  BY MembersAreThreads DEF Pool
<1>2. Len(r) = n + 1 /\ r[n + 1] = t /\ \A i \in 1..n : r[i] = s[i]
  BY <1>1, AppendProperties
<1>3. /\ Pool(e, r) /\ Members(r) = Members(s) \cup {t} /\ r # <<>>
      /\ e.current = d.current /\ e.removed = d.removed
  <2>1. r # <<>>
    BY <1>1, <1>2, AppendProperties, EmptySeq
  <2> QED
    BY <2>1, AdmitToPool
<1>4. ASSUME NEW c \in 1..n + 1, NEW i \in 1..n + 1, NEW j \in 1..n + 1,
             r[c] = UpNext(e), r[j] \in T[r[i]]
      PROVE  After(c, i, j)
  <2>1. i \in 1..n /\ r[i] = s[i] /\ s[i] \in Members(s)
    BY <1>1, <1>2, <1>4
  <2>2. j \in 1..n /\ r[j] = s[j] /\ s[j] \in S[s[i]]
    BY <1>1, <1>2, <1>4, <2>1
  <2>3. s # <<>> /\ 1 \in 1..n
    BY <1>1, <2>1, MembersAreThreads
  <2>4. CASE d.current = NULL
    <3>1. UpNext(d) = s[1] /\ UpNext(e) = r[1]
      BY <1>3, <2>3, <2>4, UpNextIs
    <3>2. c \in 1..n /\ s[c] = UpNext(d)
      BY <1>1, <1>2, <1>4, <2>3, <3>1
    <3> QED
      BY <2>1, <2>2, <3>2 DEF TurnsOwed
  <2>5. CASE d.current # NULL /\ d.removed
    <3>1. UpNext(d) = d.current /\ UpNext(e) = d.current /\ d.current \in Members(s)
      BY <1>3, <2>3, <2>5, UpNextIs DEF Pool
    <3>2. c \in 1..n /\ s[c] = UpNext(d)
      BY <1>1, <1>2, <1>4, <3>1
    <3> QED
      BY <2>1, <2>2, <3>2 DEF TurnsOwed
  <2>6. CASE d.current # NULL /\ ~d.removed
    <3>1. UpNext(d) = d.next[d.current] /\ UpNext(e) = e.next[d.current]
      BY <1>3, <2>3, <2>6, UpNextIs
    <3>2. PICK k \in 1..n : d.current = s[k]
      BY <2>6 DEF Pool, Members
    <3>3. UpNext(d) = IF k = n THEN s[1] ELSE s[k + 1]
      BY <3>1, <3>2, FollowerIs
    <3>4. UpNext(e) = r[k + 1]
      <4>1. k \in 1..Len(r) /\ k # Len(r) /\ r[k] = s[k]
        BY <1>1, <1>2, <3>2
      <4>2. e.next[r[k]] = r[k + 1]
        <5> HIDE DEF e, r
        <5> QED
          BY <1>3, <4>1, FollowerIs
      <4> QED
        BY <3>1, <3>2, <4>1, <4>2
    <3>5. CASE k = n
      <4>1. UpNext(d) = s[1] /\ UpNext(e) = t
        BY <1>2, <3>3, <3>4, <3>5
      <4>2. c = n + 1
        BY <1>1, <1>2, <1>4, <4>1
      <4>3. After(1, i, j)
        BY <2>1, <2>2, <2>3, <4>1 DEF TurnsOwed
      <4> QED
        BY <1>1, <2>1, <2>2, <4>2, <4>3 DEF After
    <3>6. CASE k # n
      <4>1. k + 1 \in 1..n
        BY <1>1, <3>6
      <4>2. UpNext(d) = s[k + 1] /\ UpNext(e) = s[k + 1]
        BY <1>2, <3>3, <3>4, <3>6, <4>1
      <4>3. c \in 1..n /\ s[c] = UpNext(d)
        BY <1>1, <1>2, <1>4, <4>1, <4>2
      <4> QED
        BY <2>1, <2>2, <4>3 DEF TurnsOwed
    <3> QED
      BY <3>5, <3>6
  <2> QED
    BY <2>4, <2>5, <2>6
<1> QED
  BY <1>2, <1>4 DEF TurnsOwed

(***************************************************************************)
(* An exit: with the thread that runs taken out of a pool of several, the  *)
(* same thread is next, and the others keep their places.                  *)
(***************************************************************************)
LEMMA ExitKeepsOrder ==
    ASSUME NEW d, NEW s, Pool(d, s), NEW S, TurnsOwed(d, s, S),
           NEW t \in Members(s), t = d.current, ~d.removed,
           Drop(s, t) # <<>>
    PROVE  TurnsOwed(rr_remove(d, t), Drop(s, t), S)
<1> DEFINE n == Len(s)
           e == rr_remove(d, t)
           r == Drop(s, t)
<1>1. /\ n \in Nat /\ s \in Seq(Thread) /\ IsRing(d, s) /\ Distinct(s) /\ s # <<>>
      /\ d \in RRState /\ t \in Thread /\ t # NULL
      /\ \A i \in 1..n : s[i] \in Members(s) /\ s[i] \in Thread
  BY MembersAreThreads, NullAssumption DEF Pool, IsRing
<1>2. PICK k \in 1..n : s[k] = t
  BY DEF Members
<1>3. /\ r = RemoveAt(s, k) /\ r \in Seq(Thread) /\ Len(r) = n - 1
      /\ \A x \in 1..n - 1 : r[x] = IF x < k THEN s[x] ELSE s[x + 1]
  <2>1. r = RemoveAt(s, k)
    BY <1>1, <1>2, DropIs
  <2> HIDE DEF r
  <2> QED
    BY <1>1, <2>1, RemoveAtPlaces
<1>4. n > 1
  <2>1. Len(r) # 0
    BY <1>3, EmptySeq
  <2> QED
    BY <1>1, <1>2, <1>3, <2>1
<1>5. RemovedAs(d, s, k, e)
  BY <1>1, <1>2, <1>4, RemoveCases
<1>6. Pool(e, r)
  BY RemoveFromPool
<1>7. UpNext(d) = IF k = n THEN s[1] ELSE s[k + 1]
  <2>1. UpNext(d) = d.next[t]
    BY <1>1, UpNextIs
  <2> QED
    BY <1>2, <2>1, FollowerIs
<1>8. UpNext(e) = UpNext(d)
  <2>1. e.current = UpNext(d) /\ e.removed
    BY <1>5, <1>7 DEF RemovedAs
  <2>2. e.current # NULL
    BY <1>1, <1>4, <1>7, <2>1, NullAssumption
  <2> QED
    BY <1>6, <2>1, <2>2, UpNextIs
<1> DEFINE old(x) == IF x < k THEN x ELSE x + 1
<1>9. \A x \in 1..n - 1 : old(x) \in 1..n /\ r[x] = s[old(x)]
  BY <1>1, <1>3
<1>10. ASSUME NEW c \in 1..n - 1, NEW i \in 1..n - 1, NEW j \in 1..n - 1,
              r[c] = UpNext(e), r[j] \in S[r[i]]
       PROVE  After(c, i, j)
  <2>1. After(old(c), old(i), old(j))
    <3> HIDE DEF old
    <3> QED
      BY <1>8, <1>9, <1>10 DEF TurnsOwed
  <2> QED
    BY <1>1, <2>1 DEF After
<1> QED
  BY <1>3, <1>10 DEF TurnsOwed
(***************************************************************************)
(* A transfer asked for by a thread u takes the threads away beginning     *)
(* with the one after u, so that u is the last to go.                      *)
(***************************************************************************)
LEMMA AskerGoesLast ==
    ASSUME NEW d, NEW s, Pool(d, s), NEW u \in Members(s), UpNext(d) = d.next[u]
    PROVE  LET t == UpNext(d)
               e == rr_remove(rr_next(d), t)
               r == Drop(s, t)
           IN  /\ r = <<>> => t = u
               /\ r # <<>> => u \in Members(r) /\ UpNext(e) = e.next[u]
<1> DEFINE n == Len(s)
           t == UpNext(d)
           a == rr_next(d)
           e == rr_remove(a, t)
           r == Drop(s, t)
<1>1. /\ n \in Nat /\ s \in Seq(Thread) /\ Distinct(s) /\ s # <<>>
      /\ \A i \in 1..n : s[i] \in Members(s) /\ s[i] \in Thread
  BY MembersAreThreads DEF Pool, IsRing
<1>2. Pool(a, s) /\ t \in Members(s) /\ t \in Thread
  BY <1>1, NextInPool
<1>3. PICK p \in 1..n : s[p] = u
  BY DEF Members
<1>4. t = IF p = n THEN s[1] ELSE s[p + 1]
  BY <1>3, FollowerIs
<1> DEFINE k == IF p = n THEN 1 ELSE p + 1
<1>5. k \in 1..n /\ s[k] = t
  BY <1>1, <1>4
<1>6. /\ r = RemoveAt(s, k) /\ r \in Seq(Thread) /\ Len(r) = n - 1
      /\ \A x \in 1..n - 1 : r[x] = IF x < k THEN s[x] ELSE s[x + 1]
  <2>1. r = RemoveAt(s, k)
    BY <1>1, <1>2, <1>5, DropIs
  <2> HIDE DEF r, k
  <2> QED
    BY <1>1, <1>5, <2>1, RemoveAtPlaces
<1>7. Pool(e, r) /\ Members(r) = Members(s) \ {t}
  BY <1>2, RemoveFromPool
<1>8. r = <<>> => t = u
  <2>1. SUFFICES ASSUME r = <<>> PROVE t = u
    OBVIOUS
  <2>2. Members(r) = {}
    BY <1>6, <2>1, MembersAreThreads
  <2> QED
    BY <1>7, <2>2
<1>9. ASSUME r # <<>> PROVE u \in Members(r) /\ UpNext(e) = e.next[u]
  <2>1. n > 1
    <3>1. Len(r) # 0
      BY <1>6, <1>9, EmptySeq
    <3> QED
      BY <1>1, <1>3, <1>6, <3>1
  <2>2. k # p /\ u # t
    BY <1>1, <1>3, <1>5, <2>1 DEF Distinct
  <2>3. RemovedAs(a, s, k, e)
    <3> HIDE DEF k
    <3> QED
      BY <1>1, <1>2, <1>5, <2>1, RemoveCases DEF Pool
  <2>4. UpNext(e) = IF k = n THEN s[1] ELSE s[k + 1]
    <3>1. e.current \in Thread /\ e.removed /\ e.current = IF k = n THEN s[1] ELSE s[k + 1]
      BY <1>1, <1>5, <2>1, <2>3 DEF RemovedAs
    <3>2. e.current # NULL
      BY <3>1, NullAssumption
    <3> QED
      BY <1>7, <1>9, <3>1, <3>2, UpNextIs
  <2> DEFINE q == IF p < k THEN p ELSE p - 1
  <2>5. q \in 1..Len(r) /\ r[q] = u
    BY <1>1, <1>3, <1>6, <2>1, <2>2
  <2>6. e.next[u] = IF q = Len(r) THEN r[1] ELSE r[q + 1]
    <3> HIDE DEF q, r, e
    <3> QED
      BY <1>7, <2>5, FollowerIs
  <2>7. (IF k = n THEN s[1] ELSE s[k + 1]) = (IF q = Len(r) THEN r[1] ELSE r[q + 1])
    <3>1. CASE p = n
      <4>1. k = 1 /\ q = n - 1 /\ Len(r) = n - 1 /\ k # n
        BY <1>1, <1>6, <2>1, <3>1
      <4>2. r[1] = s[2]
        BY <1>1, <1>6, <2>1, <4>1
      <4> QED
        BY <4>1, <4>2
    <3>2. CASE p # n
      <4>1. k = p + 1 /\ q = p /\ Len(r) = n - 1
        BY <1>1, <1>3, <1>6, <3>2
      <4>2. CASE p + 1 = n
        <5>1. r[1] = s[1]
          BY <1>1, <1>6, <2>1, <4>1, <4>2
        <5> QED
          BY <1>1, <4>1, <4>2, <5>1
      <4>3. CASE p + 1 # n
        <5>1. p + 1 \in 1..n - 1 /\ ~(p + 1 < k)
          BY <1>1, <1>3, <3>2, <4>1, <4>3
        <5>2. r[p + 1] = s[p + 2]
          BY <1>1, <1>6, <5>1
        <5> QED
          BY <1>1, <1>3, <4>1, <4>3, <5>2
      <4> QED
        BY <4>2, <4>3
    <3> QED
      BY <3>1, <3>2
  <2> QED
    BY <1>3, <1>7, <2>2, <2>4, <2>6, <2>7
<1> QED
  BY <1>8, <1>9

-----------------------------------------------------------------------------
(***************************************************************************)
(* The inductive invariant.                                                *)
(*                                                                         *)
(* The threads that exist are the library's list, and are shared out       *)
(* between the two pools.  The installed scheduler has all of them until a *)
(* transfer to the other one begins.                                       *)
(***************************************************************************)
Installed == IF sched = "rr" THEN Members(ring) ELSE alt

ListHoldsHeap == IsRing(lib, threads) /\ Members(threads) = heap

PoolsHoldHeap ==
    /\ Pool(rr, ring)
    /\ Members(ring) \cap alt = {}
    /\ Members(ring) \cup alt = heap
    /\ xfer \in {"none", sched} => heap = Installed

(***************************************************************************)
(* Whoever runs is alive and, between calls, the library's and the round   *)
(* robin's current thread.  If it has asked for a transfer to the client's *)
(* scheduler, it is the last to be moved, so that it is current again when *)
(* the call returns.                                                       *)
(***************************************************************************)
RunnerHeld ==
    cpu # Main =>
        /\ cpu \in heap
        /\ xfer = "none" => current = cpu
        /\ xfer = "none" /\ sched = "rr" => rr.current = cpu /\ ~rr.removed
        /\ xfer # "none" => sched = "rr"
        /\ xfer = "alt" /\ ring = <<>> => current = cpu
        /\ xfer = "alt" /\ ring # <<>> => cpu \in Members(ring) /\ UpNext(rr) = rr.next[cpu]

(***************************************************************************)
(* Ids are not given out twice.                                            *)
(***************************************************************************)
TidsDiffer ==
    /\ \A t \in heap : tid[t] \in 1..thread_count - 1
    /\ \A t, u \in heap : tid[t] = tid[u] => t = u

(***************************************************************************)
(* The history of turns is about threads of the round robin, and is in the *)
(* order of its list.                                                      *)
(***************************************************************************)
TurnsHeld ==
    /\ \A t \in Thread : since[t] \subseteq heap /\ (since[t] # {} => t \in Members(ring))
    /\ TurnsOwed(rr, ring, since)

IInv ==
    /\ LWPTypeOK /\ ~crashed
    /\ ListHoldsHeap
    /\ PoolsHoldHeap
    /\ ContextsIntact
    /\ RunnerHeld
    /\ TidsDiffer
    /\ TurnsHeld

Resumable(c) == [owner |-> c, fresh |-> TRUE]

(***************************************************************************)
(* The facts about threads, contexts and the constants that every step     *)
(* needs.                                                                  *)
(***************************************************************************)
LEMMA Basics ==
    ASSUME IInv
    PROVE  /\ heap \subseteq Thread /\ Main \notin Thread /\ Main # NULL /\ NULL \notin Thread
           /\ cpu \in Context /\ (cpu # Main <=> cpu \in Thread) /\ cpu # NULL
           /\ ring \in Seq(Thread) /\ Members(ring) \subseteq heap /\ alt \subseteq heap
           /\ ring = <<>> <=> Members(ring) = {}
           /\ \A c \in heap \cup {Main} : c # cpu => regs[c] = Resumable(c)
<1>1. /\ heap \subseteq Thread /\ Main \notin Thread /\ Main # NULL /\ NULL \notin Thread
      /\ cpu \in Context
  BY LWPAssumption, NullAssumption DEF IInv, LWPTypeOK
<1>2. (cpu # Main <=> cpu \in Thread) /\ cpu # NULL
  BY <1>1 DEF Context
<1>3. ring \in Seq(Thread) /\ Members(ring) \subseteq heap /\ alt \subseteq heap
  BY DEF IInv, PoolsHoldHeap, Pool
<1>4. ring = <<>> <=> Members(ring) = {}
  BY <1>3, MembersAreThreads
<1>5. \A c \in heap \cup {Main} : c # cpu => regs[c] = Resumable(c)
  BY DEF IInv, ContextsIntact, Resumable
<1> QED
  BY <1>1, <1>2, <1>3, <1>4, <1>5

(***************************************************************************)
(* swap_rfiles on contexts that are intact: the owner of the context that  *)
(* is loaded runs, and everybody else can be resumed.                      *)
(***************************************************************************)
LEMMA SwapRuns ==
    ASSUME regs \in [Context -> [owner : Context, fresh : BOOLEAN]],
           cpu \in Context, cpu # NULL,
           NEW save \in {NULL, cpu}, NEW load \in Context,
           load # cpu => regs[load] = Resumable(load),
           save = NULL => load # cpu,
           swap_rfiles(save, load)
    PROVE  /\ cpu' = load
           /\ regs' \in [Context -> [owner : Context, fresh : BOOLEAN]]
           /\ \A c \in Context :
                 c # load /\ ((c # cpu /\ regs[c] = Resumable(c)) \/ (c = cpu /\ save = cpu))
                    => regs'[c] = Resumable(c)
<1> DEFINE saved == IF save = NULL THEN regs
                    ELSE [regs EXCEPT ![save] = [owner |-> cpu, fresh |-> TRUE]]
           runs == saved[load].owner
<1>1. cpu' = runs
  BY DEF swap_rfiles
<1>2. regs' = [c \in Context |->
                 IF saved[c].owner = runs THEN [saved[c] EXCEPT !.fresh = FALSE] ELSE saved[c]]
  BY DEF swap_rfiles
<1>3. saved \in [Context -> [owner : Context, fresh : BOOLEAN]]
  <2>1. CASE save = NULL
    BY <2>1
  <2>2. CASE save = cpu
    BY <2>2
  <2> QED
    BY <2>1, <2>2
<1>4. runs = load
  <2>1. CASE save = NULL
    BY <2>1 DEF Resumable
  <2>2. CASE save = cpu
    <3>1. CASE load = cpu
      BY <2>2, <3>1
    <3>2. CASE load # cpu
      BY <2>2, <3>2 DEF Resumable
    <3> QED
      BY <3>1, <3>2
  <2> QED
    BY <2>1, <2>2
<1>5. ASSUME NEW c \in Context, c # load,
             (c # cpu /\ regs[c] = Resumable(c)) \/ (c = cpu /\ save = cpu)
      PROVE  saved[c] = Resumable(c)
  <2>1. CASE c = cpu
    BY <1>5, <2>1 DEF Resumable
  <2>2. CASE c # cpu
    BY <1>5, <2>2
  <2> QED
    BY <2>1, <2>2
<1> HIDE DEF saved, runs
<1>6. regs' \in [Context -> [owner : Context, fresh : BOOLEAN]]
  <2>1. ASSUME NEW x \in [owner : Context, fresh : BOOLEAN]
        PROVE  [x EXCEPT !.fresh = FALSE] \in [owner : Context, fresh : BOOLEAN]
    OBVIOUS
  <2>2. \A c \in Context : saved[c] \in [owner : Context, fresh : BOOLEAN]
    BY <1>3
  <2> QED
    BY <1>2, <2>1, <2>2
<1>7. ASSUME NEW c \in Context, c # load, saved[c] = Resumable(c)
      PROVE  regs'[c] = Resumable(c)
  BY <1>2, <1>4, <1>7 DEF Resumable
<1> QED
  BY <1>1, <1>4, <1>5, <1>6, <1>7

(***************************************************************************)
(* next() on a pool that has everybody.                                    *)
(***************************************************************************)
LEMMA NextPicks ==
    ASSUME IInv, xfer = "none", NEW n \in Link, SchedNext(n)
    PROVE  /\ Pool(rr', ring') /\ ring' = ring /\ alt' = alt
           /\ heap = {} => n = NULL
           /\ heap # {} => n \in heap /\ n # NULL
           /\ sched = "rr" /\ n # NULL =>
                /\ ring # <<>> /\ heap = Members(ring)
                /\ n = UpNext(rr) /\ rr' = rr_next(rr)
                /\ rr'.current = n /\ ~rr'.removed
<1>1. Pool(rr, ring) /\ heap = Installed /\ heap \subseteq Thread /\ NULL \notin Thread
      /\ (ring = <<>> <=> Members(ring) = {})
  BY Basics DEF IInv, PoolsHoldHeap
<1>2. CASE sched = "rr"
  <2>1. n = RRReturns(rr) /\ rr' = rr_next(rr) /\ ring' = ring /\ alt' = alt
    BY <1>2 DEF SchedNext
  <2>2. /\ Pool(rr_next(rr), ring)
        /\ ring = <<>> => RRReturns(rr) = NULL
        /\ ring # <<>> => /\ RRReturns(rr) = UpNext(rr)
                          /\ UpNext(rr) \in Members(ring)
                          /\ UpNext(rr) \in Thread
                          /\ rr_next(rr).current = UpNext(rr)
                          /\ ~rr_next(rr).removed
    BY <1>1, NextInPool
  <2>3. heap = Members(ring)
    BY <1>1, <1>2 DEF Installed
  <2> QED
    BY <1>1, <2>1, <2>2, <2>3
<1>3. CASE sched = "alt"
  <2>1. n \in AltReturns(alt) /\ rr' = rr /\ ring' = ring /\ alt' = alt
    BY <1>3 DEF SchedNext
  <2>2. heap = alt
    BY <1>1, <1>3 DEF Installed
  <2> QED
    BY <1>1, <1>3, <2>1, <2>2 DEF AltReturns
<1> QED
  BY <1>2, <1>3 DEF IInv, LWPTypeOK

(***************************************************************************)
(* remove() of the running thread and next(): the thread picked is another *)
(* one that is alive, and the pool has everybody but the one that exits.   *)
(***************************************************************************)
LEMMA RemoveThenNextPicks ==
    ASSUME IInv, xfer = "none", cpu \in Thread, NEW n \in Link,
           SchedRemoveThenNext(cpu, n)
    PROVE  LET left == heap \ {cpu}
           IN  /\ Pool(rr', ring')
               /\ Members(ring') \cap alt' = {} /\ Members(ring') \cup alt' = left
               /\ left = IF sched = "rr" THEN Members(ring') ELSE alt'
               /\ left = {} => n = NULL
               /\ left # {} => n \in left /\ n # NULL
               /\ sched = "rr" /\ n # NULL =>
                    LET d == rr_remove(rr, cpu)
                    IN  /\ Pool(d, ring') /\ ring' # <<>> /\ ring' = Drop(ring, cpu)
                        /\ cpu \in Members(ring) /\ cpu = rr.current /\ ~rr.removed
                        /\ n = UpNext(d) /\ rr' = rr_next(d)
                        /\ rr'.current = n /\ ~rr'.removed
<1> DEFINE left == heap \ {cpu}
           d == rr_remove(rr, cpu)
<1>1. /\ Pool(rr, ring) /\ heap = Installed /\ heap \subseteq Thread /\ NULL \notin Thread
      /\ Members(ring) \cap alt = {} /\ Members(ring) \cup alt = heap
      /\ cpu \in heap
      /\ sched = "rr" => rr.current = cpu /\ ~rr.removed
  BY Basics DEF IInv, PoolsHoldHeap, RunnerHeld
<1>2. CASE sched = "rr"
  <2>1. n = RRReturns(d) /\ rr' = rr_next(d) /\ ring' = Drop(ring, cpu) /\ alt' = alt
    BY <1>2 DEF SchedRemoveThenNext
  <2>2. heap = Members(ring) /\ alt = {}
    BY <1>1, <1>2 DEF Installed
  <2>3. Pool(d, ring') /\ Members(ring') = left
    BY <1>1, <2>1, <2>2, RemoveFromPool
  <2>4. /\ Pool(rr', ring')
        /\ ring' = <<>> => n = NULL
        /\ ring' # <<>> => /\ n = UpNext(d) /\ n \in Members(ring') /\ n \in Thread
                           /\ rr'.current = n /\ ~rr'.removed
    BY <2>1, <2>3, NextInPool
  <2>5. ring' = <<>> <=> Members(ring') = {}
    BY <2>3, MembersAreThreads DEF Pool
  <2> HIDE DEF d
  <2> QED
    BY <1>1, <1>2, <2>1, <2>2, <2>3, <2>4, <2>5 DEF d
<1>3. CASE sched = "alt"
  <2>1. n \in AltReturns(alt \ {cpu}) /\ rr' = rr /\ ring' = ring /\ alt' = alt \ {cpu}
    BY <1>3 DEF SchedRemoveThenNext
  <2>2. heap = alt /\ Members(ring) = {}
    BY <1>1, <1>3 DEF Installed
  <2> HIDE DEF d
  <2> QED
    BY <1>1, <1>3, <2>1, <2>2 DEF AltReturns
<1> QED
  BY <1>2, <1>3 DEF IInv, LWPTypeOK

(***************************************************************************)
(* The history after a turn: of those present.                             *)
(***************************************************************************)
LEMMA TurnFacts ==
    ASSUME NEW n, NEW P \in SUBSET Thread, Turn(n, P)
    PROVE  /\ since' \in [Thread -> SUBSET Thread]
           /\ \A t \in Thread : since'[t] \subseteq P
           /\ \A t \in Thread : since'[t] \subseteq since[t] \cup {n}
           /\ \A t \in Thread : since'[t] # {} => sched = "rr" /\ t \in P /\ t # n
BY DEF Turn

\* A call of next() hands out the turn that is owed longest.
LEMMA TurnsHeldAfterNext ==
    ASSUME IInv, xfer = "none", NEW n \in Link, SchedNext(n), Turn(n, heap), heap' = heap
    PROVE  TurnsHeld' /\ since' \in [Thread -> SUBSET Thread]
<1>1. /\ Pool(rr, ring) /\ heap = Installed /\ heap \subseteq Thread
      /\ Members(ring) \subseteq heap /\ TurnsOwed(rr, ring, since)
  BY Basics DEF IInv, PoolsHoldHeap, TurnsHeld
<1>2. /\ since' \in [Thread -> SUBSET Thread]
      /\ \A t \in Thread : since'[t] \subseteq heap
      /\ \A t \in Thread : since'[t] \subseteq since[t] \cup {n}
      /\ \A t \in Thread : since'[t] # {} => sched = "rr" /\ t \in heap /\ t # n
  BY <1>1, TurnFacts
<1>3. /\ ring' = ring
      /\ heap = {} => n = NULL
      /\ heap # {} => n \in heap /\ n # NULL
      /\ sched = "rr" /\ n # NULL => ring # <<>> /\ heap = Members(ring)
                                      /\ n = UpNext(rr) /\ rr' = rr_next(rr)
  BY NextPicks
<1>4. CASE sched = "rr" /\ n # NULL
  <2>1. since'[n] = {} /\ n \in Thread
    BY <1>1, <1>2, <1>3, <1>4
  <2>2. TurnsOwed(rr', ring', since')
    BY <1>1, <1>2, <1>3, <1>4, <2>1, TurnKeepsOrder
  <2> QED
    BY <1>2, <1>3, <1>4, <2>2 DEF TurnsHeld
<1>5. CASE ~(sched = "rr" /\ n # NULL)
  <2>1. \A t \in Thread : since'[t] = {}
    BY <1>2, <1>3, <1>5
  <2>2. \A i \in 1..Len(ring') : ring'[i] \in Thread
    BY <1>1, <1>3, MembersAreThreads DEF Pool
  <2> QED
    BY <1>2, <2>1, <2>2 DEF TurnsHeld, TurnsOwed
<1> QED
  BY <1>4, <1>5

\* So does the one in lwp_exit, after the thread that ends was removed.
LEMMA TurnsHeldAfterExit ==
    ASSUME IInv, xfer = "none", cpu \in Thread, NEW n \in Link,
           SchedRemoveThenNext(cpu, n), Turn(n, heap \ {cpu}), heap' = heap \ {cpu}
    PROVE  TurnsHeld' /\ since' \in [Thread -> SUBSET Thread]
<1> DEFINE d == rr_remove(rr, cpu)
           left == heap \ {cpu}
<1>1. /\ Pool(rr, ring) /\ left \subseteq Thread /\ NULL \notin Thread
      /\ TurnsOwed(rr, ring, since)
  BY Basics DEF IInv, PoolsHoldHeap, TurnsHeld
<1>2. /\ since' \in [Thread -> SUBSET Thread]
      /\ \A t \in Thread : since'[t] \subseteq left
      /\ \A t \in Thread : since'[t] \subseteq since[t] \cup {n}
      /\ \A t \in Thread : since'[t] # {} => sched = "rr" /\ t \in left /\ t # n
  BY <1>1, TurnFacts
<1>3. /\ Pool(rr', ring')
      /\ sched = "rr" => left = Members(ring')
      /\ left = {} => n = NULL
      /\ left # {} => n \in left /\ n # NULL
      /\ sched = "rr" /\ n # NULL =>
            /\ Pool(d, ring') /\ ring' # <<>> /\ ring' = Drop(ring, cpu)
            /\ cpu \in Members(ring) /\ cpu = rr.current /\ ~rr.removed
            /\ n = UpNext(d) /\ rr' = rr_next(d)
  <2> HIDE DEF d
  <2> QED
    BY RemoveThenNextPicks DEF d
<1> HIDE DEF d
<1>4. CASE sched = "rr" /\ n # NULL
  <2>1. since'[n] = {} /\ Members(ring') = left
    BY <1>1, <1>2, <1>3, <1>4
  <2>2. TurnsOwed(d, ring', since)
    BY <1>1, <1>3, <1>4, ExitKeepsOrder DEF d
  <2>3. TurnsOwed(rr', ring', since')
    BY <1>1, <1>2, <1>3, <1>4, <2>1, <2>2, TurnKeepsOrder
  <2> QED
    BY <1>2, <1>4, <2>1, <2>3 DEF TurnsHeld
<1>5. CASE ~(sched = "rr" /\ n # NULL)
  <2>1. \A t \in Thread : since'[t] = {}
    BY <1>2, <1>3, <1>5
  <2>2. \A i \in 1..Len(ring') : ring'[i] \in Thread
    BY <1>3, MembersAreThreads DEF Pool
  <2> QED
    BY <1>2, <2>1, <2>2 DEF TurnsHeld, TurnsOwed
<1> QED
  BY <1>4, <1>5

-----------------------------------------------------------------------------
(***************************************************************************)
(* The invariant holds at the start and each call of the library keeps it. *)
(***************************************************************************)
LEMMA LWPInit == Init => IInv
<1> SUFFICES ASSUME Init PROVE IInv
  OBVIOUS
<1>1. rr \in RRState /\ ring = <<>> /\ ring \in Seq(Thread) /\ RRTypeOK /\ RingOK
  BY InitRing DEF Init, RRInit, RRTypeOK
<1>2. Len(ring) = 0 /\ Members(ring) = {}
  BY <1>1, MembersAreThreads
<1>3. Pool(rr, ring)
  BY <1>1 DEF Pool, RRTypeOK, RingOK
<1>4. LWPTypeOK /\ ~crashed
  <2>1. lib \in LibState
    BY DEF Init, LibState, Link
  <2>2. regs \in [Context -> [owner : Context, fresh : BOOLEAN]]
    BY DEF Init
  <2>3. MaxTid \in Nat /\ 1 \in 1..MaxTid + 1 /\ 0 \in 0..MaxTid
    BY LWPAssumption
  <2>4. tid \in [Thread -> 0..MaxTid] /\ since \in [Thread -> SUBSET Thread]
    BY <2>3 DEF Init
  <2> QED
    BY <1>1, <2>1, <2>2, <2>3, <2>4 DEF Init, LWPTypeOK, Link, Context
<1>5. ListHoldsHeap
  BY <1>2, <1>1 DEF Init, ListHoldsHeap, IsRing, Distinct, EndsAre, LinksAre
<1>6. PoolsHoldHeap
  BY <1>2, <1>3 DEF Init, PoolsHoldHeap, Installed
<1>7. ContextsIntact /\ RunnerHeld /\ TidsDiffer
  BY DEF Init, ContextsIntact, RunnerHeld, TidsDiffer
<1>8. TurnsHeld
  BY <1>2 DEF Init, TurnsHeld, TurnsOwed
<1> QED
  BY <1>4, <1>5, <1>6, <1>7, <1>8 DEF IInv

\* lwp_create: an address that is free again is linked once, with a new tid.
LEMMA CreateKeeps ==
    ASSUME IInv, lwp_create
    PROVE  IInv'
<1>1. /\ xfer = "none" /\ ~crashed /\ thread_count <= MaxTid
      /\ sched' = sched /\ cpu' = cpu /\ xfer' = xfer /\ crashed' = crashed
      /\ thread_count' = thread_count + 1
  BY DEF lwp_create, Idle
<1>2. PICK new \in Thread \ heap :
         /\ heap' = heap \cup {new}
         /\ tid' = [tid EXCEPT ![new] = thread_count]
         /\ regs' = [regs EXCEPT ![new] = [owner |-> new, fresh |-> TRUE]]
         /\ SchedAdmit(new)
         /\ lib' = lt_append(lib, new)
         /\ threads' = Append(threads, new)
         /\ current' = IF lib.head = NULL THEN new ELSE current
         /\ since' = [since EXCEPT ![new] = {}]
  BY DEF lwp_create
<1>3. /\ heap \subseteq Thread /\ Main \notin Thread /\ NULL \notin Thread
      /\ cpu \in Context /\ (cpu # Main <=> cpu \in Thread) /\ new # Main
      /\ ring \in Seq(Thread) /\ Members(ring) \subseteq heap /\ alt \subseteq heap
      /\ ring = <<>> <=> Members(ring) = {}
      /\ \A c \in heap \cup {Main} : c # cpu => regs[c] = Resumable(c)
  BY Basics
<1>4. /\ LWPTypeOK /\ RunnerHeld /\ TidsDiffer /\ TurnsHeld
      /\ threads \in Seq(Thread) /\ IsRing(lib, threads) /\ Members(threads) = heap
      /\ Pool(rr, ring) /\ Members(ring) \cap alt = {} /\ Members(ring) \cup alt = heap
      /\ heap = Installed
  BY <1>1 DEF IInv, LWPTypeOK, ListHoldsHeap, PoolsHoldHeap
<1>5. ListHoldsHeap' /\ lib' \in LibState /\ threads' \in Seq(Thread)
  <2>1. /\ lt_append(lib, new) \in LibState
        /\ IsRing(lt_append(lib, new), Append(threads, new))
        /\ Members(Append(threads, new)) = Members(threads) \cup {new}
    BY <1>4, AppendToList DEF LWPTypeOK
  <2>2. Append(threads, new) \in Seq(Thread)
    BY <1>4, AppendProperties
  <2> QED
    BY <1>2, <1>4, <2>1, <2>2 DEF ListHoldsHeap
<1>6. /\ Pool(rr', ring') /\ alt' \subseteq Thread
      /\ Members(ring') \cap alt' = {} /\ Members(ring') \cup alt' = heap'
      /\ heap' = Installed'
      /\ rr'.current = rr.current /\ rr'.removed = rr.removed
      /\ Members(ring) \subseteq Members(ring')
  <2>1. CASE sched = "rr"
    <3>1. rr' = rr_admit(rr, new) /\ ring' = Append(ring, new) /\ alt' = alt
      BY <1>2, <2>1 DEF SchedAdmit
    <3>2. /\ Pool(rr', ring') /\ Members(ring') = Members(ring) \cup {new}
          /\ rr'.current = rr.current /\ rr'.removed = rr.removed
      BY <1>3, <1>4, <3>1, AdmitToPool
    <3> QED
      BY <1>1, <1>2, <1>3, <1>4, <2>1, <3>1, <3>2 DEF Installed
  <2>2. CASE sched = "alt"
    <3>1. rr' = rr /\ ring' = ring /\ alt' = alt \cup {new}
      BY <1>2, <2>2 DEF SchedAdmit
    <3> QED
      BY <1>1, <1>2, <1>3, <1>4, <2>2, <3>1 DEF Installed
  <2> QED
    BY <1>4, <2>1, <2>2 DEF LWPTypeOK
<1>7. PoolsHoldHeap'
  BY <1>6 DEF PoolsHoldHeap
<1>8. ContextsIntact'
  <2>1. regs \in [Context -> [owner : Context, fresh : BOOLEAN]]
    BY <1>4 DEF LWPTypeOK
  <2>2. ASSUME NEW c \in (heap \cup {new} \cup {Main}) \ {cpu}
        PROVE  regs'[c] = Resumable(c)
    <3>1. CASE c = new
      BY <1>2, <2>1, <3>1 DEF Resumable, Context
    <3>2. CASE c # new
      <4>1. regs'[c] = regs[c]
        BY <1>2, <1>3, <2>1, <3>2
      <4> QED
        BY <1>3, <3>2, <4>1
    <3> QED
      BY <3>1, <3>2
  <2> QED
    BY <1>1, <1>2, <2>2 DEF ContextsIntact, Resumable
<1>9. RunnerHeld'
  <2>1. SUFFICES ASSUME cpu # Main
                 PROVE  /\ cpu \in heap' /\ current' = cpu
                        /\ sched = "rr" => rr'.current = cpu /\ ~rr'.removed
    BY <1>1 DEF RunnerHeld
  <2>2. cpu \in heap /\ current = cpu /\ (sched = "rr" => rr.current = cpu /\ ~rr.removed)
    BY <1>1, <1>4, <2>1 DEF RunnerHeld
  <2>3. lib.head # NULL
    <3>1. threads # <<>>
      BY <1>4, <2>2, MembersAreThreads
    <3>2. 1 \in 1..Len(threads)
      BY <1>4, <3>1, MembersAreThreads
    <3> QED
      BY <1>3, <1>4, <3>1, <3>2, MembersAreThreads DEF IsRing, EndsAre
  <2> QED
    BY <1>2, <1>6, <2>2, <2>3
<1>10. TidsDiffer' /\ tid' \in [Thread -> 0..MaxTid] /\ thread_count' \in 1..MaxTid + 1
  <2>1. MaxTid \in Nat /\ thread_count \in 1..MaxTid + 1 /\ tid \in [Thread -> 0..MaxTid]
    BY <1>4, LWPAssumption DEF LWPTypeOK
  <2>2. thread_count \in 0..MaxTid /\ thread_count + 1 \in 1..MaxTid + 1
    BY <1>1, <2>1
  <2>3. \A t \in heap : tid[t] \in 1..thread_count - 1 /\ tid'[t] = tid[t]
    BY <1>2, <1>3, <1>4, <2>1 DEF TidsDiffer
  <2>4. tid'[new] = thread_count
    BY <1>2, <2>1
  <2>5. \A t \in heap : tid[t] \in 1..(thread_count + 1) - 1 /\ tid[t] # thread_count
    BY <2>1, <2>3
  <2>6. thread_count \in 1..(thread_count + 1) - 1
    BY <2>1
  <2>7. TidsDiffer'
    BY <1>1, <1>2, <1>4, <2>3, <2>4, <2>5, <2>6 DEF TidsDiffer
  <2> QED
    BY <1>1, <1>2, <2>1, <2>2, <2>7
<1>11. TurnsHeld' /\ since' \in [Thread -> SUBSET Thread]
  <2>1. since \in [Thread -> SUBSET Thread] /\ TurnsOwed(rr, ring, since)
    BY <1>4 DEF LWPTypeOK, TurnsHeld
  <2>2. /\ since'[new] = {}
        /\ \A t \in Thread : t # new => since'[t] = since[t]
        /\ since' \in [Thread -> SUBSET Thread]
    BY <1>2, <2>1
  <2>3. \A t \in Thread : since'[t] \subseteq heap' /\ (since'[t] # {} => t \in Members(ring'))
    BY <1>2, <1>4, <1>6, <2>2 DEF TurnsHeld
  <2>4. TurnsOwed(rr', ring', since')
    <3>1. CASE sched = "rr"
      <4>1. rr' = rr_admit(rr, new) /\ ring' = Append(ring, new) /\ heap = Members(ring)
        BY <1>2, <1>4, <3>1 DEF SchedAdmit, Installed
      <4>2. \A u \in Members(ring) : since'[u] = since[u] /\ since[u] \subseteq Members(ring)
        BY <1>2, <1>3, <1>4, <2>2, <4>1 DEF TurnsHeld
      <4>3. new \in Thread /\ new \notin Members(ring)
        BY <1>3
      <4> QED
        BY <1>4, <2>1, <2>2, <4>1, <4>2, <4>3, AdmitKeepsOrder
    <3>2. CASE sched = "alt"
      <4>1. ring' = ring /\ Members(ring) = {}
        BY <1>2, <1>4, <3>2 DEF SchedAdmit, Installed
      <4>2. Len(ring') = 0
        BY <1>3, <4>1, MembersAreThreads
      <4> QED
        BY <4>2 DEF TurnsOwed
    <3> QED
      BY <1>4, <3>1, <3>2 DEF LWPTypeOK
  <2> QED
    BY <2>2, <2>3, <2>4 DEF TurnsHeld
<1>12. LWPTypeOK' /\ ~crashed'
  <2>1. regs' \in [Context -> [owner : Context, fresh : BOOLEAN]]
    <3>1. [owner |-> new, fresh |-> TRUE] \in [owner : Context, fresh : BOOLEAN]
      BY DEF Context
    <3> QED
      BY <1>2, <1>4, <3>1 DEF LWPTypeOK
  <2>2. current' \in Link /\ heap' \in SUBSET Thread
    BY <1>2, <1>4 DEF LWPTypeOK, Link
  <2>3. RRTypeOK'
    BY <1>6 DEF Pool, RRTypeOK
  <2> QED
    BY <1>1, <1>4, <1>5, <1>6, <1>10, <1>11, <2>1, <2>2, <2>3 DEF LWPTypeOK
<1> QED
  BY <1>5, <1>7, <1>8, <1>9, <1>10, <1>11, <1>12 DEF IInv

(***************************************************************************)
(* What lwp_start and lwp_yield leave alone, and what next() and the       *)
(* switch have to bring about for the invariant to hold again.             *)
(***************************************************************************)
LEMMA DispatchKeeps ==
    ASSUME IInv, Idle, UNCHANGED <<sched, xfer, crashed, listVars>>,
           NEW n \in Link, SchedNext(n), current' = n, Turn(n, heap),
           regs' \in [Context -> [owner : Context, fresh : BOOLEAN]],
           ContextsIntact',
           cpu' = IF n = NULL THEN Main ELSE n
    PROVE  IInv'
<1>1. /\ sched' = sched /\ xfer' = xfer /\ crashed' = crashed /\ lib' = lib
      /\ threads' = threads /\ tid' = tid /\ thread_count' = thread_count /\ heap' = heap
      /\ xfer = "none" /\ ~crashed
  BY DEF listVars, Idle
<1>2. /\ Pool(rr', ring') /\ ring' = ring /\ alt' = alt
      /\ heap = {} => n = NULL
      /\ heap # {} => n \in heap /\ n # NULL
      /\ sched = "rr" /\ n # NULL => rr'.current = n /\ ~rr'.removed
  BY <1>1, NextPicks
<1>3. /\ heap \subseteq Thread /\ Main \notin Thread /\ NULL \notin Thread
      /\ LWPTypeOK /\ ListHoldsHeap /\ PoolsHoldHeap /\ TidsDiffer
  BY Basics DEF IInv
<1>4. ListHoldsHeap' /\ TidsDiffer'
  BY <1>1, <1>3 DEF ListHoldsHeap, TidsDiffer
<1>5. PoolsHoldHeap'
  BY <1>1, <1>2, <1>3 DEF PoolsHoldHeap, Installed
<1>6. RunnerHeld'
  BY <1>1, <1>2, <1>3 DEF RunnerHeld
<1>7. TurnsHeld' /\ since' \in [Thread -> SUBSET Thread]
  BY <1>1, TurnsHeldAfterNext
<1>8. LWPTypeOK'
  <2>1. RRTypeOK'
    BY <1>2 DEF Pool, RRTypeOK
  <2>2. cpu' \in Context
    BY <1>2, <1>3 DEF Context
  <2> QED
    BY <1>1, <1>2, <1>3, <1>7, <2>1, <2>2 DEF LWPTypeOK
<1> QED
  BY <1>1, <1>4, <1>5, <1>6, <1>7, <1>8 DEF IInv

\* lwp_start: main's context is saved under main's name.
LEMMA StartKeeps ==
    ASSUME IInv, lwp_start
    PROVE  IInv'
<1>1. Idle /\ xfer = "none" /\ cpu = Main /\ UNCHANGED <<sched, xfer, crashed, listVars>>
  BY DEF lwp_start, Idle
<1>2. PICK n \in Link :
         /\ SchedNext(n)
         /\ current' = n
         /\ IF n = NULL THEN UNCHANGED <<regs, cpu>> ELSE swap_rfiles(Main, n)
         /\ Turn(n, heap)
  BY DEF lwp_start
<1>3. /\ heap \subseteq Thread /\ Main \notin Thread /\ Main # NULL /\ NULL \notin Thread
      /\ \A c \in heap : regs[c] = Resumable(c)
      /\ regs \in [Context -> [owner : Context, fresh : BOOLEAN]] /\ heap' = heap
      /\ Main \in Context /\ heap \subseteq Context
  BY <1>1, Basics DEF IInv, LWPTypeOK, listVars, Context
<1>4. (heap = {} => n = NULL) /\ (heap # {} => n \in heap /\ n # NULL)
  BY <1>1, <1>2, NextPicks
<1>5. /\ regs' \in [Context -> [owner : Context, fresh : BOOLEAN]]
      /\ ContextsIntact'
      /\ cpu' = IF n = NULL THEN Main ELSE n
  <2>1. CASE n = NULL
    <3>1. heap = {} /\ regs' = regs /\ cpu' = cpu
      BY <1>2, <1>4, <2>1
    <3> QED
      BY <1>1, <1>3, <2>1, <3>1 DEF ContextsIntact
  <2>2. CASE n # NULL
    <3>1. swap_rfiles(Main, n) /\ n \in heap /\ n # cpu
      BY <1>1, <1>2, <1>3, <1>4, <2>2
    <3>2. /\ cpu' = n
          /\ regs' \in [Context -> [owner : Context, fresh : BOOLEAN]]
          /\ \A c \in Context :
                c # n /\ ((c # cpu /\ regs[c] = Resumable(c)) \/ (c = cpu /\ Main = cpu))
                   => regs'[c] = Resumable(c)
      BY <1>1, <1>3, <3>1, SwapRuns
    <3>3. \A c \in (heap \cup {Main}) \ {n} : regs'[c] = Resumable(c)
      BY <1>1, <1>3, <3>2
    <3> QED
      BY <1>3, <2>2, <3>2, <3>3 DEF ContextsIntact, Resumable
  <2> QED
    BY <2>1, <2>2
<1> QED
  BY <1>1, <1>2, <1>5, DispatchKeeps

\* lwp_yield: the context of the thread that runs is saved under its own name.
LEMMA YieldKeeps ==
    ASSUME IInv, lwp_yield
    PROVE  IInv'
<1>1. Idle /\ xfer = "none" /\ cpu \in Thread /\ UNCHANGED <<sched, xfer, crashed, listVars>>
  BY DEF lwp_yield, Idle
<1>2. PICK n \in Link :
         /\ SchedNext(n)
         /\ current' = n
         /\ IF n = NULL THEN swap_rfiles(NULL, Main) ELSE swap_rfiles(current, n)
         /\ Turn(n, heap)
  BY DEF lwp_yield
<1>3. /\ heap \subseteq Thread /\ Main \notin Thread /\ Main # NULL /\ NULL \notin Thread
      /\ cpu # NULL /\ cpu \in Context
      /\ \A c \in heap \cup {Main} : c # cpu => regs[c] = Resumable(c)
      /\ regs \in [Context -> [owner : Context, fresh : BOOLEAN]] /\ heap' = heap
      /\ heap \cup {Main} \subseteq Context
      /\ current = cpu /\ cpu \in heap
  BY <1>1, Basics DEF IInv, LWPTypeOK, listVars, Context, RunnerHeld
<1>4. n \in heap /\ n # NULL
  BY <1>1, <1>2, <1>3, NextPicks
<1>5. swap_rfiles(cpu, n)
  BY <1>2, <1>3, <1>4
<1>6. /\ cpu' = n
      /\ regs' \in [Context -> [owner : Context, fresh : BOOLEAN]]
      /\ \A c \in Context :
            c # n /\ ((c # cpu /\ regs[c] = Resumable(c)) \/ (c = cpu /\ cpu = cpu))
               => regs'[c] = Resumable(c)
  <2>1. n \in Context /\ (n # cpu => regs[n] = Resumable(n))
    BY <1>3, <1>4
  <2> QED
    BY <1>3, <1>5, <2>1, SwapRuns
<1>7. \A c \in (heap \cup {Main}) \ {n} : regs'[c] = Resumable(c)
  BY <1>3, <1>6
<1>8. ContextsIntact'
  BY <1>3, <1>6, <1>7 DEF ContextsIntact, Resumable
<1> QED
  BY <1>1, <1>2, <1>4, <1>6, <1>8, DispatchKeeps

\* lwp_stop: as a yield, to main.
LEMMA StopKeeps ==
    ASSUME IInv, lwp_stop
    PROVE  IInv'
<1>1. /\ xfer = "none" /\ ~crashed /\ cpu \in Thread /\ swap_rfiles(current, Main)
      /\ rr' = rr /\ ring' = ring /\ sched' = sched /\ alt' = alt /\ current' = current
      /\ xfer' = xfer /\ crashed' = crashed /\ since' = since /\ lib' = lib
      /\ threads' = threads /\ tid' = tid /\ thread_count' = thread_count /\ heap' = heap
  BY DEF lwp_stop, Idle, listVars
<1>2. /\ heap \subseteq Thread /\ Main \notin Thread /\ cpu # Main /\ cpu # NULL
      /\ cpu \in Context
      /\ \A c \in heap \cup {Main} : c # cpu => regs[c] = Resumable(c)
      /\ regs \in [Context -> [owner : Context, fresh : BOOLEAN]]
      /\ heap \cup {Main} \subseteq Context /\ Main \in Context
      /\ current = cpu /\ cpu \in heap
  BY <1>1, Basics DEF IInv, LWPTypeOK, Context, RunnerHeld
<1>3. /\ cpu' = Main
      /\ regs' \in [Context -> [owner : Context, fresh : BOOLEAN]]
      /\ \A c \in Context :
            c # Main /\ ((c # cpu /\ regs[c] = Resumable(c)) \/ (c = cpu /\ cpu = cpu))
               => regs'[c] = Resumable(c)
  BY <1>1, <1>2, SwapRuns
<1>4. \A c \in (heap \cup {Main}) \ {Main} : regs'[c] = Resumable(c)
  BY <1>2, <1>3
<1>5. ContextsIntact'
  BY <1>1, <1>3, <1>4 DEF ContextsIntact, Resumable
<1>6. LWPTypeOK' /\ ~crashed'
  BY <1>1, <1>2, <1>3 DEF IInv, LWPTypeOK, RRTypeOK
<1>7. ListHoldsHeap' /\ PoolsHoldHeap' /\ TidsDiffer' /\ TurnsHeld'
  BY <1>1 DEF IInv, ListHoldsHeap, PoolsHoldHeap, Installed, TidsDiffer, TurnsHeld,
              TurnsOwed, UpNext
<1>8. RunnerHeld'
  BY <1>3 DEF RunnerHeld
<1> QED
  BY <1>5, <1>6, <1>7, <1>8 DEF IInv

\* lwp_exit: the thread leaves the library's list and its scheduler's pool at once.
LEMMA ExitKeeps ==
    ASSUME IInv, lwp_exit
    PROVE  IInv'
<1>1. /\ xfer = "none" /\ ~crashed /\ cpu \in Thread
      /\ sched' = sched /\ xfer' = xfer
  BY DEF lwp_exit, Idle
<1>2. /\ heap \subseteq Thread /\ Main \notin Thread /\ Main # NULL /\ NULL \notin Thread
      /\ cpu # Main /\ cpu # NULL /\ cpu \in Context
      /\ \A c \in heap \cup {Main} : c # cpu => regs[c] = Resumable(c)
      /\ regs \in [Context -> [owner : Context, fresh : BOOLEAN]]
      /\ heap \cup {Main} \subseteq Context
      /\ current = cpu /\ cpu \in heap
      /\ LWPTypeOK /\ TidsDiffer
      /\ threads \in Seq(Thread) /\ IsRing(lib, threads) /\ Members(threads) = heap
  BY <1>1, Basics DEF IInv, LWPTypeOK, Context, RunnerHeld, ListHoldsHeap
<1>3. ~(sched = "rr" /\ rr.head = NULL)
  <2>1. SUFFICES ASSUME sched = "rr" PROVE rr.head # NULL
    OBVIOUS
  <2>2. cpu \in Members(ring) /\ Pool(rr, ring)
    BY <1>1, <1>2, <2>1 DEF IInv, PoolsHoldHeap, Installed
  <2>3. ring \in Seq(Thread) /\ ring # <<>> /\ 1 \in 1..Len(ring)
    BY <2>2, MembersAreThreads DEF Pool
  <2> QED
    BY <1>2, <2>2, <2>3, MembersAreThreads DEF Pool, IsRing, EndsAre
<1>4. PICK n \in Link :
         /\ SchedRemoveThenNext(cpu, n)
         /\ current' = n
         /\ swap_rfiles(NULL, IF n = NULL THEN Main ELSE n)
         /\ Turn(n, heap \ {cpu})
  BY <1>2, <1>3 DEF lwp_exit
<1>5. /\ lib' = remove_lt_thread(lib, cpu) /\ threads' = Drop(threads, cpu)
      /\ heap' = heap \ {cpu} /\ tid' = tid /\ thread_count' = thread_count
      /\ crashed' = crashed
  BY <1>2, <1>3 DEF lwp_exit
<1>6. /\ Pool(rr', ring')
      /\ Members(ring') \cap alt' = {} /\ Members(ring') \cup alt' = heap'
      /\ heap' = IF sched = "rr" THEN Members(ring') ELSE alt'
      /\ heap' = {} => n = NULL
      /\ heap' # {} => n \in heap' /\ n # NULL
      /\ sched = "rr" /\ n # NULL => rr'.current = n /\ ~rr'.removed
  BY <1>1, <1>4, <1>5, RemoveThenNextPicks
<1>7. ListHoldsHeap' /\ lib' \in LibState /\ threads' \in Seq(Thread)
  <2>1. /\ remove_lt_thread(lib, cpu) \in LibState
        /\ IsRing(remove_lt_thread(lib, cpu), Drop(threads, cpu))
        /\ Members(Drop(threads, cpu)) = Members(threads) \ {cpu}
    BY <1>2, RemoveFromList DEF LWPTypeOK
  <2>2. Drop(threads, cpu) \in Seq(Thread)
    BY <1>1, <1>2, DropIs DEF IsRing
  <2> QED
    BY <1>2, <1>5, <2>1, <2>2 DEF ListHoldsHeap
<1>8. PoolsHoldHeap'
  BY <1>1, <1>6 DEF PoolsHoldHeap, Installed
<1> DEFINE to == IF n = NULL THEN Main ELSE n
<1>9. to \in Context /\ to # cpu /\ regs[to] = Resumable(to)
  BY <1>2, <1>5, <1>6
<1>10. /\ cpu' = to
       /\ regs' \in [Context -> [owner : Context, fresh : BOOLEAN]]
       /\ \A c \in Context :
             c # to /\ ((c # cpu /\ regs[c] = Resumable(c)) \/ (c = cpu /\ NULL = cpu))
                => regs'[c] = Resumable(c)
  <2>1. swap_rfiles(NULL, to)
    BY <1>4
  <2> HIDE DEF to
  <2> QED
    BY <1>2, <1>9, <2>1, SwapRuns
<1>11. ContextsIntact'
  <2>1. ASSUME NEW c \in (heap' \cup {Main}) \ {to} PROVE regs'[c] = Resumable(c)
    BY <1>2, <1>5, <1>10
  <2> QED
    BY <1>10, <2>1 DEF ContextsIntact, Resumable
<1>12. RunnerHeld'
  BY <1>1, <1>4, <1>6, <1>10 DEF RunnerHeld
<1>13. TidsDiffer'
  BY <1>2, <1>5 DEF TidsDiffer
<1>14. TurnsHeld' /\ since' \in [Thread -> SUBSET Thread]
  BY <1>1, <1>4, <1>5, TurnsHeldAfterExit
<1>15. LWPTypeOK' /\ ~crashed'
  <2>1. RRTypeOK' /\ alt' \in SUBSET Thread /\ heap' \in SUBSET Thread
    BY <1>2, <1>5, <1>6 DEF Pool, RRTypeOK
  <2>2. sched' \in {"rr", "alt"} /\ current' \in Link /\ tid' \in [Thread -> 0..MaxTid]
        /\ thread_count' \in 1..MaxTid + 1 /\ xfer' \in {"none", "rr", "alt"}
        /\ crashed' \in BOOLEAN /\ ~crashed'
    BY <1>1, <1>2, <1>4, <1>5 DEF LWPTypeOK
  <2> QED
    BY <1>7, <1>9, <1>10, <1>14, <2>1, <2>2 DEF LWPTypeOK
<1> QED
  BY <1>7, <1>8, <1>11, <1>12, <1>13, <1>14, <1>15 DEF IInv

(***************************************************************************)
(* A transfer begins: by main, or by a thread the round robin runs.        *)
(***************************************************************************)
LEMMA SetSchedulerKeeps ==
    ASSUME CarefulClient, IInv, lwp_set_scheduler
    PROVE  IInv'
<1>1. /\ xfer = "none" /\ ~crashed
      /\ rr' = rr /\ ring' = ring /\ sched' = sched /\ alt' = alt /\ current' = current
      /\ regs' = regs /\ cpu' = cpu /\ crashed' = crashed /\ since' = since /\ lib' = lib
      /\ threads' = threads /\ tid' = tid /\ thread_count' = thread_count /\ heap' = heap
      /\ xfer' \in Schedulers
      /\ (cpu # Main /\ sched = "alt") => "liveFromAlt" \in Careless
  BY DEF lwp_set_scheduler, Idle, listVars
<1>2. xfer' \in {"rr", "alt"} /\ (cpu # Main => sched = "rr")
  BY <1>1, LWPAssumption DEF CarefulClient, IInv, LWPTypeOK
<1>3. LWPTypeOK' /\ ~crashed'
  BY <1>1, <1>2 DEF IInv, LWPTypeOK, RRTypeOK
<1>4. ListHoldsHeap' /\ TidsDiffer' /\ ContextsIntact' /\ TurnsHeld'
  BY <1>1 DEF IInv, ListHoldsHeap, TidsDiffer, ContextsIntact, TurnsHeld, TurnsOwed, UpNext
<1>5. PoolsHoldHeap'
  BY <1>1 DEF IInv, PoolsHoldHeap, Installed
<1>6. RunnerHeld'
  <2>1. SUFFICES ASSUME cpu # Main
                 PROVE  /\ cpu \in heap /\ sched = "rr" /\ current = cpu
                        /\ cpu \in Members(ring) /\ UpNext(rr) = rr.next[cpu]
    BY <1>1, <1>2 DEF RunnerHeld, UpNext
  <2>2. /\ cpu \in heap /\ sched = "rr" /\ current = cpu /\ rr.current = cpu /\ ~rr.removed
        /\ cpu # NULL
    BY <1>1, <1>2, <2>1, Basics DEF IInv, RunnerHeld
  <2>3. cpu \in Members(ring) /\ Pool(rr, ring)
    BY <1>1, <2>2 DEF IInv, PoolsHoldHeap, Installed
  <2>4. ring # <<>>
    BY <2>3, Basics
  <2>5. UpNext(rr) = rr.next[rr.current]
    BY <2>2, <2>3, <2>4, UpNextIs
  <2> QED
    BY <2>2, <2>3, <2>5
<1> QED
  BY <1>3, <1>4, <1>5, <1>6 DEF IInv

(***************************************************************************)
(* One thread is moved.  (An installed scheduler that is installed again   *)
(* only turns its own pool.)                                               *)
(***************************************************************************)
LEMMA MoveOneKeeps ==
    ASSUME IInv, MoveOne
    PROVE  IInv'
<1>1. /\ xfer # "none" /\ sched' = sched /\ regs' = regs /\ cpu' = cpu /\ xfer' = xfer
      /\ crashed' = crashed /\ since' = [t \in Thread |-> {}] /\ lib' = lib
      /\ threads' = threads /\ tid' = tid /\ thread_count' = thread_count /\ heap' = heap
  BY DEF MoveOne, listVars
<1>2. PICK n \in Thread :
         /\ current' = n
         /\ \/ /\ sched = "rr"
               /\ n = RRReturns(rr)
               /\ LET left == rr_remove(rr_next(rr), n)
                  IN  IF xfer = "rr"
                      THEN /\ rr' = rr_admit(left, n)
                           /\ ring' = Append(Drop(ring, n), n)
                           /\ alt' = alt
                      ELSE /\ rr' = left
                           /\ ring' = Drop(ring, n)
                           /\ alt' = alt \cup {n}
            \/ /\ sched = "alt"
               /\ n \in AltReturns(alt)
               /\ IF xfer = "alt"
                  THEN UNCHANGED <<rr, ring, alt>>
                  ELSE /\ alt' = alt \ {n}
                       /\ rr' = rr_admit(rr, n)
                       /\ ring' = Append(ring, n)
  BY DEF MoveOne
<1>3. /\ heap \subseteq Thread /\ NULL \notin Thread
      /\ ring = <<>> <=> Members(ring) = {}
      /\ Pool(rr, ring) /\ Members(ring) \cap alt = {} /\ Members(ring) \cup alt = heap
      /\ xfer = sched => heap = Installed
      /\ xfer \in {"rr", "alt"} /\ sched \in {"rr", "alt"}
      /\ cpu # Main => cpu \in heap /\ sched = "rr"
      /\ LWPTypeOK
  BY <1>1, Basics DEF IInv, PoolsHoldHeap, RunnerHeld, LWPTypeOK
<1> DEFINE Moved ==
             /\ Pool(rr', ring')
             /\ Members(ring') \cap alt' = {} /\ Members(ring') \cup alt' = heap
             /\ xfer = sched => heap = IF sched = "rr" THEN Members(ring') ELSE alt'
             /\ cpu # Main /\ xfer = "alt" /\ ring' = <<>> => n = cpu
             /\ cpu # Main /\ xfer = "alt" /\ ring' # <<>> =>
                   cpu \in Members(ring') /\ UpNext(rr') = rr'.next[cpu]
<1>4. ASSUME sched = "rr" PROVE Moved
  <2> DEFINE left == rr_remove(rr_next(rr), n)
  <2>1. ring # <<>>
    BY <1>2, <1>3, <1>4, NextInPool
  <2>2. n = UpNext(rr) /\ n \in Members(ring) /\ Pool(rr_next(rr), ring)
    <3>1. n = RRReturns(rr)
      BY <1>2, <1>4
    <3> QED
      BY <1>3, <2>1, <3>1, NextInPool
  <2>3. Pool(left, Drop(ring, n)) /\ Members(Drop(ring, n)) = Members(ring) \ {n}
    BY <2>2, RemoveFromPool
  <2>4. CASE xfer = "rr"
    <3>1. rr' = rr_admit(left, n) /\ ring' = Append(Drop(ring, n), n) /\ alt' = alt
      BY <1>2, <1>4, <2>4
    <3>2. Pool(rr', ring') /\ Members(ring') = Members(ring)
      <4> HIDE DEF left
      <4>1. n \notin Members(Drop(ring, n))
        BY <2>3
      <4>2. /\ Pool(rr', ring')
            /\ Members(ring') = Members(Drop(ring, n)) \cup {n}
        BY <2>3, <3>1, <4>1, AdmitToPool
      <4> QED
        BY <2>2, <2>3, <4>2
    <3> QED
      BY <1>3, <1>4, <2>4, <3>1, <3>2 DEF Installed
  <2>5. CASE xfer = "alt"
    <3>1. rr' = left /\ ring' = Drop(ring, n) /\ alt' = alt \cup {n}
      BY <1>2, <1>4, <2>5
    <3>2. Pool(rr', ring') /\ Members(ring') = Members(ring) \ {n}
      BY <2>3, <3>1
    <3>3. ASSUME cpu # Main
          PROVE  /\ ring' = <<>> => n = cpu
                 /\ ring' # <<>> => cpu \in Members(ring') /\ UpNext(rr') = rr'.next[cpu]
      <4>1. cpu \in Members(ring) /\ UpNext(rr) = rr.next[cpu]
        BY <2>1, <2>5, <3>3 DEF IInv, RunnerHeld
      <4> QED
        BY <1>3, <2>2, <3>1, <4>1, AskerGoesLast
    <3> HIDE DEF left
    <3> QED
      BY <1>3, <1>4, <2>2, <2>5, <3>1, <3>2, <3>3
  <2> QED
    BY <1>3, <2>4, <2>5
<1>5. ASSUME sched = "alt" PROVE Moved
  <2>1. n \in alt /\ cpu = Main
    BY <1>2, <1>3, <1>5 DEF AltReturns
  <2>2. CASE xfer = "alt"
    <3>1. rr' = rr /\ ring' = ring /\ alt' = alt
      BY <1>2, <1>5, <2>2
    <3> QED
      BY <1>3, <1>5, <2>1, <2>2, <3>1 DEF Installed
  <2>3. CASE xfer = "rr"
    <3>1. rr' = rr_admit(rr, n) /\ ring' = Append(ring, n) /\ alt' = alt \ {n}
      BY <1>2, <1>5, <2>3
    <3>2. Pool(rr', ring') /\ Members(ring') = Members(ring) \cup {n}
      BY <1>3, <2>1, <3>1, AdmitToPool
    <3> QED
      BY <1>3, <1>5, <2>1, <2>3, <3>1, <3>2
  <2> QED
    BY <1>3, <2>2, <2>3
<1>6. Moved
  BY <1>3, <1>4, <1>5
<1>7. LWPTypeOK' /\ ~crashed'
  <2>1. RRTypeOK' /\ alt' \in SUBSET Thread
    BY <1>3, <1>6 DEF Pool, RRTypeOK
  <2>2. current' \in Link
    BY <1>2 DEF Link
  <2> QED
    BY <1>1, <1>3, <2>1, <2>2 DEF IInv, LWPTypeOK
<1>8. ListHoldsHeap' /\ TidsDiffer' /\ ContextsIntact'
  BY <1>1 DEF IInv, ListHoldsHeap, TidsDiffer, ContextsIntact
<1>9. PoolsHoldHeap'
  BY <1>1, <1>6 DEF PoolsHoldHeap, Installed
<1>10. RunnerHeld'
  BY <1>1, <1>2, <1>3, <1>6 DEF RunnerHeld, UpNext
<1>11. TurnsHeld'
  <2>1. \A i \in 1..Len(ring') : ring'[i] \in Thread
    BY <1>6, MembersAreThreads DEF Pool
  <2> QED
    BY <1>1, <2>1 DEF TurnsHeld, TurnsOwed
<1> QED
  BY <1>7, <1>8, <1>9, <1>10, <1>11 DEF IInv

(***************************************************************************)
(* The transfer ends when the old pool is empty.                           *)
(***************************************************************************)
LEMMA MoveDoneKeeps ==
    ASSUME IInv, MoveDone
    PROVE  IInv'
<1>1. /\ xfer # "none" /\ sched' = xfer /\ xfer' = "none" /\ current' = current
      /\ regs' = regs /\ cpu' = cpu /\ crashed' = crashed /\ since' = since /\ lib' = lib
      /\ threads' = threads /\ tid' = tid /\ thread_count' = thread_count /\ heap' = heap
  BY DEF MoveDone, listVars
<1>2. /\ NULL \notin Thread /\ (ring = <<>> <=> Members(ring) = {})
      /\ Pool(rr, ring) /\ Members(ring) \cup alt = heap /\ Members(ring) \cap alt = {}
      /\ xfer = sched => heap = Installed
      /\ xfer \in {"rr", "alt"} /\ sched \in {"rr", "alt"} /\ alt \subseteq Thread
  BY <1>1, Basics DEF IInv, PoolsHoldHeap, LWPTypeOK
<1>3. rr' = rr /\ ring' = ring /\ alt' = alt /\ (IF sched = "rr" THEN ring = <<>> ELSE alt = {})
  <2>1. CASE sched = "rr"
    <3>1. NULL = RRReturns(rr) /\ rr' = rr_next(rr) /\ ring' = ring /\ alt' = alt
      BY <2>1 DEF MoveDone, SchedNext
    <3>2. ring = <<>>
      BY <1>2, <3>1, NextInPool
    <3> QED
      BY <1>2, <2>1, <3>1, <3>2, NextInPool
  <2>2. CASE sched = "alt"
    <3>1. NULL \in AltReturns(alt) /\ rr' = rr /\ ring' = ring /\ alt' = alt
      BY <2>2 DEF MoveDone, SchedNext
    <3> QED
      BY <1>2, <2>2, <3>1 DEF AltReturns
  <2> QED
    BY <1>2, <2>1, <2>2
<1>4. LWPTypeOK' /\ ~crashed'
  BY <1>1, <1>2, <1>3 DEF IInv, LWPTypeOK, RRTypeOK
<1>5. ListHoldsHeap' /\ TidsDiffer' /\ ContextsIntact' /\ TurnsHeld'
  BY <1>1, <1>3 DEF IInv, ListHoldsHeap, TidsDiffer, ContextsIntact, TurnsHeld, TurnsOwed, UpNext
<1>6. PoolsHoldHeap'
  BY <1>1, <1>2, <1>3 DEF PoolsHoldHeap, Installed
<1>7. RunnerHeld'
  BY <1>1, <1>2, <1>3 DEF IInv, RunnerHeld, Installed
<1> QED
  BY <1>4, <1>5, <1>6, <1>7 DEF IInv

\* lwp_set_scheduler(NULL), with the client's scheduler empty.
LEMMA SetSchedulerNULLKeeps ==
    ASSUME CarefulClient, IInv, lwp_set_scheduler_NULL
    PROVE  IInv'
<1>1. /\ xfer = "none" /\ ~crashed /\ sched = "alt" /\ sched' = "rr"
      /\ rr' = rr /\ ring' = ring /\ alt' = alt /\ current' = current /\ xfer' = xfer
      /\ regs' = regs /\ cpu' = cpu /\ crashed' = crashed /\ since' = since /\ lib' = lib
      /\ threads' = threads /\ tid' = tid /\ thread_count' = thread_count /\ heap' = heap
  BY DEF lwp_set_scheduler_NULL, Idle, listVars
<1>2. alt = {} /\ heap = {} /\ Members(ring) = {}
  <2>1. alt = {}
    BY DEF lwp_set_scheduler_NULL, CarefulClient
  <2> QED
    BY <1>1, <2>1 DEF IInv, PoolsHoldHeap, Installed
<1>3. LWPTypeOK' /\ ~crashed'
  BY <1>1 DEF IInv, LWPTypeOK, RRTypeOK
<1>4. ListHoldsHeap' /\ TidsDiffer' /\ ContextsIntact' /\ TurnsHeld'
  BY <1>1 DEF IInv, ListHoldsHeap, TidsDiffer, ContextsIntact, TurnsHeld, TurnsOwed, UpNext
<1>5. PoolsHoldHeap'
  BY <1>1, <1>2 DEF IInv, PoolsHoldHeap, Installed
<1>6. RunnerHeld'
  BY <1>1, <1>2 DEF IInv, RunnerHeld
<1> QED
  BY <1>3, <1>4, <1>5, <1>6 DEF IInv

-----------------------------------------------------------------------------
LEMMA LWPStep == CarefulClient => (IInv /\ [Next]_lwpVars => IInv')
<1> SUFFICES ASSUME CarefulClient, IInv, [Next]_lwpVars PROVE IInv'
  OBVIOUS
<1>1. CASE lwp_create
  BY <1>1, CreateKeeps
<1>2. CASE lwp_start
  BY <1>2, StartKeeps
<1>3. CASE lwp_yield
  BY <1>3, YieldKeeps
<1>4. CASE lwp_stop
  BY <1>4, StopKeeps
<1>5. CASE lwp_exit
  BY <1>5, ExitKeeps
<1>6. CASE lwp_set_scheduler
  BY <1>6, SetSchedulerKeeps
<1>7. CASE MoveOne
  BY <1>7, MoveOneKeeps
<1>8. CASE MoveDone
  BY <1>8, MoveDoneKeeps
<1>9. CASE lwp_set_scheduler_NULL
  BY <1>9, SetSchedulerNULLKeeps
<1>10. CASE UNCHANGED lwpVars
  BY <1>10 DEF lwpVars, IInv, LWPTypeOK, RRTypeOK, ListHoldsHeap, PoolsHoldHeap, Installed,
               ContextsIntact, RunnerHeld, TidsDiffer, TurnsHeld, TurnsOwed, UpNext
<1> QED
  BY <1>1, <1>2, <1>3, <1>4, <1>5, <1>6, <1>7, <1>8, <1>9, <1>10 DEF Next

\* The inductive invariant holds in every state of a careful client's run.
LEMMA LWPInvariant == CarefulClient => (Spec => []IInv)
<1> SUFFICES ASSUME CarefulClient PROVE Spec => []IInv
  OBVIOUS
<1>1. Init => IInv
  BY LWPInit
<1>2. IInv /\ [Next]_lwpVars => IInv'
  BY LWPStep
<1> QED
  BY <1>1, <1>2, PTL DEF Spec

(***************************************************************************)
(* OnlyLiveThreadsLinked holds of lwp.c for any number of threads: the     *)
(* library's list and the pools hold exactly the threads that exist, no    *)
(* freed one among them, and isInPool is never entered with an empty pool. *)
(***************************************************************************)
THEOREM LWPLists == CarefulClient => (Spec => []OnlyLiveThreadsLinked)
<1> SUFFICES ASSUME CarefulClient PROVE Spec => []OnlyLiveThreadsLinked
  OBVIOUS
<1>1. IInv => OnlyLiveThreadsLinked
  <2> SUFFICES ASSUME IInv PROVE OnlyLiveThreadsLinked
    OBVIOUS
  <2>1. /\ LWPTypeOK /\ ~crashed /\ IsRing(lib, threads) /\ Members(threads) = heap
        /\ RingOK /\ Members(ring) \cap alt = {} /\ Members(ring) \cup alt = heap
        /\ xfer = "none" => heap = Installed
    BY DEF IInv, ListHoldsHeap, PoolsHoldHeap, Pool, RingOK
  <2> QED
    BY <2>1 DEF OnlyLiveThreadsLinked, Installed
<1> QED
  BY <1>1, LWPInvariant, PTL

(***************************************************************************)
(* RunningIsCurrent holds of lwp.c: between calls the current thread of    *)
(* the library and of its scheduler is the one that executes, and          *)
(* tid2thread finds every thread by the id it was given.                   *)
(***************************************************************************)
THEOREM LWPRunning == CarefulClient => (Spec => []RunningIsCurrent)
<1> SUFFICES ASSUME CarefulClient PROVE Spec => []RunningIsCurrent
  OBVIOUS
<1>1. IInv => RunningIsCurrent
  <2> SUFFICES ASSUME IInv, Idle, cpu # Main
               PROVE  /\ current = cpu /\ cpu \in heap
                      /\ sched = "rr" => (rr.current = cpu /\ ~rr.removed)
                      /\ \A t \in heap : xfer = "none" => tid2thread(tid[t]) = t
    BY DEF RunningIsCurrent
  <2>1. /\ current = cpu /\ cpu \in heap /\ cpu # NULL
        /\ sched = "rr" => (rr.current = cpu /\ ~rr.removed)
    BY Basics DEF IInv, RunnerHeld, Idle
  <2>2. FromCurrent = heap
    BY <2>1, WalkFromCurrent DEF IInv, ListHoldsHeap, LWPTypeOK
  <2>3. ASSUME NEW t \in heap PROVE tid2thread(tid[t]) = t
    <3>1. \A u \in heap : tid[u] = tid[t] => u = t
      BY DEF IInv, TidsDiffer
    <3> QED
      BY <2>1, <2>2, <3>1 DEF tid2thread
  <2> QED
    BY <2>1, <2>3
<1> QED
  BY <1>1, LWPInvariant, PTL

(***************************************************************************)
(* ContextsIntact holds of lwp.c: whoever does not execute is resumed      *)
(* where it left off.                                                      *)
(***************************************************************************)
THEOREM LWPContexts == CarefulClient => (Spec => []ContextsIntact)
<1> SUFFICES ASSUME CarefulClient PROVE Spec => []ContextsIntact
  OBVIOUS
<1>1. IInv => ContextsIntact
  BY DEF IInv
<1> QED
  BY <1>1, LWPInvariant, PTL

\* The thread that lwp_start, lwp_yield or lwp_exit chooses has not run since the last
\* turn of any other.
LEMMA ChoiceIsOwed ==
    ASSUME IInv, Choice, sched = "rr", current' # NULL
    PROVE  \A t \in heap' \ {current'} : current' \notin since[t]
<1>1. /\ Pool(rr, ring) /\ heap = Installed /\ heap = Members(ring) /\ NULL \notin Thread
      /\ TurnsOwed(rr, ring, since) /\ xfer = "none"
      /\ cpu \in Thread => current = cpu /\ cpu \in heap
  BY Basics DEF Choice, lwp_start, lwp_yield, lwp_exit, Idle,
                IInv, PoolsHoldHeap, Installed, TurnsHeld, RunnerHeld
<1>2. CASE lwp_start \/ lwp_yield
  <2>1. PICK n \in Link : SchedNext(n) /\ current' = n /\ heap' = heap
    BY <1>2 DEF lwp_start, lwp_yield, listVars
  <2>2. ring # <<>> /\ n = UpNext(rr)
    BY <1>1, <2>1, NextPicks
  <2> QED
    BY <1>1, <2>1, <2>2, NextIsOwed
<1>3. CASE lwp_exit
  <2>1. cpu \in Thread /\ current = cpu
    BY <1>1, <1>3 DEF lwp_exit
  <2>2. ~(sched = "rr" /\ rr.head = NULL)
    <3>1. ring \in Seq(Thread) /\ ring # <<>> /\ 1 \in 1..Len(ring)
      BY <1>1, <2>1, MembersAreThreads DEF Pool
    <3> QED
      BY <1>1, <3>1, MembersAreThreads DEF Pool, IsRing, EndsAre
  <2>3. PICK n \in Link : SchedRemoveThenNext(cpu, n) /\ current' = n /\ heap' = heap \ {cpu}
    BY <1>3, <2>1, <2>2 DEF lwp_exit
  <2> DEFINE d == rr_remove(rr, cpu)
  <2>4. /\ Pool(d, ring') /\ ring' # <<>> /\ ring' = Drop(ring, cpu)
        /\ cpu \in Members(ring) /\ cpu = rr.current /\ ~rr.removed
        /\ n = UpNext(d) /\ heap \ {cpu} = Members(ring')
    <3> HIDE DEF d
    <3> QED
      BY <1>1, <2>1, <2>3, RemoveThenNextPicks DEF d
  <2> HIDE DEF d
  <2>5. TurnsOwed(d, ring', since)
    BY <1>1, <2>4, ExitKeepsOrder DEF d
  <2> QED
    BY <2>3, <2>4, <2>5, NextIsOwed
<1> QED
  BY <1>2, <1>3 DEF Choice

(***************************************************************************)
(* TurnOrder holds of lwp.c over scheduler.c: nobody is chosen twice while *)
(* another thread that was there all along waits for its turn.             *)
(***************************************************************************)
THEOREM LWPTurnOrder == CarefulClient => (Spec => TurnOrder)
<1> SUFFICES ASSUME CarefulClient PROVE Spec => TurnOrder
  OBVIOUS
<1> DEFINE A == (Choice /\ sched = "rr" /\ current' # NULL) =>
                   \A t \in heap' \ {current'} : current' \notin since[t]
<1>1. IInv => [A]_lwpVars
  BY ChoiceIsOwed
<1> QED
  BY <1>1, LWPInvariant, PTL DEF Spec, TurnOrder
=============================================================================
