--------------------------- MODULE FoldInduction ---------------------------
(***************************************************************************)
(* Induction for the left fold of a sequence.  The provers cannot apply a  *)
(* theorem to an operator, but an instance of this module does: it gives   *)
(* the theorem for the step of one fold and the property of one proof.     *)
(***************************************************************************)
EXTENDS Integers, WellFoundedInduction, TLAPS

CONSTANTS Step(_, _, _, _, _),      \* the next value, from parameters a, b and c of the
                                    \* fold, the value and an element
          Holds(_, _, _, _, _, _)   \* a property, from the parameters and the base, of the
                                    \* value after k elements

\* What FoldLeft of the community modules is, for a sequence of n elements: a
\* function on the sets of indices, which takes out the largest first.
Fold(a, b, c, base, seq, n) ==
    LET iter[s \in SUBSET (1..n)] ==
            IF s = {} THEN base
            ELSE LET k == CHOOSE x \in s : \A y \in s : x >= y
                 IN Step(a, b, c, iter[s \ {k}], seq[k])
    IN iter[1..n]

Largest(s) == CHOOSE x \in s : \A y \in s : x >= y

\* That function, on the sets of the first n indices.
Folds(a, b, c, base, seq, n, g) ==
    g = [s \in SUBSET (1..n) |->
            IF s = {} THEN base ELSE Step(a, b, c, g[s \ {Largest(s)}], seq[Largest(s)])]

\* Induction over a set of numbers.
LEMMA SetInduction ==
    ASSUME NEW S, 0 \in S, \A m \in Nat : m \in S => m + 1 \in S
    PROVE  \A m \in Nat : m \in S
<1> DEFINE Off == Nat \ S
<1>1. SUFFICES ASSUME Off # {} PROVE FALSE
  OBVIOUS
<1>2. PICK m \in Off : \A k \in Off : ~(<<k, m>> \in OpToRel(<, Nat))
  BY <1>1, NatLessThanWellFounded, WFMin, Off \subseteq Nat
<1>3. m \in Nat /\ m \notin S /\ \A k \in Off : ~(k < m)
  BY <1>2 DEF OpToRel
<1>4. m # 0
  BY <1>3
<1>5. m - 1 \in Nat /\ m - 1 < m /\ (m - 1) + 1 = m
  BY <1>3, <1>4
<1>6. m - 1 \in S
  BY <1>3, <1>5
<1> QED
  BY <1>3, <1>5, <1>6

\* The last of a set that holds the last index.
LEMMA LargestIs ==
    ASSUME NEW n \in Nat, NEW s \in SUBSET (1..n), n \in s
    PROVE  Largest(s) = n
<1>1. \A y \in s : y \in Nat /\ n >= y
  OBVIOUS
<1>2. Largest(s) \in s /\ Largest(s) >= n
  BY <1>1 DEF Largest
<1>3. Largest(s) \in Nat /\ n >= Largest(s)
  BY <1>1, <1>2
<1> QED
  BY <1>2, <1>3

\* The function exists: it is made one index at a time.
LEMMA FoldsExist ==
    ASSUME NEW a, NEW b, NEW c, NEW base, NEW seq, NEW n \in Nat
    PROVE  \E g : Folds(a, b, c, base, seq, n, g)
<1> DEFINE Made == {m \in Nat : \E g : Folds(a, b, c, base, seq, m, g)}
<1>1. 0 \in Made
  <2>1. SUBSET (1..0) = {{}}
    OBVIOUS
  <2> DEFINE g == [s \in SUBSET (1..0) |-> base]
  <2>2. Folds(a, b, c, base, seq, 0, g)
    BY <2>1 DEF Folds
  <2> QED
    BY <2>2
<1>2. ASSUME NEW m \in Nat, m \in Made PROVE m + 1 \in Made
  <2>1. PICK g : Folds(a, b, c, base, seq, m, g)
    BY <1>2
  <2> DEFINE h == [s \in SUBSET (1..(m + 1)) |->
                     IF m + 1 \in s THEN Step(a, b, c, g[s \ {m + 1}], seq[m + 1]) ELSE g[s]]
  <2>2. ASSUME NEW s \in SUBSET (1..(m + 1))
        PROVE  h[s] = IF s = {} THEN base ELSE Step(a, b, c, h[s \ {Largest(s)}], seq[Largest(s)])
    <3>1. CASE m + 1 \in s
      <4>1. Largest(s) = m + 1 /\ s # {}
        BY <3>1, LargestIs
      <4>2. s \ {m + 1} \in SUBSET (1..m) /\ s \ {m + 1} \in SUBSET (1..(m + 1))
        OBVIOUS
      <4>3. h[s \ {m + 1}] = g[s \ {m + 1}]
        BY <4>2
      <4>4. h[s] = Step(a, b, c, g[s \ {m + 1}], seq[m + 1])
        BY <3>1
      <4> QED
        BY <4>1, <4>3, <4>4
    <3>2. CASE m + 1 \notin s
      <4>1. s \in SUBSET (1..m) /\ h[s] = g[s]
        BY <3>2
      <4>2. g[s] = IF s = {} THEN base ELSE Step(a, b, c, g[s \ {Largest(s)}], seq[Largest(s)])
        BY <2>1, <4>1 DEF Folds
      <4>3. h[s \ {Largest(s)}] = g[s \ {Largest(s)}]
        BY <3>2
      <4> QED
        BY <4>1, <4>2, <4>3
    <3> QED
      BY <3>1, <3>2
  <2>3. Folds(a, b, c, base, seq, m + 1, h)
    <3>1. h = [s \in SUBSET (1..(m + 1)) |-> h[s]]
      OBVIOUS
    <3> HIDE DEF h
    <3> QED
      BY <2>2, <3>1 DEF Folds
  <2> QED
    BY <2>3
<1> HIDE DEF Made
<1>3. n \in Made
  BY <1>1, <1>2, SetInduction
<1> QED
  BY <1>3 DEF Made

\* What holds of the base, and is kept by each step, holds of the fold.
THEOREM FoldHolds ==
    ASSUME NEW a, NEW b, NEW c, NEW base, NEW seq, NEW n \in Nat, Holds(a, b, c, base, 0, base),
           \A k \in 1..n : \A t : Holds(a, b, c, base, k - 1, t) => Holds(a, b, c, base, k, Step(a, b, c, t, seq[k]))
    PROVE  Holds(a, b, c, base, n, Fold(a, b, c, base, seq, n))
<1> DEFINE g == CHOOSE g : Folds(a, b, c, base, seq, n, g)
           Is == {m \in Nat : m =< n => Holds(a, b, c, base, m, g[1..m])}
<1>1. Fold(a, b, c, base, seq, n) = g[1..n]
  BY DEF Fold, Folds, Largest
<1>2. Folds(a, b, c, base, seq, n, g)
  BY FoldsExist
<1> HIDE DEF g
<1>3. 0 \in Is
  <2>1. 1..0 = {} /\ {} \in SUBSET (1..n)
    OBVIOUS
  <2>2. g[{}] = base
    BY <1>2, <2>1 DEF Folds
  <2> QED
    BY <2>1, <2>2
<1>4. ASSUME NEW m \in Nat, m \in Is PROVE m + 1 \in Is
  <2> SUFFICES ASSUME m + 1 =< n PROVE Holds(a, b, c, base, m + 1, g[1..(m + 1)])
    OBVIOUS
  <2>1. m + 1 \in 1..n /\ (m + 1) - 1 = m /\ Holds(a, b, c, base, m, g[1..m])
    BY <1>4
  <2>2. 1..(m + 1) \in SUBSET (1..n) /\ 1..(m + 1) # {} /\ (1..(m + 1)) \ {m + 1} = 1..m
    <3>1. \A x \in 1..(m + 1) : x \in 1..n /\ (x # m + 1 <=> x \in 1..m)
      BY <2>1
    <3>2. \A x \in 1..m : x \in 1..(m + 1) /\ x # m + 1
      OBVIOUS
    <3>3. m + 1 \in 1..(m + 1)
      OBVIOUS
    <3> QED
      BY <3>1, <3>2, <3>3, Zenon
  <2>3. Largest(1..(m + 1)) = m + 1
    BY LargestIs
  <2>4. g[1..(m + 1)] = Step(a, b, c, g[1..m], seq[m + 1])
    BY <1>2, <2>2, <2>3 DEF Folds
  <2> QED
    BY <2>1, <2>4
<1> HIDE DEF Is
<1>5. n \in Is
  BY <1>3, <1>4, SetInduction
<1> QED
  BY <1>1, <1>5 DEF Is
=============================================================================
