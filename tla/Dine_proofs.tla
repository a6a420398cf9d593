----------------------------- MODULE Dine_proofs -----------------------------
(***************************************************************************)
(* Proofs about the dining philosophers, for any number of them, any       *)
(* number of cycles, and whatever ids the threads happened to read.        *)
(***************************************************************************)
EXTENDS Dine, SequenceTheorems, WellFoundedInduction, TLAPS

LEMMA SeatsInRange ==
    ASSUME NEW p \in Phil
    PROVE  Left(p) \in Phil /\ Right(p) \in Phil
BY NAssumption DEF Left, Right, Phil, LAST

(***************************************************************************)
(* Type correctness.  To be inductive it needs that a thread that got      *)
(* through its first sem_wait has a philosopher's id, that main's counter  *)
(* stays in range, and that it starts no thread twice.                     *)
(***************************************************************************)
Seated == \A t \in Phil : (HoldsLeft(t) \/ HoldsRight(t) \/ at[t] = "think" \/ at[t] = "clearRight")
                             => id[t] \in Phil

Counting ==
    /\ main \in {"create", "created", "join", "joined"} => i \in Phil
    /\ main = "create" => \A t \in Phil : t >= i => at[t] = "unborn"
    /\ main = "created" => \A t \in Phil : t > i => at[t] = "unborn"

TypeInv == DineTypeOK /\ Seated /\ Counting

LEMMA InitType == Init => TypeInv
<1> SUFFICES ASSUME Init PROVE TypeInv
  OBVIOUS
<1>1. cycles \in Int
  BY ArgsAssumption DEF Init, get_cycles
<1>2. 0 \in Phil /\ 0 \in 0..N
  BY NAssumption DEF Phil
<1>3. line \in Seq({"CHANGING", "EATING", "THINKING"})
  BY DEF Init
<1> QED
  BY <1>1, <1>2, <1>3 DEF Init, TypeInv, DineTypeOK, Seated, Counting, HoldsLeft, HoldsRight, Steps

LEMMA MainStepType == TypeInv /\ MainStep => TypeInv'
<1> SUFFICES ASSUME TypeInv, MainStep PROVE TypeInv'
  OBVIOUS
<1> USE DEF TypeInv, Counting, Seated, HoldsLeft, HoldsRight, mainVars
<1>1. CASE Create
  <2>1. \A u \in Phil : u > i => u >= i /\ u # i
    BY <1>1, NAssumption DEF Create, DineTypeOK, Phil
  <2>2. i \in Phil /\ at[i] = "unborn"
    BY <1>1, NAssumption DEF Create, Phil
  <2> QED
    BY <1>1, <2>1, <2>2 DEF Create, DineTypeOK
<1>2. CASE CountUp
  <2>1. i \in Phil /\ i' = i + 1 /\ i' \in 0..N /\ (i' < N => i' \in Phil)
    BY <1>2, NAssumption, SMTT(30) DEF CountUp, DineTypeOK, Phil
  <2>4. \A u \in Phil : u >= i' => u > i
    BY <2>1 DEF Phil
  <2>2. main' = CASE i' < N -> IF main = "created" THEN "create" ELSE "join"
                  [] i' >= N -> IF main = "created" THEN "restart" ELSE "exit"
    BY <1>2 DEF CountUp
  <2>3. i' < N \/ i' >= N
    BY <2>1, NAssumption
  <2> QED
    BY <1>2, <2>1, <2>2, <2>3, <2>4 DEF CountUp, DineTypeOK
<1>3. CASE CountFromZero
  <2>1. i' \in Phil /\ i' \in 0..N
    BY <1>3, NAssumption DEF CountFromZero, Phil
  <2> QED
    BY <1>3, <2>1 DEF CountFromZero, DineTypeOK
<1>4. CASE Join
  BY <1>4 DEF Join, DineTypeOK
<1> QED
  BY <1>1, <1>2, <1>3, <1>4 DEF MainStep

LEMMA SeatRead == \A x \in 0..N : x # N => x \in Phil
BY NAssumption DEF Phil

LEMMA ForkCounts ==
  ASSUME forks \in [Phil -> Nat], NEW f \in Phil
  PROVE  /\ [forks EXCEPT ![f] = @ + 1] \in [Phil -> Nat]
         /\ forks[f] > 0 => [forks EXCEPT ![f] = @ - 1] \in [Phil -> Nat]
OBVIOUS

\* The records that MarkLeft, MarkRight, ClearLeft and ClearRight assign.
Plate == [state : {"CHANGING", "EATING", "THINKING"},
          left : {"USED", "UN_USED"}, right : {"USED", "UN_USED"}]

LEMMA PlateMarked ==
  ASSUME phils \in [Phil -> Plate], NEW p \in Phil,
         NEW s \in {"CHANGING", "EATING", "THINKING"}, NEW u \in {"USED", "UN_USED"}
  PROVE  /\ [phils EXCEPT ![p].left = u, ![p].state = s] \in [Phil -> Plate]
         /\ [phils EXCEPT ![p].right = u, ![p].state = s] \in [Phil -> Plate]
BY DEF Plate

LEMMA StepType == ASSUME TypeInv, NEW t \in Phil, Step(t) PROVE TypeInv'
<1> USE DEF TypeInv, Counting, Seated, HoldsLeft, HoldsRight, mainVars, Ready, Goto, PrintThenGoto, Steps
<1>1. CASE ReadId(t)
  BY <1>1 DEF ReadId, DineTypeOK
<1>2. CASE Loop(t)
  <2>1. DineTypeOK'
    BY <1>2 DEF Loop, DineTypeOK
  <2>2. Seated'
    BY <1>2 DEF Loop, DineTypeOK
  <2>3. Counting'
    BY <1>2 DEF Loop, DineTypeOK
  <2> QED
    BY <2>1, <2>2, <2>3
<1>3. CASE DownLeft(t)
  <2>0. id[t] \in 0..N /\ id[t] # N
    <3>1. id[t] \in 0..N
      BY DEF DineTypeOK
    <3>2. id[t] # N
      BY <1>3 DEF DownLeft
    <3> QED
      BY <3>1, <3>2
  <2>1. id[t] \in Phil
    BY <2>0, SeatRead
  <2>2. Left(id[t]) \in Phil
    BY <2>1, SeatsInRange
  <2>3. forks' \in [Phil -> Nat]
    <3>1. forks \in [Phil -> Nat]
      BY DEF DineTypeOK
    <3>2. forks[Left(id[t])] > 0 /\ forks' = [forks EXCEPT ![Left(id[t])] = @ - 1]
      BY <1>3 DEF DownLeft
    <3> QED
      BY <2>2, <3>1, <3>2, ForkCounts
  <2> QED
    BY <1>3, <2>1, <2>3 DEF DownLeft, DineTypeOK
<1>4. CASE Fault(t)
  BY <1>4 DEF Fault, DineTypeOK
<1>5. CASE MarkLeft(t)
  <2>1. DineTypeOK'
    <3>1. id[t] \in Phil
      BY <1>5 DEF MarkLeft
    <3>2. phils \in [Phil -> Plate]
      BY DEF DineTypeOK, Plate
    <3>3. phils' = [phils EXCEPT ![id[t]].left = "USED", ![id[t]].state = "CHANGING"]
      BY <1>5 DEF MarkLeft
    <3>4. phils' \in [Phil -> Plate]
      BY <3>1, <3>2, <3>3, PlateMarked
    <3> HIDE DEF Seated, Counting, HoldsLeft, HoldsRight
    <3> QED
      BY <1>5, <3>4 DEF MarkLeft, DineTypeOK, Plate
  <2>2. Seated'
    BY <1>5 DEF MarkLeft, DineTypeOK
  <2>3. Counting'
    BY <1>5 DEF MarkLeft, DineTypeOK
  <2> QED
    BY <2>1, <2>2, <2>3
<1>6. CASE DownRight(t)
  <2>1. id[t] \in Phil
    BY <1>6 DEF DownRight
  <2>2. Right(id[t]) \in Phil
    BY <2>1, SeatsInRange
  <2>3. forks' \in [Phil -> Nat]
    <3>1. forks \in [Phil -> Nat]
      BY DEF DineTypeOK
    <3>2. forks[Right(id[t])] > 0 /\ forks' = [forks EXCEPT ![Right(id[t])] = @ - 1]
      BY <1>6 DEF DownRight
    <3> QED
      BY <2>2, <3>1, <3>2, ForkCounts
  <2> QED
    BY <1>6, <2>1, <2>3 DEF DownRight, DineTypeOK
<1>7. CASE MarkRight(t)
  <2>1. DineTypeOK'
    <3>1. id[t] \in Phil
      BY <1>7 DEF MarkRight
    <3>2. phils \in [Phil -> Plate]
      BY DEF DineTypeOK, Plate
    <3>3. phils' = [phils EXCEPT ![id[t]].right = "USED", ![id[t]].state = "EATING"]
      BY <1>7 DEF MarkRight
    <3>4. phils' \in [Phil -> Plate]
      BY <3>1, <3>2, <3>3, PlateMarked
    <3> HIDE DEF Seated, Counting, HoldsLeft, HoldsRight
    <3> QED
      BY <1>7, <3>4 DEF MarkRight, DineTypeOK, Plate
  <2>2. Seated'
    BY <1>7 DEF MarkRight, DineTypeOK
  <2>3. Counting'
    BY <1>7 DEF MarkRight, DineTypeOK
  <2> QED
    BY <2>1, <2>2, <2>3
<1>8. CASE Eat(t)
  <2>1. id[t] \in Phil
    BY <1>8 DEF Eat
  <2>2. meals' \in [Phil -> Nat]
    BY <1>8, <2>1 DEF Eat, DineTypeOK
  <2> QED
    BY <1>8, <2>2 DEF Eat, DineTypeOK
<1>9. CASE UpLeft(t)
  <2>1. id[t] \in Phil
    BY <1>9 DEF UpLeft
  <2>2. Left(id[t]) \in Phil
    BY <2>1, SeatsInRange
  <2>3. forks' \in [Phil -> Nat]
    <3>1. forks \in [Phil -> Nat]
      BY DEF DineTypeOK
    <3>2. forks' = [forks EXCEPT ![Left(id[t])] = @ + 1]
      BY <1>9 DEF UpLeft
    <3> QED
      BY <2>2, <3>1, <3>2, ForkCounts
  <2> QED
    BY <1>9, <2>1, <2>3 DEF UpLeft, DineTypeOK
<1>10. CASE ClearLeft(t)
  <2>1. DineTypeOK'
    <3>1. id[t] \in Phil
      BY <1>10 DEF ClearLeft
    <3>2. phils \in [Phil -> Plate]
      BY DEF DineTypeOK, Plate
    <3>3. phils' = [phils EXCEPT ![id[t]].left = "UN_USED", ![id[t]].state = "CHANGING"]
      BY <1>10 DEF ClearLeft
    <3>4. phils' \in [Phil -> Plate]
      BY <3>1, <3>2, <3>3, PlateMarked
    <3> HIDE DEF Seated, Counting, HoldsLeft, HoldsRight
    <3> QED
      BY <1>10, <3>4 DEF ClearLeft, DineTypeOK, Plate
  <2>2. Seated'
    BY <1>10 DEF ClearLeft, DineTypeOK
  <2>3. Counting'
    BY <1>10 DEF ClearLeft, DineTypeOK
  <2> QED
    BY <2>1, <2>2, <2>3
<1>11. CASE UpRight(t)
  <2>1. id[t] \in Phil
    BY <1>11 DEF UpRight
  <2>2. Right(id[t]) \in Phil
    BY <2>1, SeatsInRange
  <2>3. forks' \in [Phil -> Nat]
    <3>1. forks \in [Phil -> Nat]
      BY DEF DineTypeOK
    <3>2. forks' = [forks EXCEPT ![Right(id[t])] = @ + 1]
      BY <1>11 DEF UpRight
    <3> QED
      BY <2>2, <3>1, <3>2, ForkCounts
  <2> QED
    BY <1>11, <2>1, <2>3 DEF UpRight, DineTypeOK
<1>12. CASE ClearRight(t)
  <2>1. DineTypeOK'
    <3>1. id[t] \in Phil
      BY <1>12 DEF ClearRight
    <3>2. phils \in [Phil -> Plate]
      BY DEF DineTypeOK, Plate
    <3>3. phils' = [phils EXCEPT ![id[t]].right = "UN_USED", ![id[t]].state = "THINKING"]
      BY <1>12 DEF ClearRight
    <3>4. phils' \in [Phil -> Plate]
      BY <3>1, <3>2, <3>3, PlateMarked
    <3> HIDE DEF Seated, Counting, HoldsLeft, HoldsRight
    <3> QED
      BY <1>12, <3>4 DEF ClearRight, DineTypeOK, Plate
  <2>2. Seated'
    BY <1>12 DEF ClearRight, DineTypeOK
  <2>3. Counting'
    BY <1>12 DEF ClearRight, DineTypeOK
  <2> QED
    BY <2>1, <2>2, <2>3
<1>13. CASE Think(t)
  <2>1. DineTypeOK'
    <3>1. count' \in [Phil -> Nat]
      BY <1>13 DEF Think, DineTypeOK
    <3> HIDE DEF Seated, Counting, HoldsLeft, HoldsRight
    <3> QED
      BY <1>13, <3>1 DEF Think, DineTypeOK
  <2>2. Seated'
    BY <1>13 DEF Think, DineTypeOK
  <2>3. Counting'
    BY <1>13 DEF Think, DineTypeOK
  <2> QED
    BY <2>1, <2>2, <2>3
<1>14. CASE PrintLock(t)
  <2>1. print_lock' \in Nat /\ 0 \in 0..N
    BY <1>14, NAssumption DEF PrintLock, DineTypeOK
  <2> QED
    BY <1>14, <2>1 DEF PrintLock, DineTypeOK
<1>15. CASE PrintPhil(t)
  <2>1. shown[t] \in Phil /\ shown[t] + 1 \in 0..N
    <3>1. shown[t] \in 0..N /\ shown[t] < N
      BY <1>15 DEF PrintPhil, DineTypeOK
    <3> QED
      BY <3>1, NAssumption DEF Phil
  <2>2. phils[shown[t]].state \in {"CHANGING", "EATING", "THINKING"}
    BY <2>1 DEF DineTypeOK
  <2>3. line' \in Seq({"CHANGING", "EATING", "THINKING"})
    BY <1>15, <2>2, AppendProperties DEF PrintPhil, DineTypeOK
  <2>4. shown' \in [Phil -> 0..N] /\ UNCHANGED <<at, print, id, i, main>>
    BY <1>15, <2>1 DEF PrintPhil, DineTypeOK
  <2> QED
    BY <1>15, <2>3, <2>4 DEF PrintPhil, DineTypeOK
<1>16. CASE PrintUnlock(t)
  BY <1>16 DEF PrintUnlock, DineTypeOK
<1> QED
  BY <1>1, <1>2, <1>3, <1>4, <1>5, <1>6, <1>7, <1>8, <1>9, <1>10, <1>11, <1>12,
     <1>13, <1>14, <1>15, <1>16 DEF Step

LEMMA NextType == TypeInv /\ [Next]_vars => TypeInv'
<1>1. ASSUME TypeInv, UNCHANGED vars PROVE TypeInv'
  BY <1>1 DEF vars, TypeInv, DineTypeOK, Seated, Counting, HoldsLeft, HoldsRight
<1>2. ASSUME TypeInv, Ended PROVE TypeInv'
  BY <1>1, <1>2 DEF Ended
<1> QED
  BY <1>1, <1>2, MainStepType, StepType DEF Next

\* The state of dine.c stays within its types.
THEOREM DineTypeCorrect == Spec => []DineTypeOK
<1>1. TypeInv => DineTypeOK
  BY DEF TypeInv
<1> QED
  BY <1>1, InitType, NextType, PTL DEF Spec

-----------------------------------------------------------------------------
(***************************************************************************)
(* The forks.  A step that touches no semaphore leaves everyone's forks    *)
(* with them; the four that do are looked at one by one.  TwoForks says    *)
(* that a thread with both its forks has two: it is what makes the first   *)
(* sem_post leave it with the other one, for one philosopher too.          *)
(***************************************************************************)
TwoForks ==
    \A t \in Phil : HoldsLeft(t) /\ HoldsRight(t) => Left(id[t]) # Right(id[t])

ForkInv == TwoForks /\ ForksAccounted

KeepsForks ==
    /\ forks' = forks
    /\ \A u \in Phil :
          /\ HoldsLeft(u)' <=> HoldsLeft(u)
          /\ HoldsRight(u)' <=> HoldsRight(u)
          /\ HoldsLeft(u) \/ HoldsRight(u) => id'[u] = id[u]

LEMMA KeepsForksInv == ForkInv /\ KeepsForks => ForkInv'
BY DEF ForkInv, TwoForks, ForksAccounted, KeepsForks, Holds

LEMMA MainKeepsForks == TypeInv /\ MainStep => KeepsForks
<1> SUFFICES ASSUME TypeInv, MainStep PROVE KeepsForks
  OBVIOUS
<1> USE DEF KeepsForks, HoldsLeft, HoldsRight
<1>1. CASE Create
  <2>1. i \in Phil /\ at[i] = "unborn"
    BY <1>1, NAssumption DEF Create, TypeInv, Counting, Phil
  <2> QED
    BY <1>1, <2>1 DEF Create, TypeInv, DineTypeOK
<1>2. CASE CountUp
  BY <1>2 DEF CountUp
<1>3. CASE CountFromZero
  BY <1>3 DEF CountFromZero
<1>4. CASE Join
  BY <1>4 DEF Join
<1> QED
  BY <1>1, <1>2, <1>3, <1>4 DEF MainStep

LEMMA StepKeepsForks ==
    ASSUME TypeInv, NEW t \in Phil,
           \/ ReadId(t) \/ Loop(t) \/ Fault(t)
           \/ MarkLeft(t) \/ MarkRight(t) \/ Eat(t) \/ ClearLeft(t) \/ ClearRight(t)
           \/ Think(t) \/ PrintLock(t) \/ PrintPhil(t) \/ PrintUnlock(t)
    PROVE  KeepsForks
<1> USE DEF TypeInv, DineTypeOK, KeepsForks, HoldsLeft, HoldsRight, Ready, Goto, PrintThenGoto
<1>1. CASE ReadId(t)
  BY <1>1 DEF ReadId
<1>2. CASE Loop(t)
  BY <1>2 DEF Loop
<1>3. CASE Fault(t)
  BY <1>3 DEF Fault
<1>4. CASE MarkLeft(t)
  BY <1>4 DEF MarkLeft
<1>5. CASE MarkRight(t)
  BY <1>5 DEF MarkRight
<1>6. CASE Eat(t)
  BY <1>6 DEF Eat
<1>7. CASE ClearLeft(t)
  BY <1>7 DEF ClearLeft
<1>8. CASE ClearRight(t)
  BY <1>8 DEF ClearRight
<1>9. CASE Think(t)
  BY <1>9 DEF Think
<1>10. CASE PrintLock(t)
  BY <1>10 DEF PrintLock
<1>11. CASE PrintPhil(t)
  BY <1>11 DEF PrintPhil
<1>12. CASE PrintUnlock(t)
  BY <1>12 DEF PrintUnlock
<1> QED
  BY <1>1, <1>2, <1>3, <1>4, <1>5, <1>6, <1>7, <1>8, <1>9, <1>10, <1>11, <1>12

(***************************************************************************)
(* A sem_wait that succeeds found the fork free, and its thread holds it   *)
(* from now on with what it held before.                                   *)
(***************************************************************************)
LEMMA WaitKeepsForkInv ==
    ASSUME ForkInv, forks \in [Phil -> Nat],
           NEW t \in Phil, NEW g \in Phil,
           forks[g] > 0,
           forks' = [forks EXCEPT ![g] = @ - 1],
           \A f \in Phil : Holds(t, f)' <=> (Holds(t, f) \/ f = g),
           \A u \in Phil \ {t} : \A f \in Phil : Holds(u, f)' <=> Holds(u, f)
    PROVE  ForksAccounted'
<1>1. forks[g] = 1 /\ forks'[g] = 0 /\ \A f \in Phil : f # g => forks'[f] = forks[f]
  BY DEF ForkInv, ForksAccounted
<1>2. \A u \in Phil : ~Holds(u, g)
  BY <1>1 DEF ForkInv, ForksAccounted
<1>3. ASSUME NEW f \in Phil, f # g
      PROVE  \A u \in Phil : Holds(u, f)' <=> Holds(u, f)
  BY <1>3
<1>4. ASSUME NEW f \in Phil
      PROVE  /\ forks'[f] \in {0, 1}
             /\ forks'[f] = 1 <=> \A u \in Phil : ~Holds(u, f)'
             /\ \A u, v \in Phil : Holds(u, f)' /\ Holds(v, f)' => u = v
  <2>1. CASE f = g
    <3>1. Holds(t, g)' /\ \A u \in Phil : Holds(u, g)' => u = t
      BY <1>2
    <3> QED
      BY <1>1, <2>1, <3>1
  <2>2. CASE f # g
    BY <1>1, <1>3, <2>2 DEF ForkInv, ForksAccounted
  <2> QED
    BY <2>1, <2>2
<1> QED
  BY <1>4 DEF ForksAccounted

(***************************************************************************)
(* A sem_post gives back a fork that its thread alone held.                *)
(***************************************************************************)
LEMMA PostKeepsForkInv ==
    ASSUME ForkInv, forks \in [Phil -> Nat],
           NEW t \in Phil, NEW g \in Phil,
           Holds(t, g),
           forks' = [forks EXCEPT ![g] = @ + 1],
           \A f \in Phil : Holds(t, f)' <=> (Holds(t, f) /\ f # g),
           \A u \in Phil \ {t} : \A f \in Phil : Holds(u, f)' <=> Holds(u, f)
    PROVE  ForksAccounted'
<1>1. forks[g] = 0 /\ forks'[g] = 1 /\ \A f \in Phil : f # g => forks'[f] = forks[f]
  BY DEF ForkInv, ForksAccounted
<1>2. \A u \in Phil : Holds(u, g) => u = t
  BY DEF ForkInv, ForksAccounted
<1>3. ASSUME NEW f \in Phil, f # g
      PROVE  \A u \in Phil : Holds(u, f)' <=> Holds(u, f)
  BY <1>3
<1>4. ASSUME NEW f \in Phil
      PROVE  /\ forks'[f] \in {0, 1}
             /\ forks'[f] = 1 <=> \A u \in Phil : ~Holds(u, f)'
             /\ \A u, v \in Phil : Holds(u, f)' /\ Holds(v, f)' => u = v
  <2>1. CASE f = g
    <3>1. \A u \in Phil : ~Holds(u, g)'
      BY <1>2
    <3> QED
      BY <1>1, <2>1, <3>1
  <2>2. CASE f # g
    BY <1>1, <1>3, <2>2 DEF ForkInv, ForksAccounted
  <2> QED
    BY <2>1, <2>2
<1> QED
  BY <1>4 DEF ForksAccounted

LEMMA SemStepForkInv ==
    ASSUME TypeInv, ForkInv, NEW t \in Phil,
           DownLeft(t) \/ DownRight(t) \/ UpLeft(t) \/ UpRight(t)
    PROVE  ForkInv'
<1>1. /\ id' = id /\ id[t] \in Phil /\ forks \in [Phil -> Nat]
      /\ Left(id[t]) \in Phil /\ Right(id[t]) \in Phil
      /\ \A u \in Phil \ {t} : at'[u] = at[u]
  <2>1. id' = id /\ id[t] \in Phil /\ forks \in [Phil -> Nat]
    <3>1. id' = id /\ forks \in [Phil -> Nat]
      BY DEF DownLeft, DownRight, UpLeft, UpRight, TypeInv, DineTypeOK
    <3>2. DownLeft(t) => id[t] \in Phil
      BY SeatRead DEF DownLeft, TypeInv, DineTypeOK
    <3>3. (DownRight(t) \/ UpLeft(t) \/ UpRight(t)) => id[t] \in Phil
      BY DEF DownRight, UpLeft, UpRight, Ready, TypeInv, Seated, HoldsLeft, HoldsRight
    <3> QED
      BY <3>1, <3>2, <3>3
  <2>2. \A u \in Phil \ {t} : at'[u] = at[u]
    BY DEF DownLeft, DownRight, UpLeft, UpRight, Goto, TypeInv, DineTypeOK
  <2> QED
    BY <2>1, <2>2, SeatsInRange
<1>2. \A u \in Phil \ {t} : \A f \in Phil : Holds(u, f)' <=> Holds(u, f)
  BY <1>1 DEF Holds, HoldsLeft, HoldsRight
<1>3. \A u \in Phil \ {t} : HoldsLeft(u)' /\ HoldsRight(u)' => Left(id'[u]) # Right(id'[u])
  BY <1>1 DEF HoldsLeft, HoldsRight, ForkInv, TwoForks
<1>4. CASE DownLeft(t)
  <2>1. at[t] = "downLeft" /\ at'[t] = "markLeft"
    BY <1>4 DEF DownLeft, Ready, Goto, TypeInv, DineTypeOK
  <2>2. ForksAccounted'
    <3>1. \A f \in Phil : Holds(t, f)' <=> (Holds(t, f) \/ f = Left(id[t]))
      BY <1>1, <2>1 DEF Holds, HoldsLeft, HoldsRight
    <3> QED
      BY <1>1, <1>2, <1>4, <3>1, WaitKeepsForkInv DEF DownLeft
  <2>3. TwoForks'
    BY <1>3, <2>1 DEF TwoForks, HoldsLeft, HoldsRight
  <2> QED
    BY <2>2, <2>3 DEF ForkInv
<1>5. CASE DownRight(t)
  <2>1. at[t] = "downRight" /\ at'[t] = "markRight"
    BY <1>5 DEF DownRight, Ready, Goto, TypeInv, DineTypeOK
  <2>2. ForksAccounted'
    <3>1. \A f \in Phil : Holds(t, f)' <=> (Holds(t, f) \/ f = Right(id[t]))
      BY <1>1, <2>1 DEF Holds, HoldsLeft, HoldsRight
    <3> QED
      BY <1>1, <1>2, <1>5, <3>1, WaitKeepsForkInv DEF DownRight
  <2>3. Left(id[t]) # Right(id[t])
    <3>1. Holds(t, Left(id[t]))
      BY <2>1 DEF Holds, HoldsLeft
    <3>2. ~Holds(t, Right(id[t]))
      BY <1>1, <1>5 DEF DownRight, ForkInv, ForksAccounted
    <3> QED
      BY <3>1, <3>2
  <2>4. TwoForks'
    BY <1>1, <1>3, <2>3 DEF TwoForks
  <2> QED
    BY <2>2, <2>4 DEF ForkInv
<1>6. CASE UpLeft(t)
  <2>1. at[t] = "upLeft" /\ at'[t] = "clearLeft"
    BY <1>6 DEF UpLeft, Ready, Goto, TypeInv, DineTypeOK
  <2>2. Left(id[t]) # Right(id[t])
    BY <2>1 DEF ForkInv, TwoForks, HoldsLeft, HoldsRight
  <2>3. ForksAccounted'
    <3>1. /\ Holds(t, Left(id[t]))
          /\ \A f \in Phil : Holds(t, f)' <=> (Holds(t, f) /\ f # Left(id[t]))
      BY <1>1, <2>1, <2>2 DEF Holds, HoldsLeft, HoldsRight
    <3> QED
      BY <1>1, <1>2, <1>6, <3>1, PostKeepsForkInv DEF UpLeft
  <2>4. TwoForks'
    BY <1>3, <2>1 DEF TwoForks, HoldsLeft, HoldsRight
  <2> QED
    BY <2>3, <2>4 DEF ForkInv
<1>7. CASE UpRight(t)
  <2>1. at[t] = "upRight" /\ at'[t] = "clearRight"
    BY <1>7 DEF UpRight, Ready, Goto, TypeInv, DineTypeOK
  <2>2. ForksAccounted'
    <3>1. /\ Holds(t, Right(id[t]))
          /\ \A f \in Phil : Holds(t, f)' <=> (Holds(t, f) /\ f # Right(id[t]))
      BY <1>1, <2>1 DEF Holds, HoldsLeft, HoldsRight
    <3> QED
      BY <1>1, <1>2, <1>7, <3>1, PostKeepsForkInv DEF UpRight
  <2>3. TwoForks'
    BY <1>3, <2>1 DEF TwoForks, HoldsLeft, HoldsRight
  <2> QED
    BY <2>2, <2>3 DEF ForkInv
<1> QED
  BY <1>4, <1>5, <1>6, <1>7

LEMMA InitForks == Init => ForkInv
<1> SUFFICES ASSUME Init PROVE ForkInv
  OBVIOUS
<1>1. \A t, f \in Phil : ~HoldsLeft(t) /\ ~HoldsRight(t) /\ ~Holds(t, f)
  BY DEF Init, HoldsLeft, HoldsRight, Holds
<1> QED
  BY <1>1 DEF Init, ForkInv, TwoForks, ForksAccounted

LEMMA NextForks == TypeInv /\ ForkInv /\ [Next]_vars => ForkInv'
<1> SUFFICES ASSUME TypeInv, ForkInv, [Next]_vars PROVE ForkInv'
  OBVIOUS
<1>1. CASE MainStep
  BY <1>1, MainKeepsForks, KeepsForksInv
<1>2. ASSUME NEW t \in Phil, Step(t) PROVE ForkInv'
  <2>1. CASE DownLeft(t) \/ DownRight(t) \/ UpLeft(t) \/ UpRight(t)
    BY <2>1, SemStepForkInv
  <2>2. CASE ~(DownLeft(t) \/ DownRight(t) \/ UpLeft(t) \/ UpRight(t))
    BY <1>2, <2>2, StepKeepsForks, KeepsForksInv DEF Step
  <2> QED
    BY <2>1, <2>2
<1>3. CASE UNCHANGED vars
  <2>1. KeepsForks
    BY <1>3 DEF vars, KeepsForks, HoldsLeft, HoldsRight
  <2> QED
    BY <2>1, KeepsForksInv
<1> QED
  BY <1>1, <1>2, <1>3 DEF Next, Ended

(***************************************************************************)
(* Whatever ids the threads read, the semaphores count the forks right.    *)
(***************************************************************************)
THEOREM DineForksAccounted == Spec => []ForksAccounted
<1>1. ForkInv => ForksAccounted
  BY DEF ForkInv
<1> QED
  BY <1>1, InitType, NextType, InitForks, NextForks, PTL DEF Spec

(***************************************************************************)
(* Mutual exclusion at the table: two threads that eat share no fork.      *)
(***************************************************************************)
THEOREM DineNeighboursNeverEat == Spec => []NeighboursNeverEat
<1>1. TypeInv /\ ForksAccounted => NeighboursNeverEat
  <2> SUFFICES ASSUME TypeInv, ForksAccounted,
                      NEW t \in Phil, NEW u \in Phil, t # u, Eating(t), Eating(u),
                      NEW f \in ForksOf(id[t]) \cap ForksOf(id[u])
               PROVE  FALSE
    BY DEF NeighboursNeverEat
  <2>1. id[t] \in Phil /\ f \in Phil
    BY SeatsInRange DEF Eating, TypeInv, Seated, HoldsLeft, ForksOf
  <2>2. Holds(t, f) /\ Holds(u, f)
    BY DEF Eating, Holds, HoldsLeft, HoldsRight, ForksOf
  <2> QED
    BY <2>1, <2>2 DEF ForksAccounted
<1> QED
  BY <1>1, InitType, NextType, DineForksAccounted, PTL DEF Spec

-----------------------------------------------------------------------------
(***************************************************************************)
(* The print lock.                                                         *)
(***************************************************************************)
Printing(t) == print[t] = "hold"

PrintInv ==
    /\ print_lock \in {0, 1}
    /\ print_lock = 1 <=> \A t \in Phil : ~Printing(t)
    /\ \A t, u \in Phil : Printing(t) /\ Printing(u) => t = u
    /\ \A t \in Phil : Printing(t) => Len(line) = shown[t]
    /\ print_lock = 1 => line = <<>>

KeepsPrint ==
    /\ UNCHANGED <<print_lock, line, shown>>
    /\ \A u \in Phil : Printing(u)' <=> Printing(u)

LEMMA KeepsPrintInv == PrintInv /\ KeepsPrint => PrintInv'
BY DEF PrintInv, KeepsPrint

LEMMA OtherStepKeepsPrint ==
    ASSUME TypeInv, NEW t \in Phil, Step(t),
           ~PrintLock(t), ~PrintPhil(t), ~PrintUnlock(t)
    PROVE  KeepsPrint
<1> USE DEF TypeInv, DineTypeOK, KeepsPrint, Printing, Ready, Goto, PrintThenGoto
<1>1. CASE ReadId(t) \/ Loop(t) \/ Fault(t)
  BY <1>1 DEF ReadId, Loop, Fault
<1>2. CASE DownLeft(t) \/ DownRight(t) \/ UpLeft(t) \/ UpRight(t)
  BY <1>2 DEF DownLeft, DownRight, UpLeft, UpRight
<1>3. CASE MarkLeft(t) \/ MarkRight(t) \/ ClearLeft(t) \/ ClearRight(t)
  BY <1>3 DEF MarkLeft, MarkRight, ClearLeft, ClearRight
<1>4. CASE Eat(t) \/ Think(t)
  BY <1>4 DEF Eat, Think
<1> QED
  BY <1>1, <1>2, <1>3, <1>4 DEF Step

LEMMA PrintStepPrintInv ==
    ASSUME TypeInv, PrintInv, NEW t \in Phil,
           PrintLock(t) \/ PrintPhil(t) \/ PrintUnlock(t)
    PROVE  PrintInv'
<1>1. CASE PrintLock(t)
  <2>1. /\ print_lock = 1 /\ print_lock' = 0 /\ line' = line /\ line = <<>>
        /\ \A u \in Phil : ~Printing(u)
    BY <1>1 DEF PrintLock, PrintInv
  <2>2. /\ print'[t] = "hold" /\ shown'[t] = 0
        /\ \A u \in Phil \ {t} : print'[u] = print[u]
    BY <1>1 DEF PrintLock, TypeInv, DineTypeOK
  <2>3. Printing(t)' /\ \A u \in Phil \ {t} : ~Printing(u)'
    BY <2>1, <2>2 DEF Printing
  <2>4. Len(line') = 0
    BY <2>1
  <2> QED
    BY <2>1, <2>2, <2>3, <2>4 DEF PrintInv
<1>2. CASE PrintPhil(t)
  <2>1. Printing(t) /\ print_lock = 0 /\ \A u \in Phil : Printing(u) => u = t
    BY <1>2 DEF PrintPhil, PrintInv, Printing
  <2>2. print_lock' = print_lock /\ shown'[t] = shown[t] + 1 /\ \A u \in Phil : Printing(u)' <=> Printing(u)
    BY <1>2 DEF PrintPhil, Printing, TypeInv, DineTypeOK
  <2>3. Len(line') = Len(line) + 1
    BY <1>2 DEF PrintPhil, TypeInv, DineTypeOK
  <2>4. Len(line) = shown[t]
    BY <2>1 DEF PrintInv
  <2> QED
    BY <2>1, <2>2, <2>3, <2>4 DEF PrintInv
<1>3. CASE PrintUnlock(t)
  <2>1. Printing(t) /\ \A u \in Phil : Printing(u) => u = t
    BY <1>3 DEF PrintUnlock, PrintInv, Printing
  <2>2. print_lock = 0 /\ print_lock' = 1 /\ line' = <<>>
    BY <1>3, <2>1 DEF PrintUnlock, PrintInv
  <2>3. \A u \in Phil : ~Printing(u)'
    BY <1>3, <2>1 DEF PrintUnlock, Printing, TypeInv, DineTypeOK
  <2> QED
    BY <2>2, <2>3 DEF PrintInv
<1> QED
  BY <1>1, <1>2, <1>3

LEMMA InitPrint == Init => PrintInv
BY DEF Init, PrintInv, Printing

LEMMA NextPrint == TypeInv /\ PrintInv /\ [Next]_vars => PrintInv'
<1> SUFFICES ASSUME TypeInv, PrintInv, [Next]_vars PROVE PrintInv'
  OBVIOUS
<1>1. CASE MainStep \/ UNCHANGED vars
  <2>1. KeepsPrint
    BY <1>1 DEF MainStep, Create, CountUp, CountFromZero, Join, vars, KeepsPrint, Printing
  <2> QED
    BY <2>1, KeepsPrintInv
<1>2. ASSUME NEW t \in Phil, Step(t) PROVE PrintInv'
  <2>1. CASE PrintLock(t) \/ PrintPhil(t) \/ PrintUnlock(t)
    BY <2>1, PrintStepPrintInv
  <2>2. CASE ~(PrintLock(t) \/ PrintPhil(t) \/ PrintUnlock(t))
    BY <1>2, <2>2, OtherStepKeepsPrint, KeepsPrintInv
  <2> QED
    BY <2>1, <2>2
<1> QED
  BY <1>1, <1>2 DEF Next, Ended

(***************************************************************************)
(* No two threads write on the same status line.                           *)
(***************************************************************************)
THEOREM DineLinesWhole == Spec => []LinesWhole
<1>1. PrintInv => LinesWhole
  BY DEF PrintInv, LinesWhole, Printing
<1> QED
  BY <1>1, InitType, NextType, InitPrint, NextPrint, PTL DEF Spec

-----------------------------------------------------------------------------
(***************************************************************************)
(* Deadlock.  When main waits in pthread_join every thread has been        *)
(* created, and a thread prints only in the middle of a cycle.             *)
(***************************************************************************)
Started ==
    /\ main = "create" => \A t \in Phil : t < i => at[t] # "unborn"
    /\ main = "created" => \A t \in Phil : t <= i => at[t] # "unborn"
    /\ main \in {"restart", "join", "joined"} => \A t \in Phil : at[t] # "unborn"
    /\ \A t \in Phil : at[t] \in {"unborn", "born", "done"} => print[t] = "no"

LEMMA InitStarted == Init => Started
<1> SUFFICES ASSUME Init PROVE Started
  OBVIOUS
<1>1. \A t \in Phil : ~(t < 0)
  BY NAssumption DEF Phil
<1> QED
  BY <1>1 DEF Init, Started

LEMMA MainStepStarted == TypeInv /\ Started /\ MainStep => Started'
<1> SUFFICES ASSUME TypeInv, Started, MainStep PROVE Started'
  OBVIOUS
<1>1. CASE Create
  <2>1. i \in Phil /\ at[i] = "unborn" /\ at \in [Phil -> Steps \cup {"unborn", "born"}]
    BY <1>1, NAssumption DEF Create, TypeInv, DineTypeOK, Counting, Phil
  <2>2. \A t \in Phil : t <= i => t < i \/ t = i
    BY <2>1, NAssumption DEF Phil
  <2>3. \A t \in Phil : at'[t] = (IF t = i THEN "born" ELSE at[t]) /\ print'[t] = print[t]
    BY <1>1, <2>1 DEF Create
  <2> QED
    BY <1>1, <2>1, <2>2, <2>3 DEF Create, Started
<1>2. CASE CountUp
  <2>1. i \in Phil /\ i' = i + 1 /\ UNCHANGED <<at, print>>
    BY <1>2, NAssumption DEF CountUp, TypeInv, Counting
  <2>2. \A t \in Phil : (t < i' => t <= i) /\ (i' >= N => t <= i)
    BY <2>1, NAssumption DEF Phil
  <2>3. /\ main = "created" => main' = IF i' < N THEN "create" ELSE "restart"
        /\ main = "joined" => main' = IF i' < N THEN "join" ELSE "exit"
        /\ i' < N \/ i' >= N
    BY <1>2, <2>1, NAssumption DEF CountUp, Phil
  <2>4. main \in {"created", "joined"}
    BY <1>2 DEF CountUp
  <2> QED
    BY <2>1, <2>2, <2>3, <2>4 DEF Started
<1>3. CASE CountFromZero
  BY <1>3 DEF CountFromZero, Started
<1>4. CASE Join
  BY <1>4 DEF Join, Started
<1> QED
  BY <1>1, <1>2, <1>3, <1>4 DEF MainStep

LEMMA StepStarted == ASSUME TypeInv, Started, NEW t \in Phil, Step(t) PROVE Started'
<1>1. UNCHANGED <<main, i>>
  BY DEF Step, ReadId, Loop, DownLeft, Fault, MarkLeft, DownRight, MarkRight, Eat, UpLeft,
         ClearLeft, UpRight, ClearRight, Think, PrintLock, PrintPhil, PrintUnlock, mainVars
<1>2. /\ \A u \in Phil \ {t} : at'[u] = at[u] /\ print'[u] = print[u]
      /\ at[t] # "unborn" => at'[t] # "unborn"
      /\ at'[t] \in {"unborn", "born", "done"} => print'[t] = "no"
  <2> USE DEF TypeInv, DineTypeOK, Started, Ready, Goto, PrintThenGoto
  <2>1. CASE ReadId(t) \/ Loop(t) \/ Fault(t)
    BY <2>1 DEF ReadId, Loop, Fault
  <2>2. CASE DownLeft(t) \/ DownRight(t) \/ UpLeft(t) \/ UpRight(t)
    BY <2>2 DEF DownLeft, DownRight, UpLeft, UpRight
  <2>3. CASE MarkLeft(t) \/ MarkRight(t) \/ ClearLeft(t) \/ ClearRight(t)
    BY <2>3 DEF MarkLeft, MarkRight, ClearLeft, ClearRight
  <2>4. CASE Eat(t) \/ Think(t)
    BY <2>4 DEF Eat, Think
  <2>5. CASE PrintLock(t) \/ PrintPhil(t) \/ PrintUnlock(t)
    BY <2>5 DEF PrintLock, PrintPhil, PrintUnlock
  <2> QED
    BY <2>1, <2>2, <2>3, <2>4, <2>5 DEF Step
<1> QED
  BY <1>1, <1>2 DEF Started

LEMMA NextStarted == TypeInv /\ Started /\ [Next]_vars => Started'
<1>1. ASSUME Started, UNCHANGED vars PROVE Started'
  BY <1>1 DEF vars, Started
<1> QED
  BY <1>1, MainStepStarted, StepStarted DEF Next, Ended

\* Everybody asks for the lower-numbered fork first.
LEMMA Ascending == ASSUME N > 1, NEW p \in Phil PROVE Left(p) < Right(p)
<1>1. CASE p = LAST
  <2>1. Left(p) = 0 /\ Right(p) = N - 1
    BY <1>1, NAssumption DEF Left, Right, LAST
  <2> QED
    BY <2>1, NAssumption
<1>2. CASE p # LAST
  <2>1. Left(p) = p /\ Right(p) = p + 1
    BY <1>2, NAssumption DEF Left, Right, LAST, Phil
  <2> QED
    BY <2>1 DEF Phil
<1> QED
  BY <1>1, <1>2

\* A set of forks with no highest one is empty.
LEMMA NoHighest ==
    ASSUME NEW W \in SUBSET Phil, \A f \in W : \E g \in W : f < g
    PROVE  W = {}
<1> SUFFICES ASSUME W # {} PROVE FALSE
  OBVIOUS
<1> DEFINE Below == {n \in Nat : N - 1 - n \in W}
<1>1. Below # {}
  <2>1. PICK f \in W : TRUE
    OBVIOUS
  <2>2. N - 1 - f \in Nat /\ N - 1 - (N - 1 - f) = f
    BY <2>1, NAssumption DEF Phil
  <2> QED
    BY <2>2
<1>2. PICK n \in Below : \A m \in Below : ~(m < n)
  <2>1. \E n \in Below : \A m \in Below : <<m, n>> \notin OpToRel(<, Nat)
    BY <1>1, NatLessThanWellFounded, WFMin
  <2> QED
    BY <2>1 DEF OpToRel
<1>3. PICK g \in W : N - 1 - n < g
  BY <1>2
<1>4. N - 1 - g \in Nat /\ N - 1 - (N - 1 - g) = g /\ N - 1 - g < n
  BY <1>2, <1>3, NAssumption DEF Phil
<1> QED
  BY <1>2, <1>3, <1>4

(***************************************************************************)
(* The argument for ordered resources.  If everybody were blocked, nobody  *)
(* would be printing, so whoever is not done waits for a fork, and the one *)
(* who holds that fork waits for a higher one in turn.                     *)
(***************************************************************************)
LEMMA NotAllBlocked ==
    ASSUME N > 1, TypeInv, ForkInv, PrintInv, Started
    PROVE  NoDeadlock
<1> SUFFICES ASSUME Running, main = "join", at[i] # "done", \A t \in Phil : Blocked(t)
             PROVE  FALSE
  BY DEF NoDeadlock
<1>1. \A t \in Phil : at[t] # "unborn" /\ print[t] = "no"
  <2>1. \A t \in Phil : at[t] # "unborn" /\ (at[t] = "done" => print[t] = "no")
    BY DEF Started
  <2>2. \A t \in Phil : print[t] # "hold"
    BY <2>1 DEF Blocked
  <2>3. print_lock = 1
    BY <2>2 DEF PrintInv, Printing
  <2> QED
    BY <2>1, <2>2, <2>3 DEF Blocked, TypeInv, DineTypeOK
<1> DEFINE W == {f \in Phil : forks[f] = 0}
<1>2. \A t \in Phil : \/ at[t] = "done"
                      \/ at[t] = "downLeft" /\ id[t] # N /\ forks[Left(id[t])] = 0
                      \/ at[t] = "downRight" /\ id[t] \in Phil /\ Right(id[t]) \in W
  <2>1. ASSUME NEW t \in Phil, at[t] = "downRight", forks[Right(id[t])] = 0
        PROVE  id[t] \in Phil /\ Right(id[t]) \in W
    BY <2>1, SeatsInRange DEF TypeInv, Seated, HoldsLeft
  <2> QED
    BY <1>1, <2>1 DEF Blocked
<1>3. ASSUME NEW f \in W PROVE \E g \in W : f < g
  <2>1. PICK u \in Phil : Holds(u, f)
    BY DEF ForkInv, ForksAccounted
  <2>2. at[u] = "downRight" /\ f = Left(id[u])
    BY <1>2, <2>1 DEF Holds, HoldsLeft, HoldsRight
  <2>3. Right(id[u]) \in W /\ f < Right(id[u])
    BY <1>2, <2>2, Ascending
  <2> QED
    BY <2>3
<1>4. W # {}
  <2>1. i \in Phil
    BY DEF TypeInv, Counting
  <2>2. id[i] # N => id[i] \in Phil /\ Left(id[i]) \in Phil
    <3>1. id[i] \in 0..N
      BY <2>1 DEF TypeInv, DineTypeOK
    <3>2. id[i] # N => id[i] \in Phil
      BY <3>1, NAssumption DEF Phil
    <3> QED
      BY <3>2, SeatsInRange
  <2> QED
    BY <1>2, <2>1, <2>2
<1> QED
  BY <1>3, <1>4, NoHighest

\* With more than one philosopher nothing deadlocks until the process ends.
THEOREM DineNoDeadlock == N > 1 => (Spec => []NoDeadlock)
<1> SUFFICES ASSUME N > 1 PROVE Spec => []NoDeadlock
  OBVIOUS
<1>1. TypeInv /\ ForkInv /\ PrintInv /\ Started => NoDeadlock
  BY NotAllBlocked
<1> QED
  BY <1>1, InitType, NextType, InitForks, NextForks, InitPrint, NextPrint, InitStarted,
     NextStarted, PTL DEF Spec
=============================================================================
