--------------------------------- MODULE Dine ---------------------------------
(***************************************************************************)
(* The dining philosophers of src/assns/assn3/dine.c: main starts one      *)
(* thread per philosopher and joins them; each thread goes through its     *)
(* cycles, taking and giving back forks (semaphores) and printing a status *)
(* line under print_lock at every change.                                  *)
(*                                                                         *)
(* A thread is told which philosopher it is through the address of main's  *)
(* loop counter i, which it reads whenever it gets to run.  Until then     *)
(* main may have counted on, and the thread may take any number main has   *)
(* reached: another philosopher's, or N, for which phils[N] lies beyond    *)
(* the array, where the left semaphore pointer is 0 and sem_wait faults.   *)
(*                                                                         *)
(* Left out: the fork columns of the status line (its status column is     *)
(* kept), the table's borders, and the return values of the pthread and    *)
(* semaphore calls, which the code does not look at after start-up.        *)
(***************************************************************************)
EXTENDS Integers, Sequences

CONSTANTS
    N,          \* NUM_PHILOSPHOPHERS
    NoArg,      \* no argument on the command line
    Args        \* the arguments dine is run with: NoArg or an integer

ASSUME NAssumption == N \in Nat \ {0}
ASSUME ArgsAssumption == Args \subseteq {NoArg} \cup Int

VARIABLES
    cycles,         \* the global of that name
    forks,          \* values of the fork semaphores
    print_lock,     \* value of the binary semaphore around printing
    phils,          \* state and flags of each philosopher
    i,              \* main's loop counter, which the threads read
    main,           \* where main is
    id,             \* each thread's local id
    at,             \* what each thread does next, once it has printed
    print,          \* where each thread is in print_semas
    shown,          \* how many philosophers it has printed there
    count,          \* its local loop counter
    line,           \* the status line as far as it is on the terminal
    crashed,        \* a thread faulted, and the process is gone
    meals           \* history: how often each philosopher has eaten

vars == <<cycles, forks, print_lock, phils, i, main, id, at, print, shown,
          count, line, crashed, meals>>
mainVars == <<cycles, i, main>>

Phil == 0..N - 1        \* philosophers, forks and threads alike

\* Mutant: the last philosopher is not found, and starts like the others.
LAST_OffByOne == N

LAST == N - 1

-----------------------------------------------------------------------------
(***************************************************************************)
(* The seats.  The last philosopher's left fork is his right one and vice  *)
(* versa, so that everybody takes the lower-numbered fork first.           *)
(***************************************************************************)
Left(p) == IF p = LAST THEN (p + 1) % N ELSE p % N
Right(p) == IF p = LAST THEN p % N ELSE (p + 1) % N

get_cycles(arg) ==
    CASE arg = NoArg -> 1
      [] arg # NoArg /\ arg = 0 -> -1
      [] OTHER -> arg

Init ==
    /\ cycles \in {get_cycles(a) : a \in Args}
    /\ forks = [f \in Phil |-> 1]
    /\ print_lock = 1
    /\ phils = [p \in Phil |-> [state |-> "CHANGING", left |-> "UN_USED", right |-> "UN_USED"]]
    /\ i = 0
    /\ main = IF cycles = -1 THEN "exit" ELSE "create"
    /\ id = [t \in Phil |-> 0]
    /\ at = [t \in Phil |-> "unborn"]
    /\ print = [t \in Phil |-> "no"]
    /\ shown = [t \in Phil |-> 0]
    /\ count = [t \in Phil |-> 0]
    /\ line = <<>>
    /\ crashed = FALSE
    /\ meals = [p \in Phil |-> 0]

Running == ~crashed /\ main # "exit"

-----------------------------------------------------------------------------
(***************************************************************************)
(* main: for (i=0; i<N; i++) pthread_create(.., &i), then the same counter *)
(* again for the joins.                                                    *)
(***************************************************************************)
Create ==
    /\ Running /\ main = "create"
    /\ at' = [at EXCEPT ![i] = "born"]
    /\ main' = "created"
    /\ UNCHANGED <<cycles, forks, print_lock, phils, i, id, print, shown, count,
                   line, crashed, meals>>

CountUp ==
    /\ Running /\ main \in {"created", "joined"}
    /\ i' = i + 1
    /\ main' = CASE i' < N -> IF main = "created" THEN "create" ELSE "join"
                 [] i' >= N -> IF main = "created" THEN "restart" ELSE "exit"
    /\ UNCHANGED <<cycles, forks, print_lock, phils, id, at, print, shown, count,
                   line, crashed, meals>>

CountFromZero ==
    /\ Running /\ main = "restart"
    /\ i' = 0
    /\ main' = "join"
    /\ UNCHANGED <<cycles, forks, print_lock, phils, id, at, print, shown, count,
                   line, crashed, meals>>

Join ==
    /\ Running /\ main = "join"
    /\ at[i] = "done"
    /\ main' = "joined"
    /\ UNCHANGED <<cycles, forks, print_lock, phils, i, id, at, print, shown, count,
                   line, crashed, meals>>

-----------------------------------------------------------------------------
(***************************************************************************)
(* A thread.  Ready(t, step): it is about to do step and is not printing.  *)
(***************************************************************************)
Ready(t, step) == Running /\ at[t] = step /\ print[t] = "no"

Goto(t, step) == at' = [at EXCEPT ![t] = step] /\ print' = print

PrintThenGoto(t, step) ==
    at' = [at EXCEPT ![t] = step] /\ print' = [print EXCEPT ![t] = "wait"]

SetState(t, state) == phils' = [phils EXCEPT ![id[t]].state = state]

(***************************************************************************)
(* Mutants: slips one could make in dine.c, used to show that each         *)
(* property can fail.                                                      *)
(***************************************************************************)
\* give_forks posts the right fork where it should post the left one
UpLeft_Swapped(t) ==
    /\ Ready(t, "upLeft")
    /\ forks' = [forks EXCEPT ![Right(id[t])] = @ + 1]
    /\ Goto(t, "clearLeft")
    /\ UNCHANGED <<print_lock, phils, id, shown, count, line, crashed, meals, mainVars>>

\* sem_trywait, with its result ignored, instead of sem_wait
DownRight_TryWait(t) ==
    /\ Ready(t, "downRight")
    /\ forks' = [forks EXCEPT ![Right(id[t])] = IF @ > 0 THEN @ - 1 ELSE @]
    /\ Goto(t, "markRight")
    /\ UNCHANGED <<print_lock, phils, id, shown, count, line, crashed, meals, mainVars>>

\* print_semas without down(&print_lock)
PrintLock_Unlocked(t) ==
    /\ Running /\ print[t] = "wait"
    /\ print' = [print EXCEPT ![t] = "hold"]
    /\ shown' = [shown EXCEPT ![t] = 0]
    /\ UNCHANGED <<forks, print_lock, phils, id, at, count, line, crashed, meals, mainVars>>

\* give_forks puts the left fork back only
UpRight_NoPost(t) ==
    /\ Ready(t, "upRight")
    /\ Goto(t, "clearRight")
    /\ UNCHANGED <<forks, print_lock, phils, id, shown, count, line, crashed, meals, mainVars>>

-----------------------------------------------------------------------------
\* phil_life: int id=*((char*)_id)
ReadId(t) ==
    /\ Ready(t, "born")
    /\ id' = [id EXCEPT ![t] = i]
    /\ Goto(t, "loop")
    /\ UNCHANGED <<forks, print_lock, phils, shown, count, line, crashed, meals, mainVars>>

Loop(t) ==
    /\ Ready(t, "loop")
    /\ IF count[t] < cycles THEN Goto(t, "downLeft") ELSE Goto(t, "done")
    /\ UNCHANGED <<forks, print_lock, phils, id, shown, count, line, crashed, meals, mainVars>>

\* take_forks
DownLeft(t) ==
    /\ Ready(t, "downLeft") /\ id[t] # N
    /\ forks[Left(id[t])] > 0
    /\ forks' = [forks EXCEPT ![Left(id[t])] = @ - 1]
    /\ Goto(t, "markLeft")
    /\ UNCHANGED <<print_lock, phils, id, shown, count, line, crashed, meals, mainVars>>

Fault(t) ==
    /\ Ready(t, "downLeft") /\ id[t] = N
    /\ crashed' = TRUE
    /\ UNCHANGED <<forks, print_lock, phils, id, at, print, shown, count, line, meals, mainVars>>

MarkLeft(t) ==
    /\ Ready(t, "markLeft")
    /\ phils' = [phils EXCEPT ![id[t]].left = "USED", ![id[t]].state = "CHANGING"]
    /\ PrintThenGoto(t, "downRight")
    /\ UNCHANGED <<forks, print_lock, id, shown, count, line, crashed, meals, mainVars>>

DownRight(t) ==
    /\ Ready(t, "downRight")
    /\ forks[Right(id[t])] > 0
    /\ forks' = [forks EXCEPT ![Right(id[t])] = @ - 1]
    /\ Goto(t, "markRight")
    /\ UNCHANGED <<print_lock, phils, id, shown, count, line, crashed, meals, mainVars>>

MarkRight(t) ==
    /\ Ready(t, "markRight")
    /\ phils' = [phils EXCEPT ![id[t]].right = "USED", ![id[t]].state = "EATING"]
    /\ PrintThenGoto(t, "eat")
    /\ UNCHANGED <<forks, print_lock, id, shown, count, line, crashed, meals, mainVars>>

\* eat: dawdle, then print
Eat(t) ==
    /\ Ready(t, "eat")
    /\ meals' = [meals EXCEPT ![id[t]] = @ + 1]
    /\ PrintThenGoto(t, "upLeft")
    /\ UNCHANGED <<forks, print_lock, phils, id, shown, count, line, crashed, mainVars>>

\* give_forks: the fork is back on the table before the state says so
UpLeft(t) ==
    /\ Ready(t, "upLeft")
    /\ forks' = [forks EXCEPT ![Left(id[t])] = @ + 1]
    /\ Goto(t, "clearLeft")
    /\ UNCHANGED <<print_lock, phils, id, shown, count, line, crashed, meals, mainVars>>

ClearLeft(t) ==
    /\ Ready(t, "clearLeft")
    /\ phils' = [phils EXCEPT ![id[t]].left = "UN_USED", ![id[t]].state = "CHANGING"]
    /\ PrintThenGoto(t, "upRight")
    /\ UNCHANGED <<forks, print_lock, id, shown, count, line, crashed, meals, mainVars>>

UpRight(t) ==
    /\ Ready(t, "upRight")
    /\ forks' = [forks EXCEPT ![Right(id[t])] = @ + 1]
    /\ Goto(t, "clearRight")
    /\ UNCHANGED <<print_lock, phils, id, shown, count, line, crashed, meals, mainVars>>

ClearRight(t) ==
    /\ Ready(t, "clearRight")
    /\ phils' = [phils EXCEPT ![id[t]].right = "UN_USED", ![id[t]].state = "THINKING"]
    /\ PrintThenGoto(t, "think")
    /\ UNCHANGED <<forks, print_lock, id, shown, count, line, crashed, meals, mainVars>>

\* think: dawdle, then print; then i++ of phil_life
Think(t) ==
    /\ Ready(t, "think")
    /\ count' = [count EXCEPT ![t] = @ + 1]
    /\ PrintThenGoto(t, "loop")
    /\ UNCHANGED <<forks, print_lock, phils, id, shown, line, crashed, meals, mainVars>>

-----------------------------------------------------------------------------
(***************************************************************************)
(* print_semas: one philosopher at a time under print_lock, with nothing   *)
(* that keeps the others from changing their states meanwhile.             *)
(***************************************************************************)
PrintLock(t) ==
    /\ Running /\ print[t] = "wait"
    /\ print_lock > 0
    /\ print_lock' = print_lock - 1
    /\ print' = [print EXCEPT ![t] = "hold"]
    /\ shown' = [shown EXCEPT ![t] = 0]
    /\ UNCHANGED <<forks, phils, id, at, count, line, crashed, meals, mainVars>>

PrintPhil(t) ==
    /\ Running /\ print[t] = "hold"
    /\ shown[t] < N
    /\ line' = Append(line, phils[shown[t]].state)
    /\ shown' = [shown EXCEPT ![t] = @ + 1]
    /\ UNCHANGED <<forks, print_lock, phils, id, at, print, count, crashed, meals, mainVars>>

PrintUnlock(t) ==
    /\ Running /\ print[t] = "hold"
    /\ shown[t] = N
    /\ print_lock' = print_lock + 1
    /\ print' = [print EXCEPT ![t] = "no"]
    /\ line' = <<>>
    /\ UNCHANGED <<forks, phils, id, at, shown, count, crashed, meals, mainVars>>

-----------------------------------------------------------------------------
Step(t) ==
    \/ ReadId(t) \/ Loop(t)
    \/ DownLeft(t) \/ Fault(t) \/ MarkLeft(t) \/ DownRight(t) \/ MarkRight(t)
    \/ Eat(t)
    \/ UpLeft(t) \/ ClearLeft(t) \/ UpRight(t) \/ ClearRight(t)
    \/ Think(t)
    \/ PrintLock(t) \/ PrintPhil(t) \/ PrintUnlock(t)

MainStep == Create \/ CountUp \/ CountFromZero \/ Join

\* The process has ended, by main's return or by the fault.
Ended == ~Running /\ UNCHANGED vars

Next == MainStep \/ Ended \/ \E t \in Phil : Step(t)

Spec == Init /\ [][Next]_vars

\* Every thread that can go on is scheduled; a semaphore need not be fair.
FairSpec == Spec /\ WF_vars(MainStep) /\ \A t \in Phil : WF_vars(Step(t))

-----------------------------------------------------------------------------
HoldsLeft(t) == at[t] \in {"markLeft", "downRight", "markRight", "eat", "upLeft"}
HoldsRight(t) == at[t] \in {"markRight", "eat", "upLeft", "clearLeft", "upRight"}

\* t has taken fork f and not given it back.
Holds(t, f) == \/ HoldsLeft(t) /\ f = Left(id[t])
               \/ HoldsRight(t) /\ f = Right(id[t])

\* t is between the end of take_forks and the beginning of give_forks.
Eating(t) == at[t] \in {"eat", "upLeft"}

ForksOf(p) == {Left(p), Right(p)}

Steps == {"loop", "downLeft", "markLeft", "downRight", "markRight", "eat",
          "upLeft", "clearLeft", "upRight", "clearRight", "think", "done"}

\* Type invariant.  Only a thread that has not read it yet, or whose id is
\* N, has an id that is not a philosopher's.
DineTypeOK ==
    /\ cycles \in Int
    /\ forks \in [Phil -> Nat]
    /\ print_lock \in Nat
    /\ phils \in [Phil -> [state : {"CHANGING", "EATING", "THINKING"},
                           left : {"USED", "UN_USED"}, right : {"USED", "UN_USED"}]]
    /\ i \in 0..N
    /\ main \in {"create", "created", "restart", "join", "joined", "exit"}
    /\ id \in [Phil -> 0..N]
    /\ at \in [Phil -> Steps \cup {"unborn", "born"}]
    /\ print \in [Phil -> {"no", "wait", "hold"}]
    /\ shown \in [Phil -> 0..N]
    /\ count \in [Phil -> Nat]
    /\ line \in Seq({"CHANGING", "EATING", "THINKING"})
    /\ crashed \in BOOLEAN
    /\ meals \in [Phil -> Nat]

(***************************************************************************)
(* The semaphores count right whatever ids the threads got: a fork is      *)
(* never held by two threads, and its value is 1 exactly while nobody      *)
(* holds it, so no sem_post is lost and none is done twice.                *)
(***************************************************************************)
ForksAccounted ==
    \A f \in Phil :
        /\ forks[f] \in {0, 1}
        /\ forks[f] = 1 <=> \A t \in Phil : ~Holds(t, f)
        /\ \A t, u \in Phil : Holds(t, f) /\ Holds(u, f) => t = u

(***************************************************************************)
(* Requirement 3 (dine.c:11), as far as forks go: two threads in eat never *)
(* share a fork, that is, neighbours never eat at the same time.           *)
(***************************************************************************)
NeighboursNeverEat ==
    \A t, u \in Phil :
        (t # u /\ Eating(t) /\ Eating(u)) => ForksOf(id[t]) \cap ForksOf(id[u]) = {}

(***************************************************************************)
(* print_lock keeps lines whole: while a thread prints, what is on the     *)
(* current line is what that thread has printed (dine.c:267-276).          *)
(***************************************************************************)
LinesWhole ==
    \A t \in Phil : print[t] = "hold" => (Len(line) = shown[t] /\ print_lock = 0)

(***************************************************************************)
(* No deadlock: until the process ends somebody can go on.  Taking the     *)
(* forks in ascending order (dine.c:176-184) is what it depends on.        *)
(***************************************************************************)
Blocked(t) ==
    \/ at[t] = "unborn"
    \/ at[t] = "done"
    \/ print[t] = "wait" /\ print_lock = 0
    \/ print[t] = "no" /\ at[t] = "downLeft" /\ id[t] # N /\ forks[Left(id[t])] = 0
    \/ print[t] = "no" /\ at[t] = "downRight" /\ forks[Right(id[t])] = 0

NoDeadlock ==
    Running => \/ main # "join"
               \/ at[i] = "done"
               \/ \E t \in Phil : ~Blocked(t)

\* Unless it faults the program comes to its end.
Terminates == <>~Running
=============================================================================
