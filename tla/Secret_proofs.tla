---------------------------- MODULE Secret_proofs ----------------------------
(***************************************************************************)
(* Proofs about the driver of /dev/secret, for every set of users and      *)
(* files, every size of the secret and any number of requests.             *)
(*                                                                         *)
(* CounterInv is the inductive invariant of open_counter and comes first;  *)
(* TextInv, which has it as a part, is that of the owner and the secret.   *)
(***************************************************************************)
EXTENDS Secret, FiniteSetTheorems, TLAPS

Flags == {"O_RDONLY", "O_WRONLY"}
FileStates == {Closed} \cup [open : {TRUE}, user : User, flag : {"O_RDONLY", "O_WRONLY"},
                             pos : 0..MaxPosition + SECRET_SIZE]

(***************************************************************************)
(* What the type says of an open file.                                     *)
(***************************************************************************)
LEMMA FileFacts ==
    ASSUME NEW x \in FileStates
    PROVE  /\ x.open \in BOOLEAN
           /\ ~x.open => x = Closed
           /\ x.open => /\ x.user \in User /\ x.flag \in Flags
                        /\ x.pos \in Int /\ 0 <= x.pos /\ x.pos <= MaxPosition + SECRET_SIZE
                        /\ x = Opened(x.user, x.flag, x.pos)
<1>1. CASE x = Closed
  <2>1. x.open = FALSE
    BY <1>1 DEF Closed
  <2> QED
    BY <1>1, <2>1
<1>2. CASE x \in [open : {TRUE}, user : User, flag : Flags,
                 pos : 0..MaxPosition + SECRET_SIZE]
  <2>1. x = [open |-> x.open, user |-> x.user, flag |-> x.flag, pos |-> x.pos]
    BY <1>2
  <2>2. x.open = TRUE /\ x.user \in User /\ x.flag \in Flags
        /\ x.pos \in 0..MaxPosition + SECRET_SIZE
    BY <1>2
  <2>3. x = Opened(x.user, x.flag, x.pos)
    BY <2>1, <2>2 DEF Opened
  <2>4. x.pos \in Int /\ 0 <= x.pos /\ x.pos <= MaxPosition + SECRET_SIZE
    BY <2>2, SecretAssumption
  <2> QED
    BY <2>2, <2>3, <2>4, Zenon
<1> QED
  BY <1>1, <1>2 DEF FileStates, Flags

(***************************************************************************)
(* An opened file has the type, and what it was opened with.               *)
(***************************************************************************)
LEMMA OpenedIsOpen ==
    ASSUME NEW u \in User, NEW flag \in Flags, NEW pos \in 0..MaxPosition + SECRET_SIZE
    PROVE  /\ Opened(u, flag, pos) \in FileStates
           /\ Opened(u, flag, pos).open
           /\ Opened(u, flag, pos).user = u
           /\ Opened(u, flag, pos).flag = flag
           /\ Opened(u, flag, pos).pos = pos
BY DEF Opened, FileStates, Flags

(***************************************************************************)
(* A file that is closed has the type, and is not open.                    *)
(***************************************************************************)
LEMMA ClosedIsNot == Closed \in FileStates /\ ~Closed.open
<1>1. Closed \in FileStates
  BY DEF FileStates
<1> QED
  BY <1>1 DEF Closed

(***************************************************************************)
(* The least of a set of natural numbers, and of two numbers.              *)
(***************************************************************************)
LEMMA MinNat ==
    ASSUME NEW S \in SUBSET Nat, S # {}
    PROVE  Min(S) \in S /\ \A y \in S : Min(S) <= y
<1>1. PICK x \in S : \A y \in S : ~(<<y, x>> \in OpToRel(<, Nat))
  BY NatLessThanWellFounded, WFMin
<1>2. ASSUME NEW y \in S PROVE x <= y
  <2>1. x \in Nat /\ y \in Nat
    OBVIOUS
  <2>2. ~(y < x)
    BY <1>1, <2>1 DEF OpToRel
  <2> QED
    BY <2>1, <2>2
<1> QED
  BY <1>2 DEF Min

LEMMA MinTwo ==
    ASSUME NEW a \in Int, NEW b \in Int
    PROVE  Min({a, b}) = IF a <= b THEN a ELSE b
<1>1. \E x \in {a, b} : \A y \in {a, b} : x <= y
  OBVIOUS
<1>2. Min({a, b}) \in {a, b} /\ \A y \in {a, b} : Min({a, b}) <= y
  BY <1>1 DEF Min
<1> QED
  BY <1>2

(***************************************************************************)
(* No request moves more than was asked for, or past the size, which is    *)
(* what the arithmetic of secret.c:231 and 256 is for.                     *)
(***************************************************************************)
LEMMA TransferredBound ==
    ASSUME NEW size \in Nat, NEW pos \in Nat, NEW n \in Nat
    PROVE  /\ Transferred(size, pos, n) \in Nat
           /\ Transferred(size, pos, n) <= n
           /\ pos <= size => pos + Transferred(size, pos, n) <= size
<1>1. size - pos \in Int /\ n \in Int
  OBVIOUS
<1>2. Min({size - pos, n}) = IF size - pos <= n THEN size - pos ELSE n
  BY <1>1, MinTwo
<1> QED
  BY <1>2 DEF Transferred

(***************************************************************************)
(* The secret ends at the first NUL, or with the array.                    *)
(***************************************************************************)
LEMMA LengthFacts ==
    secret \in [Byte -> User \cup {NUL}] =>
        /\ Length \in Nat /\ Length <= SECRET_SIZE
        /\ \A k \in Byte : secret[k] = NUL => Length <= k
        /\ Length < SECRET_SIZE => Length \in Byte /\ secret[Length] = NUL
<1> SUFFICES ASSUME secret \in [Byte -> User \cup {NUL}]
             PROVE  /\ Length \in Nat /\ Length <= SECRET_SIZE
                    /\ \A k \in Byte : secret[k] = NUL => Length <= k
                    /\ Length < SECRET_SIZE => Length \in Byte /\ secret[Length] = NUL
  OBVIOUS
<1> DEFINE ends == {k \in Byte : secret[k] = NUL}
<1>1. Length = IF ends # {} THEN Min(ends) ELSE SECRET_SIZE
  BY DEF Length
<1>2. ends \in SUBSET Nat /\ \A k \in Byte : k \in Nat /\ k <= SECRET_SIZE
  BY SecretAssumption DEF Byte
<1>3. CASE ends = {}
  BY <1>1, <1>3, SecretAssumption
<1>4. CASE ends # {}
  <2>1. Min(ends) \in ends /\ \A k \in ends : Min(ends) <= k
    BY <1>2, <1>4, MinNat
  <2>2. Length \in ends /\ \A k \in ends : Length <= k
    BY <1>1, <1>4, <2>1
  <2> QED
    BY <1>2, <2>2
<1> QED
  BY <1>3, <1>4

(***************************************************************************)
(* What strlen finds is a number, whatever follows the secret in memory.   *)
(***************************************************************************)
LEMMA StrlenIs == strlen = Length \/ (Length = SECRET_SIZE /\ strlen = SECRET_SIZE + 1)
BY Zenon DEF strlen

LEMMA StrlenType ==
    secret \in [Byte -> User \cup {NUL}] =>
        strlen \in Nat /\ Length <= strlen /\ strlen <= SECRET_SIZE + 1
BY LengthFacts, StrlenIs, SecretAssumption

(***************************************************************************)
(* The same of the text and its end, to be used of the next state.         *)
(***************************************************************************)
TextType == secret \in [Byte -> User \cup {NUL}]
TextEnds ==
    /\ Length \in Nat /\ Length <= SECRET_SIZE
    /\ Length < SECRET_SIZE => Length \in Byte /\ secret[Length] = NUL
    /\ strlen \in Nat /\ Length <= strlen

LEMMA EndFacts == TextType => TextEnds
BY LengthFacts, StrlenType DEF TextType, TextEnds

-----------------------------------------------------------------------------
(***************************************************************************)
(* The three things a request does to a file: what becomes of it, of the   *)
(* other files, and of the set of the open ones.                           *)
(***************************************************************************)
LEMMA OpenOne ==
    ASSUME file \in [File -> FileStates], NEW f \in File, NEW u \in User, NEW flag \in Flags,
           ~file[f].open, file' = [file EXCEPT ![f] = Opened(u, flag, 0)]
    PROVE  /\ file' \in [File -> FileStates]
           /\ file'[f] = Opened(u, flag, 0)
           /\ \A g \in File : g # f => file'[g] = file[g]
           /\ f \notin OpenFiles /\ OpenFiles' = OpenFiles \cup {f}
<1>1. 0 \in 0..MaxPosition + SECRET_SIZE
  BY SecretAssumption
<1>2. Opened(u, flag, 0) \in FileStates /\ Opened(u, flag, 0).open
  BY <1>1, OpenedIsOpen
<1>3. \A g \in File : file'[g] = IF g = f THEN Opened(u, flag, 0) ELSE file[g]
  OBVIOUS
<1>4. file' \in [File -> FileStates]
  BY <1>2
<1>5. OpenFiles' = {g \in File : file'[g].open}
  BY DEF OpenFiles
<1>6. f \notin OpenFiles /\ OpenFiles' = OpenFiles \cup {f}
  BY <1>2, <1>3, <1>5, Zenon DEF OpenFiles
<1> QED
  BY <1>3, <1>4, <1>6, Zenon

(***************************************************************************)
(* A close.                                                                *)
(***************************************************************************)
LEMMA CloseOne ==
    ASSUME file \in [File -> FileStates], NEW f \in File,
           file[f].open, file' = [file EXCEPT ![f] = Closed]
    PROVE  /\ file' \in [File -> FileStates]
           /\ \A g \in File : g # f => file'[g] = file[g]
           /\ f \in OpenFiles /\ OpenFiles' = OpenFiles \ {f}
<1>1. \A g \in File : file'[g] = IF g = f THEN Closed ELSE file[g]
  OBVIOUS
<1>2. file' \in [File -> FileStates]
  BY ClosedIsNot
<1>3. OpenFiles' = {g \in File : file'[g].open}
  BY DEF OpenFiles
<1>4. f \in OpenFiles /\ OpenFiles' = OpenFiles \ {f}
  BY <1>1, <1>3, ClosedIsNot, Zenon DEF OpenFiles
<1> QED
  BY <1>1, <1>2, <1>4, Zenon

(***************************************************************************)
(* Moving the position of a file leaves the rest of it.                    *)
(***************************************************************************)
LEMMA MovedOn ==
    ASSUME NEW r \in [open : {TRUE}, user : User, flag : Flags, pos : Int], NEW q \in Int
    PROVE  [r EXCEPT !.pos = q] = Opened(r.user, r.flag, q)
<1> DEFINE y == [r EXCEPT !.pos = q]
<1>1. y \in [open : {TRUE}, user : User, flag : Flags, pos : Int]
  OBVIOUS
<1>2. y.open = TRUE /\ y.user = r.user /\ y.flag = r.flag /\ y.pos = q
  BY <1>1
<1>3. y = [open |-> y.open, user |-> y.user, flag |-> y.flag, pos |-> y.pos]
  BY <1>1
<1> QED
  BY <1>2, <1>3 DEF Opened

(***************************************************************************)
(* A file whose position is set, by a read, a write or lseek.              *)
(***************************************************************************)
LEMMA MoveOne ==
    ASSUME file \in [File -> FileStates], NEW f \in File, file[f].open, NEW q \in Nat,
           q <= MaxPosition + SECRET_SIZE,
           file' = [file EXCEPT ![f].pos = q]
    PROVE  /\ file' \in [File -> FileStates]
           /\ file'[f] = Opened(file[f].user, file[f].flag, q)
           /\ \A g \in File : g # f => file'[g] = file[g]
           /\ OpenFiles' = OpenFiles
<1>1. PICK u \in User, flag \in Flags, p \in 0..MaxPosition + SECRET_SIZE :
        file[f] = Opened(u, flag, p)
  <2>1. file[f] \in FileStates
    OBVIOUS
  <2>2. /\ file[f].user \in User /\ file[f].flag \in Flags
        /\ file[f].pos \in Int /\ 0 <= file[f].pos /\ file[f].pos <= MaxPosition + SECRET_SIZE
        /\ file[f] = Opened(file[f].user, file[f].flag, file[f].pos)
    BY <2>1, FileFacts
  <2>3. file[f].pos \in 0..MaxPosition + SECRET_SIZE
    BY <2>2, SecretAssumption
  <2> QED
    BY <2>2, <2>3, Zenon
<1>2. file[f].user = u /\ file[f].flag = flag /\ file[f].pos = p
  BY <1>1, OpenedIsOpen
<1>3. q \in 0..MaxPosition + SECRET_SIZE
  BY SecretAssumption
<1>4. file'[f] = [file[f] EXCEPT !.pos = q]
  OBVIOUS
<1>5. [file[f] EXCEPT !.pos = q] = Opened(u, flag, q)
  <2>1. file[f] \in [open : {TRUE}, user : User, flag : Flags, pos : Int]
    BY <1>1, SecretAssumption DEF Opened
  <2>2. q \in Int
    BY <1>3, SecretAssumption
  <2> QED
    BY <1>2, <2>1, <2>2, MovedOn
<1>6. Opened(u, flag, q) \in FileStates /\ Opened(u, flag, q).open
  BY <1>3, OpenedIsOpen
<1>7. \A g \in File : file'[g] = IF g = f THEN Opened(u, flag, q) ELSE file[g]
  BY <1>4, <1>5
<1>8. file' = [g \in File |-> file'[g]]
  OBVIOUS
<1>9. file' \in [File -> FileStates]
  BY <1>6, <1>7, <1>8
<1>10. OpenFiles' = {g \in File : file'[g].open}
  BY DEF OpenFiles
<1>11. OpenFiles' = OpenFiles
  BY <1>6, <1>7, <1>10, Zenon DEF OpenFiles
<1> QED
  BY <1>2, <1>7, <1>9, <1>11, Zenon

-----------------------------------------------------------------------------
(***************************************************************************)
(* The inductive invariant of the counter.  The data store holds the       *)
(* counter as long as the driver waits to be replaced, which is why the    *)
(* new version counts the files that stayed open; and with no file open    *)
(* there is no reading to end, because the counter tells s_do_close which  *)
(* close is the last.                                                      *)
(***************************************************************************)
StoreCounts == frozen => store = open_counter
ReadingHasFiles == OpenFiles = {} => ~is_reading

CounterInv ==
    CounterAgrees /\ StoreCounts /\ ReadingHasFiles

(***************************************************************************)
(* The open files are some of the files there is room for.                 *)
(***************************************************************************)
LEMMA OpenFilesFinite == IsFiniteSet(OpenFiles) /\ Cardinality(OpenFiles) \in Nat
<1>1. OpenFiles \subseteq File
  BY DEF OpenFiles
<1> QED
  BY <1>1, SecretAssumption, FS_Subset, FS_CardinalityType

(***************************************************************************)
(* No file is open in a driver that starts (secret.c:303-312).             *)
(***************************************************************************)
LEMMA AllClosed ==
    ASSUME file = [f \in File |-> Closed]
    PROVE  file \in [File -> FileStates] /\ OpenFiles = {} /\ Cardinality(OpenFiles) = 0
<1>1. file \in [File -> FileStates]
  BY ClosedIsNot
<1>2. OpenFiles = {}
  BY ClosedIsNot, Zenon DEF OpenFiles
<1> QED
  BY <1>1, <1>2, FS_EmptySet

(***************************************************************************)
(* The counter is right when the driver starts.                            *)
(***************************************************************************)
LEMMA CounterInit == Init => CounterInv
<1> SUFFICES ASSUME Init PROVE CounterInv
  OBVIOUS
<1>1. file \in [File -> FileStates] /\ OpenFiles = {} /\ Cardinality(OpenFiles) = 0
  BY AllClosed DEF Init
<1>2. SecretTypeOK
  BY <1>1 DEF Init, SecretTypeOK, Blank, FileStates
<1> QED
  BY <1>1, <1>2 DEF Init, CounterInv, CounterAgrees, StoreCounts, ReadingHasFiles

(***************************************************************************)
(* A driver that is restarted, at any time, starts afresh.                 *)
(***************************************************************************)
LEMMA CounterRestarted == SecretTypeOK /\ Restarted => CounterInv'
<1> SUFFICES ASSUME SecretTypeOK, Restarted PROVE CounterInv'
  OBVIOUS
<1>1. file' = [f \in File |-> Closed]
  BY DEF Restarted
<1>2. file' \in [File -> FileStates]
  BY <1>1, ClosedIsNot
<1>3. OpenFiles' = {}
  BY <1>1, ClosedIsNot, Zenon DEF OpenFiles
<1>4. Cardinality(OpenFiles') = 0
  BY <1>3, FS_EmptySet
<1>5. SecretTypeOK'
  BY <1>2 DEF SecretTypeOK, Restarted, Blank, FileStates
<1> QED
  BY <1>3, <1>4, <1>5 DEF Restarted, CounterInv, CounterAgrees, StoreCounts, ReadingHasFiles

(***************************************************************************)
(* An open adds one file and counts it (secret.c:124-182).                 *)
(***************************************************************************)
LEMMA CounterOpen ==
    ASSUME CounterInv, NEW f \in File, NEW u \in User, NEW flag \in Flags, s_do_open(f, u, flag)
    PROVE  CounterInv'
<1>1. file \in [File -> FileStates]
  BY DEF CounterInv, CounterAgrees, SecretTypeOK, FileStates
<1>2. /\ file' \in [File -> FileStates]
      /\ file'[f] = Opened(u, flag, 0)
      /\ \A g \in File : g # f => file'[g] = file[g]
      /\ f \notin OpenFiles /\ OpenFiles' = OpenFiles \cup {f}
  BY <1>1, OpenOne DEF s_do_open
<1>3. Cardinality(OpenFiles') = Cardinality(OpenFiles) + 1
  BY <1>2, OpenFilesFinite, FS_AddElement
<1>4. SecretTypeOK'
  <2>1. owner' \in User \cup {NOT_OWNED} /\ entitled' \in SUBSET User /\ open_counter' \in Nat
    BY DEF s_do_open, CounterInv, CounterAgrees, SecretTypeOK
  <2>2. is_reading' \in BOOLEAN
    BY Zenon DEF s_do_open
  <2>3. UNCHANGED <<secret, store, frozen, lost, generation, sought, overrun>>
    BY DEF s_do_open
  <2> QED
    BY <1>2, <2>1, <2>2, <2>3 DEF CounterInv, CounterAgrees, SecretTypeOK, FileStates
<1>5. CounterAgrees'
  BY <1>3, <1>4 DEF CounterInv, CounterAgrees, s_do_open
<1> QED
  BY <1>2, <1>5 DEF CounterInv, StoreCounts, ReadingHasFiles, s_do_open, Serving

(***************************************************************************)
(* A close takes one file away, finds it counted, and ends a reading with  *)
(* the last one (secret.c:185-200).                                        *)
(***************************************************************************)
LEMMA CounterClose ==
    ASSUME CounterInv, NEW f \in File, s_do_close(f)
    PROVE  CounterInv' /\ open_counter >= 1 /\ OpenFiles' = OpenFiles \ {f}
           /\ \A g \in File : g # f => file'[g] = file[g]
<1>1. file \in [File -> FileStates]
  BY DEF CounterInv, CounterAgrees, SecretTypeOK, FileStates
<1>2. f \in OpenFiles
  BY DEF s_do_close, OpenFiles
<1>3. open_counter = Cardinality(OpenFiles) /\ Cardinality(OpenFiles) \in Nat
  BY OpenFilesFinite DEF CounterInv, CounterAgrees
<1>4. open_counter >= 1
  BY <1>2, <1>3, OpenFilesFinite, FS_EmptySet
<1>5. file' = [file EXCEPT ![f] = Closed] /\ open_counter' = open_counter - 1
  BY <1>3, <1>4 DEF s_do_close
<1>6. /\ file' \in [File -> FileStates]
      /\ \A g \in File : g # f => file'[g] = file[g]
      /\ OpenFiles' = OpenFiles \ {f}
  BY <1>1, <1>5, CloseOne DEF s_do_close
<1>7. Cardinality(OpenFiles') = Cardinality(OpenFiles) - 1
  BY <1>2, <1>6, OpenFilesFinite, FS_RemoveElement
<1>8. SecretTypeOK'
  <2>1. open_counter' \in Nat
    BY <1>3, <1>4, <1>5
  <2>2. ~(open_counter < 1)
    BY <1>3, <1>4
  <2>3. CASE open_counter = 1 /\ is_reading
    BY <1>6, <2>1, <2>2, <2>3
       DEF s_do_close, CounterInv, CounterAgrees, SecretTypeOK, FileStates, Blank
  <2>4. CASE ~(open_counter = 1 /\ is_reading)
    BY <1>6, <2>1, <2>2, <2>4
       DEF s_do_close, CounterInv, CounterAgrees, SecretTypeOK, FileStates
  <2> QED
    BY <2>3, <2>4
<1>9. CounterAgrees'
  BY <1>3, <1>5, <1>7, <1>8 DEF CounterAgrees
<1>11. ReadingHasFiles'
  <2> SUFFICES ASSUME OpenFiles' = {} PROVE ~is_reading'
    BY DEF ReadingHasFiles
  <2>1. Cardinality(OpenFiles') = 0
    BY FS_EmptySet
  <2>2. open_counter = 1
    BY <2>1, <1>3, <1>7
  <2> QED
    BY <2>2 DEF s_do_close, CounterInv, CounterAgrees, SecretTypeOK
<1>12. StoreCounts'
  <2>1. ~(open_counter < 1)
    BY <1>3, <1>4
  <2> QED
    BY <2>1 DEF s_do_close, StoreCounts, Serving
<1> QED
  BY <1>4, <1>6, <1>9, <1>11, <1>12 DEF CounterInv

(***************************************************************************)
(* What a file's type gives a transfer.                                    *)
(***************************************************************************)
LEMMA OpenFileFacts ==
    ASSUME CounterInv, NEW f \in File, file[f].open
    PROVE  /\ f \in OpenFiles /\ file[f].user \in User /\ file[f].flag \in Flags
           /\ file[f].pos \in Nat
<1>1. file[f] \in FileStates
  BY DEF CounterInv, CounterAgrees, SecretTypeOK, FileStates
<1>2. f \in OpenFiles
  BY DEF OpenFiles
<1>3. /\ file[f].user \in User /\ file[f].flag \in Flags
      /\ file[f].pos \in Int /\ 0 <= file[f].pos
  BY <1>1, FileFacts
<1> QED
  BY <1>2, <1>3

(***************************************************************************)
(* A read moves a reader, within the bound on its position.                *)
(***************************************************************************)
LEMMA ReadMoves ==
    ASSUME CounterInv, NEW f \in File, NEW n \in 1..MaxRequest, Read(f, n)
    PROVE  /\ ReadCount(f, n) \in Nat /\ strlen \in Nat
           /\ file[f].pos <= strlen => file[f].pos + ReadCount(f, n) <= strlen
           /\ file' \in [File -> FileStates]
           /\ file'[f] = Opened(file[f].user, file[f].flag, file[f].pos + ReadCount(f, n))
           /\ \A g \in File : g # f => file'[g] = file[g]
           /\ OpenFiles' = OpenFiles
<1>1. file \in [File -> FileStates]
  BY DEF CounterInv, CounterAgrees, SecretTypeOK, FileStates
<1>2. file[f].pos \in Nat
  BY OpenFileFacts DEF Read
<1>3. strlen \in Nat
  BY StrlenType DEF CounterInv, CounterAgrees, SecretTypeOK
<1>4. n \in Nat
  OBVIOUS
<1>5. /\ ReadCount(f, n) \in Nat /\ ReadCount(f, n) <= n
      /\ file[f].pos <= strlen => file[f].pos + ReadCount(f, n) <= strlen
  BY <1>2, <1>3, <1>4, TransferredBound DEF ReadCount
<1>6. file[f].pos + ReadCount(f, n) <= MaxPosition + SECRET_SIZE
  <2>1. file[f].pos + n <= MaxPosition
    BY DEF Read
  <2> QED
    BY <2>1, <1>2, <1>4, <1>5, SecretAssumption
<1> DEFINE q == file[f].pos + ReadCount(f, n)
<1>7. file[f].open /\ file' = [file EXCEPT ![f].pos = q]
  BY DEF Read
<1>8. q \in Nat /\ q <= MaxPosition + SECRET_SIZE
  BY <1>2, <1>5, <1>6
<1> HIDE DEF q
<1>9. /\ file' \in [File -> FileStates]
      /\ file'[f] = Opened(file[f].user, file[f].flag, q)
      /\ \A g \in File : g # f => file'[g] = file[g]
      /\ OpenFiles' = OpenFiles
  BY <1>1, <1>7, <1>8, MoveOne
<1> QED
  BY <1>3, <1>5, <1>9 DEF q

(***************************************************************************)
(* A write moves a writer, within the secret.                              *)
(***************************************************************************)
LEMMA WriteMoves ==
    ASSUME CounterInv, NEW f \in File, NEW n \in 1..MaxRequest, Write(f, n)
    PROVE  /\ WriteCount(f, n) \in Nat
           /\ file[f].pos + WriteCount(f, n) <= SECRET_SIZE
           /\ file' \in [File -> FileStates]
           /\ file'[f] = Opened(file[f].user, file[f].flag, file[f].pos + WriteCount(f, n))
           /\ \A g \in File : g # f => file'[g] = file[g]
           /\ OpenFiles' = OpenFiles
<1>1. file \in [File -> FileStates]
  BY DEF CounterInv, CounterAgrees, SecretTypeOK, FileStates
<1>2. file[f].pos \in Nat /\ file[f].pos <= SECRET_SIZE
  BY OpenFileFacts DEF Write
<1>3. n \in Nat /\ SECRET_SIZE \in Nat
  BY SecretAssumption
<1>4. WriteCount(f, n) \in Nat /\ file[f].pos + WriteCount(f, n) <= SECRET_SIZE
  BY <1>2, <1>3, TransferredBound DEF WriteCount
<1>5. file[f].pos + WriteCount(f, n) <= MaxPosition + SECRET_SIZE
  BY <1>2, <1>4, SecretAssumption
<1> DEFINE q == file[f].pos + WriteCount(f, n)
<1>6. file[f].open /\ file' = [file EXCEPT ![f].pos = q]
  BY DEF Write
<1>7. q \in Nat /\ q <= MaxPosition + SECRET_SIZE
  BY <1>2, <1>4, <1>5
<1> HIDE DEF q
<1>8. /\ file' \in [File -> FileStates]
      /\ file'[f] = Opened(file[f].user, file[f].flag, q)
      /\ \A g \in File : g # f => file'[g] = file[g]
      /\ OpenFiles' = OpenFiles
  BY <1>1, <1>6, <1>7, MoveOne
<1> QED
  BY <1>4, <1>8 DEF q

(***************************************************************************)
(* Reads and writes leave the counter and the open files as they are.      *)
(***************************************************************************)
LEMMA CounterRead ==
    ASSUME CounterInv, NEW f \in File, NEW n \in 1..MaxRequest, Read(f, n)
    PROVE  CounterInv'
<1> DEFINE d == ReadCount(f, n)
<1>1. /\ file' \in [File -> FileStates]
      /\ file'[f] = Opened(file[f].user, file[f].flag, file[f].pos + d)
      /\ \A g \in File : g # f => file'[g] = file[g]
      /\ OpenFiles' = OpenFiles
  BY ReadMoves
<1>2. UNCHANGED <<driverVars, store, frozen, lost, entitled, generation, sought, overrun>>
  BY DEF Read
<1>3. SecretTypeOK'
  BY <1>1, <1>2 DEF driverVars, CounterInv, CounterAgrees, SecretTypeOK, FileStates
<1> QED
  BY <1>1, <1>2, <1>3
     DEF driverVars, CounterInv, CounterAgrees, StoreCounts, ReadingHasFiles

(***************************************************************************)
(* What a write puts in the secret, and where.                             *)
(***************************************************************************)
LEMMA WrittenText ==
    ASSUME NEW f \in File, NEW n \in 1..MaxRequest, Write(f, n)
    PROVE  /\ secret' = [k \in Byte |-> secret'[k]]
           /\ \A k \in Byte :
                 IF file[f].pos <= k /\ k < file[f].pos + WriteCount(f, n)
                 THEN secret'[k] \in {file[f].user, NUL}
                 ELSE secret'[k] = secret[k]
<1> DEFINE here == {k \in Byte : file[f].pos <= k /\ k < file[f].pos + WriteCount(f, n)}
<1>1. PICK text \in [here -> {file[f].user, NUL}] :
          secret' = [k \in Byte |-> IF k \in here THEN text[k] ELSE secret[k]]
  BY DEF Write
<1>2. \A k \in here : text[k] \in {file[f].user, NUL}
  OBVIOUS
<1> QED
  BY <1>1, <1>2

(***************************************************************************)
(* A write keeps the counter too.                                          *)
(***************************************************************************)
LEMMA CounterWrite ==
    ASSUME CounterInv, NEW f \in File, NEW n \in 1..MaxRequest, Write(f, n)
    PROVE  CounterInv'
<1> DEFINE d == WriteCount(f, n)
<1>1. /\ d \in Nat /\ file[f].pos + d <= SECRET_SIZE
      /\ file' \in [File -> FileStates]
      /\ file'[f] = Opened(file[f].user, file[f].flag, file[f].pos + d)
      /\ \A g \in File : g # f => file'[g] = file[g]
      /\ OpenFiles' = OpenFiles
  BY WriteMoves
<1>2. UNCHANGED <<owner, open_counter, is_reading, store, frozen, lost, entitled, generation,
                  sought, overrun>>
  BY DEF Write
<1>3. file[f].user \in User
  BY OpenFileFacts DEF Write
<1>4. secret' \in [Byte -> User \cup {NUL}]
  <2>1. secret \in [Byte -> User \cup {NUL}]
    BY DEF CounterInv, CounterAgrees, SecretTypeOK
  <2>2. \A k \in Byte : secret'[k] \in User \cup {NUL}
    BY <2>1, <1>3, WrittenText
  <2>3. secret' = [k \in Byte |-> secret'[k]]
    BY WrittenText
  <2> QED
    BY <2>2, <2>3
<1>5. SecretTypeOK'
  BY <1>1, <1>2, <1>4 DEF CounterInv, CounterAgrees, SecretTypeOK, FileStates
<1> QED
  BY <1>1, <1>2, <1>5
     DEF CounterInv, CounterAgrees, StoreCounts, ReadingHasFiles

(***************************************************************************)
(* lseek, and a write behind the secret, leave what the driver counts.     *)
(***************************************************************************)
LEMMA SeekMoves ==
    ASSUME CounterInv, NEW f \in File, NEW pos \in SeekTo, Lseek(f, pos)
    PROVE  /\ f \in OpenFiles
           /\ file' \in [File -> FileStates]
           /\ file'[f] = Opened(file[f].user, file[f].flag, pos)
           /\ \A g \in File : g # f => file'[g] = file[g]
           /\ OpenFiles' = OpenFiles
<1>1. file \in [File -> FileStates]
  BY DEF CounterInv, CounterAgrees, SecretTypeOK, FileStates
<1>2. pos \in Nat /\ pos <= MaxPosition + SECRET_SIZE
  BY SecretAssumption
<1>3. file[f].open /\ file' = [file EXCEPT ![f].pos = pos]
  BY DEF Lseek
<1> QED
  BY <1>1, <1>2, <1>3, MoveOne DEF OpenFiles

LEMMA CounterSeek ==
    ASSUME CounterInv, NEW f \in File,
           \/ \E pos \in SeekTo : Lseek(f, pos)
           \/ \E n \in 1..MaxRequest : WriteBehind(f, n)
    PROVE  CounterInv'
<1>1. CASE \E pos \in SeekTo : Lseek(f, pos)
  <2>1. PICK pos \in SeekTo : Lseek(f, pos)
    BY <1>1
  <2>2. file' \in [File -> FileStates] /\ OpenFiles' = OpenFiles
    BY <2>1, SeekMoves
  <2>3. /\ UNCHANGED <<driverVars, store, frozen, lost, entitled, generation, overrun>>
        /\ sought' = TRUE
    BY <2>1 DEF Lseek
  <2>4. SecretTypeOK'
    BY <2>2, <2>3 DEF driverVars, CounterInv, CounterAgrees, SecretTypeOK, FileStates
  <2> QED
    BY <2>2, <2>3, <2>4
       DEF driverVars, CounterInv, CounterAgrees, StoreCounts, ReadingHasFiles
<1>2. CASE \E n \in 1..MaxRequest : WriteBehind(f, n)
  <2>1. /\ UNCHANGED <<driverVars, file, store, frozen, lost, entitled, generation, sought>>
        /\ overrun' = TRUE
    BY <1>2 DEF WriteBehind
  <2>2. OpenFiles' = OpenFiles
    BY <2>1 DEF OpenFiles
  <2> QED
    BY <2>1, <2>2
       DEF driverVars, CounterInv, CounterAgrees, SecretTypeOK, StoreCounts, ReadingHasFiles
<1> QED
  BY <1>1, <1>2

(***************************************************************************)
(* SSGRANT, and the live update in its three ways, leave the files alone;  *)
(* the new version takes its count from the data store (secret.c:293-350). *)
(***************************************************************************)
LEMMA CounterUpdate ==
    ASSUME CounterInv,
           \/ \E f \in File, grantee \in Grantee : s_do_ioctl(f, grantee)
           \/ sef_cb_lu_state_save \/ sef_cb_init_lu \/ RollBack
    PROVE  CounterInv' /\ file' = file /\ OpenFiles' = OpenFiles
<1>1. file' = file
  BY DEF s_do_ioctl, sef_cb_lu_state_save, sef_cb_init_lu, RollBack
<1>2. OpenFiles' = OpenFiles
  BY <1>1 DEF OpenFiles
<1>3. open_counter' = open_counter
  BY Zenon DEF s_do_ioctl, sef_cb_lu_state_save, sef_cb_init_lu, RollBack, driverVars,
               CounterInv, StoreCounts
<1>4. SecretTypeOK'
  <2>1. CASE \E f \in File, grantee \in Grantee : s_do_ioctl(f, grantee)
    <3>1. PICK f \in File, grantee \in Grantee : s_do_ioctl(f, grantee)
      BY <2>1
    <3>2. owner' \in User \cup {NOT_OWNED} /\ entitled' \in SUBSET User
      BY <3>1, SecretAssumption DEF s_do_ioctl, CounterInv, CounterAgrees, SecretTypeOK
    <3>3. lost' \in BOOLEAN
      BY <3>1, Zenon DEF s_do_ioctl
    <3>4. UNCHANGED <<secret, open_counter, is_reading, file, store, frozen, generation,
                    sought, overrun>>
      BY <3>1 DEF s_do_ioctl
    <3> QED
      BY <3>2, <3>3, <3>4 DEF CounterInv, CounterAgrees, SecretTypeOK
  <2>2. CASE sef_cb_lu_state_save
    BY <2>2 DEF sef_cb_lu_state_save, driverVars, CounterInv, CounterAgrees, SecretTypeOK
  <2>3. CASE sef_cb_init_lu
    <3>1. lost' \in BOOLEAN /\ generation' \in BOOLEAN
      BY <2>3, Zenon DEF sef_cb_init_lu
    <3>2. secret' \in [Byte -> User \cup {NUL}]
      BY <2>3 DEF sef_cb_init_lu, Blank
    <3>3. /\ store' = -1 /\ frozen' = FALSE /\ owner' = NOT_OWNED /\ is_reading' = FALSE
          /\ entitled' = {} /\ UNCHANGED <<sought, overrun>>
      BY <2>3 DEF sef_cb_init_lu
    <3> QED
      BY <1>1, <1>3, <3>1, <3>2, <3>3 DEF CounterInv, CounterAgrees, SecretTypeOK
  <2>4. CASE RollBack
    BY <2>4 DEF RollBack, driverVars, CounterInv, CounterAgrees, SecretTypeOK
  <2> QED
    BY <2>1, <2>2, <2>3, <2>4
<1>5. StoreCounts'
  BY <1>3, Zenon DEF s_do_ioctl, sef_cb_lu_state_save, sef_cb_init_lu, RollBack,
                     CounterInv, StoreCounts
<1>6. ReadingHasFiles'
  BY <1>2, Zenon DEF s_do_ioctl, sef_cb_lu_state_save, sef_cb_init_lu, RollBack, driverVars,
                     CounterInv, ReadingHasFiles
<1>7. CounterAgrees'
  BY <1>2, <1>3, <1>4 DEF CounterInv, CounterAgrees
<1> QED
  BY <1>1, <1>2, <1>5, <1>6, <1>7 DEF CounterInv

(***************************************************************************)
(* A step of the driver, by its action.                                    *)
(***************************************************************************)
LEMMA CounterStep == CounterInv /\ [Next]_vars => CounterInv'
<1> SUFFICES ASSUME CounterInv, [Next]_vars PROVE CounterInv'
  OBVIOUS
<1>1. ASSUME NEW f \in File, NEW u \in User, NEW flag \in {"O_RDONLY", "O_WRONLY"},
             s_do_open(f, u, flag)
      PROVE  CounterInv'
  BY <1>1, CounterOpen DEF Flags
<1>2. ASSUME NEW f \in File, s_do_close(f) PROVE CounterInv'
  BY <1>2, CounterClose
<1>3. ASSUME NEW f \in File, NEW n \in 1..MaxRequest, Read(f, n) \/ Write(f, n)
      PROVE  CounterInv'
  BY <1>3, CounterRead, CounterWrite
<1>4. CASE \/ \E f \in File, grantee \in Grantee : s_do_ioctl(f, grantee)
           \/ sef_cb_lu_state_save \/ sef_cb_init_lu \/ RollBack
  BY <1>4, CounterUpdate
<1>5. CASE Restart
  BY <1>5, CounterRestarted DEF Restart, CounterInv, CounterAgrees
<1>6. CASE UNCHANGED vars
  BY <1>6 DEF vars, CounterInv, CounterAgrees, SecretTypeOK, StoreCounts, ReadingHasFiles,
              OpenFiles
<1>7. ASSUME NEW f \in File,
             \/ \E pos \in SeekTo : Lseek(f, pos)
             \/ \E n \in 1..MaxRequest : WriteBehind(f, n)
      PROVE  CounterInv'
  BY <1>7, CounterSeek
<1> QED
  BY <1>1, <1>2, <1>3, <1>4, <1>5, <1>6, <1>7 DEF Next

(***************************************************************************)
(* open_counter is the number of open files in every behaviour of the      *)
(* driver (secret.c:124-200, 293-350).                                     *)
(***************************************************************************)
THEOREM CounterCorrect == Spec => []CounterAgrees
<1>1. CounterInv => CounterAgrees
  BY DEF CounterInv
<1> QED
  BY CounterInit, CounterStep, <1>1, PTL DEF Spec

-----------------------------------------------------------------------------
(***************************************************************************)
(* The inductive invariant of the secret, as long as the owner is not      *)
(* taken away.  A secret without an owner is blank and unused, so that     *)
(* whoever opens it to write begins it, and all of it is by that user.     *)
(* As long as lseek is not used the writer's position divides what is      *)
(* written from NULs, so that a write never changes a byte of the text,    *)
(* nor where the text ends for those who read it.                          *)
(***************************************************************************)
Ownership ==
    /\ owner = NOT_OWNED => OpenFiles = {} /\ secret = Blank
    /\ owner # NOT_OWNED => owner \in entitled
    /\ \A f \in OpenFiles : file[f].user \in entitled

Writer(f) == f \in OpenFiles /\ file[f].flag = "O_WRONLY"

OneWriter == \A f, g \in OpenFiles : Writer(f) /\ Writer(g) => f = g

OneHand == \A j, k \in Byte : secret[j] # NUL /\ secret[k] # NUL => secret[j] = secret[k]

EntitledHand == \A k \in Byte : secret[k] \in entitled \cup {NUL}

WriterAlone ==
    \A f \in OpenFiles : Writer(f) => \A k \in Byte : secret[k] \in {file[f].user, NUL}

ReadersCounted == \A f \in OpenFiles : file[f].flag = "O_RDONLY" => is_reading

WriterAtEnd ==
    \A f \in OpenFiles : Writer(f) => \A k \in Byte : k >= file[f].pos => secret[k] = NUL

NoReaderBeyond == \A f \in OpenFiles : file[f].flag = "O_RDONLY" => file[f].pos <= strlen

InOrder == ~sought => WriterAtEnd /\ NoReaderBeyond

TextInv ==
    CounterInv /\ (~lost => /\ Ownership /\ OneWriter /\ OneHand /\ EntitledHand
                            /\ WriterAlone /\ ReadersCounted /\ InOrder)

(***************************************************************************)
(* Opening a file to read sets is_reading, which can lengthen the secret   *)
(* that fills its array but never shorten it (secret.c:26-27, 161, 231).   *)
(***************************************************************************)
LEMMA StrlenGrows ==
    ASSUME secret' = secret, is_reading => is_reading', NEW S \in Nat,
           secret \in [Byte -> User \cup {NUL}], S <= strlen
    PROVE  S <= strlen'
<1>1. Length' = Length
  BY DEF Length
<1>2. Length \in Nat
  BY LengthFacts
<1>3. CASE strlen = Length
  <2>1. (strlen = Length \/ (Length = SECRET_SIZE /\ strlen = SECRET_SIZE + 1))'
    BY StrlenIs, PTL
  <2> QED
    BY <1>1, <1>2, <1>3, <2>1, SecretAssumption
<1>4. CASE strlen # Length
  <2>1. is_reading /\ Length = SECRET_SIZE
    BY <1>4, Zenon DEF strlen
  <2>2. strlen' = strlen
    BY <1>1, <2>1, Zenon DEF strlen
  <2> QED
    BY <2>2
<1> QED
  BY <1>3, <1>4

(***************************************************************************)
(* Bytes written where the NULs were leave what is before them: no reader  *)
(* is left beyond the end (secret.c:231).                                  *)
(***************************************************************************)
LEMMA StrlenAppend ==
    ASSUME NEW p \in Nat, NEW S \in Nat, S <= strlen, is_reading' = is_reading,
           secret \in [Byte -> User \cup {NUL}], secret' \in [Byte -> User \cup {NUL}],
           p \in Byte, secret[p] = NUL,
           \A k \in Byte : k < p => secret'[k] = secret[k]
    PROVE  S <= strlen'
<1>1. /\ Length \in Nat /\ Length <= p
      /\ \A k \in Byte : secret[k] = NUL => Length <= k
  BY LengthFacts
<1>2. p \in Nat /\ p < SECRET_SIZE /\ Byte \subseteq Nat
  BY SecretAssumption DEF Byte
<1>3. S <= Length
  BY <1>1, <1>2, StrlenIs, SecretAssumption
<1>4. /\ Length' \in Nat /\ Length' <= SECRET_SIZE
      /\ Length' < SECRET_SIZE => Length' \in Byte /\ secret'[Length'] = NUL
      /\ strlen' \in Nat /\ Length' <= strlen'
  <2>1. TextType'
    BY DEF TextType
  <2>2. TextEnds'
    BY <2>1, EndFacts, PTL
  <2> QED
    BY <2>2 DEF TextEnds
<1>5. S <= Length'
  <2>1. CASE Length' < p
    <3>1. Length' \in Byte /\ secret'[Length'] = NUL
      BY <1>2, <1>4, <2>1, SecretAssumption
    <3>2. secret[Length'] = NUL
      BY <2>1, <3>1
    <3>3. Length <= Length'
      BY <1>1, <3>1, <3>2
    <3> QED
      BY <1>1, <1>3, <1>4, <3>3
  <2>2. CASE ~(Length' < p)
    BY <1>1, <1>3, <1>4, <2>2
  <2> QED
    BY <2>1, <2>2
<1> QED
  BY <1>4, <1>5

(***************************************************************************)
(* A driver with no secret, no owner and no file open is as it should be:  *)
(* at its start, after a restart, and once it has forgotten a secret.      *)
(***************************************************************************)
LEMMA FreshText ==
    CounterInv /\ secret = Blank /\ OpenFiles = {} /\ owner = NOT_OWNED => TextInv
BY DEF TextInv, Ownership, OneWriter, OneHand, EntitledHand, WriterAlone, ReadersCounted,
       InOrder, WriterAtEnd, NoReaderBeyond, Writer, Blank

(***************************************************************************)
(* What keeps the secret, and only closes files or adds to the entitled,   *)
(* keeps the invariant.                                                    *)
(***************************************************************************)
LEMMA TextKept ==
    ASSUME TextInv, CounterInv', secret' = secret, is_reading' = is_reading,
           OpenFiles' \subseteq OpenFiles, \A g \in OpenFiles' : file'[g] = file[g],
           sought' = sought,
           \/ lost'
           \/ /\ lost' = lost /\ entitled \subseteq entitled'
              /\ owner' = owner \/ (owner' \in entitled' /\ owner' # NOT_OWNED)
    PROVE  TextInv'
<1> SUFFICES ASSUME ~lost'
             PROVE  /\ Ownership' /\ OneWriter' /\ OneHand' /\ EntitledHand'
                    /\ WriterAlone' /\ ReadersCounted' /\ InOrder'
  BY DEF TextInv
<1>1. /\ ~lost /\ entitled \subseteq entitled'
      /\ owner' = owner \/ (owner' \in entitled' /\ owner' # NOT_OWNED)
  <2>1. lost' = lost
    BY Zenon
  <2>2. /\ entitled \subseteq entitled'
        /\ owner' = owner \/ (owner' \in entitled' /\ owner' # NOT_OWNED)
    BY Zenon
  <2> QED
    BY <2>1, <2>2
<1>2. /\ Ownership /\ OneWriter /\ OneHand /\ EntitledHand
      /\ WriterAlone /\ ReadersCounted /\ InOrder
  BY <1>1, Zenon DEF TextInv
<1>3. Ownership'
  BY <1>1, <1>2 DEF Ownership, Blank
<1>4. OneWriter' /\ ReadersCounted'
  BY <1>2 DEF OneWriter, Writer, ReadersCounted
<1>5. OneHand' /\ EntitledHand'
  BY <1>1, <1>2 DEF OneHand, EntitledHand
<1>6. WriterAlone'
  BY <1>2 DEF WriterAlone, Writer
<1>7. strlen' = strlen
  BY DEF strlen, Length
<1>8. InOrder'
  <2> SUFFICES ASSUME ~sought' PROVE WriterAtEnd' /\ NoReaderBeyond'
    BY DEF InOrder
  <2>1. WriterAtEnd /\ NoReaderBeyond
    BY <1>2 DEF InOrder
  <2>2. WriterAtEnd'
    BY <2>1 DEF WriterAtEnd, Writer
  <2>3. NoReaderBeyond'
    BY <1>7, <2>1 DEF NoReaderBeyond
  <2> QED
    BY <2>2, <2>3
<1> QED
  BY <1>3, <1>4, <1>5, <1>6, <1>8

(***************************************************************************)
(* The first open of a secret that has no owner (secret.c:146-153,         *)
(* 170-179).                                                               *)
(***************************************************************************)
LEMMA TextFirstOpen ==
    ASSUME TextInv, CounterInv', NEW f \in File, NEW u \in User, NEW flag \in Flags,
           s_do_open(f, u, flag), owner = NOT_OWNED
    PROVE  TextInv'
<1> SUFFICES ASSUME ~lost'
             PROVE  /\ Ownership' /\ OneWriter' /\ OneHand' /\ EntitledHand'
                    /\ WriterAlone' /\ ReadersCounted' /\ InOrder'
  BY DEF TextInv
<1>1. ~lost
  BY DEF s_do_open
<1>2. OpenFiles = {} /\ secret = Blank
  BY <1>1 DEF TextInv, Ownership
<1>3. file \in [File -> FileStates]
  BY DEF TextInv, CounterInv, CounterAgrees, SecretTypeOK, FileStates
<1>4. file'[f] = Opened(u, flag, 0) /\ OpenFiles' = {f}
  <2>1. ~file[f].open /\ file' = [file EXCEPT ![f] = Opened(u, flag, 0)]
    BY DEF s_do_open
  <2> QED
    BY <1>2, <1>3, <2>1, OpenOne
<1>5. file'[f].user = u /\ file'[f].flag = flag /\ file'[f].pos = 0
  BY <1>4 DEF Opened
<1>6. secret' = Blank /\ owner' = u /\ entitled' = {u}
  BY <1>2 DEF s_do_open
<1>7. Ownership'
  BY <1>4, <1>5, <1>6, SecretAssumption DEF Ownership
<1>8. OneWriter'
  BY <1>4 DEF OneWriter, Writer
<1>9. OneHand' /\ EntitledHand' /\ WriterAlone' /\ WriterAtEnd'
  BY <1>6 DEF OneHand, EntitledHand, WriterAlone, WriterAtEnd, Blank
<1>10. ReadersCounted'
  <2>1. is_reading' = (is_reading \/ flag = "O_RDONLY")
    BY DEF s_do_open
  <2> QED
    BY <1>4, <1>5, <2>1, Zenon DEF ReadersCounted
<1>11. InOrder'
  <2>1. SecretTypeOK'
    BY DEF CounterInv, CounterAgrees
  <2>2. (secret \in [Byte -> User \cup {NUL}])'
    BY <2>1 DEF SecretTypeOK
  <2>3. (strlen \in Nat)'
    BY <2>2, StrlenType, PTL
  <2> QED
    BY <1>4, <1>5, <1>9, <2>3 DEF InOrder, NoReaderBeyond
<1> QED
  BY <1>7, <1>8, <1>9, <1>10, <1>11

(***************************************************************************)
(* The owner opens its secret again, which can only be to read it: a       *)
(* secret that is owned is not opened to write (secret.c:170-179).         *)
(***************************************************************************)
LEMMA TextOpenAgain ==
    ASSUME TextInv, CounterInv', NEW f \in File, NEW u \in User, NEW flag \in Flags,
           s_do_open(f, u, flag), owner # NOT_OWNED
    PROVE  TextInv'
<1> SUFFICES ASSUME ~lost'
             PROVE  /\ Ownership' /\ OneWriter' /\ OneHand' /\ EntitledHand'
                    /\ WriterAlone' /\ ReadersCounted' /\ InOrder'
  BY DEF TextInv
<1>1. ~lost
  BY DEF s_do_open
<1>2. /\ Ownership /\ OneWriter /\ OneHand /\ EntitledHand
      /\ WriterAlone /\ ReadersCounted /\ InOrder
  BY <1>1, Zenon DEF TextInv
<1>3. /\ owner = u /\ flag = "O_RDONLY" /\ owner' = owner /\ entitled' = entitled
      /\ secret' = secret
  BY DEF s_do_open, Flags
<1>4. file \in [File -> FileStates] /\ secret \in [Byte -> User \cup {NUL}]
  BY DEF TextInv, CounterInv, CounterAgrees, SecretTypeOK, FileStates
<1>5. /\ file'[f] = Opened(u, flag, 0) /\ OpenFiles' = OpenFiles \cup {f}
      /\ \A g \in File : g # f => file'[g] = file[g]
  <2>1. ~file[f].open /\ file' = [file EXCEPT ![f] = Opened(u, flag, 0)]
    BY DEF s_do_open
  <2> QED
    BY <1>4, <2>1, OpenOne
<1>6. file'[f].user = u /\ file'[f].flag = "O_RDONLY" /\ file'[f].pos = 0
  BY <1>3, <1>5 DEF Opened
<1>7. \A g \in OpenFiles' : g # f => g \in OpenFiles /\ file'[g] = file[g]
  BY <1>5 DEF OpenFiles
<1>8. Ownership'
  BY <1>2, <1>3, <1>6, <1>7, SecretAssumption DEF Ownership
<1>9. \A g \in OpenFiles' : Writer(g)' => Writer(g) /\ file'[g] = file[g]
  BY <1>6, <1>7 DEF Writer
<1>10. OneWriter'
  <2> SUFFICES ASSUME NEW g \in OpenFiles', NEW h \in OpenFiles', Writer(g)', Writer(h)'
               PROVE  g = h
    BY DEF OneWriter
  <2> QED
    BY <1>2, <1>9 DEF OneWriter, Writer
<1>11. OneHand' /\ EntitledHand'
  BY <1>2, <1>3 DEF OneHand, EntitledHand
<1>12. WriterAlone'
  <2> SUFFICES ASSUME NEW g \in OpenFiles', Writer(g)', NEW k \in Byte
               PROVE  secret'[k] \in {file'[g].user, NUL}
    BY DEF WriterAlone
  <2>1. Writer(g) /\ g \in OpenFiles /\ file'[g] = file[g]
    BY <1>9 DEF Writer
  <2> QED
    BY <1>2, <1>3, <2>1 DEF WriterAlone
<1>13. is_reading'
  BY <1>3, Zenon DEF s_do_open
<1>14. CASE sought'
  BY <1>8, <1>10, <1>11, <1>12, <1>13, <1>14 DEF ReadersCounted, InOrder
<1>15. CASE ~sought'
  <2>1. WriterAtEnd /\ NoReaderBeyond
    BY <1>2, <1>15 DEF InOrder, s_do_open
  <2>2. WriterAtEnd'
    <3> SUFFICES ASSUME NEW g \in OpenFiles', Writer(g)', NEW k \in Byte, k >= file'[g].pos
                 PROVE  secret'[k] = NUL
      BY DEF WriterAtEnd
    <3>1. Writer(g) /\ g \in OpenFiles /\ file'[g] = file[g]
      BY <1>9 DEF Writer
    <3> QED
      BY <1>3, <2>1, <3>1 DEF WriterAtEnd
  <2>3. NoReaderBeyond'
    <3> SUFFICES ASSUME NEW g \in OpenFiles', file'[g].flag = "O_RDONLY"
                 PROVE  file'[g].pos <= strlen'
      BY DEF NoReaderBeyond
    <3>1. file'[g].pos \in Nat /\ file'[g].pos <= strlen
      <4>1. strlen \in Nat
        BY <1>4, StrlenType
      <4>2. CASE g = f
        BY <4>1, <4>2, <1>6
      <4>3. CASE g # f
        <5>1. g \in File /\ g \in OpenFiles /\ file[g].open /\ file'[g] = file[g]
          BY <1>7, <4>3 DEF OpenFiles
        <5>2. file[g].pos \in Nat
          BY <5>1, OpenFileFacts DEF TextInv
        <5> QED
          BY <5>1, <5>2, <2>1 DEF NoReaderBeyond
      <4> QED
        BY <4>2, <4>3
    <3> HIDE DEF strlen
    <3> QED
      BY <3>1, <1>3, <1>4, <1>13, StrlenGrows
  <2> QED
    BY <1>8, <1>10, <1>11, <1>12, <1>13, <2>2, <2>3 DEF ReadersCounted, InOrder
<1> QED
  BY <1>14, <1>15

(***************************************************************************)
(* A close forgets the secret with the last file, or keeps it              *)
(* (secret.c:190-196).                                                     *)
(***************************************************************************)
LEMMA TextClose ==
    ASSUME TextInv, CounterInv', NEW f \in File, s_do_close(f)
    PROVE  TextInv'
<1>1. /\ open_counter >= 1 /\ OpenFiles' = OpenFiles \ {f}
      /\ \A g \in File : g # f => file'[g] = file[g]
  BY CounterClose DEF TextInv
<1>2. open_counter \in Nat /\ open_counter = Cardinality(OpenFiles)
  BY DEF TextInv, CounterInv, CounterAgrees, SecretTypeOK
<1>3. ~(open_counter < 1)
  BY <1>1, <1>2
<1>4. CASE open_counter = 1 /\ is_reading
  <2>1. secret' = Blank /\ owner' = NOT_OWNED
    BY <1>3, <1>4 DEF s_do_close
  <2>2. OpenFiles' = {}
    <3>1. open_counter' = 0
      BY <1>3, <1>4 DEF s_do_close
    <3>2. Cardinality(OpenFiles') = 0
      BY <3>1 DEF CounterInv, CounterAgrees
    <3>3. IsFiniteSet(OpenFiles')
      BY <1>1, OpenFilesFinite, FS_Subset
    <3> QED
      BY <3>2, <3>3, FS_EmptySet
  <2>3. (secret = Blank /\ OpenFiles = {} /\ owner = NOT_OWNED)'
    BY <2>1, <2>2 DEF Blank
  <2> QED
    BY <2>3, FreshText, PTL
<1>5. CASE ~(open_counter = 1 /\ is_reading)
  <2>1. /\ secret' = secret /\ owner' = owner /\ is_reading' = is_reading
        /\ entitled' = entitled /\ lost' = lost /\ sought' = sought
    BY <1>3, <1>5 DEF s_do_close
  <2>2. \A g \in OpenFiles' : file'[g] = file[g]
    BY <1>1 DEF OpenFiles
  <2> QED
    BY <2>1, <2>2, <1>1, TextKept
<1> QED
  BY <1>4, <1>5

(***************************************************************************)
(* A read stops at the end of the secret (secret.c:231).                   *)
(***************************************************************************)
LEMMA TextRead ==
    ASSUME TextInv, CounterInv', NEW f \in File, NEW n \in 1..MaxRequest, Read(f, n)
    PROVE  TextInv'
<1> SUFFICES ASSUME ~lost'
             PROVE  /\ Ownership' /\ OneWriter' /\ OneHand' /\ EntitledHand'
                    /\ WriterAlone' /\ ReadersCounted' /\ InOrder'
  BY DEF TextInv
<1>1. UNCHANGED <<secret, owner, is_reading, lost, entitled, sought>> /\ ~lost
  BY DEF Read, driverVars
<1>2. /\ Ownership /\ OneWriter /\ OneHand /\ EntitledHand
      /\ WriterAlone /\ ReadersCounted /\ InOrder
  BY <1>1, Zenon DEF TextInv
<1>3. /\ file[f].pos <= strlen => file[f].pos + ReadCount(f, n) <= strlen
      /\ file'[f] = Opened(file[f].user, file[f].flag, file[f].pos + ReadCount(f, n))
      /\ \A g \in File : g # f => file'[g] = file[g]
      /\ OpenFiles' = OpenFiles
  BY ReadMoves DEF TextInv
<1>4. /\ file'[f].user = file[f].user /\ file'[f].flag = file[f].flag
      /\ file'[f].pos = file[f].pos + ReadCount(f, n)
  BY <1>3 DEF Opened
<1>5. f \in OpenFiles /\ file[f].flag = "O_RDONLY"
  BY DEF Read, OpenFiles
<1>6. \A g \in OpenFiles : file'[g].user = file[g].user /\ file'[g].flag = file[g].flag
  BY <1>3, <1>4 DEF OpenFiles
<1>7. \A g \in OpenFiles : Writer(g) => file'[g] = file[g]
  BY <1>3, <1>5 DEF Writer, OpenFiles
<1>8. Ownership'
  BY <1>1, <1>2, <1>3, <1>6 DEF Ownership, Blank
<1>9. OneWriter' /\ ReadersCounted'
  BY <1>1, <1>2, <1>3, <1>6 DEF OneWriter, Writer, ReadersCounted
<1>10. OneHand' /\ EntitledHand'
  BY <1>1, <1>2 DEF OneHand, EntitledHand
<1>11. WriterAlone'
  <2> SUFFICES ASSUME NEW g \in OpenFiles', Writer(g)', NEW k \in Byte
               PROVE  secret'[k] \in {file'[g].user, NUL}
    BY DEF WriterAlone
  <2>1. Writer(g) /\ g \in OpenFiles
    BY <1>3, <1>6 DEF Writer
  <2>2. file'[g] = file[g] /\ secret' = secret
    BY <2>1, <1>1, <1>7
  <2> QED
    BY <1>2, <2>1, <2>2 DEF WriterAlone
<1>12. InOrder'
  <2> SUFFICES ASSUME ~sought' PROVE WriterAtEnd' /\ NoReaderBeyond'
    BY DEF InOrder
  <2>1. WriterAtEnd /\ NoReaderBeyond
    BY <1>1, <1>2 DEF InOrder
  <2>2. WriterAtEnd'
    <3> SUFFICES ASSUME NEW g \in OpenFiles', Writer(g)', NEW k \in Byte, k >= file'[g].pos
                 PROVE  secret'[k] = NUL
      BY DEF WriterAtEnd
    <3>1. Writer(g) /\ g \in OpenFiles
      BY <1>3, <1>6 DEF Writer
    <3>2. file'[g] = file[g] /\ secret' = secret
      BY <3>1, <1>1, <1>7
    <3> QED
      BY <2>1, <3>1, <3>2 DEF WriterAtEnd
  <2>3. strlen' = strlen
    BY <1>1 DEF strlen, Length
  <2>4. \A g \in OpenFiles : file[g].flag = "O_RDONLY" => file'[g].pos <= strlen
    BY <1>3, <1>4, <2>1 DEF NoReaderBeyond, OpenFiles
  <2>5. NoReaderBeyond'
    BY <2>3, <2>4, <1>3, <1>6 DEF NoReaderBeyond
  <2> QED
    BY <2>2, <2>5
<1> QED
  BY <1>8, <1>9, <1>10, <1>11, <1>12

(***************************************************************************)
(* A write continues the text where the writer stopped: the bytes it takes *)
(* are NUL, those before it stay (secret.c:252-270).                       *)
(***************************************************************************)
LEMMA WriteAppends ==
    ASSUME TextInv, ~lost, ~sought, NEW f \in File, NEW n \in 1..MaxRequest, Write(f, n)
    PROVE  /\ file[f].pos \in Byte /\ secret[file[f].pos] = NUL
           /\ \A k \in Byte : /\ secret'[k] \in {file[f].user, NUL}
                              /\ secret[k] \in {file[f].user, NUL}
                              /\ secret[k] # NUL => secret'[k] = secret[k]
                              /\ k < file[f].pos => secret'[k] = secret[k]
                              /\ k >= file[f].pos + WriteCount(f, n) => secret'[k] = NUL
<1> DEFINE p == file[f].pos
           d == WriteCount(f, n)
<1>1. /\ f \in OpenFiles /\ Writer(f)
      /\ p \in Nat /\ d \in Nat /\ d > 0 /\ p + d <= SECRET_SIZE
  <2>1. f \in OpenFiles /\ Writer(f) /\ d > 0
    BY DEF Write, Writer, OpenFiles
  <2>2. p \in Nat
    BY OpenFileFacts DEF TextInv, Write
  <2>3. d \in Nat /\ p + d <= SECRET_SIZE
    BY WriteMoves DEF TextInv
  <2> QED
    BY <2>1, <2>2, <2>3
<1>2. \A k \in Byte : secret[k] \in {file[f].user, NUL} /\ (k >= p => secret[k] = NUL)
  <2>1. WriterAlone /\ WriterAtEnd
    BY Zenon DEF TextInv, InOrder
  <2> QED
    BY <2>1, <1>1 DEF WriterAlone, WriterAtEnd
<1>3. \A k \in Byte : IF p <= k /\ k < p + d
                     THEN secret'[k] \in {file[f].user, NUL}
                     ELSE secret'[k] = secret[k]
  BY WrittenText
<1>4. Byte \subseteq Int
  BY SecretAssumption DEF Byte
<1> HIDE DEF p, d
<1>5. p \in Byte
  BY <1>1, SecretAssumption DEF Byte
<1>6. secret[p] = NUL
  BY <1>1, <1>2, <1>5
<1>7. ASSUME NEW k \in Byte
      PROVE  /\ secret'[k] \in {file[f].user, NUL}
             /\ secret[k] \in {file[f].user, NUL}
             /\ secret[k] # NUL => secret'[k] = secret[k]
             /\ k < p => secret'[k] = secret[k]
             /\ k >= p + d => secret'[k] = NUL
  <2>1. k \in Int
    BY <1>4
  <2>2. CASE p <= k /\ k < p + d
    BY <1>1, <1>2, <1>3, <2>1, <2>2
  <2>3. CASE ~(p <= k /\ k < p + d)
    BY <1>1, <1>2, <1>3, <2>1, <2>3
  <2> QED
    BY <2>2, <2>3
<1> QED
  BY <1>5, <1>6, <1>7 DEF p, d

(***************************************************************************)
(* A write keeps the invariant.                                            *)
(***************************************************************************)
LEMMA TextWrite ==
    ASSUME TextInv, CounterInv', NEW f \in File, NEW n \in 1..MaxRequest, Write(f, n)
    PROVE  TextInv'
<1> SUFFICES ASSUME ~lost'
             PROVE  /\ Ownership' /\ OneWriter' /\ OneHand' /\ EntitledHand'
                    /\ WriterAlone' /\ ReadersCounted' /\ InOrder'
  BY DEF TextInv
<1>1. UNCHANGED <<owner, is_reading, lost, entitled, sought>> /\ ~lost
  BY DEF Write
<1>2. /\ Ownership /\ OneWriter /\ OneHand /\ EntitledHand
      /\ WriterAlone /\ ReadersCounted /\ InOrder
  BY <1>1, Zenon DEF TextInv
<1>3. /\ file'[f] = Opened(file[f].user, file[f].flag, file[f].pos + WriteCount(f, n))
      /\ \A g \in File : g # f => file'[g] = file[g]
      /\ OpenFiles' = OpenFiles
  BY WriteMoves DEF TextInv
<1>4. /\ file'[f].user = file[f].user /\ file'[f].flag = file[f].flag
      /\ file'[f].pos = file[f].pos + WriteCount(f, n)
  BY <1>3 DEF Opened
<1>5. f \in OpenFiles /\ file[f].flag = "O_WRONLY" /\ Writer(f)
  BY DEF Write, OpenFiles, Writer
<1>6. \A g \in OpenFiles : file'[g].user = file[g].user /\ file'[g].flag = file[g].flag
  BY <1>3, <1>4 DEF OpenFiles
<1>7. \A k \in Byte : secret'[k] \in {file[f].user, NUL}
  <2>1. \A k \in Byte : secret[k] \in {file[f].user, NUL}
    BY <1>2, <1>5 DEF WriterAlone
  <2> QED
    BY <2>1, WrittenText
<1>8. Ownership'
  BY <1>1, <1>2, <1>3, <1>5, <1>6 DEF Ownership
<1>9. OneWriter' /\ ReadersCounted'
  BY <1>1, <1>2, <1>3, <1>6 DEF OneWriter, Writer, ReadersCounted
<1> DEFINE u == file[f].user
<1>10. \A k \in Byte : secret'[k] \in {u, NUL}
  BY <1>7
<1>11. u \in entitled /\ file'[f].user = u
  BY <1>2, <1>4, <1>5 DEF Ownership
<1> HIDE DEF u
<1>12. OneHand'
  <2> SUFFICES ASSUME NEW j \in Byte, NEW k \in Byte, secret'[j] # NUL, secret'[k] # NUL
               PROVE  secret'[j] = secret'[k]
    BY DEF OneHand
  <2> QED
    BY <1>10
<1>13. EntitledHand'
  <2> SUFFICES ASSUME NEW k \in Byte PROVE secret'[k] \in entitled' \cup {NUL}
    BY DEF EntitledHand
  <2> QED
    BY <1>1, <1>10, <1>11
<1>14. \A g \in OpenFiles' : Writer(g)' => g = f
  BY <1>2, <1>3, <1>5, <1>6 DEF OneWriter, Writer
<1>15. WriterAlone'
  <2> SUFFICES ASSUME NEW g \in OpenFiles', Writer(g)', NEW k \in Byte
               PROVE  secret'[k] \in {file'[g].user, NUL}
    BY DEF WriterAlone
  <2> QED
    BY <1>10, <1>11, <1>14
<1>16. InOrder'
  <2> SUFFICES ASSUME ~sought' PROVE WriterAtEnd' /\ NoReaderBeyond'
    BY DEF InOrder
  <2>1. ~sought /\ NoReaderBeyond
    BY <1>1, <1>2 DEF InOrder
  <2>2. /\ file[f].pos \in Byte /\ secret[file[f].pos] = NUL
        /\ \A k \in Byte : /\ k < file[f].pos => secret'[k] = secret[k]
                           /\ k >= file[f].pos + WriteCount(f, n) => secret'[k] = NUL
    BY <1>1, <2>1, WriteAppends
  <2>3. WriterAtEnd'
    <3> SUFFICES ASSUME NEW g \in OpenFiles', Writer(g)', NEW k \in Byte, k >= file'[g].pos
                 PROVE  secret'[k] = NUL
      BY DEF WriterAtEnd
    <3>1. file'[g].pos = file[f].pos + WriteCount(f, n)
      BY <1>4, <1>14
    <3> QED
      BY <2>2, <3>1
  <2>4. NoReaderBeyond'
    <3> SUFFICES ASSUME NEW g \in OpenFiles', file'[g].flag = "O_RDONLY"
                 PROVE  file'[g].pos <= strlen'
      BY DEF NoReaderBeyond
    <3>1. g \in OpenFiles /\ file[g].flag = "O_RDONLY"
      BY <1>3, <1>6
    <3>2. g # f /\ g \in File /\ file[g].open
      BY <3>1, <1>5 DEF OpenFiles
    <3>3. file'[g] = file[g] /\ file[g].pos \in Nat /\ file[g].pos <= strlen
      BY <3>1, <3>2, <2>1, <1>3, OpenFileFacts DEF NoReaderBeyond, TextInv
    <3>4. secret \in [Byte -> User \cup {NUL}] /\ secret' \in [Byte -> User \cup {NUL}]
      BY DEF TextInv, CounterInv, CounterAgrees, SecretTypeOK
    <3>5. file[f].pos \in Nat
      BY <2>2, SecretAssumption DEF Byte
    <3> HIDE DEF strlen
    <3>6. is_reading' = is_reading /\ \A k \in Byte : k < file[f].pos => secret'[k] = secret[k]
      BY <1>1, <2>2
    <3>7. file[g].pos <= strlen'
      BY <2>2, <3>3, <3>4, <3>5, <3>6, StrlenAppend
    <3> QED
      BY <3>3, <3>7
  <2> QED
    BY <2>3, <2>4
<1> QED
  BY <1>8, <1>9, <1>12, <1>13, <1>15, <1>16

(***************************************************************************)
(* lseek moves a file and nothing else; a write behind the secret changes  *)
(* nothing of what the driver believes, as far as it is defined.           *)
(***************************************************************************)
LEMMA TextSeek ==
    ASSUME TextInv, CounterInv', NEW f \in File,
           \/ \E pos \in SeekTo : Lseek(f, pos)
           \/ \E n \in 1..MaxRequest : WriteBehind(f, n)
    PROVE  TextInv'
<1>1. CASE \E n \in 1..MaxRequest : WriteBehind(f, n)
  <2>1. /\ secret' = secret /\ is_reading' = is_reading /\ owner' = owner
        /\ entitled' = entitled /\ lost' = lost /\ file' = file /\ sought' = sought
    BY <1>1 DEF WriteBehind, driverVars
  <2>2. OpenFiles' = OpenFiles
    BY <2>1 DEF OpenFiles
  <2> QED
    BY <2>1, <2>2, TextKept
<1>2. CASE \E pos \in SeekTo : Lseek(f, pos)
  <2> SUFFICES ASSUME ~lost'
               PROVE  /\ Ownership' /\ OneWriter' /\ OneHand' /\ EntitledHand'
                      /\ WriterAlone' /\ ReadersCounted' /\ InOrder'
    BY DEF TextInv
  <2>1. PICK pos \in SeekTo : Lseek(f, pos)
    BY <1>2
  <2>2. UNCHANGED <<secret, owner, is_reading, lost, entitled>> /\ sought'
    BY <2>1 DEF Lseek, driverVars
  <2>3. /\ Ownership /\ OneWriter /\ OneHand /\ EntitledHand
        /\ WriterAlone /\ ReadersCounted
    BY <2>2, Zenon DEF TextInv
  <2>4. /\ file'[f] = Opened(file[f].user, file[f].flag, pos)
        /\ \A g \in File : g # f => file'[g] = file[g]
        /\ OpenFiles' = OpenFiles
    BY <2>1, SeekMoves DEF TextInv
  <2>5. \A g \in OpenFiles : file'[g].user = file[g].user /\ file'[g].flag = file[g].flag
    BY <2>4 DEF OpenFiles, Opened
  <2>6. Ownership'
    BY <2>2, <2>3, <2>4, <2>5 DEF Ownership, Blank
  <2>7. OneWriter' /\ ReadersCounted' /\ WriterAlone'
    BY <2>2, <2>3, <2>4, <2>5 DEF OneWriter, Writer, ReadersCounted, WriterAlone
  <2>8. OneHand' /\ EntitledHand'
    BY <2>2, <2>3 DEF OneHand, EntitledHand
  <2>9. InOrder'
    BY <2>2 DEF InOrder
  <2> QED
    BY <2>6, <2>7, <2>8, <2>9
<1> QED
  BY <1>1, <1>2

(***************************************************************************)
(* SSGRANT keeps the secret and names another owner, or nobody, which is   *)
(* what lost records; a live update forgets it, which lost records too.    *)
(***************************************************************************)
LEMMA TextUpdate ==
    ASSUME TextInv, CounterInv',
           \/ \E f \in File, grantee \in Grantee : s_do_ioctl(f, grantee)
           \/ sef_cb_lu_state_save \/ sef_cb_init_lu \/ RollBack
    PROVE  TextInv'
<1>1. file' = file /\ OpenFiles' = OpenFiles
  BY CounterUpdate DEF TextInv
<1>2. CASE \E f \in File, grantee \in Grantee : s_do_ioctl(f, grantee)
  <2>1. PICK f \in File, grantee \in Grantee : s_do_ioctl(f, grantee)
    BY <1>2
  <2>2. secret' = secret /\ is_reading' = is_reading /\ sought' = sought
    BY <2>1 DEF s_do_ioctl
  <2>3. CASE grantee = NOT_OWNED
    <3>1. lost'
      BY <2>1, <2>3, Zenon DEF s_do_ioctl
    <3> QED
      BY <3>1 DEF TextInv
  <2>4. CASE grantee # NOT_OWNED
    <3>1. lost \in BOOLEAN
      BY DEF TextInv, CounterInv, CounterAgrees, SecretTypeOK
    <3>2. lost' = lost
      BY <2>1, <2>4, <3>1 DEF s_do_ioctl
    <3>3. /\ entitled \subseteq entitled'
          /\ owner' \in entitled' /\ owner' # NOT_OWNED
      BY <2>1, <2>4, SecretAssumption DEF s_do_ioctl
    <3> QED
      BY <1>1, <2>2, <3>2, <3>3, TextKept
  <2> QED
    BY <2>3, <2>4
<1>3. CASE sef_cb_lu_state_save \/ RollBack
  <2>1. /\ secret' = secret /\ is_reading' = is_reading /\ owner' = owner
        /\ entitled' = entitled /\ lost' = lost /\ sought' = sought
    BY <1>3 DEF sef_cb_lu_state_save, RollBack, driverVars
  <2> QED
    BY <1>1, <2>1, TextKept
<1>4. CASE sef_cb_init_lu
  <2>1. CASE lost'
    BY <2>1 DEF TextInv
  <2>2. CASE ~lost'
    <3>1. OpenFiles = {}
      BY <1>4, <2>2, Zenon DEF sef_cb_init_lu
    <3>2. (secret = Blank /\ OpenFiles = {} /\ owner = NOT_OWNED)'
      BY <1>1, <1>4, <3>1 DEF sef_cb_init_lu, Blank
    <3> QED
      BY <3>2, FreshText, PTL
  <2> QED
    BY <2>1, <2>2
<1> QED
  BY <1>2, <1>3, <1>4

(***************************************************************************)
(* The invariant of the secret holds when the driver starts.               *)
(***************************************************************************)
LEMMA TextInit == Init => TextInv
<1>1. Init => secret = Blank /\ OpenFiles = {} /\ owner = NOT_OWNED
  BY AllClosed DEF Init
<1> QED
  BY <1>1, CounterInit, FreshText

(***************************************************************************)
(* A step of the driver, by its action.                                    *)
(***************************************************************************)
LEMMA TextStep == TextInv /\ [Next]_vars => TextInv'
<1> SUFFICES ASSUME TextInv, [Next]_vars PROVE TextInv'
  OBVIOUS
<1>1. CounterInv'
  BY CounterStep DEF TextInv
<1>2. ASSUME NEW f \in File, NEW u \in User, NEW flag \in {"O_RDONLY", "O_WRONLY"},
             s_do_open(f, u, flag)
      PROVE  TextInv'
  BY <1>1, <1>2, TextFirstOpen, TextOpenAgain DEF Flags
<1>3. ASSUME NEW f \in File, s_do_close(f) PROVE TextInv'
  BY <1>1, <1>3, TextClose
<1>4. ASSUME NEW f \in File, NEW n \in 1..MaxRequest, Read(f, n) \/ Write(f, n)
      PROVE  TextInv'
  BY <1>1, <1>4, TextRead, TextWrite
<1>5. CASE \/ \E f \in File, grantee \in Grantee : s_do_ioctl(f, grantee)
           \/ sef_cb_lu_state_save \/ sef_cb_init_lu \/ RollBack
  BY <1>1, <1>5, TextUpdate
<1>6. CASE Restart
  <2>1. secret' = Blank /\ owner' = NOT_OWNED /\ file' = [f \in File |-> Closed]
    BY <1>6 DEF Restart, Restarted
  <2>2. OpenFiles' = {}
    BY <2>1, ClosedIsNot, Zenon DEF OpenFiles
  <2>3. (secret = Blank /\ OpenFiles = {} /\ owner = NOT_OWNED)'
    BY <2>1, <2>2 DEF Blank
  <2> QED
    BY <1>1, <2>3, FreshText, PTL
<1>7. CASE UNCHANGED vars
  <2>1. /\ secret' = secret /\ is_reading' = is_reading /\ owner' = owner
        /\ entitled' = entitled /\ lost' = lost /\ file' = file /\ sought' = sought
    BY <1>7 DEF vars
  <2>2. OpenFiles' = OpenFiles
    BY <2>1 DEF OpenFiles
  <2> QED
    BY <1>1, <2>1, <2>2, TextKept
<1>8. ASSUME NEW f \in File,
             \/ \E pos \in SeekTo : Lseek(f, pos)
             \/ \E n \in 1..MaxRequest : WriteBehind(f, n)
      PROVE  TextInv'
  BY <1>1, <1>8, TextSeek
<1> QED
  BY <1>2, <1>3, <1>4, <1>5, <1>6, <1>7, <1>8 DEF Next

(***************************************************************************)
(* The invariant holds in every behaviour of the driver.                   *)
(***************************************************************************)
LEMMA TextAlways == Spec => []TextInv
BY TextInit, TextStep, PTL DEF Spec

(***************************************************************************)
(* Whoever has the device open has owned it, and a secret has an owner     *)
(* (secret.c:146-153, 191-196).                                            *)
(***************************************************************************)
THEOREM OpenersCorrect == Spec => []OpenersWereOwners
<1>1. TextInv => OpenersWereOwners
  BY DEF TextInv, Ownership, OpenersWereOwners
<1> QED
  BY TextAlways, <1>1, PTL

(***************************************************************************)
(* A secret is by one of its owners, through one file (secret.c:170-179).  *)
(***************************************************************************)
THEOREM OneAuthorCorrect == Spec => []OneAuthor
<1>1. TextInv => OneAuthor
  <2> SUFFICES ASSUME TextInv, ~lost
               PROVE  /\ \A j, k \in Byte : (NUL \notin {secret[j], secret[k]}) => secret[j] = secret[k]
                      /\ \A f, g \in OpenFiles :
                            (file[f].flag = "O_WRONLY" /\ file[g].flag = "O_WRONLY") => f = g
                      /\ \A k \in Byte : secret[k] \in entitled \cup {NUL}
    BY DEF OneAuthor
  <2>1. OneWriter /\ OneHand /\ EntitledHand
    BY DEF TextInv
  <2> QED
    BY <2>1 DEF OneWriter, OneHand, EntitledHand, Writer
<1> QED
  BY TextAlways, <1>1, PTL

(***************************************************************************)
(* A secret that was opened to be read goes with the last close            *)
(* (secret.c:190-196).                                                     *)
(***************************************************************************)
THEOREM ForgottenCorrect == Spec => []ForgottenAfterReading
<1>1. TextInv => ForgottenAfterReading
  BY DEF TextInv, CounterInv, ReadingHasFiles, Ownership, ForgottenAfterReading
<1> QED
  BY TextAlways, <1>1, PTL

(***************************************************************************)
(* With files read and written in order the subtraction of secret.c:231    *)
(* does not wrap, and a reader gets the secret, and one byte more of one   *)
(* that fills its array.                                                   *)
(***************************************************************************)
THEOREM ReadersCorrect == Spec => []ReadsDoNotWrap
<1>1. TextInv => ReadsDoNotWrap
  <2> SUFFICES ASSUME TextInv, ~lost, ~sought, NEW f \in OpenFiles,
                      file[f].flag = "O_RDONLY"
               PROVE  /\ file[f].pos <= strlen
                      /\ file[f].pos > Length => /\ Length = SECRET_SIZE
                                                 /\ file[f].pos = SECRET_SIZE + 1
    BY DEF ReadsDoNotWrap
  <2>1. file[f].pos <= strlen
    BY DEF TextInv, InOrder, NoReaderBeyond
  <2>2. file[f].pos \in Nat
    BY OpenFileFacts DEF TextInv, OpenFiles
  <2>3. Length \in Nat
    BY LengthFacts DEF TextInv, CounterInv, CounterAgrees, SecretTypeOK
  <2>4. strlen = Length \/ (Length = SECRET_SIZE /\ strlen = SECRET_SIZE + 1)
    BY DEF strlen
  <2> QED
    BY <2>1, <2>2, <2>3, <2>4, SecretAssumption
<1> QED
  BY TextAlways, <1>1, PTL

(***************************************************************************)
(* Only a close after a reading, or another process, makes a secret blank: *)
(* a write never overwrites what was written (secret.c:190-196).           *)
(***************************************************************************)
LEMMA KeptStep ==
    ASSUME TextInv, [Next]_vars, ~lost, secret # Blank, secret' = Blank
    PROVE  \/ is_reading
           \/ generation' # generation
           \/ sought /\ OpenFiles' = OpenFiles
<1>1. ASSUME NEW f \in File, s_do_close(f)
      PROVE  is_reading \/ generation' # generation
  <2>1. open_counter >= 1 /\ open_counter \in Nat
    BY <1>1, CounterClose DEF TextInv, CounterInv, CounterAgrees, SecretTypeOK
  <2>2. ~(open_counter < 1)
    BY <2>1
  <2> QED
    BY <1>1, <2>2, Zenon DEF s_do_close
<1>2. ASSUME NEW f \in File, NEW n \in 1..MaxRequest, Write(f, n)
      PROVE  sought /\ OpenFiles' = OpenFiles
  <2>1. OpenFiles' = OpenFiles
    BY <1>2, WriteMoves DEF TextInv
  <2>2. CASE sought
    BY <2>1, <2>2
  <2>3. CASE ~sought
    <3>1. secret \in [Byte -> User \cup {NUL}]
      BY DEF TextInv, CounterInv, CounterAgrees, SecretTypeOK
    <3>2. PICK k \in Byte : secret[k] # NUL
      BY <3>1 DEF Blank
    <3>3. secret'[k] = secret[k]
      BY <1>2, <2>3, <3>2, WriteAppends
    <3> QED
      BY <3>2, <3>3 DEF Blank
  <2> QED
    BY <2>2, <2>3
<1>3. ASSUME generation' = ~generation PROVE generation' # generation
  <2>1. generation \in BOOLEAN
    BY DEF TextInv, CounterInv, CounterAgrees, SecretTypeOK
  <2> QED
    BY <1>3, <2>1
<1>4. CASE sef_cb_init_lu \/ Restart
  BY <1>3, <1>4 DEF sef_cb_init_lu, Restart, Restarted
<1>5. CASE secret' = secret
  BY <1>5
<1> QED
  BY <1>1, <1>2, <1>4, <1>5
     DEF Next, vars, s_do_open, Read, s_do_ioctl, sef_cb_lu_state_save, RollBack, driverVars,
         WriteBehind, Lseek

(***************************************************************************)
(* A secret nobody has opened to read is kept.                             *)
(***************************************************************************)
THEOREM KeptCorrect == Spec => KeptUntilRead
<1>1. TextInv /\ [Next]_vars =>
        [(~lost /\ secret # Blank /\ secret' = Blank) =>
             \/ is_reading
             \/ generation' # generation
             \/ sought /\ OpenFiles' = OpenFiles]_vars
  BY KeptStep
<1> QED
  BY TextAlways, <1>1, PTL DEF Spec, KeptUntilRead
=============================================================================
