-------------------------------- MODULE Secret --------------------------------
(***************************************************************************)
(* The MINIX driver of /dev/secret (src/assns/assn4/secrets/secret.c): it  *)
(* keeps one secret for one user, who alone may read it, and forgets it    *)
(* when the last file that was open is closed after a reading.             *)
(*                                                                         *)
(* The driver takes one message at a time, so a handler is one step.  The  *)
(* file system keeps the open files and their positions, the data store    *)
(* keeps what a live update carries over, and the reincarnation server     *)
(* updates or restarts the driver at any time; these three are external.   *)
(*                                                                         *)
(* A byte is abstracted to who wrote it, or NUL.  A handler that refuses a *)
(* request changes nothing, so that refused requests are not actions.      *)
(* lseek may put the position of a file anywhere.  A write at a position   *)
(* behind the secret goes to the driver's other variables: what they hold  *)
(* then is undefined, and nothing is modelled until the driver is          *)
(* restarted.                                                              *)
(***************************************************************************)
EXTENDS Integers, FiniteSets, FiniteSetsExt

CONSTANTS
    User,           \* user ids
    File,           \* the open files the file system has room for
    Grantee,        \* whom SSGRANT may name: users, and NOT_OWNED when it is
                    \* asked for or left in grantee by a copy that failed
    SECRET_SIZE,
    MaxRequest,     \* bound: the bytes one read or write asks for
    MaxPosition,    \* bound: how far a file is read
    SeekTo,         \* the positions lseek sets; none: files are used in order
    NUL,            \* the byte '\0'
    NOT_OWNED       \* the user id of nobody

ASSUME SecretAssumption ==
    /\ SECRET_SIZE \in Nat \ {0} /\ MaxRequest \in Nat /\ MaxPosition \in Nat
    /\ SeekTo \subseteq 0..MaxPosition
    /\ Grantee \subseteq User \cup {NOT_OWNED}
    /\ NUL \notin User /\ NOT_OWNED \notin User /\ NUL # NOT_OWNED
    /\ IsFiniteSet(File)

VARIABLES
    secret, owner, open_counter, is_reading,    \* the driver's globals
    file,       \* the file system's open files
    store,      \* what the data store has published as open_counter
    frozen,     \* the driver saved its state and waits to be replaced
    lost,       \* history: a live update or SSGRANT took the owner away
    entitled,   \* history: the owners since the secret was last empty
    generation, \* history: alternates when another process takes over
    sought,     \* history: lseek has set the position of a file
    overrun     \* history: a write went behind the secret

driverVars == <<secret, owner, open_counter, is_reading>>
vars == <<secret, owner, open_counter, is_reading, file, store, frozen, lost,
          entitled, generation, sought, overrun>>

Byte == 0..SECRET_SIZE - 1

\* The driver takes requests: it does not wait for a live update, and its
\* variables are what its own steps made them.
Serving == ~frozen /\ ~overrun

Closed == [open |-> FALSE]
Opened(u, flag, pos) == [open |-> TRUE, user |-> u, flag |-> flag, pos |-> pos]

OpenFiles == {f \in File : file[f].open}

Blank == [k \in Byte |-> NUL]

\* The bytes the secret has, up to its first NUL.
Length ==
    LET ends == {k \in Byte : secret[k] = NUL}
    IN  IF ends # {} THEN Min(ends) ELSE SECRET_SIZE

(***************************************************************************)
(* strlen(secret).  A secret of SECRET_SIZE bytes has no NUL of its own;   *)
(* is_reading comes next in memory, so its value 1 counts as one byte.     *)
(***************************************************************************)
strlen == IF Length = SECRET_SIZE /\ is_reading THEN SECRET_SIZE + 1 ELSE Length

\* size - position in 32-bit unsigned arithmetic, cut to the bytes asked for.
Transferred(size, pos, n) == IF pos <= size THEN Min({size - pos, n}) ELSE n

-----------------------------------------------------------------------------
\* main, and sef_cb_init_fresh of a driver that starts
Init ==
    /\ secret = Blank /\ owner = NOT_OWNED /\ open_counter = 0 /\ is_reading = FALSE
    /\ file = [f \in File |-> Closed]
    /\ store = -1
    /\ frozen = FALSE
    /\ lost = FALSE /\ entitled = {} /\ generation = FALSE
    /\ sought = FALSE /\ overrun = FALSE

(***************************************************************************)
(* Mutants: plausible bugs, each of which breaks a property below.         *)
(***************************************************************************)
s_do_open_AnyUser(f, u, flag) ==
    /\ Serving /\ ~file[f].open
    /\ flag = "O_WRONLY" => owner = NOT_OWNED
    /\ owner' = (IF owner = NOT_OWNED THEN u ELSE owner)
    /\ is_reading' = (is_reading \/ flag = "O_RDONLY")
    /\ open_counter' = open_counter + 1
    /\ file' = [file EXCEPT ![f] = Opened(u, flag, 0)]
    /\ entitled' = IF owner = NOT_OWNED THEN {u} ELSE entitled
    /\ UNCHANGED <<secret, store, frozen, lost, generation, sought, overrun>>

s_do_open_OwnerWrites(f, u, flag) ==
    /\ Serving /\ ~file[f].open
    /\ owner \in {NOT_OWNED, u}
    /\ owner' = u
    /\ is_reading' = (is_reading \/ flag = "O_RDONLY")
    /\ open_counter' = open_counter + 1
    /\ file' = [file EXCEPT ![f] = Opened(u, flag, 0)]
    /\ entitled' = IF owner = NOT_OWNED THEN {u} ELSE entitled
    /\ UNCHANGED <<secret, store, frozen, lost, generation, sought, overrun>>

\* Clears when cleared(open_counter, is_reading), instead of at the last close
\* after a reading.
CloseClearing(f, cleared) ==
    /\ Serving /\ file[f].open /\ open_counter >= 1
    /\ IF cleared
       THEN /\ secret' = Blank /\ owner' = NOT_OWNED /\ is_reading' = FALSE
            /\ entitled' = {}
       ELSE UNCHANGED <<secret, owner, is_reading, entitled>>
    /\ open_counter' = open_counter - 1
    /\ file' = [file EXCEPT ![f] = Closed]
    /\ UNCHANGED <<store, frozen, lost, generation, sought, overrun>>

s_do_close_Early(f) == CloseClearing(f, open_counter = 2 /\ is_reading)
s_do_close_Always(f) == CloseClearing(f, open_counter = 1)
s_do_close_NotLast(f) == CloseClearing(f, is_reading)

\* lu_state_restore that never assigns what it read.
sef_cb_init_lu_CountsAfresh ==
    /\ frozen
    /\ open_counter' = 0
    /\ store' = -1
    /\ frozen' = FALSE
    /\ secret' = Blank /\ owner' = NOT_OWNED /\ is_reading' = FALSE
    /\ lost' = (lost \/ OpenFiles # {} \/ owner # NOT_OWNED)
    /\ entitled' = {}
    /\ generation' = ~generation
    /\ UNCHANGED <<file, sought, overrun>>

-----------------------------------------------------------------------------
(***************************************************************************)
(* s_do_open: only the owner, or anybody while there is none, who becomes  *)
(* the owner; and for writing only while there was none.                   *)
(***************************************************************************)
s_do_open(f, u, flag) ==
    /\ Serving /\ ~file[f].open
    /\ owner \in {NOT_OWNED, u}
    /\ flag = "O_WRONLY" => owner = NOT_OWNED
    /\ owner' = u
    /\ is_reading' = (is_reading \/ flag = "O_RDONLY")
    /\ open_counter' = open_counter + 1
    /\ file' = [file EXCEPT ![f] = Opened(u, flag, 0)]
    /\ entitled' = IF owner = NOT_OWNED THEN {u} ELSE entitled
    /\ UNCHANGED <<secret, store, frozen, lost, generation, sought, overrun>>

\* A driver that starts afresh.  The file system hears of it and invalidates
\* the files that were open.
Restarted ==
    /\ secret' = Blank /\ owner' = NOT_OWNED /\ open_counter' = 0 /\ is_reading' = FALSE
    /\ file' = [f \in File |-> Closed]
    /\ frozen' = FALSE
    /\ lost' = FALSE /\ entitled' = {}
    /\ generation' = ~generation
    /\ sought' = FALSE /\ overrun' = FALSE
    /\ store' = store

\* s_do_close.  When it finds the counter below 1 it panics and is restarted.
s_do_close(f) ==
    /\ Serving /\ file[f].open
    /\ IF open_counter < 1
       THEN Restarted
       ELSE /\ IF open_counter = 1 /\ is_reading
               THEN /\ secret' = Blank /\ owner' = NOT_OWNED /\ is_reading' = FALSE
                    /\ entitled' = {}
               ELSE UNCHANGED <<secret, owner, is_reading, entitled>>
            /\ open_counter' = open_counter - 1
            /\ file' = [file EXCEPT ![f] = Closed]
            /\ UNCHANGED <<store, frozen, lost, generation, sought, overrun>>

(***************************************************************************)
(* s_transfer.  A read at the end of the secret returns nothing, a write   *)
(* of more than SECRET_SIZE bytes is refused, and one that does not fit is *)
(* cut short.  What is written may have NULs in it.  A position beyond the *)
(* end makes the subtraction wrap, and all that was asked for is moved.    *)
(***************************************************************************)
ReadCount(f, n) == Transferred(strlen, file[f].pos, n)
WriteCount(f, n) == Transferred(SECRET_SIZE, file[f].pos, n)

Read(f, n) ==
    /\ Serving /\ file[f].open /\ file[f].flag = "O_RDONLY"
    /\ file[f].pos + n <= MaxPosition
    /\ ReadCount(f, n) > 0
    /\ file' = [file EXCEPT ![f].pos = @ + ReadCount(f, n)]
    /\ UNCHANGED <<driverVars, store, frozen, lost, entitled, generation, sought, overrun>>

Write(f, n) ==
    /\ Serving /\ file[f].open /\ file[f].flag = "O_WRONLY"
    /\ n <= SECRET_SIZE
    /\ file[f].pos <= SECRET_SIZE /\ WriteCount(f, n) > 0
    /\ LET here == {k \in Byte : file[f].pos <= k /\ k < file[f].pos + WriteCount(f, n)}
       IN  \E text \in [here -> {file[f].user, NUL}] :
              secret' = [k \in Byte |-> IF k \in here THEN text[k] ELSE secret[k]]
    /\ file' = [file EXCEPT ![f].pos = @ + WriteCount(f, n)]
    /\ UNCHANGED <<owner, open_counter, is_reading, store, frozen, lost, entitled, generation,
                   sought, overrun>>

\* The subtraction of secret.c:256 wraps, and the bytes go where secret and the
\* position say.
WriteBehind(f, n) ==
    /\ Serving /\ file[f].open /\ file[f].flag = "O_WRONLY"
    /\ n <= SECRET_SIZE
    /\ file[f].pos > SECRET_SIZE
    /\ overrun' = TRUE
    /\ UNCHANGED <<driverVars, file, store, frozen, lost, entitled, generation, sought>>

\* lseek, which the file system does without the driver
Lseek(f, pos) ==
    /\ file[f].open /\ ~overrun
    /\ file' = [file EXCEPT ![f].pos = pos]
    /\ sought' = TRUE
    /\ UNCHANGED <<driverVars, store, frozen, lost, entitled, generation, overrun>>

\* s_do_ioctl: SSGRANT, by any process that has the device open
s_do_ioctl(f, grantee) ==
    /\ Serving /\ file[f].open
    /\ owner' = grantee
    /\ entitled' = entitled \cup ({grantee} \cap User)
    /\ lost' = (lost \/ grantee = NOT_OWNED)
    /\ UNCHANGED <<secret, open_counter, is_reading, file, store, frozen, generation,
                   sought, overrun>>

-----------------------------------------------------------------------------
(***************************************************************************)
(* The reincarnation server.  A live update saves the state, starts the    *)
(* new version, which restores it, and goes back to the old version if     *)
(* that fails.  Files stay open meanwhile.                                 *)
(***************************************************************************)
sef_cb_lu_state_save ==
    /\ Serving
    /\ store' = open_counter
    /\ frozen' = TRUE
    /\ UNCHANGED <<driverVars, file, lost, entitled, generation, sought, overrun>>

sef_cb_init_lu ==
    /\ frozen
    /\ open_counter' = store
    /\ store' = -1
    /\ frozen' = FALSE
    /\ secret' = Blank /\ owner' = NOT_OWNED /\ is_reading' = FALSE
    /\ lost' = (lost \/ OpenFiles # {} \/ owner # NOT_OWNED)
    /\ entitled' = {}
    /\ generation' = ~generation
    /\ UNCHANGED <<file, sought, overrun>>

\* The new version may have deleted the data store's copy before it failed.
RollBack ==
    /\ frozen
    /\ frozen' = FALSE
    /\ store' \in {store, -1}
    /\ UNCHANGED <<driverVars, file, lost, entitled, generation, sought, overrun>>

Restart == Restarted

Next ==
    \/ \E f \in File :
          \/ \E u \in User, flag \in {"O_RDONLY", "O_WRONLY"} : s_do_open(f, u, flag)
          \/ s_do_close(f)
          \/ \E n \in 1..MaxRequest : Read(f, n) \/ Write(f, n) \/ WriteBehind(f, n)
          \/ \E grantee \in Grantee : s_do_ioctl(f, grantee)
          \/ \E pos \in SeekTo : Lseek(f, pos)
    \/ sef_cb_lu_state_save \/ sef_cb_init_lu \/ RollBack \/ Restart

Spec == Init /\ [][Next]_vars

-----------------------------------------------------------------------------
\* Type invariant.
SecretTypeOK ==
    /\ secret \in [Byte -> User \cup {NUL}]
    /\ owner \in User \cup {NOT_OWNED}
    /\ open_counter \in Nat
    /\ is_reading \in BOOLEAN
    /\ file \in [File -> {Closed} \cup [open : {TRUE}, user : User,
                                       flag : {"O_RDONLY", "O_WRONLY"},
                                       pos : 0..MaxPosition + SECRET_SIZE]]
    /\ store \in Nat \cup {-1}
    /\ frozen \in BOOLEAN
    /\ lost \in BOOLEAN
    /\ entitled \in SUBSET User
    /\ generation \in BOOLEAN
    /\ sought \in BOOLEAN
    /\ overrun \in BOOLEAN

(***************************************************************************)
(* open_counter is the number of open files through refused opens, live    *)
(* updates, failed updates and restarts, so the driver never panics on a   *)
(* close and never takes the wrong close for the last (secret.c:185-200,   *)
(* 293-350).                                                               *)
(***************************************************************************)
CounterAgrees == SecretTypeOK /\ open_counter = Cardinality(OpenFiles)

(***************************************************************************)
(* Whoever has the device open owned it since the secret was last empty,   *)
(* and a secret always has an owner, through any mix of opens, grants,     *)
(* closes and failed updates (secret.c:146-153, 191-196).  What a live     *)
(* update forgets, or a grant to nobody gives up, is excepted.             *)
(***************************************************************************)
OpenersWereOwners ==
    ~lost => /\ \A f \in OpenFiles : file[f].user \in entitled
             /\ (OpenFiles # {} \/ secret # Blank) => owner \in entitled

(***************************************************************************)
(* A secret is by one user, through one file: nobody writes on another's   *)
(* secret, or on one that was granted or is still being written (asn4.md   *)
(* "Writing only if secret is not owned by anyone", secret.c:170-179).     *)
(***************************************************************************)
OneAuthor ==
    ~lost => /\ \A j, k \in Byte : (NUL \notin {secret[j], secret[k]}) => secret[j] = secret[k]
             /\ \A f, g \in OpenFiles :
                   (file[f].flag = "O_WRONLY" /\ file[g].flag = "O_WRONLY") => f = g
             /\ \A k \in Byte : secret[k] \in entitled \cup {NUL}

(***************************************************************************)
(* A secret that has been opened for reading is forgotten with the last    *)
(* close, with whatever files and grants came in between, and the device   *)
(* is free for the next user (secret.c:190-196).                           *)
(***************************************************************************)
ForgottenAfterReading ==
    OpenFiles = {} => /\ ~is_reading
                      /\ (~lost /\ owner = NOT_OWNED) => secret = Blank

(***************************************************************************)
(* The unsigned strlen(secret) - position.lo of secret.c:231 does not wrap *)
(* as long as files are read and written in order: no step shortens a      *)
(* secret that somebody is reading.  What a reader has got is the secret,  *)
(* and one byte more if it fills its array: strlen then counts is_reading. *)
(* A live update and an lseek are excepted, as they do leave a position    *)
(* beyond the end.                                                         *)
(***************************************************************************)
ReadsDoNotWrap ==
    (~lost /\ ~sought) => \A f \in OpenFiles : file[f].flag = "O_RDONLY" =>
        /\ file[f].pos <= strlen
        /\ file[f].pos > Length => Length = SECRET_SIZE /\ file[f].pos = SECRET_SIZE + 1

(***************************************************************************)
(* A secret nobody has opened for reading is kept, through any number of   *)
(* closes, grants and failed updates, unless the driver is replaced        *)
(* (secret.c:190-196), or its writer has gone back in it (lseek) and       *)
(* writes NULs over it.                                                    *)
(***************************************************************************)
KeptUntilRead ==
    [][ (~lost /\ secret # Blank /\ secret' = Blank) =>
            \/ is_reading
            \/ generation' # generation
            \/ sought /\ OpenFiles' = OpenFiles ]_vars

(***************************************************************************)
(* A read at the end of the secret or beyond gives an EOF ("if less than 0 *)
(* bytes give a EOF", secret.c:234).                                       *)
(***************************************************************************)
EndOfFile ==
    [][ \A f \in File, n \in 1..MaxRequest : Read(f, n) => file[f].pos < Length ]_vars
=============================================================================
