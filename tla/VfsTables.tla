----------------------------- MODULE VfsTables -----------------------------
(***************************************************************************)
(* The tables of the MINIX virtual file system server (assn5/vfs): process *)
(* slots and their descriptors, the filps they share (filedes.c), and the  *)
(* vnodes (vnode.c, path.c), with the file servers' side of each vnode.    *)
(*                                                                         *)
(* A state of the server is a record; a function of the server is an       *)
(* operator from state to state, which leaves its result in `r'.           *)
(***************************************************************************)
EXTENDS Integers, Sequences, FiniteSets, SequencesExt, FiniteSetsExt

CONSTANTS NR_PROCS, OPEN_MAX, NR_FILPS, NR_VNODES, NR_LOCKS, MAXSELECTS,
          PIPE_BUF,
          NPipes,       \* inodes of PipeFS
          KindOf,       \* of the other inodes: "REG", "FIFO" or "DIR"
          MaxFsCount    \* 256: references a vnode gathers before they are given back

ASSUME TablesAssumption ==
    {NR_PROCS, OPEN_MAX, NR_FILPS, NR_VNODES, NR_LOCKS, MAXSELECTS} \subseteq Nat

NULL == 0
Procs == 1..NR_PROCS
Fds == 0..(OPEN_MAX - 1)
Filps == 1..NR_FILPS
Vnodes == 1..NR_VNODES
Pipes == 1..NPipes           \* inodes of PipeFS
Files == DOMAIN KindOf       \* inodes of the root file system; none is in Pipes
ROOT == 1                    \* the vnode of the root directory
R_BIT == "R"
W_BIT == "W"

OK == 0
EIO == -5
EBADF == -9
EAGAIN == -11
EEXIST == -17
ENOTDIR == -20
EISDIR == -21
EINVAL == -22
ENFILE == -23
EMFILE == -24
ESPIPE == -29
EPIPE == -32
ENXIO == -6
ENOENT == -2
EINTR == -4
ENOSPC == -28
ENOLCK == -37
SUSPEND == -998

FreeProc == [used |-> FALSE, filp |-> [d \in Fds |-> NULL], inuse |-> {},
             rd |-> NULL, wd |-> NULL,
             blocked_on |-> "NONE", callnr |-> "NONE", block_fd |-> 0, nbytes |-> 0,
             lock |-> <<>>,         \* the flock of a call that waits for a lock
             revived |-> FALSE, cum_io_partial |-> 0]
FreeFilp == [count |-> 0, mode |-> {}, vno |-> NULL, pos |-> 0,
             nonblock |-> FALSE, append |-> FALSE,
             selectors |-> 0, select_ops |-> {}, pipe_select_ops |-> {}]
FreeVnode == [ref |-> 0, fs_count |-> 0, ino |-> NULL, mapino |-> NULL,
              pipe |-> FALSE, size |-> 0, rd |-> 0, wr |-> 0]
FreeLock == [type |-> "NONE", pid |-> 0, vno |-> NULL, first |-> 0, last |-> 0]
FreeSel == [requestor |-> 0, ops |-> [d \in Fds |-> {}], ready |-> [d \in Fds |-> {}],
            filps |-> [d \in Fds |-> NULL], nfds |-> 0, block |-> FALSE, timer |-> FALSE]

NoIO == [call |-> "NONE", ino |-> NULL, bytes |-> <<>>, want |-> 0]

\* scan is where get_work looks next; node, fsize and data are the file servers':
\* the references they count, the sizes of files, the bytes in a pipe's inode.
Fresh(alive, made) ==
    [made |-> made,       \* the files there are
     proc |-> [p \in Procs |-> IF p \in alive
                               THEN [FreeProc EXCEPT !.used = TRUE, !.rd = ROOT, !.wd = ROOT]
                               ELSE FreeProc],
     filp |-> [f \in Filps |-> FreeFilp],
     vnode |-> [v \in Vnodes |-> IF v = ROOT
                                 THEN [FreeVnode EXCEPT !.ref = 1 + 2 * Cardinality(alive),
                                                        !.fs_count = 1,
                                                        !.ino = Min(Files)]
                                 ELSE FreeVnode],
     lock |-> [l \in 1..NR_LOCKS |-> FreeLock], nr_locks |-> 0,
     sel |-> [i \in 1..MAXSELECTS |-> FreeSel],
     susp_count |-> 0, reviving |-> 0, scan |-> 1, panic |-> FALSE,
     r |-> OK, io |-> NoIO,
     node |-> [i \in Pipes \cup Files |-> IF i = Min(Files) THEN 1 ELSE 0],
     fsize |-> [i \in Files |-> 0],
     data |-> [i \in Pipes |-> <<>>]]

Ret(s, r) == [s EXCEPT !.r = r]
Panic(s) == [s EXCEPT !.panic = TRUE]

ModeOf(s, v) == IF s.vnode[v].ino \in Pipes THEN "FIFO" ELSE KindOf[s.vnode[v].ino]

-----------------------------------------------------------------------------
(* Descriptors and filps. *)

\* A free descriptor from start on, and a free filp for it.
get_fd(s, p, start) ==
    LET ds == {d \in start..(OPEN_MAX - 1) :
                 s.proc[p].filp[d] = NULL /\ d \notin s.proc[p].inuse}
        fs == {f \in Filps : s.filp[f].count = 0}
    IN IF ds = {} THEN [r |-> EMFILE]
       ELSE IF fs = {} THEN [r |-> ENFILE]
       ELSE [r |-> OK, fd |-> Min(ds), f |-> Min(fs)]

SetFd(s, p, d, f) ==
    [s EXCEPT !.proc[p] = [@ EXCEPT !.filp[d] = f, !.inuse = @ \cup {d}]]
ClearFd(s, p, d) ==
    [s EXCEPT !.proc[p] = [@ EXCEPT !.filp[d] = NULL, !.inuse = @ \ {d}]]

\* The filp of a descriptor; NULL is EBADF (no driver is unmapped here).
get_filp2(s, p, d) == IF d \in Fds THEN s.proc[p].filp[d] ELSE NULL

\* A filp open on v in the direction `bit'.
FilpsOf(s, v, bit) == {f \in Filps : s.filp[f].count # 0 /\ s.filp[f].vno = v /\ bit \in s.filp[f].mode}
find_filp(s, v, bit) ==
    LET fs == FilpsOf(s, v, bit) IN IF fs = {} THEN NULL ELSE Min(fs)

\* PFS marks the filp of a descriptor that travels in a message.
verify_fd(s, p, d) == get_filp2(s, p, d)
set_filp(s, f) == IF f = NULL THEN Ret(s, EINVAL) ELSE [s EXCEPT !.filp[f].count = @ + 1, !.r = OK]

\* A descriptor of p for a filp in flight.
copy_filp(s, p, f) ==
    LET ds == {d \in Fds : s.proc[p].filp[d] = NULL /\ d \notin s.proc[p].inuse}
    IN IF ds = {} THEN Ret(s, EMFILE)
       ELSE [SetFd(s, p, Min(ds), f) EXCEPT !.filp[f].count = @ + 1, !.r = Min(ds)]

cancel_fd(s, p, d) ==
    LET f == verify_fd(s, p, d)
    IN IF f = NULL THEN Ret(s, EINVAL)
       ELSE Ret(ClearFd([s EXCEPT !.filp[f].count = @ - 1], p, d), d)

-----------------------------------------------------------------------------
(* Vnodes, each a number of references to an inode of a file server. *)

get_free_vnode(s) ==
    LET vs == {v \in Vnodes : s.vnode[v].ref = 0} IN IF vs = {} THEN NULL ELSE Min(vs)
find_vnode(s, ino) ==
    LET vs == {v \in Vnodes : s.vnode[v].ref > 0 /\ s.vnode[v].ino = ino}
    IN IF vs = {} THEN NULL ELSE Min(vs)

dup_vnode(s, v) == [s EXCEPT !.vnode[v].ref = @ + 1]

\* The file server drops n references; PipeFS forgets an inode without any.
req_putnode(s, ino, n) ==
    LET t == [s EXCEPT !.node[ino] = @ - n]
    IN IF ino \in Pipes /\ t.node[ino] = 0 THEN [t EXCEPT !.data[ino] = <<>>] ELSE t

vnode_clean_refs(s, v) ==
    LET n == s.vnode[v].fs_count
    IN IF n <= 1 THEN s
       ELSE [req_putnode(s, s.vnode[v].ino, n - 1) EXCEPT !.vnode[v].fs_count = 1]

\* One reference of several goes.
less_vnode(s, v) ==
    LET t == [s EXCEPT !.vnode[v].ref = @ - 1]
    IN IF s.vnode[v].fs_count > MaxFsCount THEN vnode_clean_refs(t, v) ELSE t

\* The last reference goes to the file server, and to PipeFS if v was mapped.
free_vnode(s, v) ==
    LET vp == s.vnode[v]
        put == req_putnode(s, vp.ino, vp.fs_count)
        unmapped == IF vp.mapino \notin {NULL, vp.ino} THEN req_putnode(put, vp.mapino, 1) ELSE put
    IN [unmapped EXCEPT !.vnode[v] = FreeVnode]

put_vnode(s, v) ==
    LET vp == s.vnode[v]
    IN IF vp.ref > 1 THEN less_vnode(s, v)
       ELSE IF vp.ref <= 0 \/ vp.fs_count <= 0 THEN Panic(s)
       ELSE free_vnode(s, v)

\* The name of an inode is resolved: its vnode, with a reference for the caller.
advance(s, ino) ==
    LET new == get_free_vnode(s)
        vp == find_vnode(s, ino)
        found == [s EXCEPT !.node[ino] = @ + 1, !.r = OK]
    IN IF new = NULL THEN [s |-> Ret(s, ENFILE), v |-> NULL]
       ELSE IF ino \notin s.made THEN [s |-> Ret(s, ENOENT), v |-> NULL]
       ELSE IF vp # NULL
            THEN [s |-> [dup_vnode(found, vp) EXCEPT !.vnode[vp].fs_count = @ + 1], v |-> vp]
       ELSE [s |-> [found EXCEPT !.vnode[new] = [FreeVnode EXCEPT !.ref = 1, !.fs_count = 1,
                                                                  !.ino = ino, !.size = s.fsize[ino]]],
             v |-> new]

\* A new inode of PipeFS, which has room for NPipes.
req_newnode(s) ==
    LET is == {i \in Pipes : s.node[i] = 0}
    IN IF is = {} THEN [s |-> Ret(s, ENFILE), ino |-> NULL]
       ELSE [s |-> [s EXCEPT !.node[Min(is)] = 1, !.r = OK], ino |-> Min(is)]

\* A FIFO gets an inode of PipeFS for its bytes.
map_vnode(s, v) ==
    LET n == req_newnode(s)
    IN IF s.vnode[v].mapino # NULL THEN Ret(s, OK)
       ELSE IF n.s.r # OK THEN n.s
       ELSE [n.s EXCEPT !.vnode[v].mapino = n.ino]

\* The server of v, which for an anonymous pipe is PipeFS, sets its size.
truncate_vnode(s, v, newsize) ==
    LET ino == s.vnode[v].ino
        t == [s EXCEPT !.vnode[v].size = newsize, !.r = OK]
    IN IF ModeOf(s, v) \notin {"REG", "FIFO"} THEN Ret(s, EINVAL)
       ELSE IF ino \in Pipes THEN t
       ELSE [t EXCEPT !.fsize[ino] = newsize]
=============================================================================
