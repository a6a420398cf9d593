-------------------------------- MODULE Vfs --------------------------------
(***************************************************************************)
(* The MINIX virtual file system server (assn5/vfs): its main loop, the    *)
(* calls of user processes on files, pipes, FIFOs and locks (open.c,       *)
(* read.c, pipe.c, misc.c, select.c, link.c, stadir.c), what the process   *)
(* manager asks of it, and descriptors in flight (filedes.c).              *)
(*                                                                         *)
(* The server takes one message at a time, so a step is a whole request;   *)
(* what interleaves is the requests, and the processes it puts to sleep.   *)
(***************************************************************************)
EXTENDS VfsPipe

CONSTANTS Loads,     \* who is there, what files, and the calls each process makes:
                     \* [alive, made, may]
          MaxFile,   \* bytes in a regular file
          Careful    \* TRUE: the calls known to break the server are not made

\* A lock has a type that fcntl knows, and F_DUPFD starts at a descriptor: the
\* calls with others fail at once.
Flocks == [type : {"RD", "WR", "UNLCK"}, first : Int, last : Int]
ASSUME LoadsAssumption ==
    \A l \in Loads : \A p \in Procs : \A c \in l.may[p] :
        (c.op = "lock" => c.fl \in Flocks) /\ (c.op = "dupfd" => c.start \in Fds)

VARIABLES v,         \* the server
          flying,    \* references PFS holds for descriptors in messages
          io,        \* what the last step moved through a pipe
          load,      \* of this behaviour
          down       \* the system has been shut down

vars == <<v, flying, io, load, down>>

Init ==
    /\ load \in Loads
    /\ v = Fresh(load.alive, load.made)
    /\ flying = [f \in Filps |-> 0] /\ io = NoIO /\ down = FALSE

\* The state after a step; results are not kept.
Become(s) ==
    /\ v' = [s EXCEPT !.r = OK, !.io = NoIO, !.scan = IF s.reviving = 0 THEN 1 ELSE @]
    /\ io' = s.io
    /\ UNCHANGED load

Running(p) == v.proc[p].used /\ ~fp_is_blocked(v, p)

\* get_work receives a message only when nobody is to be revived.
Receive == ~v.panic /\ ~down /\ v.reviving = 0
Asks(p, c) == Receive /\ Running(p)
Same == UNCHANGED <<flying, down>>

-----------------------------------------------------------------------------
(* open.c *)

\* The name is found or made; r is OK for a new file, EEXIST for an old one.
new_node(s, p, ino) ==
    LET dirp == s.proc[p].wd
        new == get_free_vnode(s)
        Created(t) == [t EXCEPT !.made = @ \cup {ino}, !.node[ino] = 1, !.fsize[ino] = 0,
                                !.vnode[new] = [FreeVnode EXCEPT !.ref = 1, !.fs_count = 1,
                                                                 !.ino = ino]]
        Found(held, n) ==
            IF n.v # NULL THEN [s |-> Ret(put_vnode(n.s, dirp), EEXIST), v |-> n.v]
            ELSE IF n.s.r = ENOENT
            THEN [s |-> Ret(put_vnode(Created(held), dirp), OK), v |-> new]
            ELSE [s |-> Ret(put_vnode(held, dirp), n.s.r), v |-> NULL]
        In(held) == Found(held, advance(held, ino))
    IN In(dup_vnode(s, dirp))

\* Who waits to open the FIFO.
release_openers(s, vp) ==
    LET t == release(s, vp, "OPEN", s.susp_count)
    IN IF s.susp_count > 0 THEN release(t, vp, "CREAT", t.susp_count) ELSE s

\* A FIFO is open when both its ends are: the first to come waits.
pipe_open(s, p, call, d, vp, o) ==
    LET partner == find_filp(s, vp, IF W_BIT \in o.acc THEN R_BIT ELSE W_BIT)
    IN IF o.acc = {R_BIT, W_BIT} THEN Ret(s, ENXIO)
       ELSE IF partner # NULL THEN Ret(release_openers(s, vp), OK)
       ELSE IF ~o.nonblock THEN suspend(s, p, "POPEN", call, d, 0, <<>>)
       ELSE IF W_BIT \in o.acc THEN Ret(s, ENXIO)
       ELSE Ret(s, OK)

\* A FIFO that nobody else has is emptied.
empty_fifo(s, vp) ==
    LET alone == [s EXCEPT !.vnode[vp].rd = 0, !.vnode[vp].wr = 0]
    IN IF s.vnode[vp].ref # 1 THEN s
       ELSE IF s.vnode[vp].size # 0 THEN truncate_vnode(alone, vp, 0)
       ELSE alone

\* Who opens it the same way as another shares that one's filp, unless it failed.
share_filp(s, p, d, f, vp, o) ==
    LET aside == [s EXCEPT !.filp[f] = FreeFilp]
        f2 == find_filp(aside, vp, IF R_BIT \in o.acc THEN R_BIT ELSE W_BIT)
    IN IF s.r = ENXIO \/ f2 = NULL THEN s
       ELSE put_vnode([SetFd(aside, p, d, f2) EXCEPT !.filp[f2].count = @ + 1,
                                                     !.filp[f2].nonblock = o.nonblock], vp)

\* The FIFO is mapped on PipeFS and opened.
OpenFifo(s, p, call, d, f, vp, o) ==
    LET m == map_vnode(s, vp)
        e == empty_fifo([m EXCEPT !.vnode[vp].pipe = TRUE, !.filp[f].append = TRUE], vp)
    IN share_filp(IF m.r # OK THEN m ELSE pipe_open(e, p, call, d, vp, o), p, d, f, vp, o)

open_vnode(s, p, call, d, f, vp, o) ==
    LET kind == ModeOf(s, vp)
    IN IF kind = "REG" THEN IF o.trunc THEN truncate_vnode(s, vp, 0) ELSE Ret(s, OK)
       ELSE IF kind = "DIR" THEN Ret(s, IF W_BIT \in o.acc THEN EISDIR ELSE OK)
       ELSE OpenFifo(s, p, call, d, f, vp, o)

\* What fails gives descriptor and filp back.
undo_open(s, p, d, f, vp) ==
    IF s.r \in {OK, SUSPEND} THEN s
    ELSE Ret(put_vnode(ClearFd([s EXCEPT !.filp[f] = FreeFilp], p, d), vp), s.r)

\* Descriptor d and filp f are for vp.  A file that was just made needs no more.
claim_open(s, p, call, d, f, vp, o) ==
    LET c == [SetFd(s, p, d, f) EXCEPT
                !.filp[f] = [FreeFilp EXCEPT !.count = 1, !.mode = o.acc, !.vno = vp,
                                             !.nonblock = o.nonblock, !.append = o.append]]
    IN undo_open(IF o.creat /\ ~(s.r = EEXIST /\ ~o.excl) THEN c
                 ELSE open_vnode(c, p, call, d, f, vp, o), p, d, f, vp)

\* open and creat.  Anything may be searched, read and written.
common_open(s, p, call, ino, o) ==
    LET g == get_fd(s, p, 0)
        n == IF o.creat THEN new_node(s, p, ino) ELSE advance(s, ino)
    IN IF g.r # OK THEN Ret(s, g.r)
       ELSE IF n.v = NULL THEN n.s
       ELSE claim_open(n.s, p, call, g.fd, g.f, n.v, o)

-----------------------------------------------------------------------------
(* pipe.c, read.c, link.c, stadir.c, misc.c *)

claim_end(s, p, g, bit) ==
    [SetFd(s, p, g.fd, g.f) EXCEPT !.filp[g.f] = [FreeFilp EXCEPT !.count = 1, !.mode = {bit}]]

\* Two descriptors, then an inode of PipeFS; whatever fails takes back the rest.
do_pipe(s, p) ==
    LET vp == get_free_vnode(s)
        g0 == get_fd(s, p, 0)
        c0 == claim_end(s, p, g0, R_BIT)
        g1 == get_fd(c0, p, 0)
        n == req_newnode(claim_end(c0, p, g1, W_BIT))
    IN IF vp = NULL THEN Ret(s, ENFILE)
       ELSE IF g0.r # OK THEN Ret(s, g0.r)
       ELSE IF g1.r # OK THEN Ret(s, g1.r)
       ELSE IF n.s.r # OK THEN Ret(s, n.s.r)
       ELSE [n.s EXCEPT !.vnode[vp] = [FreeVnode EXCEPT !.ref = 2, !.fs_count = 1, !.ino = n.ino,
                                                        !.mapino = n.ino, !.pipe = TRUE],
                        !.filp[g0.f].vno = vp, !.filp[g1.f].vno = vp]

\* read and write of n bytes, to a pipe or to a file at its position.
read_write(s, p, call, d, n) ==
    LET f == get_filp2(s, p, d)
        fp == s.filp[f]
        vp == fp.vno
        ino == s.vnode[vp].ino
        pos == IF call = "WRITE" /\ fp.append THEN s.vnode[vp].size ELSE fp.pos
        end == IF call = "WRITE" THEN pos + n ELSE Max({pos, Min({pos + n, s.fsize[ino]})})
    IN IF f = NULL THEN Ret(s, EBADF)
       ELSE IF (IF call = "READ" THEN R_BIT ELSE W_BIT) \notin fp.mode THEN Ret(s, EBADF)
       ELSE IF s.vnode[vp].pipe
            THEN IF s.proc[p].cum_io_partial # 0 THEN Panic(s) ELSE rw_pipe(s, p, call, d, f, n)
       ELSE [s EXCEPT !.filp[f].pos = end,
                      !.fsize[ino] = IF call = "WRITE" THEN Max({@, end}) ELSE @,
                      !.vnode[vp].size = IF call = "WRITE" THEN Max({@, end}) ELSE @]

do_lseek(s, p, d, pos) ==
    LET f == get_filp2(s, p, d)
    IN IF f = NULL THEN Ret(s, EBADF)
       ELSE IF s.vnode[s.filp[f].vno].pipe THEN Ret(s, ESPIPE)
       ELSE [s EXCEPT !.filp[f].pos = pos]

do_truncate(s, ino, newsize) ==
    LET n == advance(s, ino)
    IN IF n.v = NULL THEN n.s ELSE put_vnode(truncate_vnode(n.s, n.v, newsize), n.v)

do_ftruncate(s, p, d, newsize) ==
    LET f == get_filp2(s, p, d)
    IN IF f = NULL \/ W_BIT \notin s.filp[f].mode THEN Ret(s, EBADF)
       ELSE truncate_vnode(s, s.filp[f].vno, newsize)

\* The reference the caller holds to vp becomes the directory `which' of p.
change_into(s, p, which, vp) ==
    IF ModeOf(s, vp) # "DIR" THEN Ret(put_vnode(s, vp), ENOTDIR)
    ELSE IF which = "wd" THEN [put_vnode(s, s.proc[p].wd) EXCEPT !.proc[p].wd = vp]
    ELSE [put_vnode(s, s.proc[p].rd) EXCEPT !.proc[p].rd = vp]

change(s, p, which, ino) ==
    LET n == advance(s, ino) IN IF n.v = NULL THEN n.s ELSE change_into(n.s, p, which, n.v)

do_fchdir(s, p, d) ==
    LET f == get_filp2(s, p, d)
    IN IF f = NULL THEN Ret(s, EBADF)
       ELSE change_into(dup_vnode(s, s.filp[f].vno), p, "wd", s.filp[f].vno)

\* dup, and dup2 when `to' is a descriptor: that one is closed first.
do_dup(s, p, d, to) ==
    LET f == get_filp2(s, p, d)
        g == get_fd(s, p, 0)
    IN IF f = NULL THEN Ret(s, EBADF)
       ELSE IF to \notin Fds
            THEN IF g.r # OK THEN Ret(s, g.r)
                 ELSE SetFd([s EXCEPT !.filp[f].count = @ + 1], p, g.fd, f)
       ELSE IF d = to THEN Ret(s, to)
       ELSE SetFd([close_fd(s, p, to) EXCEPT !.filp[f].count = @ + 1], p, to, f)

\* fcntl(F_DUPFD), which does not mark the descriptor as in use.
dupfd(s, p, d, start) ==
    LET f == get_filp2(s, p, d)
        g == get_fd(s, p, start)
    IN IF f = NULL THEN Ret(s, EBADF)
       ELSE IF g.r # OK THEN Ret(s, g.r)
       ELSE [s EXCEPT !.filp[f].count = @ + 1, !.proc[p] = [@ EXCEPT !.filp[g.fd] = f]]

\* fcntl(F_SETFL): the flags are the filp's, and so those of all who share it.
setfl(s, p, d, nonblock, append) ==
    LET f == get_filp2(s, p, d)
    IN IF f = NULL THEN Ret(s, EBADF)
       ELSE [s EXCEPT !.filp[f].nonblock = nonblock, !.filp[f].append = append]

\* fcntl(F_FREESP) from start to the end of the file.
freesp(s, p, d, start) ==
    LET f == get_filp2(s, p, d)
        vp == s.filp[f].vno
    IN IF f = NULL THEN Ret(s, EBADF)
       ELSE IF ModeOf(s, vp) # "REG" THEN Ret(s, EINVAL)
       ELSE IF W_BIT \notin s.filp[f].mode THEN Ret(s, EBADF)
       ELSE [s EXCEPT !.fsize[s.vnode[vp].ino] = start, !.vnode[vp].size = start]

setlk(s, p, d, req, fl) ==
    IF get_filp2(s, p, d) = NULL THEN Ret(s, EBADF) ELSE lock_op(s, p, d, req, fl)

-----------------------------------------------------------------------------
(* select.c *)

\* Mutant: the filp does not remember what is asked of the pipe.
select_request_pipe_NoNotice(s, p, f, ops, block) ==
    LET vp == s.filp[f].vno
        mode == s.filp[f].mode
        rd == pipe_check(s, p, vp, "READ", FALSE, 1, s.filp[f].pos, TRUE)
    IN [s |-> rd, ready |-> {o \in ops : rd.r # SUSPEND \/ W_BIT \in mode}]

\* The check is made at filp_pos, which is 0 on a pipe, so that a full pipe is
\* ready for writing.
select_check(s, p, f, ops, call, op) ==
    IF ops \cap {op, SEL_ERR} = {} THEN Ret(s, SUSPEND)
    ELSE pipe_check(s, p, s.filp[f].vno, call, FALSE, 1, s.filp[f].pos, TRUE)

\* What the two checks say, rd and t.r; a pipe ready for nothing keeps ops.
select_answer(t, f, mode, ops, block, rd) ==
    LET Failed(r) == r < 0 /\ r # SUSPEND
        ready == {o \in ops : CASE o = SEL_RD -> rd # SUSPEND \/ W_BIT \in mode
                                [] o = SEL_WR -> t.r # SUSPEND \/ R_BIT \in mode
                                [] o = SEL_ERR -> Failed(rd) \/ Failed(t.r)}
    IN [s |-> IF ready = {} /\ block THEN [t EXCEPT !.filp[f].pipe_select_ops = @ \cup ops] ELSE t,
        ready |-> ready]

select_write(t, p, f, mode, ops, block) ==
    select_answer(select_check(t, p, f, ops, "WRITE", SEL_WR), f, mode, ops, block, t.r)

\* Whether a pipe is ready for ops.
select_request_pipe(s, p, f, ops, block) ==
    select_write(select_check(s, p, f, ops, "READ", SEL_RD), p, f, s.filp[f].mode, ops, block)

\* Filp f is asked for ops too, and tells what it is ready for.
select_filp(s, p, f, ops, block) ==
    LET asked == [s EXCEPT !.filp[f].select_ops = @ \cup ops]
        want == asked.filp[f].select_ops
    IN IF ops \subseteq s.filp[f].select_ops THEN [s |-> s, ready |-> {}]
       ELSE IF ModeOf(s, s.filp[f].vno) = "REG" THEN [s |-> asked, ready |-> want]
       ELSE select_request_pipe(asked, p, f, want, block)

\* Entry i counts descriptor d.
select_count(q, i, d, f) ==
    [s |-> [ops2tab(q.s, i, d, q.ready) EXCEPT
              !.sel[i].filps[d] = f, !.sel[i].nfds = d + 1, !.filp[f].selectors = @ + 1],
     stop |-> FALSE]

\* Descriptor d of entry i: `stop' ends the call, before the entry counts d.
\* A file that is neither regular nor a pipe has no select, and the earlier
\* descriptors of the entry stay asked.
SelectFd(a, p, i, d) ==
    LET s == a.s
        ops == tab2ops(s, i, d)
        f == get_filp2(s, p, d)
    IN IF a.stop \/ ops = {} THEN a
       ELSE IF f = NULL THEN [s |-> Ret(select_cancel_all(s, i), EBADF), stop |-> TRUE]
       ELSE IF ModeOf(s, s.filp[f].vno) = "DIR"
            THEN [s |-> Ret([s EXCEPT !.sel[i].filps[d] = f], EBADF), stop |-> TRUE]
       ELSE select_count(select_filp(s, p, f, ops, s.sel[i].block), i, d, f)

\* What comes of the requests of entry i.
select_done(a, p, i, block, timeout) ==
    LET n == NReady(a.s, i)
    IN IF a.stop THEN FreeEntry(a.s, i)
       ELSE IF n > 0 \/ ~block THEN Ret(FreeEntry(select_cancel_all(a.s, i), i), n)
       ELSE suspend([a.s EXCEPT !.sel[i].requestor = p, !.sel[i].timer = timeout = "TIMER"],
                    p, "SELECT", "SELECT", 0, 0, <<>>)

\* select on ops, a set of operations for each descriptor; timeout is "POLL",
\* "TIMER" or "FOREVER".
do_select(s, p, ops, timeout) ==
    LET is == {i \in Sels : s.sel[i].requestor = 0}
        i == Min(is)
        block == timeout # "POLL"
        e == [s EXCEPT !.sel[i] = [FreeSel EXCEPT !.ops = ops, !.block = block]]
    IN IF is = {} THEN Ret(s, ENOSPC)
       ELSE select_done(FoldLeft(LAMBDA b, d : SelectFd(b, p, i, d), [s |-> e, stop |-> FALSE],
                                 [k \in 1..OPEN_MAX |-> k - 1]), p, i, block, timeout)

\* The alarm of entry i.
select_timeout_check(s, i) ==
    IF s.sel[i].requestor = 0 \/ ~s.sel[i].timer THEN s ELSE select_return(s, i)

-----------------------------------------------------------------------------
(* misc.c, for the process manager *)

pm_fork(s, p, child) ==
    LET shared == [f \in Filps |->
                     [s.filp[f] EXCEPT !.count = @ + Cardinality({d \in Fds : s.proc[p].filp[d] = f})]]
        t == [s EXCEPT !.proc[child] = s.proc[p], !.filp = shared]
    IN dup_vnode(dup_vnode(t, s.proc[p].rd), s.proc[p].wd)

leave_dirs(t, p) ==
    [put_vnode(put_vnode(t, t.proc[p].rd), t.proc[p].wd) EXCEPT
       !.proc[p] = [@ EXCEPT !.rd = NULL, !.wd = NULL]]

\* The call it waits in, its descriptors, its directories.
free_proc(s, p) ==
    leave_dirs(FoldLeft(LAMBDA u, d : close_fd(u, p, d), unpause(s, p),
                        [k \in 1..OPEN_MAX |-> k - 1]), p)

pm_exit(s, p) == [free_proc(s, p) EXCEPT !.proc[p] = FreeProc]

\* The root file system goes unless a vnode on it is still in use.
unmount_all(s) ==
    LET users == MapThenSumSet(LAMBDA x : IF s.vnode[x].ino \in Files THEN s.vnode[x].ref ELSE 0,
                               Vnodes)
    IN IF users > 1 THEN s
       ELSE [s EXCEPT !.vnode[ROOT] = FreeVnode, !.node[Min(Files)] = 0]

pm_reboot(s) ==
    unmount_all(FoldLeft(LAMBDA t, p : IF t.proc[p].used THEN free_proc(t, p) ELSE t, s,
                         [p \in Procs |-> p]))

-----------------------------------------------------------------------------
(* The main loop. *)

\* get_work goes through the slots and tries the revived calls again; those on
\* pipes in one pass, one on a lock as a call of its own, after which it starts
\* anew.
GetWork ==
    LET ps == {p \in Procs : v.proc[p].used /\ v.proc[p].revived}
        next == {p \in ps : p >= v.scan}
        p == Min(IF next # {} THEN next ELSE ps)
        rp == v.proc[p]
        s == [Unblock(v, p) EXCEPT !.proc[p].revived = FALSE, !.reviving = @ - 1]
        f == get_filp2(s, p, rp.block_fd)
    IN /\ ~v.panic /\ v.reviving > 0
       /\ IF ps = {} THEN Become(Panic(v))
          ELSE IF rp.blocked_on = "PIPE"
               THEN Become([rw_pipe(s, p, rp.callnr, rp.block_fd, f, rp.nbytes) EXCEPT !.scan = p + 1])
          ELSE Become([setlk(s, p, rp.block_fd, rp.lock[1], rp.lock[2]) EXCEPT !.scan = 1])
       /\ Same

Open(p, c) == /\ Asks(p, c) /\ c.op = "open"
              /\ Become(common_open(v, p, c.call, c.ino, c.o)) /\ Same

Pipe(p, c) == Asks(p, c) /\ c.op = "pipe" /\ Become(do_pipe(v, p)) /\ Same

\* A process that a partial write left its count to makes no call on a pipe,
\* and a file has at most MaxFile bytes.
ReadWrite(p, c, d) ==
    LET f == get_filp2(v, p, d) IN
    /\ Asks(p, c) /\ c.op = "rw"
    /\ Careful /\ f # NULL => v.proc[p].cum_io_partial = 0 \/ ~v.vnode[v.filp[f].vno].pipe
    /\ f # NULL => \/ v.vnode[v.filp[f].vno].pipe \/ c.call = "READ"
                   \/ Max({v.filp[f].pos, v.vnode[v.filp[f].vno].size}) + c.n <= MaxFile
    /\ Become(read_write(v, p, c.call, d, c.n)) /\ Same

Close(p, c, d) == Asks(p, c) /\ c.op = "close" /\ Become(close_fd(v, p, d)) /\ Same

Dup(p, c, d) == Asks(p, c) /\ c.op = "dup" /\ Become(do_dup(v, p, d, c.to)) /\ Same

Fcntl(p, c, d) ==
    /\ Asks(p, c)
    /\ \/ c.op = "dupfd" /\ Become(dupfd(v, p, d, c.start))
       \/ c.op = "setfl" /\ Become(setfl(v, p, d, c.nonblock, c.append))
       \/ c.op = "freesp" /\ Become(freesp(v, p, d, c.start))
    /\ Same

\* Nobody clears the middle of a lock while the table is full.
Lock(p, c, d) ==
    LET f == get_filp2(v, p, d)
        split == \E l \in 1..NR_LOCKS : /\ Overlap(v.lock[l], v.filp[f].vno, c.fl)
                                        /\ c.fl.first > v.lock[l].first
                                        /\ c.fl.last < v.lock[l].last
    IN /\ Asks(p, c) /\ c.op = "lock"
       /\ Careful /\ f # NULL /\ c.fl.type = "UNLCK" /\ v.nr_locks = NR_LOCKS => ~split
       /\ Become(setlk(v, p, d, c.req, c.fl)) /\ Same

\* Nobody asks for a directory in a select.
Select(p, c) ==
    /\ Asks(p, c) /\ c.op = "select"
    /\ Careful => \A d \in Fds : c.ops[d] # {} /\ get_filp2(v, p, d) # NULL
                                    => ModeOf(v, v.filp[get_filp2(v, p, d)].vno) # "DIR"
    /\ Become(do_select(v, p, c.ops, c.timeout)) /\ Same

Alarm(i) == Receive /\ v.sel[i].timer /\ Become(select_timeout_check(v, i)) /\ Same

\* Only regular files are truncated: a FIFO in use would lose its count of bytes.
Truncate(p, c) ==
    /\ Asks(p, c) /\ c.op = "truncate"
    /\ Careful => KindOf[c.ino] = "REG"
    /\ Become(do_truncate(v, c.ino, c.size)) /\ Same

Position(p, c, d) ==
    LET f == get_filp2(v, p, d) IN
    /\ Asks(p, c)
    /\ \/ c.op = "lseek" /\ Become(do_lseek(v, p, d, c.pos))
       \/ /\ c.op = "ftruncate"
          /\ Careful /\ f # NULL => ~v.vnode[v.filp[f].vno].pipe
          /\ Become(do_ftruncate(v, p, d, c.size))
    /\ Same

Directory(p, c) ==
    /\ Asks(p, c)
    /\ \/ c.op = "change" /\ Become(change(v, p, c.which, c.ino))
       \/ c.op = "fchdir" /\ \E d \in Fds : Become(do_fchdir(v, p, d))
    /\ Same

\* PFS, on behalf of a process: a descriptor goes into a message, and comes out
\* at its receiver or is dropped with it.  A receiver may have to give it back.
SendFd(p, c, d) ==
    LET f == verify_fd(v, p, d) IN
    /\ Asks(p, c) /\ c.op = "sendfd" /\ f # NULL /\ flying[f] = 0
    /\ Become(set_filp(v, f))
    /\ flying' = [flying EXCEPT ![f] = @ + 1] /\ UNCHANGED down

ReceiveFd(p, c, f) ==
    LET t == copy_filp(v, p, f) IN
    /\ Asks(p, c) /\ c.op = "recvfd" /\ flying[f] > 0
    /\ \/ t.r >= 0 /\ Become(put_filp(t, f)) /\ flying' = [flying EXCEPT ![f] = @ - 1]
       \/ t.r >= 0 /\ Become(cancel_fd(t, p, t.r)) /\ UNCHANGED flying
       \/ Become(put_filp(v, f)) /\ flying' = [flying EXCEPT ![f] = @ - 1]
    /\ UNCHANGED down

\* The process manager, about a process that runs or sleeps.
Unpause(p) == Receive /\ v.proc[p].used /\ fp_is_blocked(v, p) /\ Become(unpause(v, p)) /\ Same
Exit(p) == Receive /\ v.proc[p].used /\ Become(pm_exit(v, p)) /\ Same
Fork(p, c, child) ==
    Asks(p, c) /\ c.op = "fork" /\ ~v.proc[child].used /\ Become(pm_fork(v, p, child)) /\ Same
Reboot ==
    /\ Receive
    /\ \E p \in Procs : Running(p) /\ \E c \in load.may[p] : c.op = "reboot"
    /\ Become(pm_reboot(v)) /\ down' = TRUE /\ UNCHANGED flying

Next ==
    \/ GetWork
    \/ \E p \in Procs :
         \/ \E c \in load.may[p] : Open(p, c)
         \/ \E c \in load.may[p] : Pipe(p, c)
         \/ \E c \in load.may[p] : Select(p, c)
         \/ \E c \in load.may[p] : Truncate(p, c)
         \/ \E c \in load.may[p] : Directory(p, c)
         \/ \E c \in load.may[p], d \in Fds : ReadWrite(p, c, d)
         \/ \E c \in load.may[p], d \in Fds : Close(p, c, d)
         \/ \E c \in load.may[p], d \in Fds : Dup(p, c, d)
         \/ \E c \in load.may[p], d \in Fds : Fcntl(p, c, d)
         \/ \E c \in load.may[p], d \in Fds : Lock(p, c, d)
         \/ \E c \in load.may[p], d \in Fds : Position(p, c, d)
         \/ \E c \in load.may[p], d \in Fds : SendFd(p, c, d)
         \/ \E c \in load.may[p], f \in Filps : ReceiveFd(p, c, f)
         \/ \E c \in load.may[p], child \in Procs : Fork(p, c, child)
    \/ \E p \in Procs : Unpause(p) \/ Exit(p)
    \/ \E i \in Sels : Alarm(i)
    \/ Reboot

Spec == Init /\ [][Next]_vars

-----------------------------------------------------------------------------
(* Properties. *)

\* The sanity checks of the source (CHECK_VREFS, check_pipe), and the books they
\* leave out: after every request each filp, vnode and inode is referenced as
\* often as its count says, the counts of those who sleep, of those to be tried
\* again and of the locks are true, a pipe is mapped on PipeFS, the size of an
\* open file is its size, and the server has not panicked.
TablesExact ==
    LET At(f) == Cardinality({x \in Procs \X Fds : v.proc[x[1]].filp[x[2]] = f})
        Dirs(x) == Cardinality({p \in Procs : v.proc[p].rd = x})
                   + Cardinality({p \in Procs : v.proc[p].wd = x})
        mount(x) == IF x = ROOT /\ v.vnode[x].ref # 0 THEN 1 ELSE 0
        used == {x \in Vnodes : v.vnode[x].ref > 0}
        Sleeps(p) == v.proc[p].blocked_on \in {"PIPE", "POPEN"} /\ ~v.proc[p].revived
    IN /\ ~v.panic
       /\ \A f \in Filps : v.filp[f].count = At(f) + flying[f]
       /\ \A x \in Vnodes : v.vnode[x].ref = Cardinality({f \in Filps : v.filp[f].vno = x})
                                             + Dirs(x) + mount(x)
       /\ down \/ ROOT \in used
       /\ \A x, y \in used : v.vnode[x].ino = v.vnode[y].ino => x = y
       /\ \A i \in Pipes \cup Files :
             v.node[i] = MapThenSumSet(LAMBDA x : IF v.vnode[x].ino = i THEN v.vnode[x].fs_count
                                                  ELSE IF v.vnode[x].mapino = i THEN 1 ELSE 0,
                                       used)
       /\ \A x \in used :
             /\ v.vnode[x].pipe => ModeOf(v, x) = "FIFO" /\ v.vnode[x].mapino \in Pipes
             /\ ModeOf(v, x) = "REG" => v.vnode[x].size = v.fsize[v.vnode[x].ino]
       /\ v.susp_count = Cardinality({p \in Procs : Sleeps(p)})
       /\ v.reviving = Cardinality({p \in Procs : v.proc[p].revived})
       /\ v.nr_locks = Cardinality({l \in 1..NR_LOCKS : v.lock[l].type # "NONE"})

\* The server does not fall over its own assertion that a process which calls
\* read or write on a pipe has no partial write pending (read.c, read_write).
NoPanic == ~v.panic

\* Nobody sleeps for nothing: a reader has an empty pipe that someone can write,
\* a writer a reader that is not itself asleep on the same pipe, who opens a FIFO
\* no partner, and who waits for a lock a lock in the way.
SleepersHaveReason ==
    \A p \in Procs : LET rp == v.proc[p] IN fp_is_blocked(v, p) /\ ~rp.revived =>
        LET x == v.filp[rp.filp[rp.block_fd]].vno IN
        /\ rp.blocked_on = "PIPE" /\ rp.callnr = "READ" =>
              v.vnode[x].size = 0 /\ FilpsOf(v, x, W_BIT) # {}
        /\ rp.blocked_on = "PIPE" /\ rp.callnr = "WRITE" =>
              FilpsOf(v, x, R_BIT) # {} /\ Waiting(v, x, "READ") = {}
        /\ rp.blocked_on = "POPEN" =>
              FilpsOf(v, x, IF W_BIT \in v.filp[rp.filp[rp.block_fd]].mode THEN R_BIT ELSE W_BIT) = {}
        /\ rp.blocked_on = "LOCK" =>
              \E l \in 1..NR_LOCKS : InTheWay(v, p, x, rp.lock[2], l)

\* Two processes lock the same bytes only for reading, and a lock goes with the
\* last descriptor its owner has on the file.
LocksExclusive ==
    \A l \in 1..NR_LOCKS : LET k == v.lock[l] IN k.type # "NONE" =>
        /\ k.first <= k.last
        /\ \E d \in Fds : LET f == v.proc[k.pid].filp[d] IN f # NULL /\ v.filp[f].vno = k.vno
        /\ \A m \in 1..NR_LOCKS :
              Overlap(v.lock[m], k.vno, k) /\ v.lock[m].pid # k.pid => k.type = "RD" /\ v.lock[m].type = "RD"

\* Who sleeps in select has one entry in the table, on descriptors that are not
\* ready: no regular file, no write to a pipe, and for reading only pipes that
\* are empty and that someone can still write.
SelectSound ==
    /\ \A i \in Sels : v.sel[i].requestor # 0 => v.proc[v.sel[i].requestor].blocked_on = "SELECT"
    /\ \A p \in Procs : v.proc[p].blocked_on = "SELECT" =>
          \E i \in Sels :
             /\ {j \in Sels : v.sel[j].requestor = p} = {i}
             /\ \A d \in Entries(v, i) : v.sel[i].ops[d] # {} =>
                   LET x == v.filp[v.proc[p].filp[d]].vno IN
                   /\ v.sel[i].filps[d] = v.proc[p].filp[d]
                   /\ v.vnode[x].pipe
                   /\ SEL_WR \notin v.sel[i].ops[d]
                   /\ SEL_RD \in v.sel[i].ops[d] => v.vnode[x].size = 0 /\ FilpsOf(v, x, W_BIT) # {}

\* The bytes that wait in the inode of PipeFS, and the pipes that are open.
Queue(i) ==
    LET xs == {x \in Vnodes : v.vnode[x].mapino = i}
        vp == v.vnode[Min(xs)]
    IN IF xs = {} THEN <<>>
       ELSE [k \in 1..(vp.size - vp.rd) |-> IF vp.rd + k <= Len(v.data[i]) THEN v.data[i][vp.rd + k]
                                             ELSE 0]
Opened == {v.vnode[v.filp[f].vno].mapino : f \in {g \in Filps : v.filp[g].count > 0}} \ {NULL}

BS == INSTANCE ByteStream WITH Capacity <- PIPE_BUF, queue <- [i \in Pipes |-> Queue(i)],
                               opened <- Opened

\* Pipes and FIFOs are byte streams, whatever sleeps, forks, closes or is killed
\* between a write and the read of its bytes.
ImplementsByteStream == BS!Spec
=============================================================================
