------------------------------ MODULE VfsPipe ------------------------------
(***************************************************************************)
(* Processes that wait in the virtual file system server: for a pipe, for  *)
(* the other end of a FIFO, for a lock, in select (assn5/vfs: pipe.c,      *)
(* read.c, lock.c, select.c, and the closing of filps).                    *)
(***************************************************************************)
EXTENDS VfsTables

SEL_RD == "R"
SEL_WR == "W"
SEL_ERR == "E"
\* The end a process may wait at: what releases a READ is a write.
OpOf(call) == IF call = "READ" THEN SEL_RD ELSE SEL_WR

fp_is_blocked(s, p) == s.proc[p].blocked_on # "NONE"

\* A process that is not blocked keeps nothing of the call it waited in.
Unblock(s, p) ==
    [s EXCEPT !.proc[p] = [@ EXCEPT !.blocked_on = "NONE", !.callnr = "NONE",
                                    !.block_fd = 0, !.nbytes = 0, !.lock = <<>>]]

\* d is the descriptor of the call, n its size, fl its flock.
suspend(s, p, why, call, d, n, fl) ==
    [s EXCEPT !.susp_count = IF why = "POPEN" THEN @ + 1 ELSE @,
              !.proc[p] = [@ EXCEPT !.blocked_on = why, !.callnr = call,
                                    !.block_fd = d, !.nbytes = n, !.lock = fl],
              !.r = SUSPEND]

pipe_suspend(s, p, call, d, n) ==
    [s EXCEPT !.susp_count = @ + 1,
              !.proc[p] = [@ EXCEPT !.blocked_on = "PIPE", !.callnr = call,
                                    !.block_fd = d, !.nbytes = n],
              !.r = SUSPEND]

\* Pipes and locks are tried again by get_work; the others get their answer.
revive(s, p) ==
    IF ~fp_is_blocked(s, p) \/ s.proc[p].revived THEN s
    ELSE IF s.proc[p].blocked_on \in {"PIPE", "LOCK"}
         THEN [s EXCEPT !.proc[p].revived = TRUE, !.reviving = @ + 1]
    ELSE Unblock(s, p)

-----------------------------------------------------------------------------
(* What select keeps: entries of the table, and on each filp the operations  *)
(* asked of it.  A free entry is one without requestor.                      *)

Sels == 1..MAXSELECTS
tab2ops(s, i, d) == s.sel[i].ops[d]
Entries(s, i) == 0..(s.sel[i].nfds - 1)
NReady(s, i) == MapThenSumSet(LAMBDA d : Cardinality(s.sel[i].ready[d]), Fds)

ops2tab(s, i, d, ops) == [s EXCEPT !.sel[i].ready[d] = @ \cup (ops \cap tab2ops(s, i, d))]

\* The operations that free entries still ask of a filp.
select_reevaluate(s, f) ==
    UNION {tab2ops(s, x[1], x[2]) :
             x \in {y \in Sels \X Fds : /\ s.sel[y[1]].requestor = 0
                                        /\ y[2] < s.sel[y[1]].nfds
                                        /\ s.sel[y[1]].filps[y[2]] = f}}

select_cancel_all(s, i) ==
    LET Drop(t, d) ==
            LET f == t.sel[i].filps[d]
                u == [t EXCEPT !.filp[f].selectors = @ - 1, !.sel[i].filps[d] = NULL]
            IN IF f = NULL THEN t
               ELSE IF t.filp[f].selectors < 1 THEN t
               ELSE [u EXCEPT !.filp[f].select_ops = select_reevaluate(u, f)]
    IN [FoldLeft(Drop, s, [k \in 1..s.sel[i].nfds |-> k - 1]) EXCEPT !.sel[i].timer = FALSE]

\* An entry becomes free; only the filps left in it are looked at again.
FreeEntry(s, i) ==
    LET e == s.sel[i]
        kept == {d \in Fds : d < e.nfds /\ e.filps[d] # NULL}
    IN [s EXCEPT !.sel[i] = IF kept = {} THEN FreeSel
                            ELSE [e EXCEPT !.requestor = 0, !.ready = FreeSel.ready]]

\* The entry's process is answered.
select_return(s, i) == FreeEntry(revive(select_cancel_all(s, i), s.sel[i].requestor), i)

\* Filp f has become ready for op: everyone who asked for that is answered.
select_callback(s, f, op) ==
    LET Wake(t, i) ==
            LET ds == {d \in Entries(t, i) : t.sel[i].filps[d] = f /\ op \in tab2ops(t, i, d)}
                told == [t EXCEPT !.sel[i].ready = [d \in Fds |-> IF d \in ds THEN @[d] \cup {op}
                                                                  ELSE @[d]]]
            IN IF t.sel[i].requestor = 0 \/ ds = {} THEN t ELSE select_return(told, i)
    IN FoldLeft(Wake, s, [i \in Sels |-> i])

select_forget(s, p) ==
    LET is == {i \in Sels : s.sel[i].requestor = p}
    IN IF is = {} THEN s ELSE FreeEntry(select_cancel_all(s, Min(is)), Min(is))

-----------------------------------------------------------------------------
(* Pipes. *)

\* Those a release of v for a call can reach.
Waiting(s, v, call) ==
    {p \in Procs : /\ s.proc[p].used /\ fp_is_blocked(s, p) /\ ~s.proc[p].revived
                   /\ s.proc[p].callnr = call
                   /\ s.filp[s.proc[p].filp[s.proc[p].block_fd]].vno = v}

\* Everyone in select on an end of v is answered.
release_select(s, v, op) ==
    LET Tell(t, f) ==
            IF t.filp[f].count < 1 \/ op \notin t.filp[f].pipe_select_ops \/ t.filp[f].vno # v THEN t
            ELSE [select_callback(t, f, op) EXCEPT !.filp[f].pipe_select_ops = @ \ {op}]
    IN FoldLeft(Tell, s, [f \in Filps |-> f])

\* Those, and the first `count' processes who hang on v.
release(s, v, call, count) ==
    LET told == IF call \in {"READ", "WRITE"} THEN release_select(s, v, OpOf(call)) ELSE s
        waiting == Waiting(told, v, call)
        first == {p \in waiting : Cardinality({q \in waiting : q < p}) < count}
        Free(t, p) == LET u == [revive(t, p) EXCEPT !.susp_count = @ - 1]
                      IN IF u.susp_count < 0 THEN Panic(u) ELSE u
    IN FoldLeft(LAMBDA t, p : IF p \in first THEN Free(t, p) ELSE t, told, [p \in Procs |-> p])

\* Mutant: a read of an empty pipe leaves the sleeping writers asleep.
pipe_check_NoWake(s, p, v, call, nonblock, bytes, pos, notouch) ==
    LET space == PIPE_BUF - pos
        Tell(t) == IF notouch THEN t ELSE release(t, v, "READ", t.susp_count)
    IN IF call = "READ"
       THEN IF pos < s.vnode[v].size THEN Ret(s, bytes)
            ELSE IF find_filp(s, v, W_BIT) = NULL THEN Ret(s, OK)
            ELSE Ret(s, IF nonblock THEN EAGAIN ELSE SUSPEND)
       ELSE IF find_filp(s, v, R_BIT) = NULL THEN Ret(s, EPIPE)
       ELSE IF bytes <= space THEN Ret(IF pos = 0 THEN Tell(s) ELSE s, bytes)
       ELSE IF bytes > PIPE_BUF /\ space > 0 THEN Ret(Tell(s), space)
       ELSE Ret(s, IF nonblock THEN EAGAIN ELSE SUSPEND)

\* How much of a read or write at pos can be done now.  A read of an empty pipe
\* wakes the writers, a write the readers; notouch only asks.
pipe_check(s, p, v, call, nonblock, bytes, pos, notouch) ==
    LET space == PIPE_BUF - pos
        Tell(t) == IF notouch THEN t ELSE release(t, v, "READ", t.susp_count)
        Activate(t) == IF t.susp_count > 0 THEN release(t, v, "WRITE", t.susp_count) ELSE t
    IN IF call = "READ"
       THEN IF pos < s.vnode[v].size THEN Ret(s, bytes)
            ELSE IF find_filp(s, v, W_BIT) = NULL THEN Ret(s, OK)
            ELSE Ret(Activate(s), IF nonblock THEN EAGAIN ELSE SUSPEND)
       ELSE IF find_filp(s, v, R_BIT) = NULL THEN Ret(s, EPIPE)
       ELSE IF bytes <= space THEN Ret(IF pos = 0 THEN Tell(s) ELSE s, bytes)
       ELSE IF bytes > PIPE_BUF /\ space > 0 THEN Ret(Tell(s), space)
       ELSE Ret(s, IF nonblock THEN EAGAIN ELSE SUSPEND)

\* PipeFS moves n bytes at pos, and `io' shows them: [call, ino, bytes, want].  A
\* byte is known by the process that wrote it, 0 is one that nobody wrote.
req_readwrite_pipe(s, p, ino, call, pos, n, want) ==
    LET old == s.data[ino]
        bytes == <<>> \o [k \in 1..n |-> IF call = "WRITE" THEN p
                                         ELSE IF pos + k <= Len(old) THEN old[pos + k] ELSE 0]
        done == [s EXCEPT !.io = [call |-> call, ino |-> ino, bytes |-> bytes, want |-> want]]
    IN IF call = "WRITE" THEN [done EXCEPT !.data[ino] = SubSeq(old, 1, pos) \o bytes] ELSE done

\* Mutant: the write position of an emptied pipe is not reset.
move_position_KeepsEnd(s, v, call, end) ==
    IF call = "WRITE" THEN [s EXCEPT !.vnode[v].size = Max({@, end}), !.vnode[v].wr = end]
    ELSE IF end >= s.vnode[v].size THEN [s EXCEPT !.vnode[v].size = 0, !.vnode[v].rd = 0]
    ELSE [s EXCEPT !.vnode[v].rd = end]

\* The position of the end moves; a read that empties the pipe resets them both.
move_position(s, v, call, end) ==
    IF call = "WRITE" THEN [s EXCEPT !.vnode[v].size = Max({@, end}), !.vnode[v].wr = end]
    ELSE IF end >= s.vnode[v].size
    THEN [s EXCEPT !.vnode[v].size = 0, !.vnode[v].rd = 0, !.vnode[v].wr = 0,
                   !.data[s.vnode[v].mapino] = <<>>]
    ELSE [s EXCEPT !.vnode[v].rd = end]

\* A read or write of n bytes.  A blocking write that fits in part waits with the
\* rest.
rw_pipe(s, p, call, d, f, n) ==
    LET v == s.filp[f].vno
        vp == s.vnode[v]
        nonblock == s.filp[f].nonblock
        pos == IF call = "READ" THEN vp.rd ELSE vp.wr
        Counted(t, r, size, done) ==
            IF r < n /\ ~nonblock
            THEN pipe_suspend([t EXCEPT !.proc[p].cum_io_partial = done], p, call, d, n - size)
            ELSE [t EXCEPT !.proc[p].cum_io_partial = 0, !.r = done]
        Moved(c, size) ==
            Counted(move_position(req_readwrite_pipe(c, p, vp.mapino, call, pos, size, n), v, call, pos + size),
                    c.r, size, s.proc[p].cum_io_partial + size)
        Checked(c) == IF c.r = SUSPEND THEN pipe_suspend(c, p, call, d, n)
                      ELSE IF c.r <= 0 THEN c
                      ELSE Moved(c, IF call = "READ" THEN Min({c.r, vp.size - pos}) ELSE c.r)
    IN Checked(pipe_check(s, p, v, call, nonblock, n, pos, FALSE))

\* Mutant: a process that is being revived is taken off the count once more.
unpause_Twice(s, p) ==
    LET why == s.proc[p].blocked_on
        was == s.proc[p].revived
        t == IF was THEN [s EXCEPT !.proc[p].revived = FALSE, !.reviving = @ - 1] ELSE s
        u == Unblock(IF why = "SELECT" THEN select_forget(t, p) ELSE t, p)
    IN IF ~fp_is_blocked(s, p) THEN s
       ELSE IF why \in {"PIPE", "POPEN"} THEN [u EXCEPT !.susp_count = @ - 1]
       ELSE u

\* A signal ends the call a process waits in, with EINTR.
unpause(s, p) ==
    LET why == s.proc[p].blocked_on
        was == s.proc[p].revived
        t == IF was THEN [s EXCEPT !.proc[p].revived = FALSE, !.reviving = @ - 1] ELSE s
        u == Unblock(IF why = "SELECT" THEN select_forget(t, p) ELSE t, p)
    IN IF ~fp_is_blocked(s, p) THEN s
       ELSE IF why \in {"PIPE", "POPEN"} /\ ~was THEN [u EXCEPT !.susp_count = @ - 1]
       ELSE u

-----------------------------------------------------------------------------
(* Locks.  A request is [type, first, last] with "UNLCK", "RD" or "WR".      *)

lock_revive(s) ==
    FoldLeft(LAMBDA t, p : IF t.proc[p].used /\ t.proc[p].blocked_on = "LOCK" THEN revive(t, p) ELSE t,
             s, [p \in Procs |-> p])

Overlap(l, v, fl) == l.type # "NONE" /\ l.vno = v /\ fl.last >= l.first /\ fl.first <= l.last

\* Slot l stands in the way of fl; for an unlock, it is what the unlock meets.
InTheWay(s, p, v, fl, l) ==
    /\ Overlap(s.lock[l], v, fl)
    /\ ~(fl.type = "RD" /\ s.lock[l].type = "RD")
    /\ fl.type = "UNLCK" \/ s.lock[l].pid # p

\* The bytes of fl leave slot l: all of it, its front, its end, or its middle,
\* for which a second slot is needed.
Cut(s, l, fl) ==
    LET k == s.lock[l]
        other == Min({m \in 1..NR_LOCKS : s.lock[m].type = "NONE"})
    IN IF fl.first <= k.first /\ fl.last >= k.last
       THEN [s EXCEPT !.lock[l] = FreeLock, !.nr_locks = @ - 1]
       ELSE IF fl.first <= k.first THEN [s EXCEPT !.lock[l].first = fl.last + 1]
       ELSE IF fl.last >= k.last THEN [s EXCEPT !.lock[l].last = fl.first - 1]
       ELSE IF s.nr_locks = NR_LOCKS THEN Ret(s, ENOLCK)
       ELSE [s EXCEPT !.lock[other] = [k EXCEPT !.first = fl.last + 1],
                      !.lock[l].last = fl.first - 1, !.nr_locks = @ + 1]

\* The pass over the table that clears the bytes of fl; it ends when a lock
\* cannot be split.
Clear(s, p, v, fl) ==
    FoldLeft(LAMBDA t, l : IF t.r # OK \/ ~InTheWay(t, p, v, fl, l) THEN t ELSE Cut(t, l, fl),
             Ret(s, OK), [l \in 1..NR_LOCKS |-> l])

\* fcntl with GETLK, SETLK or SETLKW.  A waiter is woken by any unlock; when a
\* split fails the unlock ends at once, and wakes nobody.
lock_op(s, p, d, req, fl) ==
    LET f == s.filp[s.proc[p].filp[d]]
        v == f.vno
        way == {l \in 1..NR_LOCKS : InTheWay(s, p, v, fl, l)}
        empty == {l \in 1..NR_LOCKS : s.lock[l].type = "NONE"}
        Cleared(t) == IF t.r = OK /\ way # {} THEN lock_revive(t) ELSE t
        new == [type |-> fl.type, pid |-> p, vno |-> v, first |-> fl.first, last |-> fl.last]
    IN IF ModeOf(s, v) # "REG" \/ fl.last < fl.first THEN Ret(s, EINVAL)
       ELSE IF \/ req # "GETLK" /\ fl.type = "RD" /\ R_BIT \notin f.mode
               \/ req # "GETLK" /\ fl.type = "WR" /\ W_BIT \notin f.mode THEN Ret(s, EBADF)
       ELSE IF req = "GETLK" THEN Ret(s, IF fl.type = "UNLCK" THEN EINVAL ELSE OK)
       ELSE IF fl.type = "UNLCK" THEN Cleared(Clear(s, p, v, fl))
       ELSE IF way # {} THEN IF req = "SETLK" THEN Ret(s, EAGAIN)
                             ELSE suspend(s, p, "LOCK", "FCNTL", d, 0, <<req, fl>>)
       ELSE IF empty = {} THEN Ret(s, ENOLCK)
       ELSE [s EXCEPT !.lock[Min(empty)] = new, !.nr_locks = @ + 1, !.r = OK]

-----------------------------------------------------------------------------
(* Closing. *)

\* A filp loses a reference.  Whoever waits at the other end of a pipe, or for
\* it, is released before that; the last reference lets go of the vnode.
close_filp(s, f) ==
    LET v == s.filp[f].vno
        isPipe == s.vnode[v].pipe
        end == IF R_BIT \in s.filp[f].mode THEN "WRITE" ELSE "READ"
        LastOne(t) == put_vnode(IF isPipe THEN truncate_vnode(t, v, t.vnode[v].size) ELSE t, v)
        Released(t) == IF t.filp[f].count > 1 THEN [t EXCEPT !.filp[f].count = @ - 1]
                       ELSE LastOne([t EXCEPT !.filp[f] = FreeFilp])
    IN Released(IF isPipe THEN release(s, v, end, NR_PROCS) ELSE s)

\* PFS drops the reference of a descriptor in flight.
put_filp(s, f) == close_filp(s, f)

\* Mutant: the locks of the process stay.
close_fd_KeepsLocks(s, p, d) ==
    LET f == get_filp2(s, p, d)
    IN IF f = NULL THEN Ret(s, EBADF) ELSE Ret(ClearFd(close_filp(s, f), p, d), OK)

\* The locks of the process on the file go with any of its descriptors.
close_fd(s, p, d) ==
    LET f == get_filp2(s, p, d)
        Unlocked(t, mine) ==
            IF mine = {} THEN t
            ELSE lock_revive([t EXCEPT !.lock = [l \in 1..NR_LOCKS |-> IF l \in mine THEN FreeLock
                                                                      ELSE @[l]],
                                       !.nr_locks = @ - Cardinality(mine)])
        Closed(t) == Unlocked(t, {l \in 1..NR_LOCKS : /\ t.lock[l].vno = s.filp[f].vno
                                                      /\ t.lock[l].pid = p})
    IN IF f = NULL THEN Ret(s, EBADF) ELSE Ret(Closed(ClearFd(close_filp(s, f), p, d)), OK)
=============================================================================
