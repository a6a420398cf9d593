------------------------------- MODULE MCVfs -------------------------------
(* Instances of Vfs: each load is a small set of processes, files and calls, *)
(* so that the state spaces add up instead of multiplying.                   *)
EXTENDS Vfs

\* Inodes of the root file system: the root, a file, a FIFO.
ROOTDIR == 11
FILE == 12
FIFO == 13
MCKindOf == (ROOTDIR :> "DIR") @@ (FILE :> "REG") @@ (FIFO :> "FIFO")

Flags == [acc |-> {R_BIT}, nonblock |-> FALSE, creat |-> FALSE, excl |-> FALSE,
          trunc |-> FALSE, append |-> FALSE]
open(ino, o) == [op |-> "open", call |-> "OPEN", ino |-> ino, o |-> o]
creat(ino) == [op |-> "open", call |-> "CREAT", ino |-> ino,
               o |-> [Flags EXCEPT !.acc = {W_BIT}, !.creat = TRUE, !.trunc = TRUE]]
RD == Flags
WR == [Flags EXCEPT !.acc = {W_BIT}]
RW == [Flags EXCEPT !.acc = {R_BIT, W_BIT}]
rw(call, n) == [op |-> "rw", call |-> call, n |-> n]
read == rw("READ", 1)
write == rw("WRITE", 1)
close == [op |-> "close"]
pipe == [op |-> "pipe"]
fork == [op |-> "fork"]
lock(req, type, first, last) ==
    [op |-> "lock", req |-> req, fl |-> [type |-> type, first |-> first, last |-> last]]
select(ops, timeout) ==
    [op |-> "select", timeout |-> timeout,
     ops |-> [d \in Fds |-> IF d + 1 <= Len(ops) THEN ops[d + 1] ELSE {}]]

\* A parent and its children on a pipe; a write of 3 is more than it holds.
PipeLoad == [alive |-> {1}, made |-> {ROOTDIR},
             may |-> <<{pipe, fork, write},
                       {close, read},
                       {close, rw("WRITE", 3)}>>]

\* Strangers on a FIFO.
FifoLoad == [alive |-> {1, 2, 3}, made |-> {ROOTDIR, FIFO},
             may |-> <<{open(FIFO, RD), close, rw("READ", 2), open(FIFO, [RD EXCEPT !.nonblock = TRUE])},
                       {open(FIFO, [WR EXCEPT !.nonblock = TRUE]), close, open(FIFO, RW)},
                       {creat(FIFO), close, rw("WRITE", 2)}>>]

\* Two processes that wait for pipes in select.
SelectLoad == [alive |-> {1}, made |-> {ROOTDIR},
               may |-> <<{pipe, fork, close, write, select(<<{"R"}, {"W"}>>, "POLL")},
                         {close, read, select(<<{"R"}>>, "FOREVER")},
                         {close, select(<<{"R", "E"}>>, "TIMER")}>>]

\* Two processes and the locks of a file.
LockLoad == [alive |-> {1, 2}, made |-> {ROOTDIR, FILE},
             may |-> <<{open(FILE, RW), close, lock("SETLKW", "WR", 0, 1),
                        lock("SETLK", "UNLCK", 0, 2)},
                       {open(FILE, RW), close,
                        lock("SETLKW", "RD", 1, 2), lock("SETLK", "WR", 0, 2),
                        lock("GETLK", "RD", 0, 0), lock("SETLK", "UNLCK", 1, 1)},
                       {}>>]

\* A file that is made, written and cut.
FileLoad == [alive |-> {1, 2}, made |-> {ROOTDIR},
             may |-> <<{creat(FILE), read, write, close,
                        [op |-> "dup", to |-> OPEN_MAX],
                        [op |-> "setfl", nonblock |-> FALSE, append |-> TRUE],
                        [op |-> "ftruncate", size |-> 0], [op |-> "freesp", start |-> 0],
                        [op |-> "lseek", pos |-> 0]},
                       {open(FILE, [RW EXCEPT !.append = TRUE, !.creat = TRUE, !.excl = TRUE]),
                        open(FILE, RD), close, write,
                        [op |-> "truncate", ino |-> FILE, size |-> 1]},
                       {}>>]

\* The directories of processes.
ch(which, ino) == [op |-> "change", which |-> which, ino |-> ino]
DirLoad == [alive |-> {1, 2}, made |-> {ROOTDIR},
            may |-> <<{open(ROOTDIR, RD), open(ROOTDIR, WR), close, fork, [op |-> "fchdir"],
                       ch("wd", ROOTDIR), ch("rd", ROOTDIR), ch("wd", FILE)},
                      {creat(FILE), close, [op |-> "dupfd", start |-> 1]}, {[op |-> "fchdir"]}>>]

\* Descriptors: copied, redirected, sent; and the end of it all.
PassLoad == [alive |-> {1, 2}, made |-> {ROOTDIR},
             may |-> <<{pipe, close, [op |-> "dup", to |-> 0], [op |-> "sendfd"],
                        [op |-> "reboot"]},
                       {close, [op |-> "recvfd"], rw("WRITE", 3)},
                       {}>>]

MCLoads == {PipeLoad, FifoLoad, SelectLoad, LockLoad, FileLoad, DirLoad, PassLoad}

\* The pipe alone, with writers that are killed in a partial write.
MCPartial == {PipeLoad}

\* What a step moved is not part of what can follow.
View == <<v, flying, load, down>>
=============================================================================
