# CPE453: models, checks and proofs

This directory holds TLA+ models of the programs of this repository (the
assignments and labs of an operating systems course), the TLC configurations
that check them on small instances, and proofs of their main properties for
every instance. All paths below are relative to `src/assns/` unless they start
with `src/`.

## 1. Inventory

| Component | Code | State it keeps | Operations |
|---|---|---|---|
| round-robin scheduler | `assn2/1_linked_list/scheduler.c` | `st_head`, `st_tail`, `st_current`, `removed`, and the `sched_one/sched_two` links of the threads | `rr_admit`, `rr_remove` (with `isInPool`), `rr_next` |
| thread library | `assn2/1_linked_list/lwp.c`, `lwp.h`, `magic64.S` | `head`, `tail`, `current`, the `lib_one/lib_two` links, `sched`, `orginal`, a saved register file per thread, `thread_count` | `lwp_create`, `lwp_start`, `lwp_yield`, `lwp_stop`, `lwp_exit`, `lwp_set_scheduler`, `tid2thread`, `lwp_gettid`, `lwp_get_scheduler` |
| dining philosophers | `assn3/dine.c` | `forks` and `print_lock` (semaphores), `phils`, `cycles`, main's loop counter, the terminal line | main's create and join loops; per thread `take_forks`, `eat`, `give_forks`, `think`, `print_semas` |
| secret device driver | `assn4/secrets/secret.c` | `secret`, `owner`, `open_counter`, `is_reading`; across a live update the data store's copy of `open_counter` | open, close, read, write, the `SSGRANT` ioctl, state save, fresh start, restart |
| allocator | `assn1/NotTested/malloc.c` (and the earlier `assn1/malloc.c`) | a list of blocks in chunks taken from `sbrk`, the unused part of the last chunk | `malloc`, `calloc`, `realloc`, `free`, merging, giving memory back |
| minls, minget | `assn5/shared.c`, `path.c` and the two mains | none beyond one run: super block, inodes and zones read from an image | find a path, list a directory, read a file through direct, indirect and double indirect zones |
| MINIX file server (mfs) | `assn5/mfs` | the block cache (hash and LRU chains), the zone and inode bit maps, the inode table with its unused list, the disk | block: get, put, flush, sync, read-ahead; file: read, write, truncate, free a range; names: create, mkdir, mknod, symlink, link, unlink, rmdir, rename, lookup, putnode, mount point, unmount |
| MINIX virtual file server (vfs) | `assn5/vfs` | process slots with descriptors, filps, vnodes, locks, select entries, who is suspended or to be revived | open, creat, close, pipe, read, write, lseek, dup, fcntl, locks, select and its alarm, truncate, chdir, chroot, descriptors in messages; from the process manager fork, exit, signals, reboot |
| earlier thread library | `assn2/lwp.c`, `assn2/scheduler.c` | as the thread library | as the thread library |
| pipeit | `src/labs/lab1/part2/pipeit.c` | a pipe, two children | fork, exec, wait |
| lab programs and reports | `src/labs/lab3/src/Main.java`, `assn6/hello.c`, `latex` | none | a printed schedule, hello world |

How they interact. The thread library calls its scheduler through the function
pointers of `struct scheduler` (`lwp.h:61-67`); the two share the threads, each
with two link fields of its own, and `lwp_exit` frees what both have linked. The
client's code runs between library calls, on the stack that `swap_rfiles`
switched to. The philosophers share semaphores, the array of states and main's
loop counter. The driver is called by message from the file system, one message
at a time, for processes of different users, and is stopped and started again by
the reincarnation server while files are open. The virtual file server takes one
message at a time from all processes and from the process manager, keeps those
that must wait in its tables, and calls the file server with a request at a time;
the file server calls block drivers, which may die and be replaced, and keeps what
its cache loses in VM. `minls` and `minget` read what the file server wrote to the
disk. The other programs are alone.

Which behaviours are hard, and what makes each component right:

* **scheduler**: a removal while the cursor stands on the victim, on its
  neighbour, at either end, in rings of one, two and more threads, and a head
  whose backward link is stale after the tail was removed. Right when the links
  always form one ring of exactly the pool, the cursor is in it, and the order of
  turns is that of a queue.
* **thread library**: freed memory that is handed out again; stop and restart;
  the current thread, the scheduler's cursor and the code that really executes
  are three different things that must agree whenever registers are saved; the
  scheduler is exchanged while the system runs. Right when every thread that does
  not execute has its own up-to-date context saved, when no thread is lost and no
  freed one is linked, and when everybody gets a turn.
* **philosophers**: real concurrency: id read from a counter that main changes,
  forks taken one by one, states published after the semaphore operation. Right
  when neighbours never eat together, nothing deadlocks, and lines are whole.
* **driver**: ownership, fullness and the number of open files have to agree
  through any mix of opens, grants, closes, live updates and restarts. Right when only
  those who owned the secret have it open, one user wrote it, and it is kept until
  the last close after a reading and no longer.
* **allocator**: the list must stay the heap whatever the order of calls. Right
  when blocks in use lie inside the break and do not overlap, the list's blocks and
  the pending chunk are all of the heap, and no two free neighbours remain.
* **file server**: copies of a block in buffers, in VM and on disk, drivers that
  fail in the middle of a transfer; requests of several steps that fail on a full
  disk or table and take back what they did; a map of three levels with holes.
  Right when the three places are one store of blocks, a file reads as the sparse
  file that was written, no zone is lost or shared, names are a tree, and link
  counts and references are exact.
* **minls, minget**: right when they find the names and bytes that the file server
  put there.
* **virtual file server**: processes sleep in pipes, FIFO opens, locks and select,
  are revived, signalled and killed in any order, and share what they sleep on.
  Right when every reference is counted, nobody sleeps without a reason, locks
  exclude, and a pipe is a stream of bytes.

## 2. Plan

The order is by how much of the repository's own logic, and how much that tests
do not reach, a module covers.

1. `RoundRobin`, `RRScheduler` - the abstract round robin and the list that
   implements it. *Done, with proofs.*
2. `LWP` - the thread library over `RRScheduler` and a client's scheduler.
   *Done, with proofs of every safety property.*
3. `Dine` - the philosophers. *Done, with proofs of every safety property.*
4. `Secret` - the driver with its clients, live update and restart. *Done, with
   proofs of every property that holds.*
5. `Malloc` - the block list of `assn1/NotTested/malloc.c`. *Done, with proofs of
   every property that holds.*
6. `MfsCache`, which implements `BlockStore`. *Done, with proofs of every property.*
   `MfsFile`, which implements `SparseFile`, with `Minget` on top of it: *done, with
   proofs of `ZonesExact` and of the implementation.* `MfsTree`, which implements `DirTree`, with `Minls` on
   top: *done.*
7. `VfsTables`, `VfsPipe`, `Vfs`, which implements `ByteStream`. *Done, with a proof
   of `LocksExclusive`.*
8. Devices of the virtual file server (`device.c`, `dmap.c`), `mount.c` and
   `exec.c`; `pipeit`. Not begun.

Theorems to come: the counts of `TablesExact` and the reasons of `SleepersHaveReason`
of `Vfs`, which can be built on `VfsSound`.

## 3. The models

### RoundRobin and RRScheduler

`RoundRobin` says what a round-robin scheduler promises with a sequence and a
position in it. `RRScheduler` is `scheduler.c`: the file's statics and the link
fields are one record `rr`, and every function an operator from that record to
the next one (`rr_admit`, `rr_remove` with its four cases `RemoveOnly`,
`RemoveHead`, `RemoveTail`, `RemoveMiddle`, `rr_next`), so that `LWP` can call
several of them within one library call. Only the fields the C code assigns
change: the removed thread keeps its links, and removing the tail leaves the
head's `st_prev` behind. `ring` is a history variable, the pool in order of
admission. `RRSpec` is the scheduler under any calls with two obligations of the
caller: no thread is admitted twice, and nothing is removed from an empty pool
(`isInPool` would read through a null pointer; that `lwp_exit` never does so is a
part of `OnlyLiveThreadsLinked` of `LWP`). `rr_admit` skips threads with a `tid` of 0; `newThread` gives
out ids from 1, so the test is not modelled.

### LWP

One action per library call, as nothing is preempted; the loop of
`lwp_set_scheduler` is one step per thread moved (`MoveOne`, `MoveDone`), since
whether it ends is a question. `cpu` is whose code executes, which no C variable
says; `current` is what the library believes. A saved register file is a record of
whose context it is and whether it is fresh, that is, taken when its owner last
gave up the processor. `heap` is the set of allocated addresses: `lwp_create`
takes any free one, so an address is used again.

The client's scheduler (`alt`) picks any thread of its pool. What the client does
is free except for three uses, which the constant `Careless` switches on one by
one and which no run includes, because the library does not survive them (see
section 6): `lwp_set_scheduler(NULL)` while the client's scheduler has threads
("setNull"), a change of scheduler from a thread that the client's scheduler runs
("liveFromAlt"), and installing the installed scheduler ("same"). Threads are
created and `lwp_set_scheduler` is called from main and from threads alike.

Left out: the contents of stacks and registers, allocation failure (the call
returns -1 and changes nothing), `lwp_gettid` and `lwp_get_scheduler` (they return
a variable), schedulers whose `next()` returns NULL while they hold threads
(`tests/23`), and the `init` and `shutdown` hooks.

### Dine

One action per statement that other threads can observe: each semaphore
operation, each assignment of flag and state, the read of the id, main's steps,
and one step per philosopher printed. A thread's place is `at`; `print` is where it
is in `print_semas`, which every change of state calls. The table has `N`
philosophers (the code's macro, 5).

The id is read from main's loop counter (`dine.c:188`, `332`), so any value the
counter has reached by then is possible, `N` too. For `N` the code uses
`phils[N]`, beyond the array: as the program is built, the pointer found there is
0 and `sem_wait` faults (`Fault`). Left out: the borders and fork columns of the
table, and the return values of the pthread and semaphore calls.

### Secret

The driver handles one message at a time, so every handler is one action, and one
that refuses a request changes nothing and is no action. A byte of the secret is
abstracted to who wrote it, or NUL: `strlen` looks for the first NUL as the code
does, and a full secret has none, so that it counts the byte of `is_reading` that
follows in memory in the built driver. `s_transfer`'s unsigned arithmetic is
`Transferred`: a position beyond the end wraps to a count larger than any request.
`Length` is what the secret really has, up to its first NUL or its end, and `strlen`
what the code takes for it; they differ by that one byte. `Lseek` puts an open file at
any position of `SeekTo`. A write at a position behind the array goes to the
driver's other variables (`WriteBehind`): what they hold then is undefined, and the
model says nothing more until the driver is restarted (`overrun`).

What surrounds the driver is external: the file system's open files with their
users and positions (`file`), the data store (`store`), and the reincarnation
server, which saves and replaces the driver (`sef_cb_lu_state_save`,
`sef_cb_init_lu`), returns to the old version when that fails, with or without the
published counter (`RollBack`), or restarts it (`Restart`), after which the file
system invalidates the files that were open. `Grantee` may hold `NOT_OWNED`:
`s_do_ioctl` assigns the owner from a variable that stays uninitialized when the
copy fails, and a client may ask for it.

`lost`, `entitled`, `generation`, `sought` and `overrun` are history. The ownership
properties except what `lost` marks, a live update while the driver was in use and a
grant to nobody: after those they are false. `ReadsDoNotWrap` is about files used in
order, `~sought`; what lseek makes of a read is the violated property `EndOfFile`.
Left out: copies of data that fail, and other `ioctl` requests.

### Malloc

The heap is a record: the headers by address, the break, the pending chunk and the
give-back flag; every function of the source is an operator on it (`open_spot`,
`split_hdrs`, `append_new_blk`, `update_pending`, `merge_adj_open_blks`,
`giveBackToOS`), and a client's call (`ClientMalloc`, `ClientFree`,
`ClientRealloc`) is one action. Sizes and addresses are numbers of bytes with the
constants of the source, and `size_t` wraps. The contents of blocks are left out.
The list is walked as the code walks it (`Walk`, from `start` along `next`), and
`Blocks` is the sequence of what the walk meets. `held` is what the client was given
and has not given back, in the order of addresses.
With `Careful` the client does not free or resize an inner block that follows a
free one; `free` gets that case wrong. `realloc` with size 0 frees the block and returns
no value, as the code runs off its end; the client takes it for `free`, as
`malloc.c:364` says.

`sbrk` is the one call on the system that can fail, and the code does not see it: it
compares with NULL, and `sbrk` answers -1. The model computes what the code computes with
that address (`WORD - 1`): `malloc` stores a header there, which faults (`After`), and a
growth in place goes on with a block that ends beyond the break. The call on which `sbrk`
refuses (`refused`) is the last of a behaviour; the properties are about the
states before it, and `HeldIsSound` says that no other call can fault. What the comments
promise of that call is `NullWhenRefused`, which is violated.

### BlockStore and MfsCache

`MfsCache` is `mfs/cache.c` with `rahead`, `fs_sync`, `fs_flush` and the calls on
the driver. Buffers, hash chains, the LRU chain, VM's second cache, the disk and the
driver are one record; `get_block` is built from its phases (`Found`, `Evict`,
`Yield`, `Name`, `Fetch`, `FromVM`, `rw_block_read`), `flushall` from `WriteScattered`,
which tries again (`WriteRequest`) after each vectored write that got somewhere, and
`rahead` from the buffers it acquires one after the other (`Acquire`) and the one
request that reads into them (`ReadScattered`). A request for several buffers takes
them as a set, in the order of their blocks, which is what the code's sort makes of
its array. A step is a request of
the file server, or a fault: the driver dies, a sector goes bad, VM drops a block; a
transfer may stop after any block. `BlockStore` says that these are one store of
blocks: a read returns what was written last or an error, and only a write that
failed makes the blocks of its device unknown.

### SparseFile, MfsFile and Minget

`MfsFile` is the map from positions to zones with its three levels, the bit map of
zones, reading, writing, truncating and freeing of ranges. A position counts units,
`U` to a block and as many entries to an indirect block; zones have one or two
blocks. What a freed zone held stays in its blocks, so that a missing
clear shows as old contents. The bit search goes by chunks as the code's does by
words, from an origin, and wraps. `SparseFile` is what read, write, truncate and
free promise of contents alone. `Minget` adds `get_data` of the tools, which reads
the same disk by counting bytes through the levels.

A file is removed (`RemoveFile`) as `put_inode` does it: truncated to 0 and its inode
wiped for the next file. Truncation frees zones up to the end of the file only, so an
inode may still lead to zones past it; those are collected in `lost`, a
history variable, which `ZonesExact` accounts for. That they all lie past the end
is `RemovalLosesPastEnd` (`BeyondEnd` says which those are); that there are none,
as the code's comment has it, is `NothingLost`, which is violated.

Left out: buffers and errors of the device (they are `MfsCache`). With `Careful`
one call that breaks the promise about contents is not made (`UnclearedZone`), with
`CopyFaults = FALSE` copies from callers succeed; the properties of zones are checked
and proved without either.

### DirTree, MfsTree and Minls

`MfsTree` is the inode table (`get_inode`, `put_inode`, the unused list), the
inodes on disk, the slots of directories (`search_dir` as `LookUp`, `IsEmpty`,
`Delete`, `Enter`), and the requests on names. A request is one action, as the
server is one process; each is built of the code's steps in the code's order, with
what is undone when a step fails on a full disk, table or link count. `held` is what
the virtual file server has of each inode. `DirTree` is the tree of names and what
each request does to it; a request that fails changes nothing. `Minls` adds the
tools' search for a path and their listing on the same disk.

Left out: contents, times and permission bits (a request is refused or not by
a set of directories without permission), `getdents` and `stat`.

### VfsTables, VfsPipe, Vfs and ByteStream

The state of the server is one record `v`, and functions are operators from record
to record that leave their result in `r`: `VfsTables` has descriptors, filps and
vnodes (`get_fd`, `close_filp`'s parts, `put_vnode`, `copy_filp`, `cancel_fd`);
`VfsPipe` has those who wait (`suspend`, `release`, `revive`, `unpause`,
`pipe_check`, `rw_pipe`), select and locks; `Vfs` has the main loop and the calls,
one action per message. A process that has been suspended asks nothing; a revived
one is served when `GetWork` finds it, before any new message, as in `get_work`.
Signals, exits and forks come at any point. `flying` counts descriptors in
messages. The bytes in a pipe are numbered as they are written, so `ByteStream`
says by its queue that they come out in order, once each, and that a write that
fits goes in whole.

Left out: devices and select on them, exec, mounting, symbolic links, `stat`,
`getdents`, permissions. With `Careful` the calls of section 6 are not made.

## 4. The runs

| Run | Instance | What it shows |
|---|---|---|
| `rr` | 4 threads, any calls | `RingOK`, `RemovalKeepsTurn`, and that the list implements `RoundRobin` |
| `lwp` | 3 addresses, 4 creations, both schedulers | the safety of the library, the order of turns, nobody starves under the round robin, `lwp_set_scheduler` returns |
| `dine` | 3 philosophers, one cycle | forks counted right, neighbours never eat together, whole lines, no deadlock |
| `dine_fair` | 2 philosophers; no, a good, an unusable and a negative argument | the program ends |
| `secret` | 2 users, 3 files, 2 bytes; grants, updates and restarts at any time | the open counter, ownership, when the secret is kept and forgotten, that reads in order do not wrap |
| `malloc` | 8 calls, 3 blocks held, 3 chunks, the sizes of the source | up to the call on which `sbrk` refuses, which alone faults: blocks lie in the heap without overlap, the list is the heap, free neighbours are merged |
| `malloc_merge` | the same, any client | counterexample: three free neighbours are not merged |
| `mfs_cache` | 2 buffers, 2 blocks of disk, 1 of a memory device, 4 requests, 1 fault | chains and counts agree, cache and disk are one store, sync writes all it can |
| `mfs_file` | 2 files, 7 free zones of one or two blocks, 3 requests at positions of every level | zones and the free count exact, a removal loses only what lies past the end, contents those of sparse files, the tools read them |
| `mfs_tree` | 3 disks, 6 inodes, 5 slots, 3 requests | links and references exact, names a tree, requests do what they say, the tools find names |
| `vfs` | seven loads of 2 or 3 processes, 2 descriptors each, 3 filps, 3 vnodes, 3 locks | counts exact, sleepers have a reason, locks exclude, select sound, pipes are byte streams |
| `vfs_partial` | the pipe load, any caller | counterexample: a signal in a partial write, and the next call panics the server |

Bounds. Four threads are the least that tell the middle of the ring from both
ends with another thread on a side and an address to spare. In `lwp` four
creations on three addresses make a freed address live again while two other
threads exist. `MaxTid` bounds creations; it matters to `EveryoneRuns`, which a
client that creates threads without end at the tail could break. Three
philosophers have a first, a middle and an exchanged last one; one cycle is
enough for every pair of places in the cycle to meet, as threads start at any
time. A secret of two bytes has an empty, a partial and a full state, three bytes
asked for exceed it, and position 4 lies beyond it by more than the extra byte; lseek
goes back to the begin and just behind the array; two
users suffice as the driver compares a user with the owner only, and three files are
a last one, one that remains, and a writer beside two readers.

In `malloc` eight calls with sizes of zero, a small block and three quarters of a
chunk (`Sizes`) reach a second and a third chunk, which is all the memory there is, so
that `sbrk` refuses too, splits, merges of three blocks and
memory given back. In `mfs_cache` two buffers and three blocks force evictions,
dirty ones too, and the memory device takes the other end of the LRU chain;
`MaxEvents` and `MaxFaults` bound requests and faults. In `mfs_file` a block of two
units and one direct zone put positions 0, 1, 7 and 13 into the direct, single and
double indirect zones; a file of full size needs more zones than the disk has
free, so that allocation fails at every level; the map's chunk is two bits, so that
the search wraps and ends inside a chunk. In `mfs_tree` directory blocks hold three entries, so
that one request fills a block and the next takes a new one; the disks start
with directories in each other and beside each other, because three requests alone
would not make them; `LINK_MAX` 3, five slots and six blocks are reached. The loads of
`vfs` (`MCVfs`) give each process a few calls on one subject, so that all orders of them
are explored to the end; writes of 1, 2 and 3 bytes on a pipe of 2 are
partial, atomic and too large. `MaxFsCount` and `MaxFile` bound the references a vnode
takes of its file server before it gives some back and the size of a file.

Views and symmetry. `secret` and `mfs_file` use symmetry on users and files, which
nothing orders. The view of `vfs` leaves out what the last step moved, and that of
`mfs_tree` the last answer: no action reads them, and the properties about them are
on steps, which TLC evaluates for every step it takes.

Fairness. `FairSpec` of `LWP` assumes that a thread does not compute for ever
without calling the library, that main goes back into it, and that
`lwp_set_scheduler`, once called, goes on. That of `Dine` is weak fairness of main
and of every thread: the operating system schedules them all, and nothing is
assumed of semaphores beyond that. The servers are driven by what others ask of
them, which nothing makes them ask, so nothing is claimed there of what eventually happens;
`SleepersHaveReason` says in every state what a lost wake-up would break.

Further configurations, which are not runs of the list, show what the code does at its
ends. Each is checked by hand, as in `tlc -config MCMfsFile_lost.cfg MCMfsFile.tla`.

| Configuration | What it shows |
|---|---|
| `MCSecret_seek.cfg` | counterexample to `EndOfFile` (`secret.c:234`): a read behind the end, after an lseek, is no end of file |
| `MCSecret_full.cfg` | the same without lseek: the reader of a full secret gets a byte of `is_reading` |
| `MCMalloc_nomem.cfg` | counterexample to `NullWhenRefused` (`malloc.c:199`): when `sbrk` refuses, the program faults |
| `MCMfsFile_lost.cfg` | counterexample to `NothingLost` (`inode.c:228`): a write fills the disk, the file is removed, and its double indirect zone is lost |
| `MCMfsFile_faults.cfg` | any callers, and copies that fail at any chunk of a write: `ZonesExact` and `RemovalLosesPastEnd` hold |

Deadlock is checked in the runs of the thread library, the philosophers and the
driver. The other runs end when their bound of calls is reached, or with a reboot,
and say `CHECK_DEADLOCK FALSE`.

## 5. What is proved

With TLAPS, for every set of threads, every number of philosophers and of cycles,
every set of users and of files and every size of the secret, for every size of
the allocator's chunk and memory, for every size of the block cache and its
disk, for every size of blocks, zones, inodes and bit map of a file system, and for
every size of the virtual file server's tables:

* `LWP_proofs`, on the scheduler: `RRCorrect` (types and `RingOK`), `RRRemovalKeepsTurn`,
  and `RRImplementsRoundRobin`, step by step. `RingOK` needs no strengthening as
  `ring` already says what the links must be; the work is one lemma per case of
  `rr_admit` and `rr_remove` that gives each field of the next record, and one that
  the links then form the ring of the changed sequence. That `isInPool` finds
  exactly the members of the ring is a lemma of its own.
* `LWP_proofs`, on the library: `LWPLists`, `LWPRunning`, `LWPContexts` and `LWPTurnOrder`, for any
  number of threads and creations and any scheduler of the client's, under
  `CarefulClient`: the client neither installs NULL while its own scheduler has
  threads nor changes schedulers from a thread of its own scheduler, the two uses
  of section 6 that break the library ("same", which only never ends, is allowed).
  None of the four is inductive. The invariant adds that the two pools share out the
  heap, and that all of it is in the installed one unless a transfer is on
  (`PoolsHoldHeap`); that who executes is the library's and the round robin's
  current thread between calls and, when it asked for a transfer, is the last to be
  moved, so that `current` is right again when the call returns (`RunnerHeld`); that
  ids differ (`TidsDiffer`); and that whoever ran since a thread's last turn comes
  after it in the order of turns to come (`TurnsHeld`). `rr_admit` and `rr_remove`
  are reasoned about on any pool (`Pool`), with the lemmas about the scheduler;
  the library's own list is a pool without a cursor (`AsPool`).
* `Dine_proofs`: `DineTypeCorrect` (types, which no run checks), with `Seated` (who holds a fork has a
  philosopher's id) and `Counting` (main starts no thread twice);
  `DineForksAccounted`, with `TwoForks` (a thread that holds both forks holds two
  different ones, whatever its id); `DineNeighboursNeverEat` from it;
  `DineLinesWhole`, from an invariant that ties `print_lock` to who prints; and
  `DineNoDeadlock` for two or more philosophers: if all were blocked nobody would
  print, every fork somebody waits for would be held by one who waits for a higher
  one (`Ascending`), and a set of forks without a highest one is empty
  (`NoHighest`, by well-founded induction on the natural numbers).
* `Secret_proofs`: the six properties the run `secret` checks. `CounterCorrect` needs,
  beside the types, that the data store holds the counter while the driver waits to be
  replaced (`StoreCounts`), and that no reading outlives the last file
  (`ReadingHasFiles`); the rest is that an open
  adds one element to a finite set and a close takes one away. `OpenersCorrect`,
  `OneAuthorCorrect`, `ForgottenCorrect`, `ReadersCorrect` and `KeptCorrect` share
  `TextInv`, all of whose parts beside the counter hold until `lost`: a device without
  an owner is blank and not open (`Ownership`), so that who opens it to write begins
  the secret and is the only writer, and all bytes are its own or NULs
  (`WriterAlone`), wherever lseek puts it. Until lseek is used (`InOrder`) the writer's
  position divides its bytes from NULs (`WriterAtEnd`), so that no write changes
  the text or moves its end towards a reader (`StrlenAppend`). That this is needed shows
  in `KeptCorrect`: a write of NULs over a text would blank it, and after lseek it
  does. `ReadersCorrect` is about the subtraction that bounds a read: it does not wrap
  in order, and what a reader gets beyond the secret is at most the byte of
  `is_reading` behind a full one. That lseek makes it wrap shows in `MCSecret_seek.cfg`.

* `Malloc_proofs`: `MallocHeldSound`, `MallocListIsHeap` and `MallocMergedAll`, for any
  number of calls and of blocks held, until `sbrk` refuses, under `FittingClient`: `Careful`; a header of
  16 or 32 bytes (what `struct hdr` takes on 32 and on 64 bits) and a chunk with room
  for one; requests that are multiples of 16 and fit a chunk beside a header. Each
  part is needed: section 6 says what the allocator does without it. The run
  satisfies it. The inductive invariant speaks of the set of blocks instead of the
  walk: each block's `next` is the next higher address of the set (`Links`), blocks
  do not overlap and end before the pending memory (`Layout`), which ends at the
  break or is not there yet (`Chunk`), no neighbours are both free (`NoTwoFree`), and
  what the client holds are the blocks in use, once each (`Holds`). `BlocksAre` says
  that the code's walk over such links gives the set in ascending order; `PassIs`, that
  the pass of `merge_adj_open_blks` over a list with at most one pair of free
  neighbours does what the one `Merge` of that pair does. Each function then has a
  lemma on any sound heap (`MallocKeeps`, `FreeKeeps`, `GrowKeeps`, `ReallocKeeps`) that
  says which block is gained or lost and that no other block in use is touched.

* `MfsCache_proofs`: `CacheSound` and `CacheChainsAgree`, for any number of buffers
  and blocks, any number of requests and faults, and a driver that takes any number
  of blocks at a time, with no hypothesis but the assumptions on the constants. The
  invariant `IInv` is `ChainsAgree` said element by element (`Lists`: a chain holds a
  set, each buffer once), with two parts that `ChainsAgree` needs: a buffer with a
  name has a content (`Filled`), since what a flush writes must be a value, and the
  counts are those of what the request under way has taken (`Takes`), which is what
  makes a lost or a second `put_block` on an error path visible. Inside a request
  `Good` is the invariant with an exception for buffers being filled. Most of the
  work is one idea applied at every level: a flush, a failed transfer, an
  invalidation only takes names away (`Loses`), whether it ends after one request or
  `Cardinality(q)` of them; so `flushall` in the middle of an eviction may run while
  the victim is on no chain (`Evicted`), and `get_block` gives one buffer more,
  named for the block or not at all (`Got`). The loops (`WriteScattered`, `put_all`,
  `Acquired`, `fs_sync`) are recursive functions of a number of rounds: that
  each exists is a lemma, and what each keeps is shown for the least round that would
  not keep it.
  Its second part proves `StoreSound`, `CacheImplementsStore` and `CacheSyncWritesAll`
  under the same assumptions: the cache implements `BlockStore`, step by step, and a
  sync writes all of it. What the store holds is what `View` finds, in a buffer, in VM
  or on the disk; the invariant `SInv` adds to `IInv` what makes the three agree
  (`Fits`). With `V` the contents, a named buffer shows its block of `V`
  (`Shown`); the disk has it too, unless a dirty buffer does (`Stored`); and VM has a
  block of the disk only while no buffer is named for it, and then as in `V`
  (`Offered`), which is what breaks if an evicted buffer is offered to VM before it
  is written or a block is not taken back from VM when it is read. All three are
  said of devices on which no write has failed, those of the step under way
  (`lostdev`) included, so that one flush may fail while a buffer of another device
  is evicted. Inside `get_block` the buffer that has its new name and not yet its
  content is excepted from `Shown` and from `Offered`. `Fits` is kept by every phase
  of every request: by one vectored write (`WrittenFits`, `FailedFits`), by a flush
  however often it tries (`WriteRoundLess`: each round that gets somewhere leaves
  fewer dirty buffers), by an eviction in the middle of which a flush runs
  (`EvictFits`), by a fetch from VM or the driver (`FetchFits`), by the one request of
  read-ahead that fills some of its buffers and none of the others
  (`ReadScatteredFits`), and by sync and flush. A step then is a read, a write or a quiet
  step of `BlockStore` (`KeptRead`, `SetWrites`, `KeptQuiet`), or none.

* `MfsFile_proofs`, its first part: `MfsFileSound` and `MfsFileZonesExact`, for any number of files,
  any sizes of blocks, zones, inodes and bit map, any number of requests at any
  positions, any callers, and copies that fail or not, under no hypothesis but the
  assumptions on the constants. What removals lose is accounted for, not excluded:
  `lost` is a set of zones with their bits set that no place names or ever names again
  (`FInv`, with `Owned` for the indirect zones of one file and `WipedExact` for the
  step). So that it is not a place to put what truncation forgets,
  `MfsFileRemovalReturns` says that no zone with a position before the end of the file
  goes there: each step of the freeing takes the bit of the zone it is about and sets
  none (`Returned`), the zones to be freed are all up to the end (`PlaceBefore`), and what
  an inode leads to has its bit (`ZonesHaveBits`). `ZonesExact`
  counts references, which no step lets one follow; the invariant `FInv` names them
  instead. A place that names a zone is an entry of an inode or of an indirect zone
  (`Names`), and `Exact` says of the map from places to zones (`Map`) that it names
  zones of the data area only, no zone from two places, and that the bits set are
  those of the zones named. In the middle of a request some zones are taken and
  not yet entered: they are a parameter of `Exact` (the set `X`), so that every step of
  `new_block` and `write_map` is a lemma with the zones it holds before and after,
  on the paths where the disk fills as well (`WriteMapSound`, `NewBlockSound`). A change
  of one place is `Linked`, from the old map to the new, and freeing is the same
  relation read backwards, so that six lemmas (`LinkDirect` to `LinkInner`) serve both. A new indirect
  block must be cleared before it counts as one, and a freed one be empty: else what its
  block held before would become names. That data never overwrites an indirect block
  is `PlaceData`: what the map finds for a position is named, thus not an indirect zone,
  unless by the place that makes it one. `Low`, that no bit below `s_zsearch` is
  free, is what makes the count of `statvfs` exact though it starts there: it is why the
  search of `alloc_bit` must find the first free bit from its origin (`AllocLow`) and
  `free_zone` must move `s_zsearch` down. Sizes stay within what the map has places
  for (`Volume`), so no position leads out of the double indirect block
  (`IndexInRange`). The chunks of a write and the zones of a freed range are folds, and
  use `FoldInduction` as below.
  Its second part proves `MfsFileTidy` and `MfsFileImplements`, that every step is the
  step of `SparseFile` its reply says or changes no contents, for the same sizes. Here
  `Careful` counts (no `UnclearedZone`), and no copy fails (`CopyFaults = FALSE`): a block
  whose copy failed halfway may hold what its buffer held, and the zone it lies in may be
  past the end. What a unit of a file is, past
  the end too, is `Value`; that blocks have one place (`BlockOnce`, from `Exact`) is why what is
  done to one file leaves the others as they were (`SameFile`, `Kept`). The invariant
  added to `FInv` is `Tidy`: past its end a file has no zone at any position, and nothing but zeros in
  the rest of the block it ends in. (An empty indirect zone it may have, which is what a
  full disk leaves.) The blocks between, in the rest of the last zone,
  may hold anything: they have not been cleared. So each growth has its lemma for
  what makes them zero in time: `clear_zone` for a gap (`GrowClear`, `ClearFills`),
  the clearing of a fresh zone that is not entered at the end (`NewBlockValue`), of a
  block written at or past the end (`ChunkValue`). `Ends` is kept chunk by chunk
  (`ChunkAfter`, `ContentStepHolds`): between two chunks `Ready` says that the
  next one begins its zone or finds it in the map. For freed ranges `FilledAs` says which
  units the two halves zero (`LastUnits`, `FirstUnits`), `FewerZones` and `NoneFrom`
  which zones went, and `ZonesHole` that together they are the range and no unit
  more (`FreespContent`, `TruncateContent`). A read's chunks cover its range without gap
  or overlap (`ChunksFollow`) and put together are the units in it (`ReadData`).

* `Vfs_proofs`: `VfsSound` and `VfsLocksExclusive`, for any number of processes,
  descriptors, filps, vnodes, locks and select entries, any set of loads and any
  inodes, with `Careful` or without. The assumptions are two: the sizes of the tables
  are numbers (`TablesAssumption`), and a lock that is asked for has a type that
  `fcntl` knows and `F_DUPFD` starts at a descriptor (`LoadsAssumption`; `lock.c:44`
  and `misc.c:162` refuse the others before they do anything). That no two locks clash
  (`Table`) follows from `lock_op` alone: what it clears it only cuts shorter or in two
  (`Trimmed`), and it enters a lock only when nothing stands in its way. That the
  owner of a lock has the file open (`Owned`) does not: `close_fd` clears the
  locks of the closing process on that vnode, so a process that closes loses them
  all; but the owner's descriptor names a vnode through a filp, and a filp whose
  count is wrong would be given away while a descriptor refers to it, and name another
  file. So the invariant `Sound` keeps books: at most as many descriptors and
  messages (`flying`) refer to a filp as its count says, and an unused slot has no
  descriptors (`Books`). And since the server makes a waiting lock call again on
  behalf of the process (`GetWork`), it keeps what that process waits with
  (`Waiters`): a flock, and a descriptor that is still open, which is true because nobody closes
  descriptors of a sleeping process but the exit that also ends its wait.
  A request is a long composition of operators, and most touch nothing of
  this: that is what `Outside` (nothing of processes, filps and locks changes) and
  `Kept` (nothing but who waits for what) say, each closed under composition; `Grown`
  is a step that adds descriptors and at least as much to the counts, and `Closed` one
  that takes a reference away. The books are an inequality because that is all the locks need;
  that the counts are equal is a part of `TablesExact`. The loops of the server (a release of
  all who wait, the descriptors of an exit, the locks of a pass, the slots of a
  reboot) are folds; `FoldInduction` proves, from the definition of
  the community modules' fold, that a property that each step passes on holds at the end,
  with the step and the property as constants, so that each loop instantiates it.

The assumptions are the named ones on the constants, which TLC evaluates in the
runs, and the hypotheses named above: `CarefulClient`, `FittingClient`, and for the
contents of files `Careful` and `~CopyFaults`.

What stays with TLC. Liveness (`EveryoneRuns`, `TransferEnds`, `Terminates`) is
beyond what the prover does with fairness. The properties of the file server's
directories and those of `minls` rest on trees and paths that recursive operators
compute, which the prover cannot unfold. That `minget` reads what the file server wrote
(`ToolReadsFiles`) is model-checked: `get_data` picks the entries of indirect
zones with `SelectSeq`, of whose values no theorem of the library speaks that the provers can
apply. So is what `RemovalLosesPastEnd` says beyond `MfsFileRemovalReturns`, that an indirect
zone is lost only when what it leads to is past the end: this needs that no single indirect
zone is ever left empty. Of the virtual file server `TablesExact` (equalities of
counts and sums over all tables, among them the file servers'), `SleepersHaveReason`
and `SelectSound` (each needs exact wake-ups through `release`, and holds only for
careful callers) and `ImplementsByteStream` are model-checked.

## 6. What is not modelled, and what the models leave to a careful caller

Not modelled: the earlier thread library, which `1_linked_list` supersedes, and
`assn1/malloc.c`, which `NotTested/malloc.c` does; `pipeit`, a straight-line program
(its parent waits for `ls` before it starts the reader of the pipe, so that an
output larger than the pipe stops both); the lab programs; of the servers what
section 3 names; the vfs sources `device.c`, `dmap.c`, `exec.c`, `mount.c`, `vmnt.c`,
`protect.c`, `time.c`, and `table.c`, `utility.c`, `gcov.c` of both.

What follows was met while modelling: behaviour that breaks a property the component has
otherwise. A constant (`Careless`, `Careful`, `CopyFaults`, `Grantee`, `SeekTo`) keeps it
out of the passing runs or brings it back for whoever wants to see it, the
property says what it excepts, or the model leaves it out. The two runs that expect a
violation show the merging of the allocator and the signal in a partial write to a
pipe; the configurations at the end of section 4 show the reads of the driver, the
allocator without memory, and the zone that a full disk makes a file lose.

* **Thread library.** `lwp_set_scheduler(NULL)` (`lwp.c:280`) moves no thread: the
  client's are then in no scheduler that runs. The transfer loop assigns `current`
  (`lwp.c:273`): called from a thread of the client's scheduler, the next switch
  saves the caller into another thread's context. Given the installed scheduler the
  loop never ends (`lwp.c:270`).
* **Philosophers.** Two threads can read one id (`dine.c:332`), and a philosopher then never
  eats though `dine.c:21-23` asks for a number of cycles each. A line can show two
  neighbours eating, as states are assigned outside `print_lock` (`dine.c:281-286`).
* **Driver.** A live update carries over the counter only, and secret and owner are
  lost (`secret.c:347`). A reader of a full secret gets one byte more than it has
  (`secret.c:231`), as `strlen` runs into `is_reading` (`MCSecret_full.cfg`). At a position
  behind the end, where lseek or a live update may leave a file, the length of a read
  wraps, and the bytes behind the secret are copied, as many as were asked for
  (`MCSecret_seek.cfg`); a write there (`secret.c:256`) goes to the driver's other variables.
* **Allocator.** When the system has no more memory `sbrk` answers -1, which is compared
  with NULL (`malloc.c:180`, `215`): `malloc` stores a header at that address and the
  program faults (`MCMalloc_nomem.cfg`), where the comments promise NULL. `realloc` of the
  last block does not look at the answer (`malloc.c:385`): the block ends beyond the
  break. `realloc` with size 0 returns no value (`malloc.c:373-375`). After a merge the pass goes on from the absorbed block
  (`malloc.c:290`): of three free neighbours the third is not merged and what followed it
  drops out of the list. A request, or a growth in place, of the last 32 bytes
  below a multiple of the chunk passes the break (`malloc.c:173`). A block grown in
  place takes the size asked for, not a multiple of 16 (`malloc.c:386`); reused later, it
  is split when more than 16 bytes are over (`malloc.c:36`, `114`), and what is left
  for a block after its header can be less than nothing: its size wraps (malloc of
  80, realloc to 100 and back to 80).
* **File server, files.** Removing a file frees the zones up to `i_size` only
  (`link.c:571`, `597-602`), and what its inode leads to past the end is lost for good.
  Two things leave such zones. A disk that is full after `write_map` has taken the
  double indirect zone (`write.c:77-82`) and before the single one (`114-126`) leaves the
  first in the inode, past the end if the file ends where its part begins; no caller
  can avoid it (`MCMfsFile_lost.cfg`). And a copy from the caller that fails leaves
  the zone just entered (`read.c:279`), and a block of garbage that is marked dirty. With zones of several blocks an append into a later block of a zone that
  was freed does not clear the earlier ones (`write.c:311-312`): a hole shows old contents.
  A dirty block is dropped when the driver dies during its write
  (`cache.c:487-520`). A write at a position past the end that writes nothing
  still sets the size (`read.c:111`).
* **File server, names.** With a full inode table the lookup of rename's new name
  fails with `ENFILE`, which nobody looks at, and the name is entered twice
  (`link.c:338`). A symbolic link whose target cannot be copied in keeps its block
  (`fs_slink`).
* **minls, minget.** Holes are compacted and zones of several blocks read wrongly
  (`shared.c:85-160`); a name that is not found indexes the inode table with -1
  (`shared.c:178`); the maps of inodes and zones are read without the partition's
  offset; the test of the file type at `shared.c:29` compares before it masks.
* **Virtual file server.** A signal in a partial write leaves `fp_cum_io_partial`
  (`read.c:271`, `pipe.c:478-577`): the next call on a pipe panics. An open of a
  FIFO that a signal interrupts keeps its descriptor, so that the FIFO looks open. All openers of
  a FIFO's end share one filp and its flags. Select for writing looks at `filp_pos`,
  which is always 0 for a pipe: a full pipe is ready (`select_request_pipe`). Writers
  are woken only when a read finds the pipe empty. Unlocking does not ask whose lock it
  is; a split with a full table returns `ENOLCK` after earlier locks were
  cut and wakes nobody (`lock.c:121`). Truncating an open FIFO changes the size of the
  pipe. `F_DUPFD` does not mark the descriptor in `fp_filp_inuse`. A select that names a
  directory returns `EBADF` and leaves what it asked of earlier filps behind; the
  test at the top of `select_reevaluate` looks at free entries only. Where these
  are behaviour of single calls, the model has them as the code does; the properties
  are stated for what remains true.
