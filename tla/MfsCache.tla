----------------------------- MODULE MfsCache -----------------------------
(***************************************************************************)
(* The block cache of the MINIX file server (assn5/mfs/cache.c) with the   *)
(* read-ahead of read.c, sync and flush of misc.c and the calls on the     *)
(* block driver of device.c.                                               *)
(*                                                                         *)
(* A buffer is named by device and block; buffers in nobody's use are on   *)
(* the LRU chain (front first), and every buffer is on the hash chain of   *)
(* its block number.  What a buffer loses by eviction goes to the second   *)
(* cache, in VM.  The driver may die and be replaced, a sector may go bad, *)
(* and a transfer may stop early, in any of the steps.                     *)
(***************************************************************************)
EXTENDS Integers, Sequences, FiniteSets, SequencesExt

CONSTANTS NrBufs,      \* nr_bufs
          Disk, Ram,   \* the disk of the file system and DEV_RAM
          DiskBlocks,  \* the blocks of the disk the model uses: 1..n
          RamBlocks,   \* and those of the memory device
          NR_IOREQS,   \* blocks in one vectored request
          LeaveFree,   \* buffers that read-ahead leaves free (4 in the code)
          MaxEvents,   \* requests and faults in a behaviour
          MaxFaults,   \* faults in a behaviour
          Values,      \* contents of a block
          Unknown

ASSUME MfsCacheAssumption ==
    /\ NrBufs \in Nat \ {0} /\ NR_IOREQS \in Nat \ {0} /\ LeaveFree \in Nat
    /\ Disk # Ram /\ "NO_DEV" \notin {Disk, Ram}
    /\ IsFiniteSet(DiskBlocks) /\ DiskBlocks = 1..Cardinality(DiskBlocks)
    /\ IsFiniteSet(RamBlocks) /\ RamBlocks = 1..Cardinality(RamBlocks)
    /\ Values # {} /\ Unknown \notin Values

VARIABLES c,      \* the cache, the devices under it and VM's cache
          held,   \* buffers the request under way has taken, oldest first
          events, \* requests and faults so far
          faults, \* faults so far
          failed, \* devices on which a write has failed
          reply   \* the answer to the last request

vars == <<c, held, events, faults, failed, reply>>

NO_DEV == "NO_DEV"
NO_BLOCK == 0
Buffers == 1..NrBufs
Ids == ({Disk} \X DiskBlocks) \cup ({Ram} \X RamBlocks)
Id(b) == <<b.dev, b.blk>>
BUFHASH(n) == n % NrBufs

NoReply == [kind |-> "none"]

Init ==
    /\ \E most \in 1..NR_IOREQS :
       c = [buf |-> [i \in Buffers |-> [dev |-> NO_DEV, blk |-> NO_BLOCK,
                        count |-> 0, dirt |-> "CLEAN", data |-> Unknown]],
             lru |-> [i \in Buffers |-> i],
             hash |-> [h \in 0..(NrBufs - 1) |->
                        IF h = 0 THEN [i \in Buffers |-> i] ELSE <<>>],
             inuse |-> 0,
             disk |-> [id \in Ids |-> CHOOSE v \in Values : TRUE],
             vm |-> [id \in Ids |-> Unknown],
             drv |-> [d \in {Disk, Ram} |-> "up"],
             bad |-> {},
             rdwt_err |-> "OK",
             lostdev |-> {},
             most |-> most]
    /\ held = <<>> /\ events = 0 /\ faults = 0 /\ failed = {} /\ reply = NoReply

-----------------------------------------------------------------------------
(* The LRU chain. *)

\* A chain without buffer i, which is on it once.
Unlinked(chain, i) == RemoveAt(chain, CHOOSE k \in DOMAIN chain : chain[k] = i)

rm_lru(s, i) == [s EXCEPT !.lru = Unlinked(@, i), !.inuse = @ + 1]

\* DEV_RAM goes to the front, to be taken first; all else to the rear.  No
\* caller passes ONE_SHOT or WRITE_IMMED.
put_block(s, i) ==
    IF s.buf[i].count > 1 THEN [s EXCEPT !.buf[i].count = @ - 1]
    ELSE [s EXCEPT !.buf[i].count = 0, !.inuse = @ - 1,
                   !.lru = IF s.buf[i].dev = Ram THEN <<i>> \o @
                           ELSE Append(@, i)]

-----------------------------------------------------------------------------
(* The driver.  A dead one is noticed at the next transfer. *)

Reachable(s, d) == s.drv[d] = "up"

\* How many blocks of a request for ids the device transfers.
Transferred(s, ids) ==
    LET good == {n \in 1..Len(ids) :
                    \A k \in 1..n : ids[k] \notin s.bad}
    IN IF Len(ids) = 0 \/ ~Reachable(s, ids[1][1]) THEN 0
       ELSE Cardinality(good \cap 1..s.most)

\* block_dev_io forgets the endpoint of a driver that is gone.
block_dev_io(s, d) == IF Reachable(s, d) THEN s ELSE [s EXCEPT !.drv[d] = "none"]

\* Reads buffer i; after an error the buffer has no name.
rw_block_read(s, i) ==
    LET id == Id(s.buf[i])
    IN IF Transferred(s, <<id>>) = 1
       THEN [s EXCEPT !.buf[i].data = s.disk[id], !.buf[i].dirt = "CLEAN"]
       ELSE [block_dev_io(s, id[1]) EXCEPT !.buf[i].dev = NO_DEV,
                !.buf[i].dirt = "CLEAN", !.rdwt_err = "EIO"]

vm_forgetblocks(s) == [s EXCEPT !.vm = [id \in Ids |-> Unknown]]

\* A request for buffers of d, q, in the order of their blocks: the blocks
\* that follow each other from the first on, and the buffers transferred.
FirstOf(s, q) == CHOOSE i \in q : \A j \in q : s.buf[i].blk =< s.buf[j].blk

Run(s, d, q) ==
    LET base == s.buf[FirstOf(s, q)].blk
        ok == {n \in 1..Cardinality(q) :
                \A k \in 0..(n - 1) : \E i \in q : s.buf[i].blk = base + k}
    IN [k \in 1..Cardinality(ok \cap 1..NR_IOREQS) |-> <<d, base + k - 1>>]

Moved(s, d, q) ==
    LET n == Transferred(s, Run(s, d, q))
    IN {i \in q : s.buf[i].blk < s.buf[FirstOf(s, q)].blk + n}

\* The first buffer of a request that failed loses its name.
FirstFailed(s, i) ==
    vm_forgetblocks([s EXCEPT !.buf[i].dev = NO_DEV])

\* One request to write the dirty buffers q; without progress, the first is
\* given up and so are the rest.
Written(s, d, done) ==
    [block_dev_io(s, d) EXCEPT
        !.buf = [i \in Buffers |->
            IF i \in done THEN [@[i] EXCEPT !.dirt = "CLEAN"] ELSE @[i]],
        !.disk = [id \in Ids |->
            IF \E i \in done : Id(s.buf[i]) = id
            THEN s.buf[CHOOSE i \in done : Id(s.buf[i]) = id].data ELSE @[id]],
        !.lostdev = IF done = {} THEN @ \cup {d} ELSE @]

WriteRequest(p, d) ==
    LET done == Moved(p.s, d, p.q)
        t == Written(p.s, d, done)
    IN IF p.q = {} THEN p
       ELSE IF done = {} THEN [s |-> FirstFailed(t, FirstOf(p.s, p.q)), q |-> {}]
       ELSE [s |-> t, q |-> p.q \ done]

\* Mutant: one request, as for reading.
WriteScattered_OneRequest(s, d, q) == WriteRequest([s |-> s, q |-> q], d).s

\* Requests until all are written or one makes no progress.
WriteScattered(s, d, q) ==
    LET after[n \in 0..Cardinality(q)] ==
            IF n = 0 THEN [s |-> s, q |-> q] ELSE WriteRequest(after[n - 1], d)
    IN after[Cardinality(q)].s

\* Reads into the prefetched buffers q, one request only, and releases all.
Fetched(s, d, done) ==
    [block_dev_io(s, d) EXCEPT
        !.buf = [i \in Buffers |->
            IF i \in done
            THEN [@[i] EXCEPT !.dev = d, !.data = s.disk[<<d, s.buf[i].blk>>]]
            ELSE @[i]]]

put_all(s, q) ==
    LET after[k \in 0..Len(q)] == IF k = 0 THEN s ELSE put_block(after[k - 1], q[k])
    IN after[Len(q)]

ReadScattered(s, d, q) ==
    LET done == Moved(s, d, ToSet(q))
        t == Fetched(s, d, done)
    IN put_all(IF done = {} THEN FirstFailed(t, q[1]) ELSE t, q)

Dirty(s, d) == {i \in Buffers : s.buf[i].dirt = "DIRTY" /\ s.buf[i].dev = d}

flushall(s, d) == WriteScattered(s, d, Dirty(s, d))

-----------------------------------------------------------------------------
(* get_block *)

\* Where the chain of the block holds it.
Found(s, d, blk) ==
    LET chain == s.hash[BUFHASH(blk)]
    IN {k \in DOMAIN chain : s.buf[chain[k]].blk = blk /\ s.buf[chain[k]].dev = d}

Unhash(s, i) == [s EXCEPT !.hash[BUFHASH(s.buf[i].blk)] = Unlinked(@, i)]

\* Mutant: the victim is taken dirty or not.
Evict_Unwritten(s) == Unhash(rm_lru(s, Head(s.lru)), Head(s.lru))

\* The least recently used buffer, cleaned and without a chain; its name is
\* what VM is offered.
Evict(s0) ==
    LET i == Head(s0.lru)
        s == Unhash(rm_lru(s0, i), i)
    IN IF s.buf[i].dev # NO_DEV /\ s.buf[i].dirt = "DIRTY"
       THEN flushall(s, s.buf[i].dev) ELSE s

Yield(s, i) ==
    IF s.buf[i].dev = NO_DEV THEN s
    ELSE [s EXCEPT !.vm[Id(s.buf[i])] = s.buf[i].data]

\* Mutant: the buffer does not enter its new chain.
Name_OldChain(s, i, d, blk) ==
    [s EXCEPT !.buf[i] = [@ EXCEPT !.dev = d, !.blk = blk, !.count = s.buf[i].count + 1],
              !.hash[BUFHASH(s.buf[i].blk)] = <<i>> \o @]

\* Buffer i takes its new name; its dirt and its data are still the old ones.
Name(s, i, d, blk) ==
    [s EXCEPT !.buf[i] = [@ EXCEPT !.dev = d, !.blk = blk, !.count = s.buf[i].count + 1],
              !.hash[BUFHASH(blk)] = <<i>> \o @]

\* A buffer that VM has is taken over from it.
FromVM(s, i, id) == [s EXCEPT !.buf[i].data = s.vm[id], !.vm[id] = Unknown]

\* Buffer i has its new name, and its block is fetched: from VM, or from the
\* device unless it is prefetched.  A memory device does without VM.
Fetch(s, i, id, only_search) ==
    IF only_search = "NO_READ"
    THEN IF id[1] # Ram THEN [s EXCEPT !.vm[id] = Unknown] ELSE s
    ELSE IF id[1] # Ram /\ s.vm[id] # Unknown THEN FromVM(s, i, id)
    ELSE IF only_search = "PREFETCH" THEN [s EXCEPT !.buf[i].dev = NO_DEV]
    ELSE rw_block_read(s, i)

Use(s, i) ==
    [(IF s.buf[i].count = 0 THEN rm_lru(s, i) ELSE s) EXCEPT !.buf[i].count = @ + 1]

\* The victim i, with what it held offered to VM, under its new name.
Renamed(s, i, d, blk, only_search) ==
    Name(IF d # Ram /\ only_search # "NO_READ" THEN Yield(Evict(s), i) ELSE Evict(s),
         i, d, blk)

\* The state after get_block, and the buffer.
get_block(s, d, blk, only_search) ==
    LET found == Found(s, d, blk)
        hit == s.hash[BUFHASH(blk)][Min(found)]
        i == Head(s.lru)
        n == Renamed(s, i, d, blk, only_search)
    IN IF d # NO_DEV /\ found # {} THEN [s |-> Use(s, hit), i |-> hit]
       ELSE [s |-> IF d = NO_DEV THEN n ELSE Fetch(n, i, <<d, blk>>, only_search),
             i |-> i]

\* get_block panics when the LRU chain is empty: no request of the file
\* server takes all the buffers.
CanGet(s) == s.lru # <<>>

(* rahead: buffers for up to ahead blocks from base on, as many of them as *)
(* are not cached and leave LeaveFree buffers alone, are read at once.     *)

\* One more of the `left' buffers is acquired for the queue q, or none is left.
Acquire(a, d, base) ==
    LET g == get_block(a.s, d, base + Len(a.q), "PREFETCH")
    IN IF a.left = 0 \/ a.s.inuse >= NrBufs - LeaveFree THEN a
       ELSE IF g.s.buf[g.i].dev # NO_DEV
       THEN [s |-> put_block(g.s, g.i), q |-> a.q, left |-> 0]
       ELSE [s |-> g.s, q |-> Append(a.q, g.i), left |-> a.left - 1]

Acquired(first, d, base, ahead) ==
    LET after[n \in 0..(ahead - 1)] ==
            IF n = 0 THEN [s |-> first.s, q |-> <<first.i>>, left |-> ahead - 1]
            ELSE Acquire(after[n - 1], d, base)
    IN after[ahead - 1]

\* first is what get_block made of the first block.
ReadAhead(first, d, base, ahead) ==
    LET a == Acquired(first, d, base, ahead)
    IN IF first.s.buf[first.i].dev # NO_DEV THEN first
       ELSE get_block(ReadScattered(a.s, d, a.q), d, base, "NORMAL")

rahead(s, d, base, ahead) ==
    ReadAhead(get_block(s, d, base, "PREFETCH"), d, base, ahead)

-----------------------------------------------------------------------------
(* What the requests of the server do with the cache.                      *)

Event == events < MaxEvents /\ events' = events + 1

\* Writes that failed in the step; the marks are taken out of the cache.
Done(s) ==
    /\ c' = [s EXCEPT !.lostdev = {}, !.rdwt_err = "OK"]
    /\ failed' = failed \cup s.lostdev
    /\ Event /\ UNCHANGED faults

BlocksOf(d) == IF d = Disk THEN DiskBlocks ELSE RamBlocks

\* A chunk is read (rw_chunk): it arrives, or the request answers the error.
ReadChunk(d, blk) ==
    \E ahead \in 1..Cardinality(BlocksOf(d)) :
        /\ CanGet(c) /\ blk + ahead - 1 \in BlocksOf(d)
        /\ \E g \in {rahead(c, d, blk, ahead)} :
              /\ Done(put_block(g.s, g.i))
              /\ reply' = IF g.s.rdwt_err # "OK" THEN [kind |-> "error", id |-> <<d, blk>>]
                          ELSE [kind |-> "data", id |-> <<d, blk>>,
                                value |-> g.s.buf[g.i].data]
        /\ UNCHANGED held

\* A hole is read: a buffer without a name, filled with zeros.
ReadHole ==
    /\ CanGet(c)
    /\ \E g \in {get_block(c, NO_DEV, NO_BLOCK, "NORMAL")} :
          Done(put_block([g.s EXCEPT !.buf[g.i].data = Unknown,
                                     !.buf[g.i].dirt = "DIRTY"], g.i))
    /\ reply' = NoReply /\ UNCHANGED held

\* A chunk is written: over a block that is read first (NORMAL), or that is
\* replaced whole (NO_READ).  A read error is the request's answer.
WriteChunk(d, blk, v) ==
    \E mode \in {"NORMAL", "NO_READ"} :
        /\ CanGet(c)
        /\ \E g \in {get_block(c, d, blk, mode)} :
              /\ Done(put_block([g.s EXCEPT !.buf[g.i].data = v,
                                            !.buf[g.i].dirt = "DIRTY"], g.i))
              /\ reply' = IF g.s.rdwt_err # "OK" THEN [kind |-> "error", id |-> <<d, blk>>]
                          ELSE [kind |-> "written"]
        /\ UNCHANGED held

\* A request keeps a block while it takes others (an indirect block, a map
\* block), and may change it before it lets it go.
Take(blk) ==
    /\ CanGet(c) /\ held = <<>>
    /\ \E g \in {get_block(c, Disk, blk, "NORMAL")} :
          Done(g.s) /\ held' = <<g.i>>
    /\ reply' = NoReply

Release ==
    /\ held # <<>>
    /\ Done(put_block(c, held[1]))
    /\ held' = <<>> /\ reply' = NoReply

ReleaseChanged(v) ==
    /\ held # <<>>
    /\ Done(put_block([c EXCEPT !.buf[held[1]].data = v,
                                !.buf[held[1]].dirt = "DIRTY"], held[1]))
    /\ reply' = IF c.buf[held[1]].dev = NO_DEV THEN NoReply
                ELSE [kind |-> "written"]
    /\ held' = <<>>

\* sync: every device with a dirty buffer is flushed.
SyncBuffer(s, i) ==
    IF s.buf[i].dev # NO_DEV /\ s.buf[i].dirt = "DIRTY" THEN flushall(s, s.buf[i].dev) ELSE s

fs_sync(s) ==
    LET after[i \in 0..NrBufs] == IF i = 0 THEN s ELSE SyncBuffer(after[i - 1], i)
    IN after[NrBufs]

Sync ==
    /\ held = <<>> /\ Done(fs_sync(c))
    /\ reply' = NoReply /\ UNCHANGED held

invalidate(s, d) ==
    vm_forgetblocks([s EXCEPT !.buf = [i \in Buffers |->
        IF @[i].dev = d THEN [@[i] EXCEPT !.dev = NO_DEV] ELSE @[i]]])

\* The device of the file system itself is refused.
fs_flush ==
    /\ held = <<>> /\ Done(invalidate(flushall(c, Ram), Ram))
    /\ reply' = NoReply /\ UNCHANGED held

fs_new_driver(d) ==
    /\ c.drv[d] # "up" /\ c' = [c EXCEPT !.drv[d] = "up"]
    /\ UNCHANGED <<held, events, faults, failed, reply>>

-----------------------------------------------------------------------------
(* The environment: drivers die, sectors go bad, VM drops what it likes.   *)

Fault == Event /\ faults < MaxFaults /\ faults' = faults + 1

DriverDies(d) ==
    /\ c.drv[d] = "up" /\ Fault /\ c' = [c EXCEPT !.drv[d] = "dead"]
    /\ UNCHANGED <<held, failed, reply>>

SectorFails(id) ==
    /\ c.bad = {} /\ Fault /\ c' = [c EXCEPT !.bad = {id}]
    /\ UNCHANGED <<held, failed, reply>>

VMForgets(id) ==
    /\ c.vm[id] # Unknown /\ Fault /\ c' = [c EXCEPT !.vm[id] = Unknown]
    /\ UNCHANGED <<held, failed, reply>>

Next ==
    \/ \E id \in Ids :
        \/ ReadChunk(id[1], id[2])
        \/ \E v \in Values : WriteChunk(id[1], id[2], v)
        \/ SectorFails(id) \/ VMForgets(id)
    \/ ReadHole
    \/ \E blk \in DiskBlocks : Take(blk)
    \/ Release \/ \E v \in Values : ReleaseChanged(v)
    \/ Sync \/ fs_flush
    \/ \E d \in {Disk, Ram} : fs_new_driver(d) \/ DriverDies(d)

Spec == Init /\ [][Next]_vars

-----------------------------------------------------------------------------
(* Properties *)

\* What the file system finds under a name: a buffer, VM's copy or the disk.
\* VM may be offered a block of the memory device but is never asked for one.
View(id) ==
    LET named == {i \in Buffers : Id(c.buf[i]) = id}
    IN IF named # {} THEN c.buf[CHOOSE i \in named : TRUE].data
       ELSE IF id[1] # Ram /\ c.vm[id] # Unknown THEN c.vm[id] ELSE c.disk[id]

\* The types of the buffers, the chains, the devices and VM's cache.
MfsCacheTypeOK ==
    /\ c.buf \in [Buffers -> [dev : {NO_DEV, Disk, Ram}, blk : Nat, count : 0..3,
                    dirt : {"CLEAN", "DIRTY"}, data : Values \cup {Unknown}]]
    /\ \A i \in Buffers : c.buf[i].dev # NO_DEV => Id(c.buf[i]) \in Ids
    /\ ToSet(c.lru) \subseteq Buffers /\ c.inuse \in 0..NrBufs
    /\ c.disk \in [Ids -> Values] /\ c.vm \in [Ids -> Values \cup {Unknown}]
    /\ c.drv \in [{Disk, Ram} -> {"up", "dead", "none"}] /\ c.bad \subseteq Ids
    /\ failed \subseteq {Disk, Ram} /\ ToSet(held) \subseteq Buffers

\* No block is in two buffers, every buffer is on the chain that a search
\* for its block follows and on no other, and the LRU chain holds, once each,
\* the buffers in nobody's use, of which bufs_in_use is the rest: whatever
\* evictions, prefetches, failures and invalidations came before
\* (cache.c:33-272, 430-546).
ChainsAgree ==
    /\ MfsCacheTypeOK
    /\ \A i, j \in Buffers :
        i # j /\ c.buf[i].dev # NO_DEV => Id(c.buf[i]) # Id(c.buf[j])
    /\ \A h \in 0..(NrBufs - 1) :
        /\ ToSet(c.hash[h]) = {i \in Buffers : BUFHASH(c.buf[i].blk) = h}
        /\ IsInjective(c.hash[h])
    /\ ToSet(c.lru) = {i \in Buffers : c.buf[i].count = 0}
    /\ Len(c.lru) = NrBufs - c.inuse /\ IsInjective(c.lru)
    /\ c.inuse = Cardinality(ToSet(held))

\* The cache, its driver and VM's cache together are a plain store of blocks:
\* only a write changes a block, and a read answers what was written last,
\* through eviction, read-ahead, the death of a driver between two requests
\* and partial transfers, until a write to the device has failed.
Store ==
    INSTANCE BlockStore WITH
        store <- [id \in Ids |-> IF id[1] \in failed THEN Unknown ELSE View(id)],
        reply <- reply
ImplementsStore == Store!Spec

\* sync leaves no block of a device behind, however few blocks the driver
\* takes at a time, if no write to it fails (misc.c:10-34, cache.c:401-523).
SyncWritesAll ==
    [][Sync => \A id \in Ids : id[1] \notin failed' => c'.disk[id] =
            (IF \E i \in Buffers : Id(c.buf[i]) = id
             THEN (CHOOSE b \in {c.buf[i] : i \in Buffers} : Id(b) = id).data
             ELSE c.disk[id])]_vars
=============================================================================
