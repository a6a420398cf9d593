----------------------------- MODULE Vfs_proofs -----------------------------
(***************************************************************************)
(* The record locks of the virtual file system server exclude each other   *)
(* and belong to somebody who has the file open, for any number of         *)
(* processes, descriptors, filps and locks.                                *)
(*                                                                         *)
(* A lock goes with the descriptors of its owner, so the proof keeps the   *)
(* books of filps as well: no filp has more references than its count, and *)
(* one that somebody refers to keeps its vnode.  It also keeps what a      *)
(* process waits for when it waits for a lock, since the server makes that *)
(* call again on its behalf.  A request of the server is a long            *)
(* composition of operators on its state, most of which touch none of      *)
(* this: they are Kept steps, and so is any sequence of them.              *)
(***************************************************************************)
EXTENDS Vfs, FiniteSetTheorems, WellFoundedInduction, TLAPS

\* A state of the server, whatever its books say.
Server(s) ==
    /\ {"proc", "filp", "lock", "nr_locks", "susp_count", "sel", "r"} \subseteq DOMAIN s
    /\ DOMAIN s.proc = Procs /\ DOMAIN s.filp = Filps /\ s.susp_count \in Int
    /\ \A p \in Procs :
          /\ {"filp", "inuse", "used", "revived", "blocked_on", "block_fd", "lock"} \subseteq DOMAIN s.proc[p]
          /\ s.proc[p].filp \in [Fds -> Filps \cup {NULL}]
          /\ s.proc[p].revived => s.proc[p].blocked_on \in {"PIPE", "LOCK"}
    /\ \A f \in Filps : {"count", "vno"} \subseteq DOMAIN s.filp[f] /\ s.filp[f].count \in Int
    /\ DOMAIN s.sel = Sels
    /\ \A i \in Sels : "nfds" \in DOMAIN s.sel[i] /\ s.sel[i].nfds \in Nat

\* The references descriptors make to a filp.
Refs(s, f) == {x \in Procs \X Fds : s.proc[x[1]].filp[x[2]] = f}
At(s, f) == Cardinality(Refs(s, f))

\* A filp has at least the references made to it, by descriptors and by messages;
\* a slot nobody uses has no descriptors.
Books(s, fly) ==
    /\ \A f \in Filps : fly[f] \in Nat /\ At(s, f) + fly[f] =< s.filp[f].count
    /\ \A p \in Procs : ~s.proc[p].used => \A d \in Fds : s.proc[p].filp[d] = NULL

\* Who waits for a lock waits in a call on one of its descriptors.
Waiter(s, p) ==
    LET rp == s.proc[p] IN
    /\ rp.block_fd \in Fds /\ rp.filp[rp.block_fd] # NULL
    /\ rp.lock[2] \in Flocks /\ rp.lock[2].type # "UNLCK"
Waiters(s) == \A p \in Procs : s.proc[p].blocked_on = "LOCK" => Waiter(s, p)

\* The table of locks: a lock has a byte at least, and two that share a byte are
\* of one process or both for reading.
Slots == 1..NR_LOCKS
Taken(s) == {l \in Slots : s.lock[l].type # "NONE"}
Apart(k, m) ==
    m.type # "NONE" /\ m.vno = k.vno /\ k.last >= m.first /\ k.first =< m.last /\ m.pid # k.pid
        => k.type = "RD" /\ m.type = "RD"
Table(s) ==
    /\ DOMAIN s.lock = Slots
    /\ \A l \in Slots :
          /\ {"type", "pid", "vno", "first", "last"} \subseteq DOMAIN s.lock[l]
          /\ s.lock[l].first \in Int /\ s.lock[l].last \in Int
    /\ s.nr_locks = Cardinality(Taken(s))
    /\ \A l \in Taken(s) : s.lock[l].pid \in Procs /\ s.lock[l].first =< s.lock[l].last
    /\ \A l \in Slots \ Taken(s) : s.lock[l].pid = 0
    /\ \A l, m \in Taken(s) : Apart(s.lock[l], s.lock[m])

\* The owner of a lock has a descriptor on the file.
HasOpen(s, p, x) ==
    \E d \in Fds : s.proc[p].filp[d] # NULL /\ s.filp[s.proc[p].filp[d]].vno = x
Owned(s) == \A l \in Taken(s) : HasOpen(s, s.lock[l].pid, s.lock[l].vno)

Sound(s, fly) == Server(s) /\ Books(s, fly) /\ Waiters(s) /\ Table(s) /\ Owned(s)

\* What holds between requests.
VInv == load \in Loads /\ flying \in [Filps -> Nat] /\ Sound(v, flying)

-----------------------------------------------------------------------------
(* What a step does to processes, filps and locks.                          *)

\* Nobody falls asleep but those of P, nobody waits for another lock, and the
\* descriptors are the same.
Napping(s, t, P) ==
    \A p \in Procs :
        /\ t.proc[p].used = s.proc[p].used
        /\ t.proc[p].blocked_on \in {s.proc[p].blocked_on, "NONE"} \/ p \in P
        /\ t.proc[p].blocked_on = "LOCK" =>
              /\ s.proc[p].blocked_on = "LOCK" /\ t.proc[p].lock = s.proc[p].lock
              /\ t.proc[p].block_fd = s.proc[p].block_fd
SameFds(s, t) == \A p \in Procs : t.proc[p].filp = s.proc[p].filp
SameFilp(s, t, f) == t.filp[f].count = s.filp[f].count /\ t.filp[f].vno = s.filp[f].vno
SameLocks(s, t) == t.lock = s.lock /\ t.nr_locks = s.nr_locks

Kept(s, t, P) ==
    /\ Server(t) /\ SameLocks(s, t) /\ Napping(s, t, P) /\ SameFds(s, t)
    /\ \A f \in Filps : SameFilp(s, t, f)

\* Nothing of processes, filps and locks changes.
Outside(s, t) ==
    /\ DOMAIN t = DOMAIN s
    /\ t.proc = s.proc /\ t.filp = s.filp /\ t.lock = s.lock /\ t.nr_locks = s.nr_locks
    /\ t.susp_count = s.susp_count /\ t.sel = s.sel

-----------------------------------------------------------------------------
(* Steps that follow one another. *)

LEMMA OutsideKept ==
    ASSUME NEW s, NEW t, Server(s), Outside(s, t) PROVE Kept(s, t, {})
BY DEF Server, Outside, Kept, SameLocks, Napping, SameFds, SameFilp

LEMMA OutsideMore ==
    ASSUME NEW s, NEW t, NEW u, Outside(s, t), Outside(t, u) PROVE Outside(s, u)
BY DEF Outside

LEMMA KeptSelf ==
    ASSUME NEW s, Server(s) PROVE Kept(s, s, {})
BY OutsideKept DEF Outside

LEMMA KeptMore ==
    ASSUME NEW s, NEW t, NEW u, NEW P, NEW Q, Kept(s, t, P), Kept(t, u, Q)
    PROVE  Kept(s, u, P \cup Q)
BY DEF Kept, SameLocks, Napping, SameFds, SameFilp

LEMMA KeptWider ==
    ASSUME NEW s, NEW t, NEW P, NEW Q, Kept(s, t, P), P \subseteq Q
    PROVE  Kept(s, t, Q)
BY DEF Kept, Napping

\* The same references are as many, and the books of a Kept step are right.
LEMMA KeptSound ==
    ASSUME NEW s, NEW t, NEW P, NEW fly, Sound(s, fly), Kept(s, t, P)
    PROVE  Sound(t, fly)
<1>1. \A f \in Filps : At(t, f) = At(s, f)
  BY DEF Kept, SameFds, At, Refs
<1>2. Books(t, fly)
  BY <1>1 DEF Sound, Books, Kept, SameFds, SameFilp, Napping, Server
<1>3. Waiters(t)
  BY DEF Sound, Waiters, Waiter, Kept, SameFds, Napping
<1>4. Table(t)
  BY DEF Sound, Table, Taken, Apart, Kept, SameLocks
<1>5. Owned(t)
  <2>1. \A p \in Procs, d \in Fds : s.proc[p].filp[d] # NULL => s.proc[p].filp[d] \in Filps
    BY DEF Sound, Server
  <2>2. Taken(t) = Taken(s) /\ t.lock = s.lock
    BY DEF Taken, Kept, SameLocks
  <2>3. \A l \in Taken(s) : s.lock[l].pid \in Procs
    BY DEF Sound, Table
  <2>4. \A p \in Procs : \A x : HasOpen(s, p, x) => HasOpen(t, p, x)
    BY <2>1 DEF HasOpen, Kept, SameFds, SameFilp
  <2> QED
    BY <2>2, <2>3, <2>4 DEF Sound, Owned
<1> QED
  BY <1>2, <1>3, <1>4, <1>5 DEF Sound, Kept

-----------------------------------------------------------------------------
(* Operators that leave processes, filps and locks alone. *)

LEMMA RetOutside ==
    ASSUME NEW s, NEW x PROVE Outside(s, Ret(s, x))
BY DEF Outside, Ret

LEMMA PanicOutside ==
    ASSUME NEW s PROVE Outside(s, Panic(s))
BY DEF Outside, Panic

LEMMA DupVnodeOutside ==
    ASSUME NEW s, NEW x PROVE Outside(s, dup_vnode(s, x))
BY DEF Outside, dup_vnode

LEMMA PutNodeOutside ==
    ASSUME NEW s, NEW ino, NEW n PROVE Outside(s, req_putnode(s, ino, n))
BY DEF Outside, req_putnode

LEMMA CleanRefsOutside ==
    ASSUME NEW s, NEW x PROVE Outside(s, vnode_clean_refs(s, x))
<1> DEFINE put == req_putnode(s, s.vnode[x].ino, s.vnode[x].fs_count - 1)
<1>1. Outside(s, put)
  BY PutNodeOutside
<1> HIDE DEF put
<1>2. Outside(put, [put EXCEPT !.vnode[x].fs_count = 1])
  BY DEF Outside
<1>3. Outside(s, [put EXCEPT !.vnode[x].fs_count = 1]) /\ Outside(s, s)
  BY <1>1, <1>2, OutsideMore DEF Outside
<1> QED
  BY <1>3 DEF vnode_clean_refs, put

LEMMA LessVnodeOutside ==
    ASSUME NEW s, NEW x PROVE Outside(s, less_vnode(s, x))
<1> DEFINE t == [s EXCEPT !.vnode[x].ref = @ - 1]
<1>1. Outside(s, t)
  BY DEF Outside
<1> HIDE DEF t
<1>2. Outside(s, vnode_clean_refs(t, x))
  BY <1>1, CleanRefsOutside, OutsideMore
<1>3. less_vnode(s, x) \in {vnode_clean_refs(t, x), t}
  BY DEF less_vnode, t
<1> QED
  BY <1>1, <1>2, <1>3

LEMMA FreeVnodeOutside ==
    ASSUME NEW s, NEW x PROVE Outside(s, free_vnode(s, x))
<1> DEFINE vp == s.vnode[x]
           put == req_putnode(s, vp.ino, vp.fs_count)
           unmapped == IF vp.mapino \notin {NULL, vp.ino} THEN req_putnode(put, vp.mapino, 1) ELSE put
           freed == [unmapped EXCEPT !.vnode[x] = FreeVnode]
<1>1. Outside(s, put) /\ Outside(put, req_putnode(put, vp.mapino, 1))
  BY PutNodeOutside
<1> HIDE DEF put
<1>2. Outside(s, unmapped)
  BY <1>1, OutsideMore
<1> HIDE DEF unmapped
<1>3. Outside(unmapped, freed)
  BY DEF Outside
<1>4. free_vnode(s, x) = freed
  BY DEF free_vnode, unmapped, put
<1> QED
  BY <1>2, <1>3, <1>4, OutsideMore

LEMMA PutVnodeOutside ==
    ASSUME NEW s, NEW x PROVE Outside(s, put_vnode(s, x))
<1>1. put_vnode(s, x) \in {less_vnode(s, x), Panic(s), free_vnode(s, x)}
  BY DEF put_vnode
<1> QED
  BY <1>1, LessVnodeOutside, FreeVnodeOutside, PanicOutside

LEMMA AdvanceOutside ==
    ASSUME NEW s, NEW ino PROVE Outside(s, advance(s, ino).s)
<1> DEFINE found == [s EXCEPT !.node[ino] = @ + 1, !.r = OK]
           vp == find_vnode(s, ino)
           new == get_free_vnode(s)
           old == [dup_vnode(found, vp) EXCEPT !.vnode[vp].fs_count = @ + 1]
           made == [found EXCEPT !.vnode[new] = [FreeVnode EXCEPT !.ref = 1, !.fs_count = 1,
                                                                  !.ino = ino, !.size = s.fsize[ino]]]
<1>1. Outside(s, found)
  BY DEF Outside
<1>2. Outside(found, dup_vnode(found, vp))
  BY DupVnodeOutside
<1>3. Outside(found, made) /\ Outside(dup_vnode(found, vp), old)
  BY DEF Outside
<1> HIDE DEF found
<1>4. Outside(s, made) /\ Outside(s, old)
  BY <1>1, <1>2, <1>3, OutsideMore
<1>5. Outside(s, Ret(s, ENFILE)) /\ Outside(s, Ret(s, ENOENT))
  BY RetOutside
<1> HIDE DEF vp, new, old, made
<1>6. advance(s, ino).s \in {Ret(s, ENFILE), Ret(s, ENOENT), old, made}
  BY DEF advance, found, vp, new, old, made
<1> QED
  BY <1>4, <1>5, <1>6

LEMMA NewNodeOutside ==
    ASSUME NEW s PROVE Outside(s, req_newnode(s).s)
BY DEF Outside, req_newnode, Ret

LEMMA MapOutside ==
    ASSUME NEW s, NEW x PROVE Outside(s, map_vnode(s, x))
<1> DEFINE n == req_newnode(s)
           mapped == [n.s EXCEPT !.vnode[x].mapino = n.ino]
<1>1. Outside(s, n.s) /\ Outside(s, Ret(s, OK))
  BY NewNodeOutside, RetOutside
<1> HIDE DEF n
<1>2. Outside(n.s, mapped)
  BY DEF Outside
<1> HIDE DEF mapped
<1>3. Outside(s, mapped)
  BY <1>1, <1>2, OutsideMore
<1>4. map_vnode(s, x) \in {Ret(s, OK), n.s, mapped}
  BY DEF map_vnode, n, mapped
<1> QED
  BY <1>1, <1>3, <1>4

LEMMA TruncateOutside ==
    ASSUME NEW s, NEW x, NEW size PROVE Outside(s, truncate_vnode(s, x, size))
BY DEF Outside, truncate_vnode, Ret

LEMMA NewFileOutside ==
    ASSUME NEW s, NEW p, NEW ino PROVE Outside(s, new_node(s, p, ino).s)
<1> DEFINE dirp == s.proc[p].wd
           new == get_free_vnode(s)
           held == dup_vnode(s, dirp)
           n == advance(held, ino)
           created == [held EXCEPT !.made = @ \cup {ino}, !.node[ino] = 1, !.fsize[ino] = 0,
                                   !.vnode[new] = [FreeVnode EXCEPT !.ref = 1, !.fs_count = 1,
                                                                    !.ino = ino]]
           Put(t, r) == Ret(put_vnode(t, dirp), r)
<1>1. Outside(s, held) /\ Outside(held, n.s)
  BY DupVnodeOutside, AdvanceOutside
<1>2. Outside(held, created)
  BY DEF Outside
<1>3. \A t, r : Outside(t, Put(t, r))
  BY PutVnodeOutside, RetOutside, OutsideMore
<1> HIDE DEF dirp, new
<1>4. new_node(s, p, ino).s \in {Put(n.s, EEXIST), Put(created, OK), Put(held, n.s.r)}
  BY DEF new_node, dirp, new
<1> HIDE DEF held, n, created
<1>5. \A r : Outside(s, Put(n.s, r)) /\ Outside(s, Put(created, r)) /\ Outside(s, Put(held, r))
  <2> HIDE DEF Put
  <2> QED
    BY <1>1, <1>2, <1>3, OutsideMore
<1> QED
  BY <1>4, <1>5

-----------------------------------------------------------------------------
(* Processes that are put to sleep and woken. *)

\* A change of one process slot that keeps its descriptors.
SlotOnly(s, t, p) ==
    /\ DOMAIN t = DOMAIN s /\ DOMAIN t.proc = DOMAIN s.proc
    /\ t.filp = s.filp /\ t.lock = s.lock /\ t.nr_locks = s.nr_locks
    /\ t.susp_count \in Int /\ t.sel = s.sel
    /\ \A q \in Procs : q # p => t.proc[q] = s.proc[q]
    /\ p \in Procs => /\ DOMAIN t.proc[p] = DOMAIN s.proc[p]
                      /\ t.proc[p].filp = s.proc[p].filp /\ t.proc[p].used = s.proc[p].used

LEMMA SlotOnlyKept ==
    ASSUME NEW s, NEW t, NEW p, NEW P, Server(s), SlotOnly(s, t, p),
           p \in Procs =>
              /\ t.proc[p].revived => t.proc[p].blocked_on \in {"PIPE", "LOCK"}
              /\ t.proc[p].blocked_on \in {s.proc[p].blocked_on, "NONE"} \/ p \in P
              /\ t.proc[p].blocked_on = "LOCK" =>
                    /\ s.proc[p].blocked_on = "LOCK" /\ t.proc[p].lock = s.proc[p].lock
                    /\ t.proc[p].block_fd = s.proc[p].block_fd
    PROVE  Kept(s, t, P)
<1>1. \A q \in Procs : DOMAIN t.proc[q] = DOMAIN s.proc[q] /\ t.proc[q].filp = s.proc[q].filp
  BY DEF SlotOnly
<1>2. Server(t)
  BY <1>1 DEF Server, SlotOnly
<1>3. Napping(s, t, P)
  BY DEF Napping, SlotOnly
<1> QED
  BY <1>1, <1>2, <1>3 DEF Kept, SameLocks, SameFds, SameFilp, SlotOnly

LEMMA UnblockSlot ==
    ASSUME NEW s, NEW p, Server(s)
    PROVE  /\ SlotOnly(s, Unblock(s, p), p)
           /\ p \in Procs => /\ Unblock(s, p).proc[p].blocked_on = "NONE"
                             /\ Unblock(s, p).proc[p].revived = s.proc[p].revived
<1> DEFINE rp == [s.proc[p] EXCEPT !.blocked_on = "NONE", !.callnr = "NONE",
                                   !.block_fd = 0, !.nbytes = 0, !.lock = <<>>]
<1>1. p \in Procs => /\ DOMAIN rp = DOMAIN s.proc[p] /\ rp.filp = s.proc[p].filp
                    /\ rp.used = s.proc[p].used /\ rp.blocked_on = "NONE"
                    /\ rp.revived = s.proc[p].revived
  BY DEF Server
<1>2. Unblock(s, p) = [s EXCEPT !.proc[p] = rp]
  BY DEF Unblock
<1> HIDE DEF rp
<1> QED
  BY <1>1, <1>2 DEF Server, SlotOnly

LEMMA UnblockKept ==
    ASSUME NEW s, NEW p, Server(s), p \in Procs => ~s.proc[p].revived
    PROVE  Kept(s, Unblock(s, p), {})
BY UnblockSlot, SlotOnlyKept

LEMMA ReviveKept ==
    ASSUME NEW s, NEW p, Server(s) PROVE Kept(s, revive(s, p), {})
<1> DEFINE t == [s EXCEPT !.proc[p].revived = TRUE, !.reviving = @ + 1]
<1>1. CASE ~fp_is_blocked(s, p) \/ s.proc[p].revived
  BY <1>1, KeptSelf DEF revive
<1>2. CASE ~(~fp_is_blocked(s, p) \/ s.proc[p].revived) /\ s.proc[p].blocked_on \in {"PIPE", "LOCK"}
  <2>1. SlotOnly(s, t, p)
    BY DEF Server, SlotOnly
  <2>2. p \in Procs => /\ t.proc[p].blocked_on = s.proc[p].blocked_on
                       /\ t.proc[p].lock = s.proc[p].lock
                       /\ t.proc[p].block_fd = s.proc[p].block_fd
    BY DEF Server
  <2>3. revive(s, p) = t
    BY <1>2 DEF revive
  <2> HIDE DEF t
  <2> QED
    BY <1>2, <2>1, <2>2, <2>3, SlotOnlyKept DEF fp_is_blocked
<1>3. CASE ~(~fp_is_blocked(s, p) \/ s.proc[p].revived) /\ s.proc[p].blocked_on \notin {"PIPE", "LOCK"}
  BY <1>3, UnblockKept DEF revive
<1> QED
  BY <1>1, <1>2, <1>3

\* A process that goes to sleep.
LEMMA SuspendSlot ==
    ASSUME NEW s, NEW p, NEW why, NEW call, NEW d, NEW n, NEW fl, Server(s)
    PROVE  LET t == suspend(s, p, why, call, d, n, fl)
           IN /\ SlotOnly(s, t, p)
              /\ p \in Procs => /\ t.proc[p].blocked_on = why /\ t.proc[p].block_fd = d
                                /\ t.proc[p].lock = fl
                                /\ t.proc[p].revived = s.proc[p].revived
<1> DEFINE rp == [s.proc[p] EXCEPT !.blocked_on = why, !.callnr = call,
                                   !.block_fd = d, !.nbytes = n, !.lock = fl]
           more == IF why = "POPEN" THEN s.susp_count + 1 ELSE s.susp_count
<1>1. p \in Procs => /\ DOMAIN rp = DOMAIN s.proc[p] /\ rp.filp = s.proc[p].filp
                    /\ rp.used = s.proc[p].used /\ rp.blocked_on = why
                    /\ rp.block_fd = d /\ rp.lock = fl
                    /\ rp.revived = s.proc[p].revived
  BY DEF Server
<1>2. suspend(s, p, why, call, d, n, fl) = [s EXCEPT !.susp_count = more, !.proc[p] = rp, !.r = SUSPEND]
  BY DEF suspend
<1>3. more \in Int
  BY DEF Server
<1> HIDE DEF rp, more
<1> QED
  BY <1>1, <1>2, <1>3 DEF Server, SlotOnly

LEMMA SuspendKept ==
    ASSUME NEW s, NEW p, NEW why, NEW call, NEW d, NEW n, NEW fl, Server(s),
           why # "LOCK", p \in Procs => ~s.proc[p].revived
    PROVE  Kept(s, suspend(s, p, why, call, d, n, fl), {p})
BY SuspendSlot, SlotOnlyKept

LEMMA PipeSuspendKept ==
    ASSUME NEW s, NEW p, NEW call, NEW d, NEW n, Server(s)
    PROVE  Kept(s, pipe_suspend(s, p, call, d, n), {p})
<1> DEFINE rp == [s.proc[p] EXCEPT !.blocked_on = "PIPE", !.callnr = call,
                                   !.block_fd = d, !.nbytes = n]
           t == pipe_suspend(s, p, call, d, n)
<1>1. p \in Procs => /\ DOMAIN rp = DOMAIN s.proc[p] /\ rp.filp = s.proc[p].filp
                    /\ rp.used = s.proc[p].used /\ rp.blocked_on = "PIPE"
  BY DEF Server
<1>2. t = [s EXCEPT !.susp_count = @ + 1, !.proc[p] = rp, !.r = SUSPEND]
  BY DEF pipe_suspend
<1> HIDE DEF rp, t
<1>3. SlotOnly(s, t, p) /\ (p \in Procs => t.proc[p].blocked_on = "PIPE")
  BY <1>1, <1>2 DEF Server, SlotOnly
<1> QED
  BY <1>3, SlotOnlyKept DEF t

\* A change of a filp that is not of its count or its vnode.
FilpOnly(s, t, f) ==
    /\ DOMAIN t = DOMAIN s /\ DOMAIN t.filp = DOMAIN s.filp
    /\ t.proc = s.proc /\ t.lock = s.lock /\ t.nr_locks = s.nr_locks
    /\ t.susp_count = s.susp_count /\ t.sel = s.sel
    /\ \A g \in Filps : g # f => t.filp[g] = s.filp[g]
    /\ f \in Filps => /\ DOMAIN t.filp[f] = DOMAIN s.filp[f] /\ SameFilp(s, t, f)

LEMMA FilpOnlyKept ==
    ASSUME NEW s, NEW t, NEW f, Server(s), FilpOnly(s, t, f) PROVE Kept(s, t, {})
<1>1. \A g \in Filps : SameFilp(s, t, g) /\ DOMAIN t.filp[g] = DOMAIN s.filp[g]
  BY DEF FilpOnly, SameFilp
<1>2. Server(t)
  BY <1>1 DEF Server, FilpOnly, SameFilp
<1> QED
  BY <1>1, <1>2 DEF Kept, SameLocks, Napping, SameFds, FilpOnly

-----------------------------------------------------------------------------
(* What select keeps. *)

\* A change of one entry of the table of select.
SelOnly(s, t, i) ==
    /\ DOMAIN t = DOMAIN s /\ DOMAIN t.sel = DOMAIN s.sel
    /\ t.proc = s.proc /\ t.filp = s.filp /\ t.lock = s.lock /\ t.nr_locks = s.nr_locks
    /\ t.susp_count = s.susp_count
    /\ \A j \in Sels : j # i => t.sel[j] = s.sel[j]
    /\ i \in Sels => "nfds" \in DOMAIN t.sel[i] /\ t.sel[i].nfds \in Nat

LEMMA SelOnlyKept ==
    ASSUME NEW s, NEW t, NEW i, Server(s), SelOnly(s, t, i) PROVE Kept(s, t, {})
<1>1. \A j \in Sels : "nfds" \in DOMAIN t.sel[j] /\ t.sel[j].nfds \in Nat
  BY DEF Server, SelOnly
<1>2. Server(t)
  BY <1>1 DEF Server, SelOnly
<1> QED
  BY <1>2 DEF Kept, SelOnly, SameLocks, Napping, SameFds, SameFilp

LEMMA KeptServer ==
    ASSUME NEW s, NEW t, NEW P, Kept(s, t, P) PROVE Server(t)
BY DEF Kept

\* Two steps in which nobody falls asleep.
LEMMA KeptTwo ==
    ASSUME NEW s, NEW t, NEW u, Kept(s, t, {}), Kept(t, u, {}) PROVE Kept(s, u, {})
<1>1. Kept(s, u, {} \cup {}) /\ {} \cup {} = {}
  BY KeptMore
<1> QED
  BY <1>1

\* The filp of descriptor d is let go by entry i, and asked what others need.
DropStep(i, b, c, t, d) ==
    LET f == t.sel[i].filps[d]
        u == [t EXCEPT !.filp[f].selectors = @ - 1, !.sel[i].filps[d] = NULL]
    IN IF f = NULL THEN t
       ELSE IF t.filp[f].selectors < 1 THEN t
       ELSE [u EXCEPT !.filp[f].select_ops = select_reevaluate(u, f)]

\* A fold of Kept steps.
KeptAfter(a, b, c, s, k, t) == Kept(s, t, {})
DropFold == INSTANCE FoldInduction WITH Step <- DropStep, Holds <- KeptAfter

LEMMA DropKept ==
    ASSUME NEW i, NEW t, NEW d, Server(t) PROVE Kept(t, DropStep(i, 0, 0, t, d), {})
<1> DEFINE f == t.sel[i].filps[d]
           a == [t EXCEPT !.filp[f].selectors = @ - 1]
           u == [a EXCEPT !.sel[i].filps[d] = NULL]
           w == [u EXCEPT !.filp[f].select_ops = select_reevaluate(u, f)]
<1> HIDE DEF f
<1>1. FilpOnly(t, a, f)
  BY DEF Server, FilpOnly, SameFilp
<1>2. Kept(t, a, {})
  BY <1>1, FilpOnlyKept
<1> HIDE DEF a
<1>3. SelOnly(a, u, i)
  BY <1>2, KeptServer DEF Server, SelOnly
<1>4. Kept(t, u, {})
  BY <1>2, <1>3, KeptServer, SelOnlyKept, KeptTwo
<1> HIDE DEF u
<1>5. FilpOnly(u, w, f)
  <2> DEFINE x == select_reevaluate(u, f)
  <2> HIDE DEF x
  <2>1. FilpOnly(u, [u EXCEPT !.filp[f].select_ops = x], f)
    BY <1>4, KeptServer DEF Server, FilpOnly, SameFilp
  <2> QED
    BY <2>1 DEF x
<1>6. Kept(t, w, {}) /\ Kept(t, t, {})
  BY <1>4, <1>5, KeptServer, FilpOnlyKept, KeptTwo, KeptSelf
<1> HIDE DEF w
<1>7. DropStep(i, 0, 0, t, d) \in {t, w}
  BY DEF DropStep, w, u, a, f
<1> QED
  BY <1>6, <1>7

LEMMA CancelKept ==
    ASSUME NEW s, NEW i \in Sels, Server(s) PROVE Kept(s, select_cancel_all(s, i), {})
<1> DEFINE n == s.sel[i].nfds
           seq == [k \in 1..n |-> k - 1]
           t == DropFold!Fold(i, 0, 0, s, seq, n)
           u == [t EXCEPT !.sel[i].timer = FALSE]
<1>1. n \in Nat
  BY DEF Server
<1>2. select_cancel_all(s, i) = u
  <2>1. DOMAIN seq = 1..n
    OBVIOUS
  <2> HIDE DEF seq
  <2> QED
    BY <2>1, ZenonT(60) DEF select_cancel_all, FoldLeft, MapThenFoldSet, Max, DropFold!Fold, DropStep, seq
<1> HIDE DEF n, t, seq
<1>3. KeptAfter(i, 0, 0, s, 0, s)
  BY KeptSelf DEF KeptAfter
<1>4. ASSUME NEW k \in 1..n, NEW w, KeptAfter(i, 0, 0, s, k - 1, w)
      PROVE  KeptAfter(i, 0, 0, s, k, DropStep(i, 0, 0, w, seq[k]))
  BY <1>4, DropKept, KeptTwo, KeptServer DEF KeptAfter
<1>5. KeptAfter(i, 0, 0, s, n, t)
  BY <1>1, <1>3, <1>4, DropFold!FoldHolds DEF t
<1>6. Kept(s, t, {})
  BY <1>5 DEF KeptAfter
<1>7. SelOnly(t, u, i)
  BY <1>6, KeptServer DEF Server, SelOnly
<1> QED
  BY <1>2, <1>6, <1>7, KeptServer, SelOnlyKept, KeptTwo

LEMMA FreeEntryKept ==
    ASSUME NEW s, NEW i \in Sels, Server(s) PROVE Kept(s, FreeEntry(s, i), {})
<1> DEFINE e == s.sel[i]
           kept == {d \in Fds : d < e.nfds /\ e.filps[d] # NULL}
           x == IF kept = {} THEN FreeSel ELSE [e EXCEPT !.requestor = 0, !.ready = FreeSel.ready]
<1>1. "nfds" \in DOMAIN x /\ x.nfds \in Nat
  BY DEF Server, FreeSel
<1>2. FreeEntry(s, i) = [s EXCEPT !.sel[i] = x]
  BY DEF FreeEntry
<1> HIDE DEF x
<1>3. SelOnly(s, FreeEntry(s, i), i)
  BY <1>1, <1>2 DEF Server, SelOnly
<1> QED
  BY <1>3, SelOnlyKept

LEMMA SelectReturnKept ==
    ASSUME NEW s, NEW i \in Sels, Server(s) PROVE Kept(s, select_return(s, i), {})
<1> DEFINE a == select_cancel_all(s, i)
           q == s.sel[i].requestor
<1>1. Kept(s, a, {})
  BY CancelKept
<1> HIDE DEF a, q
<1>2. Kept(s, revive(a, q), {})
  BY <1>1, KeptServer, ReviveKept, KeptTwo
<1>3. Kept(s, FreeEntry(revive(a, q), i), {})
  BY <1>2, KeptServer, FreeEntryKept, KeptTwo
<1> QED
  BY <1>3 DEF select_return, a, q

\* Entry i hears that filp f is ready for op.
WakeStep(f, op, c, t, i) ==
    LET ds == {d \in Entries(t, i) : t.sel[i].filps[d] = f /\ op \in tab2ops(t, i, d)}
        told == [t EXCEPT !.sel[i].ready = [d \in Fds |-> IF d \in ds THEN @[d] \cup {op}
                                                          ELSE @[d]]]
    IN IF t.sel[i].requestor = 0 \/ ds = {} THEN t ELSE select_return(told, i)
WakeFold == INSTANCE FoldInduction WITH Step <- WakeStep, Holds <- KeptAfter

LEMMA WakeKept ==
    ASSUME NEW f, NEW op, NEW t, NEW i \in Sels, Server(t)
    PROVE  Kept(t, WakeStep(f, op, 0, t, i), {})
<1> DEFINE ds == {d \in Entries(t, i) : t.sel[i].filps[d] = f /\ op \in tab2ops(t, i, d)}
           x == [d \in Fds |-> IF d \in ds THEN t.sel[i].ready[d] \cup {op} ELSE t.sel[i].ready[d]]
           told == [t EXCEPT !.sel[i].ready = x]
<1>1. WakeStep(f, op, 0, t, i) = IF t.sel[i].requestor = 0 \/ ds = {} THEN t
                                 ELSE select_return(told, i)
  BY DEF WakeStep
<1> HIDE DEF x, ds
<1>2. SelOnly(t, told, i)
  BY DEF Server, SelOnly
<1> HIDE DEF told
<1>3. Kept(t, told, {})
  BY <1>2, SelOnlyKept
<1>4. Kept(t, select_return(told, i), {}) /\ Kept(t, t, {})
  BY <1>3, KeptServer, SelectReturnKept, KeptTwo, KeptSelf
<1> QED
  BY <1>1, <1>4

LEMMA CallbackKept ==
    ASSUME NEW s, NEW f, NEW op, Server(s) PROVE Kept(s, select_callback(s, f, op), {})
<1> DEFINE seq == [i \in Sels |-> i]
           t == WakeFold!Fold(f, op, 0, s, seq, MAXSELECTS)
<1>1. MAXSELECTS \in Nat /\ \A k \in 1..MAXSELECTS : seq[k] \in Sels
  BY TablesAssumption DEF Sels
<1>2. select_callback(s, f, op) = t
  <2>1. DOMAIN seq = 1..MAXSELECTS
    BY DEF Sels
  <2> HIDE DEF seq
  <2> QED
    BY <2>1 DEF select_callback, FoldLeft, MapThenFoldSet, Max, WakeFold!Fold, WakeStep, seq
<1> HIDE DEF t, seq
<1>3. KeptAfter(f, op, 0, s, 0, s)
  BY KeptSelf DEF KeptAfter
<1>4. ASSUME NEW k \in 1..MAXSELECTS, NEW w, KeptAfter(f, op, 0, s, k - 1, w)
      PROVE  KeptAfter(f, op, 0, s, k, WakeStep(f, op, 0, w, seq[k]))
  BY <1>1, <1>4, WakeKept, KeptTwo, KeptServer DEF KeptAfter
<1>5. KeptAfter(f, op, 0, s, MAXSELECTS, t)
  BY <1>1, <1>3, <1>4, WakeFold!FoldHolds DEF t
<1> QED
  BY <1>2, <1>5 DEF KeptAfter

\* Some slot of the table is free, or it has an entry of p.
LEMMA MinIs ==
    ASSUME NEW S \in SUBSET Nat, S # {} PROVE Min(S) \in S /\ \A k \in S : Min(S) =< k
<1>1. PICK m \in S : \A k \in S : ~(<<k, m>> \in OpToRel(<, Nat))
  BY NatLessThanWellFounded, WFMin
<1>2. ASSUME NEW k \in S PROVE m =< k
  <2>1. ~(<<k, m>> \in OpToRel(<, Nat))
    BY <1>1
  <2>2. k \in Nat /\ m \in Nat
    OBVIOUS
  <2> QED
    BY <2>1, <2>2 DEF OpToRel
<1> QED
  BY <1>2 DEF Min

LEMMA ForgetKept ==
    ASSUME NEW s, NEW p, Server(s) PROVE Kept(s, select_forget(s, p), {})
<1> DEFINE is == {i \in Sels : s.sel[i].requestor = p}
           a == select_cancel_all(s, Min(is))
<1>1. is \in SUBSET Nat
  BY TablesAssumption DEF Sels
<1>2. CASE is = {}
  BY <1>2, KeptSelf DEF select_forget
<1>3. CASE is # {}
  <2>1. Min(is) \in Sels
    BY <1>1, <1>3, MinIs
  <2>2. select_forget(s, p) = FreeEntry(a, Min(is))
    BY <1>3 DEF select_forget
  <2> HIDE DEF is
  <2>3. Kept(s, a, {})
    BY <2>1, CancelKept
  <2> HIDE DEF a
  <2> QED
    BY <2>1, <2>2, <2>3, FreeEntryKept, KeptTwo, KeptServer
<1> QED
  BY <1>2, <1>3

-----------------------------------------------------------------------------
(* Pipes. *)

\* Filp f tells who asked for op in select.
TellStep(x, op, c, t, f) ==
    IF t.filp[f].count < 1 \/ op \notin t.filp[f].pipe_select_ops \/ t.filp[f].vno # x THEN t
    ELSE [select_callback(t, f, op) EXCEPT !.filp[f].pipe_select_ops = @ \ {op}]
TellFold == INSTANCE FoldInduction WITH Step <- TellStep, Holds <- KeptAfter

LEMMA TellKept ==
    ASSUME NEW x, NEW op, NEW t, NEW f, Server(t) PROVE Kept(t, TellStep(x, op, 0, t, f), {})
<1> DEFINE a == select_callback(t, f, op)
           u == [a EXCEPT !.filp[f].pipe_select_ops = @ \ {op}]
<1>1. Kept(t, a, {}) /\ Kept(t, t, {})
  BY CallbackKept, KeptSelf
<1>2. TellStep(x, op, 0, t, f) \in {t, u}
  BY DEF TellStep
<1> HIDE DEF a
<1>3. FilpOnly(a, u, f)
  BY <1>1, KeptServer DEF Server, FilpOnly, SameFilp
<1> HIDE DEF u
<1> QED
  BY <1>1, <1>2, <1>3, FilpOnlyKept, KeptTwo, KeptServer

LEMMA ReleaseSelectKept ==
    ASSUME NEW s, NEW x, NEW op, Server(s) PROVE Kept(s, release_select(s, x, op), {})
<1> DEFINE seq == [f \in Filps |-> f]
           t == TellFold!Fold(x, op, 0, s, seq, NR_FILPS)
<1>1. NR_FILPS \in Nat
  BY TablesAssumption
<1>2. release_select(s, x, op) = t
  <2>1. DOMAIN seq = 1..NR_FILPS
    BY DEF Filps
  <2> HIDE DEF seq
  <2> QED
    BY <2>1 DEF release_select, FoldLeft, MapThenFoldSet, Max, TellFold!Fold, TellStep, seq
<1> HIDE DEF t, seq
<1>3. KeptAfter(x, op, 0, s, 0, s)
  BY KeptSelf DEF KeptAfter
<1>4. ASSUME NEW k \in 1..NR_FILPS, NEW w, KeptAfter(x, op, 0, s, k - 1, w)
      PROVE  KeptAfter(x, op, 0, s, k, TellStep(x, op, 0, w, seq[k]))
  BY <1>4, TellKept, KeptTwo, KeptServer DEF KeptAfter
<1>5. KeptAfter(x, op, 0, s, NR_FILPS, t)
  BY <1>1, <1>3, <1>4, TellFold!FoldHolds DEF t
<1> QED
  BY <1>2, <1>5 DEF KeptAfter

\* A process of `first' is freed.
FreeStep(first, b, c, t, p) ==
    LET Free(w, q) == LET u == [revive(w, q) EXCEPT !.susp_count = @ - 1]
                      IN IF u.susp_count < 0 THEN Panic(u) ELSE u
    IN IF p \in first THEN Free(t, p) ELSE t
FreeFold == INSTANCE FoldInduction WITH Step <- FreeStep, Holds <- KeptAfter

LEMMA FreeKept ==
    ASSUME NEW first, NEW t, NEW p, Server(t) PROVE Kept(t, FreeStep(first, 0, 0, t, p), {})
<1> DEFINE a == revive(t, p)
           u == [a EXCEPT !.susp_count = @ - 1]
<1>1. Kept(t, a, {}) /\ Kept(t, t, {})
  BY ReviveKept, KeptSelf
<1>2. FreeStep(first, 0, 0, t, p) \in {t, u, Panic(u)}
  BY DEF FreeStep
<1> HIDE DEF a
<1>3. 0 \notin Procs
  BY DEF Procs
<1>4. SlotOnly(a, u, 0)
  BY <1>1, <1>3, KeptServer DEF Server, SlotOnly
<1> HIDE DEF u
<1>5. Kept(t, u, {})
  BY <1>1, <1>3, <1>4, SlotOnlyKept, KeptTwo, KeptServer
<1>6. Kept(t, Panic(u), {})
  BY <1>5, PanicOutside, OutsideKept, KeptTwo, KeptServer
<1> QED
  BY <1>1, <1>2, <1>5, <1>6

LEMMA ReleaseKept ==
    ASSUME NEW s, NEW x, NEW call, NEW count, Server(s)
    PROVE  Kept(s, release(s, x, call, count), {})
<1> DEFINE seq == [p \in Procs |-> p]
           told == IF call \in {"READ", "WRITE"} THEN release_select(s, x, OpOf(call)) ELSE s
           waiting == Waiting(told, x, call)
           first == {p \in waiting : Cardinality({q \in waiting : q < p}) < count}
           t == FreeFold!Fold(first, 0, 0, told, seq, NR_PROCS)
<1>1. NR_PROCS \in Nat
  BY TablesAssumption
<1>2. release(s, x, call, count) = t
  <2>1. DOMAIN seq = 1..NR_PROCS
    BY DEF Procs
  <2> HIDE DEF seq
  <2> QED
    BY <2>1 DEF release, FoldLeft, MapThenFoldSet, Max, FreeFold!Fold, FreeStep, seq
<1>3. Kept(s, told, {})
  BY ReleaseSelectKept, KeptSelf
<1> HIDE DEF seq, told, waiting, first, t
<1>4. KeptAfter(first, 0, 0, told, 0, told)
  BY <1>3, KeptServer, KeptSelf DEF KeptAfter
<1>5. ASSUME NEW k \in 1..NR_PROCS, NEW w, KeptAfter(first, 0, 0, told, k - 1, w)
      PROVE  KeptAfter(first, 0, 0, told, k, FreeStep(first, 0, 0, w, seq[k]))
  BY <1>5, FreeKept, KeptTwo, KeptServer DEF KeptAfter
<1>6. KeptAfter(first, 0, 0, told, NR_PROCS, t)
  BY <1>1, <1>4, <1>5, FreeFold!FoldHolds DEF t
<1> QED
  BY <1>2, <1>3, <1>6, KeptTwo DEF KeptAfter

LEMMA PipeCheckKept ==
    ASSUME NEW s, NEW p, NEW x, NEW call, NEW nonblock, NEW bytes, NEW pos, NEW notouch, Server(s)
    PROVE  Kept(s, pipe_check(s, p, x, call, nonblock, bytes, pos, notouch), {})
<1> DEFINE told == IF notouch THEN s ELSE release(s, x, "READ", s.susp_count)
           active == IF s.susp_count > 0 THEN release(s, x, "WRITE", s.susp_count) ELSE s
<1>1. Kept(s, told, {}) /\ Kept(s, active, {}) /\ Kept(s, s, {})
  BY ReleaseKept, KeptSelf
<1>2. \A r : Kept(s, Ret(told, r), {}) /\ Kept(s, Ret(active, r), {}) /\ Kept(s, Ret(s, r), {})
  <2> HIDE DEF told, active
  <2> QED
    BY <1>1, RetOutside, OutsideKept, KeptTwo, KeptServer
<1>3. \E r : pipe_check(s, p, x, call, nonblock, bytes, pos, notouch) \in
                {Ret(told, r), Ret(active, r), Ret(s, r)}
  <2> DEFINE r == pipe_check(s, p, x, call, nonblock, bytes, pos, notouch)
  <2>1. CASE call = "READ"
    <3>1. r \in {Ret(s, bytes), Ret(s, OK), Ret(active, IF nonblock THEN EAGAIN ELSE SUSPEND)}
      BY <2>1, Zenon DEF pipe_check, active
    <3> QED
      BY <3>1
  <2>2. CASE call # "READ"
    <3>1. r \in {Ret(s, EPIPE), Ret(IF pos = 0 THEN told ELSE s, bytes), Ret(told, PIPE_BUF - pos),
                 Ret(s, IF nonblock THEN EAGAIN ELSE SUSPEND)}
      BY <2>2, Zenon DEF pipe_check, told
    <3> QED
      BY <3>1
  <2> QED
    BY <2>1, <2>2
<1> QED
  BY <1>2, <1>3

LEMMA ReadWritePipeOutside ==
    ASSUME NEW s, NEW p, NEW ino, NEW call, NEW pos, NEW n, NEW want
    PROVE  Outside(s, req_readwrite_pipe(s, p, ino, call, pos, n, want))
<1> DEFINE old == s.data[ino]
           bytes == <<>> \o [k \in 1..n |-> IF call = "WRITE" THEN p
                                            ELSE IF pos + k <= Len(old) THEN old[pos + k] ELSE 0]
           done == [s EXCEPT !.io = [call |-> call, ino |-> ino, bytes |-> bytes, want |-> want]]
           put == [done EXCEPT !.data[ino] = SubSeq(old, 1, pos) \o bytes]
<1>1. req_readwrite_pipe(s, p, ino, call, pos, n, want) = IF call = "WRITE" THEN put ELSE done
  BY DEF req_readwrite_pipe
<1> HIDE DEF bytes, old
<1>2. Outside(s, done)
  BY DEF Outside
<1> HIDE DEF done
<1>3. Outside(done, put)
  BY DEF Outside
<1> QED
  BY <1>1, <1>2, <1>3, OutsideMore

LEMMA MovePositionOutside ==
    ASSUME NEW s, NEW x, NEW call, NEW end
    PROVE  Outside(s, move_position(s, x, call, end))
BY DEF Outside, move_position

\* What a partial transfer leaves to count.
LEMMA PartialKept ==
    ASSUME NEW s, NEW p, NEW n, Server(s)
    PROVE  Kept(s, [s EXCEPT !.proc[p].cum_io_partial = n], {})
<1> DEFINE t == [s EXCEPT !.proc[p].cum_io_partial = n]
<1>1. SlotOnly(s, t, p)
  BY DEF Server, SlotOnly
<1>2. p \in Procs => /\ t.proc[p].blocked_on = s.proc[p].blocked_on
                     /\ t.proc[p].lock = s.proc[p].lock
                     /\ t.proc[p].block_fd = s.proc[p].block_fd
                     /\ t.proc[p].revived = s.proc[p].revived
  BY DEF Server
<1> HIDE DEF t
<1>3. Kept(s, t, {})
  BY <1>1, <1>2, SlotOnlyKept DEF Server
<1> QED
  BY <1>3 DEF t

LEMMA RwPipeKept ==
    ASSUME NEW s, NEW p, NEW call, NEW d, NEW f, NEW n, Server(s)
    PROVE  Kept(s, rw_pipe(s, p, call, d, f, n), {p})
<1> DEFINE x == s.filp[f].vno
           vp == s.vnode[x]
           nonblock == s.filp[f].nonblock
           pos == IF call = "READ" THEN vp.rd ELSE vp.wr
           c == pipe_check(s, p, x, call, nonblock, n, pos, FALSE)
           size == IF call = "READ" THEN Min({c.r, vp.size - pos}) ELSE c.r
           q == req_readwrite_pipe(c, p, vp.mapino, call, pos, size, n)
           end == pos + size
           m == move_position(q, x, call, end)
           done == s.proc[p].cum_io_partial + size
           part == [m EXCEPT !.proc[p].cum_io_partial = done]
           full == [m EXCEPT !.proc[p].cum_io_partial = 0, !.r = done]
<1>1. rw_pipe(s, p, call, d, f, n) =
        IF c.r = SUSPEND THEN pipe_suspend(c, p, call, d, n)
        ELSE IF c.r <= 0 THEN c
        ELSE IF c.r < n /\ ~nonblock THEN pipe_suspend(part, p, call, d, n - size) ELSE full
  BY DEF rw_pipe
<1>2. Kept(s, c, {})
  BY PipeCheckKept
<1> HIDE DEF x, vp, nonblock, pos, c, size, end
<1>3. Kept(s, q, {})
  BY <1>2, ReadWritePipeOutside, OutsideKept, KeptTwo, KeptServer
<1> HIDE DEF q
<1>4. Outside(q, m)
  BY MovePositionOutside
<1> HIDE DEF m, done
<1>5. Kept(s, m, {})
  BY <1>3, <1>4, OutsideKept, KeptTwo, KeptServer
<1>6. Kept(s, part, {})
  BY <1>5, PartialKept, KeptTwo, KeptServer
<1>7. Kept(s, full, {})
  <2> DEFINE a == [m EXCEPT !.proc[p].cum_io_partial = 0]
  <2>1. Kept(s, a, {})
    BY <1>5, PartialKept, KeptTwo, KeptServer
  <2>2. full = Ret(a, done)
    BY DEF Ret
  <2> HIDE DEF a, full
  <2> QED
    BY <2>1, <2>2, RetOutside, OutsideKept, KeptTwo, KeptServer
<1> HIDE DEF part, full
<1>8. \A t, k : Kept(s, t, {}) => Kept(s, pipe_suspend(t, p, call, d, k), {p})
  <2> TAKE t, k
  <2> HAVE Kept(s, t, {})
  <2>1. Kept(t, pipe_suspend(t, p, call, d, k), {p})
    BY KeptServer, PipeSuspendKept
  <2>2. Kept(s, pipe_suspend(t, p, call, d, k), {} \cup {p}) /\ {} \cup {p} = {p}
    BY <2>1, KeptMore
  <2> QED
    BY <2>2
<1>9. Kept(s, c, {p}) /\ Kept(s, full, {p})
  BY <1>2, <1>7, KeptWider
<1> QED
  BY <1>1, <1>2, <1>6, <1>8, <1>9

-----------------------------------------------------------------------------
(* The others who wait. *)

ReviveLockStep(a, b, c, t, p) ==
    IF t.proc[p].used /\ t.proc[p].blocked_on = "LOCK" THEN revive(t, p) ELSE t
LockFold == INSTANCE FoldInduction WITH Step <- ReviveLockStep, Holds <- KeptAfter

LEMMA LockReviveKept ==
    ASSUME NEW s, Server(s) PROVE Kept(s, lock_revive(s), {})
<1> DEFINE seq == [p \in Procs |-> p]
           t == LockFold!Fold(0, 0, 0, s, seq, NR_PROCS)
<1>1. NR_PROCS \in Nat
  BY TablesAssumption
<1>2. lock_revive(s) = t
  <2>1. DOMAIN seq = 1..NR_PROCS
    BY DEF Procs
  <2> HIDE DEF seq
  <2> QED
    BY <2>1 DEF lock_revive, FoldLeft, MapThenFoldSet, Max, LockFold!Fold, ReviveLockStep, seq
<1> HIDE DEF t, seq
<1>3. KeptAfter(0, 0, 0, s, 0, s)
  BY KeptSelf DEF KeptAfter
<1>4. ASSUME NEW k \in 1..NR_PROCS, NEW w, KeptAfter(0, 0, 0, s, k - 1, w)
      PROVE  KeptAfter(0, 0, 0, s, k, ReviveLockStep(0, 0, 0, w, seq[k]))
  <2>1. Kept(w, w, {}) /\ Kept(w, revive(w, seq[k]), {})
    BY <1>4, KeptServer, KeptSelf, ReviveKept DEF KeptAfter
  <2>2. Kept(w, ReviveLockStep(0, 0, 0, w, seq[k]), {})
    BY <2>1 DEF ReviveLockStep
  <2> QED
    BY <1>4, <2>2, KeptTwo DEF KeptAfter
<1>5. KeptAfter(0, 0, 0, s, NR_PROCS, t)
  BY <1>1, <1>3, <1>4, LockFold!FoldHolds DEF t
<1> QED
  BY <1>2, <1>5 DEF KeptAfter

\* A process that is not to be revived, or not any more.
LEMMA UnreviveKept ==
    ASSUME NEW s, NEW p, Server(s)
    PROVE  LET t == [s EXCEPT !.proc[p].revived = FALSE, !.reviving = @ - 1]
           IN Kept(s, t, {}) /\ (p \in Procs => ~t.proc[p].revived)
<1> DEFINE t == [s EXCEPT !.proc[p].revived = FALSE, !.reviving = @ - 1]
<1>1. SlotOnly(s, t, p)
  BY DEF Server, SlotOnly
<1>2. p \in Procs => /\ t.proc[p].blocked_on = s.proc[p].blocked_on
                     /\ t.proc[p].lock = s.proc[p].lock
                     /\ t.proc[p].block_fd = s.proc[p].block_fd
                     /\ ~t.proc[p].revived
  BY DEF Server
<1> HIDE DEF t
<1>3. Kept(s, t, {})
  BY <1>1, <1>2, SlotOnlyKept
<1> QED
  BY <1>2, <1>3 DEF t

LEMMA UnpauseKept ==
    ASSUME NEW s, NEW p \in Procs, Server(s)
    PROVE  Kept(s, unpause(s, p), {}) /\ unpause(s, p).proc[p].blocked_on = "NONE"
<1> DEFINE was == s.proc[p].revived
           why == s.proc[p].blocked_on
           a == [s EXCEPT !.proc[p].revived = FALSE, !.reviving = @ - 1]
           t == IF was THEN a ELSE s
           w == IF why = "SELECT" THEN select_forget(t, p) ELSE t
           u == Unblock(w, p)
           x == [u EXCEPT !.susp_count = @ - 1]
<1>1. Kept(s, t, {}) /\ ~t.proc[p].revived
  <2>1. Kept(s, a, {}) /\ ~a.proc[p].revived
    BY UnreviveKept
  <2> HIDE DEF a
  <2> QED
    BY <2>1, KeptSelf
<1>2. /\ ~fp_is_blocked(s, p) => unpause(s, p) = s
      /\ fp_is_blocked(s, p) => unpause(s, p) \in {u, x}
  BY DEF unpause
<1> HIDE DEF t
<1>3. Kept(s, w, {})
  BY <1>1, ForgetKept, KeptTwo, KeptServer
<1>4. ~w.proc[p].revived
  <2>1. CASE why = "SELECT"
    BY <1>3, <2>1, KeptServer DEF Kept, Napping, Server
  <2> QED
    BY <1>1, <2>1
<1> HIDE DEF w
<1>5. Kept(s, u, {}) /\ u.proc[p].blocked_on = "NONE"
  <2>1. Kept(w, u, {})
    BY <1>3, <1>4, UnblockKept, KeptServer
  <2>2. u.proc[p].blocked_on = "NONE"
    BY <1>3, UnblockSlot, KeptServer
  <2> QED
    BY <1>3, <2>1, <2>2, KeptTwo
<1> HIDE DEF u
<1>6. Kept(s, x, {}) /\ x.proc[p].blocked_on = "NONE"
  <2>1. 0 \notin Procs /\ Server(u)
    BY <1>5, KeptServer DEF Procs
  <2>2. SlotOnly(u, x, 0)
    BY <2>1 DEF Server, SlotOnly
  <2>3. Kept(u, x, {})
    BY <2>1, <2>2, SlotOnlyKept
  <2> QED
    BY <1>5, <2>3, KeptTwo
<1> HIDE DEF x, why
<1>7. ~fp_is_blocked(s, p) => Kept(s, s, {}) /\ s.proc[p].blocked_on = "NONE"
  BY KeptSelf DEF fp_is_blocked
<1> QED
  BY <1>2, <1>5, <1>6, <1>7

-----------------------------------------------------------------------------
(* Filps lose references. *)

\* Filp f loses a reference, and its vnode with the last.
Closed(s, t, f) ==
    /\ Server(t) /\ SameLocks(s, t) /\ Napping(s, t, {}) /\ SameFds(s, t)
    /\ \A g \in Filps : g # f => SameFilp(s, t, g)
    /\ f \in Filps => IF s.filp[f].count > 1
                      THEN t.filp[f].count = s.filp[f].count - 1 /\ t.filp[f].vno = s.filp[f].vno
                      ELSE t.filp[f].count = 0

\* What does not concern the descriptors, the locks and the other filps.
Beside(s, t, f) ==
    /\ Server(t) /\ SameLocks(s, t) /\ Napping(s, t, {}) /\ SameFds(s, t)
    /\ \A g \in Filps : g # f => SameFilp(s, t, g)

LEMMA CountSet ==
    ASSUME NEW s, NEW f, NEW n \in Int, Server(s)
    PROVE  LET t == [s EXCEPT !.filp[f].count = n]
           IN /\ Beside(s, t, f)
              /\ f \in Filps => t.filp[f].count = n /\ t.filp[f].vno = s.filp[f].vno
BY DEF Beside, Server, SameLocks, Napping, SameFds, SameFilp

LEMMA FilpFreed ==
    ASSUME NEW s, NEW f, Server(s)
    PROVE  LET t == [s EXCEPT !.filp[f] = FreeFilp]
           IN Beside(s, t, f) /\ (f \in Filps => t.filp[f].count = 0)
BY DEF Beside, Server, SameLocks, Napping, SameFds, SameFilp, FreeFilp

LEMMA ClosedKept ==
    ASSUME NEW s, NEW t, NEW u, NEW f, Closed(s, t, f), Kept(t, u, {}) PROVE Closed(s, u, f)
BY DEF Closed, Kept, SameLocks, Napping, SameFds, SameFilp

LEMMA KeptClosed ==
    ASSUME NEW s, NEW t, NEW u, NEW f, Kept(s, t, {}), Closed(t, u, f) PROVE Closed(s, u, f)
BY DEF Closed, Kept, SameLocks, Napping, SameFds, SameFilp

LEMMA CloseFilpClosed ==
    ASSUME NEW s, NEW f \in Filps, Server(s) PROVE Closed(s, close_filp(s, f), f)
<1> DEFINE x == s.filp[f].vno
           isPipe == s.vnode[x].pipe
           end == IF R_BIT \in s.filp[f].mode THEN "WRITE" ELSE "READ"
           w == IF isPipe THEN release(s, x, end, NR_PROCS) ELSE s
           less == [w EXCEPT !.filp[f].count = w.filp[f].count - 1]
           free == [w EXCEPT !.filp[f] = FreeFilp]
           cut == IF isPipe THEN truncate_vnode(free, x, free.vnode[x].size) ELSE free
<1>1. close_filp(s, f) = IF w.filp[f].count > 1 THEN less ELSE put_vnode(cut, x)
  BY Zenon DEF close_filp
<1>2. Kept(s, w, {})
  BY ReleaseKept, KeptSelf
<1> HIDE DEF x, isPipe, end, w
<1>3. Server(w) /\ w.filp[f].count - 1 \in Int
  BY <1>2, KeptServer DEF Server
<1>4. Beside(w, less, f) /\ less.filp[f].count = w.filp[f].count - 1 /\ less.filp[f].vno = w.filp[f].vno
  BY <1>3, CountSet
<1>5. Beside(w, free, f) /\ free.filp[f].count = 0
  BY <1>3, FilpFreed
<1> HIDE DEF less, free
<1>6. /\ w.filp[f].count > 1 => Closed(w, less, f)
      /\ ~(w.filp[f].count > 1) => Closed(w, free, f)
  BY <1>4, <1>5 DEF Closed, Beside
<1>7. Kept(free, cut, {})
  BY <1>5, TruncateOutside, OutsideKept, KeptSelf DEF Beside
<1> HIDE DEF cut
<1>8. Kept(free, put_vnode(cut, x), {})
  BY <1>7, PutVnodeOutside, OutsideKept, KeptTwo, KeptServer
<1>9. ~(w.filp[f].count > 1) => Closed(w, put_vnode(cut, x), f)
  BY <1>6, <1>8, ClosedKept
<1> QED
  BY <1>1, <1>2, <1>6, <1>9, KeptClosed

-----------------------------------------------------------------------------
(* Descriptors that come and go. *)

\* Descriptor d of p becomes h.
FdSet(s, t, p, d, h) ==
    /\ t.proc[p].filp[d] = h
    /\ \A x \in Procs \X Fds : x # <<p, d>> => t.proc[x[1]].filp[x[2]] = s.proc[x[1]].filp[x[2]]

LEMMA RefsFinite ==
    ASSUME NEW s, NEW f PROVE IsFiniteSet(Refs(s, f)) /\ At(s, f) \in Nat
<1>1. IsFiniteSet(Procs) /\ IsFiniteSet(Fds)
  BY TablesAssumption, FS_Interval DEF Procs, Fds
<1>2. IsFiniteSet(Procs \X Fds)
  BY <1>1, FS_Product
<1>3. IsFiniteSet(Refs(s, f))
  BY <1>2, FS_Subset DEF Refs
<1> QED
  BY <1>3, FS_CardinalityType DEF At

\* A descriptor that is set to h is one more reference to it.
LEMMA AtSet ==
    ASSUME NEW s, NEW t, NEW p \in Procs, NEW d \in Fds, NEW h,
           FdSet(s, t, p, d, h), s.proc[p].filp[d] # h
    PROVE  /\ At(t, h) = At(s, h) + 1
           /\ At(t, s.proc[p].filp[d]) = At(s, s.proc[p].filp[d]) - 1
           /\ \A g : g # h /\ g # s.proc[p].filp[d] => At(t, g) = At(s, g)
<1> DEFINE f == s.proc[p].filp[d]
           x == <<p, d>>
<1>1. Refs(t, h) = Refs(s, h) \cup {x} /\ x \notin Refs(s, h)
  BY DEF Refs, FdSet
<1>2. Refs(s, f) = Refs(t, f) \cup {x} /\ x \notin Refs(t, f)
  BY DEF Refs, FdSet
<1>3. \A g : g # h /\ g # f => Refs(t, g) = Refs(s, g)
  BY DEF Refs, FdSet
<1>4. At(t, h) = At(s, h) + 1
  BY <1>1, RefsFinite, FS_AddElement DEF At
<1>5. At(s, f) = At(t, f) + 1 /\ At(t, f) \in Nat
  BY <1>2, RefsFinite, FS_AddElement DEF At
<1> QED
  BY <1>3, <1>4, <1>5 DEF At

\* Who has a descriptor on a filp is one of its references.
LEMMA AtLeast ==
    ASSUME NEW s, NEW p \in Procs, NEW d \in Fds
    PROVE  /\ At(s, s.proc[p].filp[d]) >= 1
           /\ \A q \in Procs, e \in Fds :
                 <<q, e>> # <<p, d>> /\ s.proc[q].filp[e] = s.proc[p].filp[d]
                     => At(s, s.proc[p].filp[d]) >= 2
<1> DEFINE f == s.proc[p].filp[d]
           rest == Refs(s, f) \ {<<p, d>>}
<1>1. <<p, d>> \in Refs(s, f)
  BY DEF Refs
<1>2. IsFiniteSet(Refs(s, f)) /\ At(s, f) \in Nat
  BY RefsFinite
<1>3. Cardinality(rest) = At(s, f) - 1 /\ IsFiniteSet(rest)
  BY <1>1, <1>2, FS_RemoveElement DEF At
<1>4. Cardinality(rest) \in Nat /\ (Cardinality(rest) = 0 <=> rest = {})
  BY <1>3, FS_CardinalityType, FS_EmptySet
<1>5. ASSUME NEW q \in Procs, NEW e \in Fds, <<q, e>> # <<p, d>>, s.proc[q].filp[e] = f
      PROVE  At(s, f) >= 2
  <2>1. <<q, e>> \in rest
    BY <1>5 DEF Refs
  <2> QED
    BY <1>2, <1>3, <1>4, <2>1
<1> QED
  BY <1>2, <1>3, <1>4, <1>5

-----------------------------------------------------------------------------
(* A descriptor is closed. *)

\* Descriptor d of p becomes h, and nothing else changes.
Redirected(s, t, p, d, h) ==
    /\ Server(t) /\ SameLocks(s, t) /\ Napping(s, t, {}) /\ FdSet(s, t, p, d, h)
    /\ t.filp = s.filp

LEMMA SlotRedirected ==
    ASSUME NEW s, NEW p \in Procs, NEW d \in Fds, NEW h \in Filps \cup {NULL}, NEW used, Server(s)
    PROVE  Redirected(s, [s EXCEPT !.proc[p] = [@ EXCEPT !.filp[d] = h, !.inuse = used]], p, d, h)
<1> DEFINE rp == [s.proc[p] EXCEPT !.filp[d] = h, !.inuse = used]
           t == [s EXCEPT !.proc[p] = rp]
<1>1. /\ DOMAIN rp = DOMAIN s.proc[p]
      /\ rp.filp \in [Fds -> Filps \cup {NULL}] /\ rp.filp[d] = h
      /\ \A e \in Fds : e # d => rp.filp[e] = s.proc[p].filp[e]
      /\ rp.used = s.proc[p].used /\ rp.revived = s.proc[p].revived
      /\ rp.blocked_on = s.proc[p].blocked_on /\ rp.block_fd = s.proc[p].block_fd
      /\ rp.lock = s.proc[p].lock
  BY DEF Server
<1> HIDE DEF rp
<1>2. /\ DOMAIN t = DOMAIN s /\ DOMAIN t.proc = DOMAIN s.proc
      /\ t.filp = s.filp /\ t.lock = s.lock /\ t.nr_locks = s.nr_locks
      /\ t.susp_count = s.susp_count /\ t.sel = s.sel
      /\ t.proc[p] = rp /\ \A q \in Procs : q # p => t.proc[q] = s.proc[q]
  BY DEF Server
<1> HIDE DEF t
<1>3. Server(t)
  BY <1>1, <1>2 DEF Server
<1>4. FdSet(s, t, p, d, h)
  BY <1>1, <1>2 DEF FdSet
<1>5. Napping(s, t, {})
  BY <1>1, <1>2 DEF Napping
<1>6. Redirected(s, t, p, d, h)
  BY <1>2, <1>3, <1>4, <1>5 DEF Redirected, SameLocks
<1> QED
  BY <1>6 DEF t, rp

LEMMA BareRedirected ==
    ASSUME NEW s, NEW p \in Procs, NEW d \in Fds, NEW h \in Filps \cup {NULL}, Server(s)
    PROVE  Redirected(s, [s EXCEPT !.proc[p] = [@ EXCEPT !.filp[d] = h]], p, d, h)
<1> DEFINE rp == [s.proc[p] EXCEPT !.filp[d] = h]
           t == [s EXCEPT !.proc[p] = rp]
<1>1. /\ DOMAIN rp = DOMAIN s.proc[p]
      /\ rp.filp \in [Fds -> Filps \cup {NULL}] /\ rp.filp[d] = h
      /\ \A e \in Fds : e # d => rp.filp[e] = s.proc[p].filp[e]
      /\ rp.used = s.proc[p].used /\ rp.revived = s.proc[p].revived
      /\ rp.blocked_on = s.proc[p].blocked_on /\ rp.block_fd = s.proc[p].block_fd
      /\ rp.lock = s.proc[p].lock
  BY DEF Server
<1> HIDE DEF rp
<1>2. /\ DOMAIN t = DOMAIN s /\ DOMAIN t.proc = DOMAIN s.proc
      /\ t.filp = s.filp /\ t.lock = s.lock /\ t.nr_locks = s.nr_locks
      /\ t.susp_count = s.susp_count /\ t.sel = s.sel
      /\ t.proc[p] = rp /\ \A q \in Procs : q # p => t.proc[q] = s.proc[q]
  BY DEF Server
<1> HIDE DEF t
<1>3. Server(t)
  BY <1>1, <1>2 DEF Server
<1>4. FdSet(s, t, p, d, h)
  BY <1>1, <1>2 DEF FdSet
<1>5. Napping(s, t, {})
  BY <1>1, <1>2 DEF Napping
<1>6. Redirected(s, t, p, d, h)
  BY <1>2, <1>3, <1>4, <1>5 DEF Redirected, SameLocks
<1> QED
  BY <1>6 DEF t, rp

LEMMA SetFdRedirected ==
    ASSUME NEW s, NEW p \in Procs, NEW d \in Fds, NEW h \in Filps \cup {NULL}, Server(s)
    PROVE  Redirected(s, SetFd(s, p, d, h), p, d, h)
BY SlotRedirected DEF SetFd

LEMMA ClearFdRedirected ==
    ASSUME NEW s, NEW p \in Procs, NEW d \in Fds, Server(s)
    PROVE  Redirected(s, ClearFd(s, p, d), p, d, NULL)
BY SlotRedirected DEF ClearFd

\* The locks of the process on the file are gone with its descriptor.
LEMMA CloseSound ==
    ASSUME NEW s, NEW a, NEW b, NEW e, NEW fly, NEW p \in Procs, NEW d \in Fds, NEW f \in Filps,
           Sound(s, fly), s.proc[p].filp[d] = f, s.proc[p].blocked_on = "NONE",
           Closed(s, a, f), Redirected(a, b, p, d, NULL),
           Server(e), e.proc = b.proc, e.filp = b.filp, Table(e),
           \A l \in Taken(e) : /\ l \in Taken(s) /\ e.lock[l] = s.lock[l]
                               /\ ~(s.lock[l].pid = p /\ s.lock[l].vno = s.filp[f].vno)
    PROVE  Sound(e, fly)
<1>1. f # NULL /\ s.filp[f].count \in Int /\ fly[f] \in Nat
  BY DEF Filps, NULL, Sound, Server, Books
<1>2. \A q \in Procs, c \in Fds : <<q, c>> # <<p, d>> => e.proc[q].filp[c] = s.proc[q].filp[c]
  <2> TAKE q \in Procs, c \in Fds
  <2> HAVE <<q, c>> # <<p, d>>
  <2>1. b.proc[<<q, c>>[1]].filp[<<q, c>>[2]] = a.proc[<<q, c>>[1]].filp[<<q, c>>[2]]
    BY <<q, c>> \in Procs \X Fds DEF Redirected, FdSet
  <2>2. a.proc[q].filp = s.proc[q].filp
    BY DEF Closed, SameFds
  <2> QED
    BY <2>1, <2>2
<1>3. e.proc[p].filp[d] = NULL
  BY DEF Redirected, FdSet
<1>4. FdSet(s, e, p, d, NULL)
  BY <1>2, <1>3 DEF FdSet
<1>5. At(s, f) >= 1 /\ At(s, f) \in Nat /\ At(e, f) = At(s, f) - 1
  BY <1>1, <1>4, AtSet, AtLeast, RefsFinite
<1>6. \A g \in Filps : g # f => At(e, g) = At(s, g) /\ SameFilp(s, e, g)
  <2>1. \A g \in Filps : g # NULL
    BY DEF Filps, NULL
  <2>2. \A g \in Filps : g # f => At(e, g) = At(s, g)
    BY <1>1, <1>4, <2>1, AtSet
  <2> QED
    BY <2>2 DEF Closed, SameFilp, Redirected
<1>7. At(s, f) + fly[f] =< s.filp[f].count
  BY DEF Sound, Books
<1>8. At(s, f) >= 2 \/ s.filp[f].count > 1 => e.filp[f].vno = s.filp[f].vno
  BY <1>1, <1>5, <1>7 DEF Closed, Redirected
<1>9. Books(e, fly)
  <2>1. At(e, f) + fly[f] =< e.filp[f].count
    BY <1>1, <1>5, <1>7 DEF Closed, Redirected
  <2>2. \A g \in Filps : fly[g] \in Nat /\ At(e, g) + fly[g] =< e.filp[g].count
    BY <1>6, <2>1 DEF Sound, Books, SameFilp
  <2>3. \A q \in Procs : e.proc[q].used = s.proc[q].used
    BY DEF Closed, Redirected, Napping
  <2>4. ASSUME NEW q \in Procs, ~e.proc[q].used, NEW c \in Fds PROVE e.proc[q].filp[c] = NULL
    BY <1>2, <1>3, <2>3, <2>4 DEF Sound, Books
  <2> QED
    BY <2>2, <2>4 DEF Books
<1>10. Waiters(e)
  <2> SUFFICES ASSUME NEW q \in Procs, e.proc[q].blocked_on = "LOCK" PROVE Waiter(e, q)
    BY DEF Waiters
  <2>1. /\ s.proc[q].blocked_on = "LOCK" /\ e.proc[q].lock = s.proc[q].lock
        /\ e.proc[q].block_fd = s.proc[q].block_fd
    BY DEF Closed, Redirected, Napping
  <2>2. q # p
    BY <2>1
  <2> QED
    BY <1>2, <2>1, <2>2 DEF Sound, Waiters, Waiter
<1>11. Owned(e)
  <2> SUFFICES ASSUME NEW l \in Taken(e) PROVE HasOpen(e, e.lock[l].pid, e.lock[l].vno)
    BY DEF Owned
  <2> DEFINE q == s.lock[l].pid
             x == s.lock[l].vno
  <2>1. q \in Procs /\ e.lock[l] = s.lock[l] /\ HasOpen(s, q, x)
    BY DEF Sound, Table, Owned
  <2>2. PICK c \in Fds : s.proc[q].filp[c] # NULL /\ s.filp[s.proc[q].filp[c]].vno = x
    BY <2>1 DEF HasOpen
  <2> DEFINE g == s.proc[q].filp[c]
  <2>3. g \in Filps
    BY <2>1, <2>2 DEF Sound, Server
  <2>4. <<q, c>> # <<p, d>>
    BY <2>2
  <2>5. e.proc[q].filp[c] = g
    BY <1>2, <2>1, <2>4
  <2>6. e.filp[g].vno = x
    <3>1. CASE g # f
      BY <1>6, <2>2, <2>3, <3>1 DEF SameFilp
    <3>2. CASE g = f
      <4>1. At(s, f) >= 2
        BY <2>1, <2>4, <3>2, AtLeast
      <4> QED
        BY <1>8, <2>2, <3>2, <4>1
    <3> QED
      BY <3>1, <3>2
  <2>7. e.proc[q].filp[c] # NULL /\ e.filp[e.proc[q].filp[c]].vno = x
    BY <2>2, <2>5, <2>6
  <2>8. HasOpen(e, q, x)
    <3> HIDE DEF q, x
    <3> QED
      BY <2>7 DEF HasOpen
  <2>9. e.lock[l].pid = q /\ e.lock[l].vno = x
    BY <2>1
  <2> HIDE DEF q, x
  <2> QED
    BY <2>8, <2>9
<1> QED
  BY <1>9, <1>10, <1>11 DEF Sound

\* Without some of its locks the table is as good.
Without(s, mine) ==
    [s EXCEPT !.lock = [l \in 1..NR_LOCKS |-> IF l \in mine THEN FreeLock ELSE @[l]],
              !.nr_locks = @ - Cardinality(mine)]

LEMMA TableWithout ==
    ASSUME NEW s, NEW mine \in SUBSET Taken(s), Server(s), Table(s)
    PROVE  LET t == Without(s, mine)
           IN /\ Server(t) /\ Table(t) /\ t.proc = s.proc /\ t.filp = s.filp
              /\ Taken(t) = Taken(s) \ mine
              /\ \A l \in Taken(t) : t.lock[l] = s.lock[l]
<1> DEFINE t == Without(s, mine)
<1>1. /\ Server(t) /\ t.proc = s.proc /\ t.filp = s.filp
      /\ DOMAIN t.lock = Slots
      /\ \A l \in Slots : t.lock[l] = IF l \in mine THEN FreeLock ELSE s.lock[l]
      /\ t.nr_locks = s.nr_locks - Cardinality(mine)
  BY DEF Server, Slots, Without
<1> HIDE DEF t
<1>2. Taken(t) = Taken(s) \ mine
  BY <1>1 DEF Taken, FreeLock
<1>3. \A l \in Taken(t) : t.lock[l] = s.lock[l]
  BY <1>1, <1>2 DEF Taken
<1>4. t.nr_locks = Cardinality(Taken(t))
  <2>0. NR_LOCKS \in Int /\ 1 \in Int
    BY TablesAssumption
  <2>1. IsFiniteSet(Slots)
    BY <2>0, FS_Interval DEF Slots
  <2>2. IsFiniteSet(Taken(s))
    BY <2>1, FS_Subset DEF Taken
  <2>3. IsFiniteSet(mine) /\ IsFiniteSet(Taken(t))
    BY <1>2, <2>2, FS_Subset
  <2>4. Taken(s) = Taken(t) \cup mine /\ Taken(t) \cap mine = {}
    BY <1>2
  <2>5. Cardinality(Taken(s)) = Cardinality(Taken(t)) + Cardinality(mine) - 0
    BY <2>3, <2>4, FS_Union, FS_EmptySet
  <2>6. Cardinality(Taken(t)) \in Nat /\ Cardinality(mine) \in Nat
    BY <2>3, FS_CardinalityType
  <2> QED
    BY <1>1, <2>5, <2>6 DEF Table
<1>5. Table(t)
  <2>1. \A l \in Slots : /\ {"type", "pid", "vno", "first", "last"} \subseteq DOMAIN t.lock[l]
                         /\ t.lock[l].first \in Int /\ t.lock[l].last \in Int
    BY <1>1 DEF Table, FreeLock
  <2>2. \A l \in Taken(t) : t.lock[l].pid \in Procs /\ t.lock[l].first =< t.lock[l].last
    BY <1>2, <1>3 DEF Table
  <2>3. \A l, m \in Taken(t) : Apart(t.lock[l], t.lock[m])
    BY <1>2, <1>3 DEF Table
  <2>4. \A l \in Slots \ Taken(t) : t.lock[l].pid = 0
    BY <1>1, <1>2 DEF Table, FreeLock
  <2> QED
    BY <1>1, <1>4, <2>1, <2>2, <2>3, <2>4 DEF Table
<1> QED
  BY <1>1, <1>2, <1>3, <1>5 DEF t

LEMMA CloseFdSound ==
    ASSUME NEW s, NEW fly, NEW p \in Procs, NEW d \in Fds,
           Sound(s, fly), s.proc[p].blocked_on = "NONE"
    PROVE  LET t == close_fd(s, p, d)
           IN Sound(t, fly) /\ Napping(s, t, {}) /\ FdSet(s, t, p, d, NULL)
<1> DEFINE f == s.proc[p].filp[d]
           a == close_filp(s, f)
           b == ClearFd(a, p, d)
           mine == {l \in 1..NR_LOCKS : b.lock[l].vno = s.filp[f].vno /\ b.lock[l].pid = p}
           e == Without(b, mine)
           t == close_fd(s, p, d)
<1>1. t = IF f = NULL THEN Ret(s, EBADF) ELSE Ret(IF mine = {} THEN b ELSE lock_revive(e), OK)
  BY Zenon DEF close_fd, get_filp2, Without
<1>2. Server(s)
  BY DEF Sound
<1>3. CASE f = NULL
  <2>1. Kept(s, Ret(s, EBADF), {})
    BY <1>2, RetOutside, OutsideKept
  <2>2. FdSet(s, Ret(s, EBADF), p, d, NULL)
    BY <1>3 DEF FdSet, Ret
  <2> HIDE DEF f
  <2> QED
    BY <1>1, <1>3, <2>1, <2>2, KeptSound DEF Kept
<1>4. CASE f # NULL
  <2>0. s.proc[p].filp[d] = f
    OBVIOUS
  <2>1. f \in Filps
    BY <1>2, <1>4 DEF Server
  <2>2. Closed(s, a, f)
    BY <1>2, <2>1, CloseFilpClosed
  <2> HIDE DEF a
  <2>3. Redirected(a, b, p, d, NULL)
    BY <2>2, ClearFdRedirected DEF Closed
  <2> HIDE DEF b
  <2>4. Server(b) /\ b.lock = s.lock /\ b.nr_locks = s.nr_locks
    BY <2>2, <2>3 DEF Closed, Redirected, SameLocks
  <2>5. Table(b) /\ Taken(b) = Taken(s)
    BY <2>4 DEF Sound, Table, Taken
  <2>6. mine \in SUBSET Taken(b)
    <3>1. p # 0
      BY DEF Procs
    <3> QED
      BY <2>5, <3>1 DEF Table, Slots
  <2>7. FdSet(s, b, p, d, NULL) /\ Napping(s, b, {})
    <3>1. FdSet(s, b, p, d, NULL)
      BY <2>2, <2>3 DEF Closed, Redirected, SameFds, FdSet
    <3>2. Napping(s, b, {})
      BY <2>2, <2>3 DEF Closed, Redirected, Napping
    <3> QED
      BY <3>1, <3>2
  <2>8. CASE mine = {}
    <3>1. \A l \in Taken(b) : /\ l \in Taken(s) /\ b.lock[l] = s.lock[l]
                              /\ ~(s.lock[l].pid = p /\ s.lock[l].vno = s.filp[f].vno)
      BY <2>4, <2>5, <2>8 DEF Taken, Slots
    <3> HIDE DEF f, mine, e, t
    <3>2. Sound(b, fly)
      BY <2>0, <2>1, <2>2, <2>3, <2>4, <2>5, <3>1, CloseSound
    <3>3. Kept(b, Ret(b, OK), {})
      BY <2>4, RetOutside, OutsideKept
    <3>4. Sound(Ret(b, OK), fly) /\ Napping(s, Ret(b, OK), {}) /\ FdSet(s, Ret(b, OK), p, d, NULL)
      <4>1. Sound(Ret(b, OK), fly)
        BY <3>2, <3>3, KeptSound
      <4>2. Napping(s, Ret(b, OK), {}) /\ FdSet(s, Ret(b, OK), p, d, NULL)
        BY <2>7 DEF Ret, Napping, FdSet
      <4> QED
        BY <4>1, <4>2
    <3> QED
      BY <1>1, <1>4, <2>8, <3>4 DEF t
  <2>9. CASE mine # {}
    <3> HIDE DEF mine, f, t
    <3>1. /\ Server(e) /\ Table(e) /\ e.proc = b.proc /\ e.filp = b.filp
          /\ Taken(e) = Taken(b) \ mine
          /\ \A l \in Taken(e) : e.lock[l] = b.lock[l]
      BY <2>4, <2>5, <2>6, TableWithout
    <3> HIDE DEF e
    <3>2. \A l \in Taken(e) : /\ l \in Taken(s) /\ e.lock[l] = s.lock[l]
                              /\ ~(s.lock[l].pid = p /\ s.lock[l].vno = s.filp[f].vno)
      BY <2>4, <2>5, <3>1 DEF Taken, Slots, mine
    <3>3. Sound(e, fly)
      BY <2>0, <2>1, <2>2, <2>3, <3>1, <3>2, CloseSound
    <3> DEFINE u == Ret(lock_revive(e), OK)
    <3>4. Kept(e, u, {})
      BY <3>1, LockReviveKept, RetOutside, OutsideKept, KeptTwo, KeptServer
    <3> HIDE DEF u
    <3>5. Sound(u, fly)
      BY <3>3, <3>4, KeptSound
    <3>6. Napping(s, u, {}) /\ FdSet(s, u, p, d, NULL)
      BY <2>7, <3>1, <3>4 DEF Kept, SameFds, FdSet, Napping
    <3> QED
      BY <1>1, <1>4, <2>9, <3>5, <3>6 DEF t, u
  <2> QED
    BY <2>8, <2>9
<1> QED
  BY <1>3, <1>4

-----------------------------------------------------------------------------
(* Descriptors are made. *)

\* Descriptors may be added, each with its reference; filps in use keep their
\* vnodes.
Grown(s, t, P) ==
    /\ Server(t) /\ SameLocks(s, t) /\ Napping(s, t, P)
    /\ \A q \in Procs, e \in Fds : s.proc[q].filp[e] # NULL \/ ~s.proc[q].used
                                      => t.proc[q].filp[e] = s.proc[q].filp[e]
    /\ \A g \in Filps : /\ At(t, g) - At(s, g) =< t.filp[g].count - s.filp[g].count
                        /\ s.filp[g].count > 0 => t.filp[g].vno = s.filp[g].vno

LEMMA GrownSound ==
    ASSUME NEW s, NEW t, NEW P, NEW fly, Sound(s, fly), Grown(s, t, P)
    PROVE  Sound(t, fly)
<1>1. \A g \in Filps : /\ At(s, g) \in Nat /\ At(t, g) \in Nat /\ fly[g] \in Nat
                       /\ s.filp[g].count \in Int /\ t.filp[g].count \in Int
  BY RefsFinite DEF Sound, Server, Books, Grown
<1>2. Books(t, fly)
  <2>1. ASSUME NEW g \in Filps PROVE fly[g] \in Nat /\ At(t, g) + fly[g] =< t.filp[g].count
    <3>1. At(s, g) + fly[g] =< s.filp[g].count
      BY DEF Sound, Books
    <3>2. At(t, g) - At(s, g) =< t.filp[g].count - s.filp[g].count
      BY DEF Grown
    <3> QED
      BY <1>1, <3>1, <3>2
  <2>2. ASSUME NEW q \in Procs, ~t.proc[q].used, NEW e \in Fds PROVE t.proc[q].filp[e] = NULL
    BY <2>2 DEF Sound, Books, Grown, Napping
  <2> QED
    BY <2>1, <2>2 DEF Books
<1>3. Waiters(t)
  <2> SUFFICES ASSUME NEW q \in Procs, t.proc[q].blocked_on = "LOCK" PROVE Waiter(t, q)
    BY DEF Waiters
  <2>1. /\ s.proc[q].blocked_on = "LOCK" /\ t.proc[q].lock = s.proc[q].lock
        /\ t.proc[q].block_fd = s.proc[q].block_fd
    BY DEF Grown, Napping
  <2> QED
    BY <2>1 DEF Sound, Waiters, Waiter, Grown
<1>4. Table(t) /\ Taken(t) = Taken(s) /\ t.lock = s.lock
  BY DEF Sound, Table, Taken, Apart, Grown, SameLocks
<1>5. Owned(t)
  <2> SUFFICES ASSUME NEW l \in Taken(s) PROVE HasOpen(t, s.lock[l].pid, s.lock[l].vno)
    BY <1>4 DEF Owned
  <2> DEFINE q == s.lock[l].pid
             x == s.lock[l].vno
  <2>1. q \in Procs /\ HasOpen(s, q, x)
    BY DEF Sound, Table, Owned
  <2>2. PICK c \in Fds : s.proc[q].filp[c] # NULL /\ s.filp[s.proc[q].filp[c]].vno = x
    BY <2>1 DEF HasOpen
  <2> DEFINE g == s.proc[q].filp[c]
  <2>3. g \in Filps
    BY <2>1, <2>2 DEF Sound, Server
  <2>4. At(s, g) >= 1
    BY <2>1, AtLeast
  <2> HIDE DEF q
  <2>5. s.filp[g].count > 0
    <3>1. At(s, g) + fly[g] =< s.filp[g].count
      BY <2>3 DEF Sound, Books
    <3> HIDE DEF g
    <3> QED
      BY <1>1, <2>3, <2>4, <3>1
  <2>6. t.proc[q].filp[c] = g /\ t.filp[g].vno = x
    BY <2>1, <2>2, <2>3, <2>5 DEF Grown
  <2> QED
    BY <2>2, <2>6 DEF HasOpen, q
<1> QED
  BY <1>2, <1>3, <1>4, <1>5 DEF Sound, Grown

LEMMA GrownKept ==
    ASSUME NEW s, NEW t, NEW u, NEW P, Grown(s, t, P), Kept(t, u, {}) PROVE Grown(s, u, P)
<1>1. \A g \in Filps : At(u, g) = At(t, g)
  BY DEF Kept, SameFds, At, Refs
<1>2. Server(u) /\ SameLocks(s, u) /\ Napping(s, u, P)
  BY DEF Grown, Kept, SameLocks, Napping
<1> QED
  BY <1>1, <1>2 DEF Grown, Kept, SameFds, SameFilp

\* A descriptor for h, of a process that had not that descriptor.
LEMMA GrownByOne ==
    ASSUME NEW s, NEW t, NEW P, NEW p \in Procs, NEW d \in Fds, NEW h \in Filps,
           Server(s), Server(t), SameLocks(s, t), Napping(s, t, P), FdSet(s, t, p, d, h),
           s.proc[p].filp[d] = NULL, s.proc[p].used,
           s.filp[h].count < t.filp[h].count,
           \A g \in Filps : g # h => s.filp[g].count =< t.filp[g].count,
           \A g \in Filps : s.filp[g].count > 0 => t.filp[g].vno = s.filp[g].vno
    PROVE  Grown(s, t, P)
<1>1. \A g \in Filps : /\ At(s, g) \in Nat /\ s.filp[g].count \in Int /\ t.filp[g].count \in Int
                       /\ g # NULL
  BY RefsFinite DEF Server, Filps, NULL
<1>2. At(t, h) = At(s, h) + 1
  BY <1>1, AtSet
<1>3. \A g \in Filps : g # h => At(t, g) = At(s, g)
  BY <1>1, AtSet
<1>4. \A q \in Procs, e \in Fds : s.proc[q].filp[e] # NULL \/ ~s.proc[q].used
                                     => t.proc[q].filp[e] = s.proc[q].filp[e]
  <2> TAKE q \in Procs, e \in Fds
  <2> HAVE s.proc[q].filp[e] # NULL \/ ~s.proc[q].used
  <2>1. <<q, e>> \in Procs \X Fds /\ <<q, e>> # <<p, d>>
    OBVIOUS
  <2>2. t.proc[<<q, e>>[1]].filp[<<q, e>>[2]] = s.proc[<<q, e>>[1]].filp[<<q, e>>[2]]
    BY <2>1 DEF FdSet
  <2> QED
    BY <2>2
<1>5. \A g \in Filps : At(t, g) - At(s, g) =< t.filp[g].count - s.filp[g].count
  BY <1>1, <1>2, <1>3
<1> QED
  BY <1>4, <1>5 DEF Grown

\* None.
LEMMA GrownByNone ==
    ASSUME NEW s, NEW t, NEW P,
           Server(s), Server(t), SameLocks(s, t), Napping(s, t, P),
           \A q \in Procs, e \in Fds : t.proc[q].filp[e] = s.proc[q].filp[e],
           \A g \in Filps : /\ s.filp[g].count =< t.filp[g].count
                            /\ s.filp[g].count > 0 => t.filp[g].vno = s.filp[g].vno
    PROVE  Grown(s, t, P)
<1>1. \A g \in Filps : /\ At(s, g) \in Nat /\ s.filp[g].count \in Int /\ t.filp[g].count \in Int
  BY RefsFinite DEF Server
<1>2. \A g \in Filps : At(t, g) = At(s, g)
  BY DEF At, Refs
<1>3. \A g \in Filps : At(t, g) - At(s, g) =< t.filp[g].count - s.filp[g].count
  BY <1>1, <1>2
<1> QED
  BY <1>3 DEF Grown

\* A free descriptor and a free filp.
LEMMA GetFdFree ==
    ASSUME NEW s, NEW p, NEW start \in Nat, get_fd(s, p, start).r = OK
    PROVE  LET g == get_fd(s, p, start)
           IN /\ g.fd \in Fds /\ s.proc[p].filp[g.fd] = NULL
              /\ g.f \in Filps /\ s.filp[g.f].count = 0
<1> DEFINE ds == {d \in start..(OPEN_MAX - 1) :
                    s.proc[p].filp[d] = NULL /\ d \notin s.proc[p].inuse}
           fs == {f \in Filps : s.filp[f].count = 0}
           g == get_fd(s, p, start)
<1>1. g = IF ds = {} THEN [r |-> EMFILE]
          ELSE IF fs = {} THEN [r |-> ENFILE]
          ELSE [r |-> OK, fd |-> Min(ds), f |-> Min(fs)]
  BY DEF get_fd
<1>2. ds \in SUBSET Nat /\ ds \in SUBSET Fds /\ fs \in SUBSET Nat
  BY TablesAssumption DEF Fds, Filps
<1>3. EMFILE # OK /\ ENFILE # OK
  BY DEF EMFILE, ENFILE, OK
<1> HIDE DEF ds, fs, g
<1>4. ds # {} /\ fs # {} /\ g.fd = Min(ds) /\ g.f = Min(fs)
  BY <1>1, <1>3 DEF g
<1>5. g.fd \in ds /\ g.f \in fs
  BY <1>2, <1>4, MinIs
<1>6. g.fd \in Fds /\ s.proc[p].filp[g.fd] = NULL /\ g.f \in Filps /\ s.filp[g.f].count = 0
  BY <1>2, <1>5 DEF ds, fs
<1> QED
  BY <1>6 DEF g

\* Descriptor d is of filp f, which was free, or of another that was open.
Holding(s, t, p, d, f, P) ==
    /\ Server(t) /\ SameLocks(s, t) /\ Napping(s, t, P)
    /\ \A q \in Procs, e \in Fds : <<q, e>> # <<p, d>> => t.proc[q].filp[e] = s.proc[q].filp[e]
    /\ \A g \in Filps : g # f => s.filp[g].count =< t.filp[g].count /\ t.filp[g].vno = s.filp[g].vno
    /\ \E h \in Filps : /\ t.proc[p].filp[d] = h
                        /\ IF h = f THEN t.filp[f].count = 1
                           ELSE t.filp[f].count = 0 /\ s.filp[h].count < t.filp[h].count

LEMMA HoldingGrown ==
    ASSUME NEW s, NEW t, NEW p \in Procs, NEW d \in Fds, NEW f \in Filps, NEW P,
           Server(s), Holding(s, t, p, d, f, P),
           s.proc[p].filp[d] = NULL, s.proc[p].used, s.filp[f].count = 0
    PROVE  Grown(s, t, P)
<1>1. PICK h \in Filps : /\ t.proc[p].filp[d] = h
                         /\ IF h = f THEN t.filp[f].count = 1
                            ELSE t.filp[f].count = 0 /\ s.filp[h].count < t.filp[h].count
  BY DEF Holding
<1>2. FdSet(s, t, p, d, h)
  BY <1>1 DEF Holding, FdSet
<1>3. s.filp[h].count < t.filp[h].count
  BY <1>1
<1>4. \A g \in Filps : g # h => s.filp[g].count =< t.filp[g].count
  BY <1>1 DEF Holding
<1>5. \A g \in Filps : s.filp[g].count > 0 => t.filp[g].vno = s.filp[g].vno
  BY DEF Holding
<1> QED
  BY <1>1, <1>2, <1>3, <1>4, <1>5, GrownByOne DEF Holding

\* A failed open gives both back.
LEMMA UndoneGrown ==
    ASSUME NEW s, NEW t, NEW p \in Procs, NEW d \in Fds, NEW f \in Filps, NEW P,
           Server(s), Holding(s, t, p, d, f, P),
           s.proc[p].filp[d] = NULL, s.filp[f].count = 0
    PROVE  Grown(s, ClearFd([t EXCEPT !.filp[f] = FreeFilp], p, d), P)
<1> DEFINE a == [t EXCEPT !.filp[f] = FreeFilp]
           b == ClearFd(a, p, d)
<1>1. Beside(t, a, f) /\ a.filp[f].count = 0
  BY FilpFreed DEF Holding
<1> HIDE DEF a
<1>2. Redirected(a, b, p, d, NULL)
  BY <1>1, ClearFdRedirected DEF Beside
<1> HIDE DEF b
<1>3. Server(b) /\ SameLocks(s, b)
  BY <1>1, <1>2 DEF Beside, Redirected, SameLocks, Holding
<1>4. Napping(s, b, P)
  BY <1>1, <1>2 DEF Beside, Redirected, Napping, Holding
<1>5. \A q \in Procs, e \in Fds : b.proc[q].filp[e] = s.proc[q].filp[e]
  <2> TAKE q \in Procs, e \in Fds
  <2>1. a.proc[q].filp = t.proc[q].filp
    BY <1>1 DEF Beside, SameFds
  <2>2. CASE <<q, e>> = <<p, d>>
    BY <1>2, <2>2 DEF Redirected, FdSet
  <2>3. CASE <<q, e>> # <<p, d>>
    <3>1. b.proc[<<q, e>>[1]].filp[<<q, e>>[2]] = a.proc[<<q, e>>[1]].filp[<<q, e>>[2]]
      BY <1>2, <2>3, <<q, e>> \in Procs \X Fds DEF Redirected, FdSet
    <3> QED
      BY <2>1, <2>3, <3>1 DEF Holding
  <2> QED
    BY <2>2, <2>3
<1>6. \A g \in Filps : /\ s.filp[g].count =< b.filp[g].count
                       /\ s.filp[g].count > 0 => b.filp[g].vno = s.filp[g].vno
  <2> TAKE g \in Filps
  <2>1. b.filp[g] = a.filp[g]
    BY <1>2 DEF Redirected
  <2>2. CASE g = f
    BY <1>1, <2>1, <2>2
  <2>3. CASE g # f
    BY <1>1, <2>1, <2>3 DEF Beside, SameFilp, Holding
  <2> QED
    BY <2>2, <2>3
<1>7. Grown(s, b, P)
  BY <1>3, <1>4, <1>5, <1>6, GrownByNone
<1> QED
  BY <1>7 DEF a, b

LEMMA HoldingKept ==
    ASSUME NEW s, NEW t, NEW u, NEW p \in Procs, NEW d, NEW f \in Filps, NEW P, NEW Q,
           Holding(s, t, p, d, f, P), Kept(t, u, Q)
    PROVE  Holding(s, u, p, d, f, P \cup Q)
<1>1. Server(u) /\ SameLocks(s, u)
  BY DEF Holding, Kept, SameLocks
<1>2. Napping(s, u, P \cup Q)
  BY DEF Holding, Kept, Napping
<1>3. \A q \in Procs : u.proc[q].filp = t.proc[q].filp
  BY DEF Kept, SameFds
<1>4. \A g \in Filps : u.filp[g].count = t.filp[g].count /\ u.filp[g].vno = t.filp[g].vno
  BY DEF Kept, SameFilp
<1> QED
  BY <1>1, <1>2, <1>3, <1>4 DEF Holding

LEMMA FilpReplaced ==
    ASSUME NEW s, NEW f \in Filps, NEW rec, {"count", "vno"} \subseteq DOMAIN rec, rec.count \in Int,
           Server(s)
    PROVE  LET t == [s EXCEPT !.filp[f] = rec]
           IN Beside(s, t, f) /\ t.filp[f] = rec
BY DEF Beside, Server, SameLocks, Napping, SameFds, SameFilp

LEMMA ClaimHolding ==
    ASSUME NEW s, NEW p \in Procs, NEW d \in Fds, NEW f \in Filps, NEW rec,
           {"count", "vno"} \subseteq DOMAIN rec, rec.count = 1, Server(s)
    PROVE  Holding(s, [SetFd(s, p, d, f) EXCEPT !.filp[f] = rec], p, d, f, {})
<1> DEFINE a == SetFd(s, p, d, f)
           c == [a EXCEPT !.filp[f] = rec]
<1>1. Redirected(s, a, p, d, f)
  BY SetFdRedirected
<1> HIDE DEF a
<1>2. Beside(a, c, f) /\ c.filp[f] = rec
  BY <1>1, FilpReplaced DEF Redirected
<1> HIDE DEF c
<1>3. Server(c) /\ SameLocks(s, c) /\ Napping(s, c, {})
  BY <1>1, <1>2 DEF Beside, Redirected, SameLocks, Napping
<1>4. \A q \in Procs, e \in Fds : <<q, e>> # <<p, d>> => c.proc[q].filp[e] = s.proc[q].filp[e]
  <2> TAKE q \in Procs, e \in Fds
  <2> HAVE <<q, e>> # <<p, d>>
  <2>1. a.proc[<<q, e>>[1]].filp[<<q, e>>[2]] = s.proc[<<q, e>>[1]].filp[<<q, e>>[2]]
    BY <1>1, <<q, e>> \in Procs \X Fds DEF Redirected, FdSet
  <2> QED
    BY <1>2, <2>1 DEF Beside, SameFds
<1>5. c.proc[p].filp[d] = f
  BY <1>1, <1>2 DEF Beside, SameFds, Redirected, FdSet
<1>6. \A g \in Filps : g # f => s.filp[g].count =< c.filp[g].count /\ c.filp[g].vno = s.filp[g].vno
  BY <1>1, <1>2 DEF Beside, SameFilp, Redirected, Server
<1>7. Holding(s, c, p, d, f, {})
  BY <1>2, <1>3, <1>4, <1>5, <1>6 DEF Holding
<1> QED
  BY <1>7 DEF c, a

\* Who opens a FIFO as another has it open shares that filp.
Shared(t, p, d, f, f2, nonblock) ==
    [SetFd([t EXCEPT !.filp[f] = FreeFilp], p, d, f2)
        EXCEPT !.filp[f2].count = @ + 1, !.filp[f2].nonblock = nonblock]

LEMMA SharedHolding ==
    ASSUME NEW s, NEW t, NEW p \in Procs, NEW d \in Fds, NEW f \in Filps, NEW P, NEW nonblock,
           NEW f2 \in Filps, Server(s), Holding(s, t, p, d, f, P), s.filp[f].count = 0,
           t.proc[p].filp[d] = f, f2 # f
    PROVE  Holding(s, Shared(t, p, d, f, f2, nonblock), p, d, f, P)
<1> DEFINE a == [t EXCEPT !.filp[f] = FreeFilp]
           b == SetFd(a, p, d, f2)
           rec == [b.filp[f2] EXCEPT !.count = @ + 1, !.nonblock = nonblock]
           c == [b EXCEPT !.filp[f2] = rec]
           c0 == [b EXCEPT !.filp[f2].count = @ + 1, !.filp[f2].nonblock = nonblock]
<1>1. Beside(t, a, f) /\ a.filp[f].count = 0
  <2>1. Server(t)
    BY DEF Holding
  <2> QED
    BY <2>1, FilpFreed
<1> HIDE DEF a
<1>2. Redirected(a, b, p, d, f2)
  BY <1>1, SetFdRedirected DEF Beside
<1> HIDE DEF b
<1>3. {"count", "vno"} \subseteq DOMAIN rec /\ rec.count = b.filp[f2].count + 1
      /\ rec.vno = b.filp[f2].vno /\ rec.count \in Int /\ b.filp[f2].count \in Int
  BY <1>2 DEF Redirected, Server
<1>4. c0 = c
  BY <1>2 DEF Redirected, Server
<1> HIDE DEF rec, c0
<1>5. Beside(b, c, f2) /\ c.filp[f2] = rec
  <2>1. Server(b)
    BY <1>2 DEF Redirected
  <2>2. f2 \in Filps /\ {"count", "vno"} \subseteq DOMAIN rec /\ rec.count \in Int
    BY <1>3
  <2> QED
    BY <2>1, <2>2, FilpReplaced
<1> HIDE DEF c
<1>6. Server(c) /\ SameLocks(s, c)
  BY <1>1, <1>2, <1>5 DEF Beside, Redirected, SameLocks, Holding
<1>7. Napping(s, c, P)
  <2>1. Napping(s, t, P) /\ Napping(t, a, {}) /\ Napping(a, b, {}) /\ Napping(b, c, {})
    BY <1>1, <1>2, <1>5 DEF Beside, Redirected, Holding
  <2>2. Napping(s, a, P)
    BY <2>1 DEF Napping
  <2>3. Napping(s, b, P)
    BY <2>1, <2>2 DEF Napping
  <2> QED
    BY <2>1, <2>3 DEF Napping
<1>8. \A q \in Procs, e \in Fds : <<q, e>> # <<p, d>> => c.proc[q].filp[e] = s.proc[q].filp[e]
  <2> TAKE q \in Procs, e \in Fds
  <2> HAVE <<q, e>> # <<p, d>>
  <2>1. b.proc[<<q, e>>[1]].filp[<<q, e>>[2]] = a.proc[<<q, e>>[1]].filp[<<q, e>>[2]]
    BY <1>2, <<q, e>> \in Procs \X Fds DEF Redirected, FdSet
  <2>2. c.proc[q].filp = b.proc[q].filp /\ a.proc[q].filp = t.proc[q].filp
    BY <1>1, <1>5 DEF Beside, SameFds
  <2>3. t.proc[q].filp[e] = s.proc[q].filp[e]
    BY DEF Holding
  <2> QED
    BY <2>1, <2>2, <2>3
<1>9. c.proc[p].filp[d] = f2
  BY <1>2, <1>5 DEF Beside, SameFds, Redirected, FdSet
<1>10. \A g \in Filps : g # f2 => c.filp[g].count = a.filp[g].count /\ c.filp[g].vno = a.filp[g].vno
  BY <1>2, <1>5 DEF Beside, SameFilp, Redirected
<1>11. \A g \in Filps : g # f => /\ a.filp[g].count = t.filp[g].count /\ a.filp[g].vno = t.filp[g].vno
                                 /\ s.filp[g].count =< t.filp[g].count /\ t.filp[g].vno = s.filp[g].vno
                                 /\ s.filp[g].count \in Int /\ t.filp[g].count \in Int
  BY <1>1 DEF Beside, SameFilp, Holding, Server
<1>12. c.filp[f2].count = a.filp[f2].count + 1 /\ c.filp[f2].vno = a.filp[f2].vno
  BY <1>2, <1>3, <1>5 DEF Redirected
<1>13. s.filp[f2].count < c.filp[f2].count /\ c.filp[f2].vno = s.filp[f2].vno
  BY <1>11, <1>12
<1>14. \A g \in Filps : g # f => s.filp[g].count =< c.filp[g].count /\ c.filp[g].vno = s.filp[g].vno
  <2> TAKE g \in Filps
  <2> HAVE g # f
  <2>1. CASE g = f2
    BY <1>11, <1>12, <2>1
  <2>2. CASE g # f2
    BY <1>10, <1>11, <2>2
  <2> QED
    BY <2>1, <2>2
<1>15. c.filp[f].count = 0
  BY <1>1, <1>10
<1>16. Holding(s, c, p, d, f, P)
  BY <1>6, <1>7, <1>8, <1>9, <1>13, <1>14, <1>15 DEF Holding
<1> QED
  BY <1>4, <1>16 DEF a, b, c, c0, Shared

LEMMA FindFilp ==
    ASSUME NEW s, NEW x, NEW bit, find_filp(s, x, bit) # NULL
    PROVE  find_filp(s, x, bit) \in Filps /\ s.filp[find_filp(s, x, bit)].count # 0
<1> DEFINE fs == FilpsOf(s, x, bit)
<1>1. fs \in SUBSET Nat
  BY DEF FilpsOf, Filps
<1>2. fs # {} /\ find_filp(s, x, bit) = Min(fs)
  <2>1. find_filp(s, x, bit) = IF fs = {} THEN NULL ELSE Min(fs)
    BY DEF find_filp
  <2> HIDE DEF fs
  <2> QED
    BY <2>1
<1>3. Min(fs) \in fs
  BY <1>1, <1>2, MinIs
<1> QED
  BY <1>2, <1>3 DEF FilpsOf

LEMMA OpenersKept ==
    ASSUME NEW s, NEW x, Server(s) PROVE Kept(s, release_openers(s, x), {})
<1> DEFINE t == release(s, x, "OPEN", s.susp_count)
           u == release(t, x, "CREAT", t.susp_count)
<1>1. release_openers(s, x) \in {s, u}
  BY DEF release_openers
<1>2. Kept(s, t, {}) /\ Kept(s, s, {})
  BY ReleaseKept, KeptSelf
<1> HIDE DEF t
<1>3. Kept(s, u, {})
  BY <1>2, ReleaseKept, KeptTwo, KeptServer
<1> HIDE DEF u
<1> QED
  BY <1>1, <1>2, <1>3

LEMMA PipeOpenKept ==
    ASSUME NEW s, NEW p \in Procs, NEW call, NEW d, NEW x, NEW o,
           Server(s), s.proc[p].blocked_on = "NONE"
    PROVE  Kept(s, pipe_open(s, p, call, d, x, o), {p})
<1> DEFINE b == release_openers(s, x)
           w == suspend(s, p, "POPEN", call, d, 0, <<>>)
<1>1. pipe_open(s, p, call, d, x, o) \in {Ret(s, ENXIO), Ret(b, OK), w, Ret(s, OK)}
  BY DEF pipe_open
<1> HIDE DEF b
<1>2. \A r : Kept(s, Ret(s, r), {}) /\ Kept(s, Ret(b, r), {})
  <2>1. Kept(s, b, {})
    BY OpenersKept DEF b
  <2> QED
    BY <2>1, RetOutside, OutsideKept, KeptTwo, KeptServer
<1>3. ~s.proc[p].revived
  BY DEF Server
<1>4. Kept(s, w, {p})
  BY <1>3, SuspendKept
<1> HIDE DEF w
<1> QED
  BY <1>1, <1>2, <1>4, KeptWider

\* What nobody notices who only has to do with descriptors and locks.
LEMMA HoldingOutside ==
    ASSUME NEW s, NEW t, NEW u, NEW p \in Procs, NEW d, NEW f \in Filps, NEW P,
           Holding(s, t, p, d, f, P), Kept(t, u, {})
    PROVE  Holding(s, u, p, d, f, P)
<1>1. Holding(s, u, p, d, f, P \cup {}) /\ P \cup {} = P
  BY HoldingKept
<1> QED
  BY <1>1

LEMMA EmptyOutside ==
    ASSUME NEW s, NEW x PROVE Outside(s, empty_fifo(s, x))
<1> DEFINE alone == [s EXCEPT !.vnode[x].rd = 0, !.vnode[x].wr = 0]
<1>1. Outside(s, alone) /\ Outside(s, s)
  BY DEF Outside
<1>2. empty_fifo(s, x) \in {s, truncate_vnode(alone, x, 0), alone}
  BY DEF empty_fifo
<1> HIDE DEF alone
<1>3. Outside(s, truncate_vnode(alone, x, 0))
  BY <1>1, TruncateOutside, OutsideMore
<1> QED
  BY <1>1, <1>2, <1>3

LEMMA ShareHolding ==
    ASSUME NEW s, NEW t, NEW p \in Procs, NEW d \in Fds, NEW f \in Filps, NEW P, NEW x, NEW o,
           Server(s), Holding(s, t, p, d, f, P), s.filp[f].count = 0, t.proc[p].filp[d] = f
    PROVE  Holding(s, share_filp(t, p, d, f, x, o), p, d, f, P)
<1> DEFINE aside == [t EXCEPT !.filp[f] = FreeFilp]
           f2 == find_filp(aside, x, IF R_BIT \in o.acc THEN R_BIT ELSE W_BIT)
           shared == Shared(t, p, d, f, f2, o.nonblock)
<1>1. share_filp(t, p, d, f, x, o) = IF t.r = ENXIO \/ f2 = NULL THEN t ELSE put_vnode(shared, x)
  BY DEF share_filp, Shared
<1>2. aside.filp[f].count = 0
  <2>1. Server(t)
    BY DEF Holding
  <2> QED
    BY <2>1, FilpFreed
<1>3. CASE f2 = NULL
  BY <1>1, <1>3
<1>4. CASE f2 # NULL
  <2>1. f2 \in Filps /\ f2 # f
    <3> HIDE DEF aside
    <3> QED
      BY <1>2, <1>4, FindFilp
  <2> HIDE DEF f2
  <2>2. Holding(s, shared, p, d, f, P)
    BY <2>1, SharedHolding
  <2> HIDE DEF shared
  <2>3. Kept(shared, put_vnode(shared, x), {})
    BY <2>2, PutVnodeOutside, OutsideKept DEF Holding
  <2>4. Holding(s, put_vnode(shared, x), p, d, f, P)
    BY <2>2, <2>3, HoldingOutside
  <2> QED
    BY <1>1, <1>4, <2>4
<1> QED
  BY <1>3, <1>4

LEMMA OpenFifoHolding ==
    ASSUME NEW s, NEW c, NEW p \in Procs, NEW call, NEW d \in Fds, NEW f \in Filps, NEW x, NEW o,
           Server(s), Holding(s, c, p, d, f, {}), s.filp[f].count = 0, c.proc[p].filp[d] = f,
           s.proc[p].blocked_on = "NONE"
    PROVE  Holding(s, OpenFifo(c, p, call, d, f, x, o), p, d, f, {p})
<1> DEFINE m == map_vnode(c, x)
           m1 == [m EXCEPT !.filp[f].append = TRUE]
           m2 == [m EXCEPT !.vnode[x].pipe = TRUE, !.filp[f].append = TRUE]
           e == empty_fifo(m2, x)
           q == pipe_open(e, p, call, d, x, o)
           t == IF m.r # OK THEN m ELSE q
<1>1. OpenFifo(c, p, call, d, f, x, o) = share_filp(t, p, d, f, x, o)
  BY DEF OpenFifo
<1>2. Server(c) /\ c.proc[p].blocked_on = "NONE"
  BY DEF Holding, Napping
<1>3. Kept(c, m, {})
  BY <1>2, MapOutside, OutsideKept
<1> HIDE DEF m
<1>4. Kept(c, m2, {})
  <2>1. FilpOnly(m, m1, f)
    BY DEF FilpOnly, SameFilp
  <2>2. Kept(m, m1, {})
    BY <1>3, <2>1, FilpOnlyKept, KeptServer
  <2>3. Outside(m1, m2)
    BY DEF Outside
  <2> HIDE DEF m1, m2
  <2>4. Kept(m1, m2, {})
    BY <2>2, <2>3, OutsideKept, KeptServer
  <2> QED
    BY <1>3, <2>2, <2>4, KeptTwo
<1> HIDE DEF m2
<1>5. Kept(c, e, {})
  BY <1>4, EmptyOutside, OutsideKept, KeptTwo, KeptServer
<1>6. e.proc[p].blocked_on = "NONE" /\ Server(e)
  BY <1>2, <1>5 DEF Kept, Napping
<1> HIDE DEF e
<1>7. Kept(c, q, {p})
  <2>1. Kept(e, q, {p})
    BY <1>6, PipeOpenKept
  <2> HIDE DEF q
  <2>2. Kept(c, q, {} \cup {p}) /\ {} \cup {p} = {p}
    BY <1>5, <2>1, KeptMore
  <2> QED
    BY <2>2
<1> HIDE DEF q
<1>8. Kept(c, t, {p})
  BY <1>3, <1>7, KeptWider
<1> HIDE DEF t
<1>9. Holding(s, t, p, d, f, {p})
  <2>1. Holding(s, t, p, d, f, {} \cup {p}) /\ {} \cup {p} = {p}
    BY <1>8, HoldingKept
  <2> QED
    BY <2>1
<1>10. t.proc[p].filp[d] = f
  BY <1>8 DEF Kept, SameFds
<1>11. Holding(s, share_filp(t, p, d, f, x, o), p, d, f, {p})
  BY <1>9, <1>10, ShareHolding
<1> QED
  BY <1>1, <1>11

LEMMA OpenVnodeHolding ==
    ASSUME NEW s, NEW c, NEW p \in Procs, NEW call, NEW d \in Fds, NEW f \in Filps, NEW x, NEW o,
           Server(s), Holding(s, c, p, d, f, {}), s.filp[f].count = 0, c.proc[p].filp[d] = f,
           s.proc[p].blocked_on = "NONE"
    PROVE  Holding(s, open_vnode(c, p, call, d, f, x, o), p, d, f, {p})
<1> DEFINE w == OpenFifo(c, p, call, d, f, x, o)
<1>1. \E r : open_vnode(c, p, call, d, f, x, o) \in {truncate_vnode(c, x, 0), Ret(c, r), w}
  <2>1. open_vnode(c, p, call, d, f, x, o) \in
           {truncate_vnode(c, x, 0), Ret(c, OK), Ret(c, IF W_BIT \in o.acc THEN EISDIR ELSE OK), w}
    BY DEF open_vnode
  <2> QED
    BY <2>1
<1>2. Server(c)
  BY DEF Holding
<1>3. Kept(c, truncate_vnode(c, x, 0), {p}) /\ \A r : Kept(c, Ret(c, r), {p})
  <2>1. Kept(c, truncate_vnode(c, x, 0), {}) /\ \A r : Kept(c, Ret(c, r), {})
    BY <1>2, TruncateOutside, RetOutside, OutsideKept
  <2> QED
    BY <2>1, KeptWider
<1>4. \A u : Kept(c, u, {p}) => Holding(s, u, p, d, f, {p})
  <2> TAKE u
  <2> HAVE Kept(c, u, {p})
  <2>1. Holding(s, u, p, d, f, {} \cup {p}) /\ {} \cup {p} = {p}
    BY HoldingKept
  <2> QED
    BY <2>1
<1>5. Holding(s, w, p, d, f, {p})
  BY OpenFifoHolding
<1> HIDE DEF w
<1> QED
  BY <1>1, <1>3, <1>4, <1>5

LEMMA ClaimOpenGrown ==
    ASSUME NEW s, NEW p \in Procs, NEW call, NEW d \in Fds, NEW f \in Filps, NEW x, NEW o,
           Server(s), s.proc[p].filp[d] = NULL, s.filp[f].count = 0,
           s.proc[p].blocked_on = "NONE", s.proc[p].used
    PROVE  Grown(s, claim_open(s, p, call, d, f, x, o), {p})
<1> DEFINE rec == [FreeFilp EXCEPT !.count = 1, !.mode = o.acc, !.vno = x,
                                   !.nonblock = o.nonblock, !.append = o.append]
           c == [SetFd(s, p, d, f) EXCEPT !.filp[f] = rec]
           t == IF o.creat /\ ~(s.r = EEXIST /\ ~o.excl) THEN c
                ELSE open_vnode(c, p, call, d, f, x, o)
           undone == ClearFd([t EXCEPT !.filp[f] = FreeFilp], p, d)
<1>1. claim_open(s, p, call, d, f, x, o) = undo_open(t, p, d, f, x)
  BY DEF claim_open
<1>2. {"count", "vno"} \subseteq DOMAIN rec /\ rec.count = 1
  BY DEF FreeFilp
<1> HIDE DEF rec
<1>3. Holding(s, c, p, d, f, {})
  BY <1>2, ClaimHolding
<1>4. c.proc[p].filp[d] = f
  <2>1. Redirected(s, SetFd(s, p, d, f), p, d, f)
    BY SetFdRedirected
  <2> QED
    BY <2>1 DEF Redirected, FdSet
<1> HIDE DEF c
<1>5. Holding(s, c, p, d, f, {p})
  BY <1>3 DEF Holding, Napping
<1>6. Holding(s, open_vnode(c, p, call, d, f, x, o), p, d, f, {p})
  BY <1>3, <1>4, OpenVnodeHolding
<1>7. Holding(s, t, p, d, f, {p})
  BY <1>5, <1>6
<1> HIDE DEF t
<1>8. Grown(s, t, {p})
  BY <1>7, HoldingGrown
<1>9. Grown(s, undone, {p})
  BY <1>7, UndoneGrown
<1>10. Grown(s, undo_open(t, p, d, f, x), {p})
  <2>1. undo_open(t, p, d, f, x) \in {t, Ret(put_vnode(undone, x), t.r)}
    BY DEF undo_open
  <2> HIDE DEF undone
  <2>2. Outside(undone, Ret(put_vnode(undone, x), t.r))
    BY PutVnodeOutside, RetOutside, OutsideMore
  <2>3. Kept(undone, Ret(put_vnode(undone, x), t.r), {})
    BY <1>9, <2>2, OutsideKept DEF Grown
  <2> QED
    BY <1>8, <1>9, <2>1, <2>3, GrownKept
<1> QED
  BY <1>1, <1>10

LEMMA OpenSound ==
    ASSUME NEW s, NEW fly, NEW p \in Procs, NEW call, NEW ino, NEW o,
           Sound(s, fly), s.proc[p].blocked_on = "NONE", s.proc[p].used
    PROVE  Sound(common_open(s, p, call, ino, o), fly)
<1> DEFINE g == get_fd(s, p, 0)
           n == IF o.creat THEN new_node(s, p, ino) ELSE advance(s, ino)
           t == claim_open(n.s, p, call, g.fd, g.f, n.v, o)
<1>1. common_open(s, p, call, ino, o) = IF g.r # OK THEN Ret(s, g.r)
                                        ELSE IF n.v = NULL THEN n.s ELSE t
  BY DEF common_open
<1>2. Server(s)
  BY DEF Sound
<1>3. Outside(s, n.s)
  <2>1. Outside(s, new_node(s, p, ino).s) /\ Outside(s, advance(s, ino).s)
    BY NewFileOutside, AdvanceOutside
  <2> QED
    BY <2>1
<1> HIDE DEF n
<1>4. Sound(n.s, fly) /\ Sound(Ret(s, g.r), fly)
  BY <1>2, <1>3, RetOutside, OutsideKept, KeptSound
<1>5. ASSUME g.r = OK PROVE Sound(t, fly)
  <2>1. /\ g.fd \in Fds /\ s.proc[p].filp[g.fd] = NULL
        /\ g.f \in Filps /\ s.filp[g.f].count = 0
    BY <1>5, GetFdFree
  <2> HIDE DEF g
  <2>2. Server(n.s) /\ n.s.proc = s.proc /\ n.s.filp = s.filp
    BY <1>3, <1>4 DEF Outside, Sound
  <2>3. Grown(n.s, t, {p})
    BY <2>1, <2>2, ClaimOpenGrown
  <2> QED
    BY <1>4, <2>3, GrownSound
<1> HIDE DEF g, t
<1> QED
  BY <1>1, <1>4, <1>5

-----------------------------------------------------------------------------
(* Pipes, copies of descriptors. *)

\* Both ends of a pipe get its vnode.
TwoVnos(s, y, rec, f0, f1) ==
    [s EXCEPT !.vnode[y] = rec, !.filp[f0].vno = y, !.filp[f1].vno = y]

LEMMA TwoVnosSet ==
    ASSUME NEW s, NEW y, NEW rec, NEW f0 \in Filps, NEW f1 \in Filps, Server(s)
    PROVE  LET t == TwoVnos(s, y, rec, f0, f1)
           IN /\ Server(t) /\ SameLocks(s, t) /\ Napping(s, t, {}) /\ SameFds(s, t)
              /\ \A g \in Filps : /\ t.filp[g].count = s.filp[g].count
                                  /\ g # f0 /\ g # f1 => t.filp[g].vno = s.filp[g].vno
<1> DEFINE a == [s EXCEPT !.vnode[y] = rec]
           b == [a EXCEPT !.filp[f0].vno = y]
           t == [b EXCEPT !.filp[f1].vno = y]
<1>1. /\ Server(a) /\ SameLocks(s, a) /\ Napping(s, a, {}) /\ SameFds(s, a)
      /\ \A g \in Filps : SameFilp(s, a, g)
  BY DEF Server, SameLocks, Napping, SameFds, SameFilp
<1>2. t = TwoVnos(s, y, rec, f0, f1)
  BY DEF TwoVnos
<1> HIDE DEF a
<1>3. /\ Server(b) /\ SameLocks(a, b) /\ Napping(a, b, {}) /\ SameFds(a, b)
      /\ \A g \in Filps : /\ b.filp[g].count = a.filp[g].count
                          /\ g # f0 => b.filp[g].vno = a.filp[g].vno
  BY <1>1 DEF Server, SameLocks, Napping, SameFds
<1> HIDE DEF b
<1>4. /\ Server(t) /\ SameLocks(b, t) /\ Napping(b, t, {}) /\ SameFds(b, t)
      /\ \A g \in Filps : /\ t.filp[g].count = b.filp[g].count
                          /\ g # f1 => t.filp[g].vno = b.filp[g].vno
  BY <1>3 DEF Server, SameLocks, Napping, SameFds
<1> HIDE DEF t
<1>5. /\ Server(t) /\ SameLocks(s, t) /\ SameFds(s, t)
      /\ \A g \in Filps : /\ t.filp[g].count = s.filp[g].count
                          /\ g # f0 /\ g # f1 => t.filp[g].vno = s.filp[g].vno
  BY <1>1, <1>3, <1>4 DEF SameLocks, SameFds, SameFilp
<1>6. Napping(s, t, {})
  BY <1>1, <1>3, <1>4 DEF Napping
<1> QED
  BY <1>2, <1>5, <1>6

LEMMA ClaimEnd ==
    ASSUME NEW s, NEW p \in Procs, NEW bit, Server(s), s.proc[p].used,
           get_fd(s, p, 0).r = OK
    PROVE  LET g == get_fd(s, p, 0)
               c == claim_end(s, p, g, bit)
           IN /\ g.f \in Filps /\ s.filp[g.f].count = 0 /\ c.filp[g.f].count = 1
              /\ Grown(s, c, {}) /\ \A h \in Filps : h # g.f => SameFilp(s, c, h)
<1> DEFINE g == get_fd(s, p, 0)
           rec == [FreeFilp EXCEPT !.count = 1, !.mode = {bit}]
           a == SetFd(s, p, g.fd, g.f)
           c == [a EXCEPT !.filp[g.f] = rec]
<1>1. claim_end(s, p, g, bit) = c
  BY DEF claim_end
<1>2. /\ g.fd \in Fds /\ s.proc[p].filp[g.fd] = NULL
      /\ g.f \in Filps /\ s.filp[g.f].count = 0
  BY GetFdFree
<1> HIDE DEF g
<1>3. {"count", "vno"} \subseteq DOMAIN rec /\ rec.count = 1 /\ rec.count \in Int
  BY DEF FreeFilp
<1> HIDE DEF rec
<1>4. Holding(s, c, p, g.fd, g.f, {})
  BY <1>2, <1>3, ClaimHolding
<1>5. Redirected(s, a, p, g.fd, g.f)
  BY <1>2, SetFdRedirected
<1> HIDE DEF a
<1>6. Server(a)
  BY <1>5 DEF Redirected
<1>7. Beside(a, c, g.f) /\ c.filp[g.f] = rec
  BY <1>2, <1>3, <1>6, FilpReplaced
<1> HIDE DEF c
<1>8. \A h \in Filps : h # g.f => SameFilp(s, c, h)
  BY <1>5, <1>7 DEF Beside, SameFilp, Redirected
<1>9. Grown(s, c, {})
  BY <1>2, <1>4, HoldingGrown
<1> QED
  BY <1>1, <1>2, <1>3, <1>7, <1>8, <1>9 DEF g

LEMMA PipeSound ==
    ASSUME NEW s, NEW fly, NEW p \in Procs, Sound(s, fly), s.proc[p].used
    PROVE  Sound(do_pipe(s, p), fly)
<1> DEFINE vp == get_free_vnode(s)
           g0 == get_fd(s, p, 0)
           c0 == claim_end(s, p, g0, R_BIT)
           g1 == get_fd(c0, p, 0)
           c1 == claim_end(c0, p, g1, W_BIT)
           n == req_newnode(c1)
           rec == [FreeVnode EXCEPT !.ref = 2, !.fs_count = 1, !.ino = n.ino,
                                    !.mapino = n.ino, !.pipe = TRUE]
           m == TwoVnos(n.s, vp, rec, g0.f, g1.f)
<1>1. do_pipe(s, p) = IF vp = NULL THEN Ret(s, ENFILE)
                      ELSE IF g0.r # OK THEN Ret(s, g0.r)
                      ELSE IF g1.r # OK THEN Ret(s, g1.r)
                      ELSE IF n.s.r # OK THEN Ret(s, n.s.r)
                      ELSE m
  BY DEF do_pipe, TwoVnos
<1>2. Server(s)
  BY DEF Sound
<1>3. \A r : Sound(Ret(s, r), fly)
  BY <1>2, RetOutside, OutsideKept, KeptSound
<1>4. ASSUME g0.r = OK, g1.r = OK PROVE Sound(m, fly)
  <2>1. /\ g0.f \in Filps /\ s.filp[g0.f].count = 0 /\ c0.filp[g0.f].count = 1
        /\ Grown(s, c0, {}) /\ \A h \in Filps : h # g0.f => SameFilp(s, c0, h)
    BY <1>2, <1>4, ClaimEnd
  <2>2. Server(c0) /\ c0.proc[p].used
    BY <2>1 DEF Grown, Napping
  <2>3. g1.r = OK
    BY <1>4
  <2> HIDE DEF g0, c0
  <2>4. /\ g1.f \in Filps /\ c0.filp[g1.f].count = 0 /\ c1.filp[g1.f].count = 1
        /\ Grown(c0, c1, {}) /\ \A h \in Filps : h # g1.f => SameFilp(c0, c1, h)
    BY <2>2, <2>3, ClaimEnd
  <2> HIDE DEF g1, c1
  <2>5. Kept(c1, n.s, {})
    BY <2>4, NewNodeOutside, OutsideKept DEF Grown
  <2> HIDE DEF n, rec
  <2>6. /\ Server(m) /\ SameLocks(n.s, m) /\ Napping(n.s, m, {}) /\ SameFds(n.s, m)
        /\ \A h \in Filps : /\ m.filp[h].count = n.s.filp[h].count
                            /\ h # g0.f /\ h # g1.f => m.filp[h].vno = n.s.filp[h].vno
    <3>1. Server(n.s)
      BY <2>5 DEF Kept
    <3> QED
      BY <2>1, <2>4, <3>1, TwoVnosSet
  <2> HIDE DEF m
  <2>7. SameLocks(s, m)
    BY <2>1, <2>4, <2>5, <2>6 DEF Grown, Kept, SameLocks
  <2>8. Napping(s, m, {})
    <3>1. Napping(s, c1, {})
      BY <2>1, <2>4 DEF Grown, Napping
    <3>2. Napping(s, n.s, {})
      BY <2>5, <3>1 DEF Kept, Napping
    <3> QED
      BY <2>6, <3>2 DEF Napping
  <2>9. \A q \in Procs, e \in Fds : s.proc[q].filp[e] # NULL \/ ~s.proc[q].used
                                       => m.proc[q].filp[e] = s.proc[q].filp[e]
    <3> TAKE q \in Procs, e \in Fds
    <3> HAVE s.proc[q].filp[e] # NULL \/ ~s.proc[q].used
    <3>1. c0.proc[q].filp[e] = s.proc[q].filp[e] /\ c0.proc[q].used = s.proc[q].used
      BY <2>1 DEF Grown, Napping
    <3>2. c1.proc[q].filp[e] = s.proc[q].filp[e]
      BY <2>4, <3>1 DEF Grown
    <3> QED
      BY <2>5, <2>6, <3>2 DEF Kept, SameFds
  <2>10. ASSUME NEW h \in Filps
         PROVE  /\ At(m, h) - At(s, h) =< m.filp[h].count - s.filp[h].count
                /\ s.filp[h].count > 0 => m.filp[h].vno = s.filp[h].vno
    <3>1. At(m, h) = At(c1, h)
      BY <2>5, <2>6 DEF Kept, SameFds, At, Refs
    <3>2. m.filp[h].count = c1.filp[h].count
      BY <2>5, <2>6 DEF Kept, SameFilp
    <3>3. /\ At(s, h) \in Nat /\ At(c0, h) \in Nat /\ At(c1, h) \in Nat
          /\ s.filp[h].count \in Int /\ c0.filp[h].count \in Int /\ c1.filp[h].count \in Int
      BY <1>2, <2>1, <2>4, RefsFinite DEF Grown, Server
    <3>4. /\ At(c0, h) - At(s, h) =< c0.filp[h].count - s.filp[h].count
          /\ At(c1, h) - At(c0, h) =< c1.filp[h].count - c0.filp[h].count
      BY <2>1, <2>4 DEF Grown
    <3>5. ASSUME s.filp[h].count > 0 PROVE m.filp[h].vno = s.filp[h].vno
      <4>1. h # g0.f
        BY <2>1, <3>5
      <4>2. c0.filp[h].count = s.filp[h].count /\ c0.filp[h].vno = s.filp[h].vno
        BY <2>1, <4>1 DEF SameFilp
      <4>3. h # g1.f
        BY <2>4, <3>5, <4>2
      <4>4. c1.filp[h].vno = s.filp[h].vno
        BY <2>4, <4>2, <4>3 DEF SameFilp
      <4> QED
        BY <2>5, <2>6, <4>1, <4>3, <4>4 DEF Kept, SameFilp
    <3> QED
      BY <3>1, <3>2, <3>3, <3>4, <3>5
  <2>11. Grown(s, m, {})
    BY <2>6, <2>7, <2>8, <2>9, <2>10 DEF Grown
  <2> QED
    BY <2>11, GrownSound
<1> HIDE DEF m, g0, g1, vp, n
<1> QED
  BY <1>1, <1>3, <1>4

\* Descriptor d of p is one more of filp f.
Copied(s, t, p, d, f) ==
    /\ Server(t) /\ SameLocks(s, t) /\ Napping(s, t, {}) /\ FdSet(s, t, p, d, f)
    /\ t.filp[f].count = s.filp[f].count + 1 /\ t.filp[f].vno = s.filp[f].vno
    /\ \A g \in Filps : g # f => SameFilp(s, t, g)

LEMMA CopiedGrown ==
    ASSUME NEW s, NEW t, NEW p \in Procs, NEW d \in Fds, NEW f \in Filps,
           Server(s), Copied(s, t, p, d, f), s.proc[p].filp[d] = NULL, s.proc[p].used
    PROVE  Grown(s, t, {})
<1>1. \A g \in Filps : s.filp[g].count \in Int
  BY DEF Server
<1>2. s.filp[f].count < t.filp[f].count
  BY <1>1 DEF Copied
<1>3. \A g \in Filps : g # f => s.filp[g].count =< t.filp[g].count
  BY <1>1 DEF Copied, SameFilp
<1>4. \A g \in Filps : s.filp[g].count > 0 => t.filp[g].vno = s.filp[g].vno
  BY DEF Copied, SameFilp
<1>5. Server(t) /\ SameLocks(s, t) /\ Napping(s, t, {}) /\ FdSet(s, t, p, d, f)
  BY DEF Copied
<1> QED
  BY <1>2, <1>3, <1>4, <1>5, GrownByOne

\* Whichever is written first, the descriptor or the count.
LEMMA CountFirst ==
    ASSUME NEW s, NEW t, NEW p \in Procs, NEW d \in Fds, NEW f \in Filps, Server(s),
           Redirected([s EXCEPT !.filp[f].count = @ + 1], t, p, d, f)
    PROVE  Copied(s, t, p, d, f)
<1> DEFINE n == s.filp[f].count + 1
           a == [s EXCEPT !.filp[f].count = n]
<1>1. n \in Int
  BY DEF Server
<1> HIDE DEF n
<1>2. Beside(s, a, f) /\ a.filp[f].count = n /\ a.filp[f].vno = s.filp[f].vno
  BY <1>1, CountSet
<1>3. Redirected(a, t, p, d, f)
  BY DEF n
<1> HIDE DEF a
<1>4. t.filp[f].count = n /\ t.filp[f].vno = s.filp[f].vno
      /\ \A g \in Filps : g # f => SameFilp(s, t, g)
  BY <1>2, <1>3 DEF Beside, Redirected, SameFilp
<1>5. Server(t) /\ SameLocks(s, t) /\ Napping(s, t, {}) /\ FdSet(s, t, p, d, f)
  BY <1>2, <1>3 DEF Beside, Redirected, SameLocks, Napping, SameFds, FdSet
<1> QED
  BY <1>4, <1>5 DEF Copied, n

LEMMA DescriptorFirst ==
    ASSUME NEW s, NEW p \in Procs, NEW d \in Fds, NEW f \in Filps, Server(s)
    PROVE  Copied(s, [SetFd(s, p, d, f) EXCEPT !.filp[f].count = @ + 1], p, d, f)
<1> DEFINE a == SetFd(s, p, d, f)
           n == a.filp[f].count + 1
           t == [a EXCEPT !.filp[f].count = n]
<1>1. Redirected(s, a, p, d, f)
  BY SetFdRedirected
<1> HIDE DEF a
<1>2. Server(a) /\ n \in Int /\ n = s.filp[f].count + 1
  BY <1>1 DEF Redirected, Server
<1> HIDE DEF n
<1>3. Beside(a, t, f) /\ t.filp[f].count = n /\ t.filp[f].vno = a.filp[f].vno
  BY <1>2, CountSet
<1> HIDE DEF t
<1>4. t.filp[f].count = s.filp[f].count + 1 /\ t.filp[f].vno = s.filp[f].vno
      /\ \A g \in Filps : g # f => SameFilp(s, t, g)
  BY <1>1, <1>2, <1>3 DEF Beside, Redirected, SameFilp
<1>5. Server(t) /\ SameLocks(s, t) /\ Napping(s, t, {}) /\ FdSet(s, t, p, d, f)
  BY <1>1, <1>3 DEF Beside, Redirected, SameLocks, Napping, SameFds, FdSet
<1>6. Copied(s, t, p, d, f)
  BY <1>4, <1>5 DEF Copied
<1> QED
  BY <1>6 DEF t, n, a

-----------------------------------------------------------------------------
(* Descriptors that are copied, and those in flight. *)

LEMMA RetSound ==
    ASSUME NEW s, NEW fly, NEW r, Sound(s, fly) PROVE Sound(Ret(s, r), fly)
BY RetOutside, OutsideKept, KeptSound DEF Sound

LEMMA DupSound ==
    ASSUME NEW s, NEW fly, NEW p \in Procs, NEW d \in Fds, NEW to,
           Sound(s, fly), s.proc[p].blocked_on = "NONE", s.proc[p].used
    PROVE  Sound(do_dup(s, p, d, to), fly)
<1> DEFINE f == s.proc[p].filp[d]
           g == get_fd(s, p, 0)
           more == [s EXCEPT !.filp[f].count = @ + 1]
           a == SetFd(more, p, g.fd, f)
           c == close_fd(s, p, to)
           again == [c EXCEPT !.filp[f].count = @ + 1]
           b == SetFd(again, p, to, f)
<1>1. do_dup(s, p, d, to) =
        IF f = NULL THEN Ret(s, EBADF)
        ELSE IF to \notin Fds THEN IF g.r # OK THEN Ret(s, g.r) ELSE a
        ELSE IF d = to THEN Ret(s, to) ELSE b
  BY Zenon DEF do_dup, get_filp2
<1>2. Server(s) /\ f \in Filps \cup {NULL}
  BY DEF Sound, Server
<1>3. ASSUME f # NULL, g.r = OK PROVE Sound(a, fly)
  <2>1. /\ g.fd \in Fds /\ s.proc[p].filp[g.fd] = NULL /\ f \in Filps
    BY <1>2, <1>3, GetFdFree
  <2> HIDE DEF g, f
  <2>2. Server(more)
    <3>1. s.filp[f].count + 1 \in Int
      BY <1>2, <2>1 DEF Server
    <3> QED
      BY <1>2, <2>1, <3>1, CountSet DEF Beside
  <2>3. Redirected(more, a, p, g.fd, f)
    BY <2>1, <2>2, SetFdRedirected
  <2>4. Copied(s, a, p, g.fd, f)
    BY <1>2, <2>1, <2>3, CountFirst
  <2> HIDE DEF a
  <2> QED
    BY <1>2, <2>1, <2>4, CopiedGrown, GrownSound
<1>4. ASSUME f # NULL, to \in Fds, d # to PROVE Sound(b, fly)
  <2>1. Sound(c, fly) /\ Napping(s, c, {}) /\ FdSet(s, c, p, to, NULL)
    BY <1>4, CloseFdSound
  <2>2. c.proc[p].filp[to] = NULL /\ c.proc[p].used /\ f \in Filps /\ Server(c)
    BY <1>2, <1>4, <2>1 DEF FdSet, Napping, Sound
  <2> HIDE DEF f, c
  <2>3. Server(again)
    <3>1. c.filp[f].count + 1 \in Int
      BY <2>2 DEF Server
    <3> QED
      BY <2>2, <3>1, CountSet DEF Beside
  <2>4. Redirected(again, b, p, to, f)
    BY <1>4, <2>2, <2>3, SetFdRedirected
  <2>5. Copied(c, b, p, to, f)
    BY <1>4, <2>2, <2>4, CountFirst
  <2> HIDE DEF b
  <2> QED
    BY <1>4, <2>1, <2>2, <2>5, CopiedGrown, GrownSound
<1> HIDE DEF a, b, g, f
<1> QED
  BY <1>1, <1>3, <1>4, RetSound

LEMMA DupfdSound ==
    ASSUME NEW s, NEW fly, NEW p \in Procs, NEW d \in Fds, NEW start \in Fds,
           Sound(s, fly), s.proc[p].used
    PROVE  Sound(dupfd(s, p, d, start), fly)
<1> DEFINE f == s.proc[p].filp[d]
           g == get_fd(s, p, start)
           more == [s EXCEPT !.filp[f].count = @ + 1]
           a == [more EXCEPT !.proc[p] = [@ EXCEPT !.filp[g.fd] = f]]
<1>1. dupfd(s, p, d, start) =
        IF f = NULL THEN Ret(s, EBADF) ELSE IF g.r # OK THEN Ret(s, g.r) ELSE a
  BY DEF dupfd, get_filp2
<1>2. Server(s) /\ f \in Filps \cup {NULL} /\ start \in Nat
  <2>1. Server(s) /\ f \in Filps \cup {NULL}
    BY DEF Sound, Server
  <2>2. OPEN_MAX \in Int
    BY TablesAssumption
  <2>3. start \in Nat
    BY <2>2 DEF Fds
  <2> QED
    BY <2>1, <2>3
<1>3. ASSUME f # NULL, g.r = OK PROVE Sound(a, fly)
  <2>1. /\ g.fd \in Fds /\ s.proc[p].filp[g.fd] = NULL /\ f \in Filps
    BY <1>2, <1>3, GetFdFree
  <2> HIDE DEF g, f
  <2>2. Server(more)
    <3>1. s.filp[f].count + 1 \in Int
      BY <1>2, <2>1 DEF Server
    <3> QED
      BY <1>2, <2>1, <3>1, CountSet DEF Beside
  <2> HIDE DEF more
  <2>3. Redirected(more, a, p, g.fd, f)
    BY <2>1, <2>2, BareRedirected
  <2>4. Copied(s, a, p, g.fd, f)
    BY <1>2, <2>1, <2>3, CountFirst DEF more
  <2> HIDE DEF a
  <2> QED
    BY <1>2, <2>1, <2>4, CopiedGrown, GrownSound
<1> HIDE DEF a, g, f
<1> QED
  BY <1>1, <1>3, RetSound

LEMMA CopyFilp ==
    ASSUME NEW s, NEW p \in Procs, NEW f \in Filps, Server(s), copy_filp(s, p, f).r >= 0
    PROVE  LET t == copy_filp(s, p, f)
           IN t.r \in Fds /\ s.proc[p].filp[t.r] = NULL /\ Copied(s, t, p, t.r, f)
<1> DEFINE ds == {d \in Fds : s.proc[p].filp[d] = NULL /\ d \notin s.proc[p].inuse}
           d == Min(ds)
           a == [SetFd(s, p, d, f) EXCEPT !.filp[f].count = @ + 1]
           t == Ret(a, d)
<1>1. copy_filp(s, p, f) = IF ds = {} THEN Ret(s, EMFILE) ELSE t
  BY DEF copy_filp, Ret, SetFd
<1>2. ds # {}
  <2> HIDE DEF ds
  <2> SUFFICES ASSUME ds = {} PROVE FALSE
    OBVIOUS
  <2>1. copy_filp(s, p, f).r = EMFILE
    BY <1>1 DEF Ret, Server
  <2> QED
    BY <2>1 DEF EMFILE
<1>3. d \in Fds /\ s.proc[p].filp[d] = NULL
  <2>1. ds \in SUBSET Nat
    BY DEF Fds
  <2>2. d \in ds
    BY <1>2, <2>1, MinIs
  <2> QED
    BY <2>2
<1> HIDE DEF ds, d
<1>4. Copied(s, a, p, d, f)
  BY <1>3, DescriptorFirst
<1> HIDE DEF a
<1>5. Outside(a, t) /\ t.r = d
  BY <1>4, RetOutside DEF Ret, Copied, Server
<1>6. Kept(a, t, {})
  BY <1>4, <1>5, OutsideKept DEF Copied
<1> HIDE DEF t
<1>7. Copied(s, t, p, d, f)
  BY <1>4, <1>6 DEF Copied, Kept, SameLocks, Napping, SameFds, FdSet, SameFilp
<1> QED
  BY <1>1, <1>2, <1>3, <1>5, <1>7

\* A receiver that gives the descriptor back has what it had.
LEMMA CancelKeptFd ==
    ASSUME NEW s, NEW t, NEW p \in Procs, NEW d \in Fds, NEW f \in Filps, Server(s),
           s.proc[p].filp[d] = NULL, Copied(s, t, p, d, f)
    PROVE  Kept(s, cancel_fd(t, p, d), {})
<1> DEFINE n == t.filp[f].count - 1
           a == [t EXCEPT !.filp[f].count = n]
           b == ClearFd(a, p, d)
           c == Ret(b, d)
<1>1. t.proc[p].filp[d] = f /\ f # NULL /\ Server(t)
  BY DEF Copied, FdSet, Filps, NULL
<1>2. cancel_fd(t, p, d) = c
  BY <1>1 DEF cancel_fd, verify_fd, get_filp2
<1>3. n \in Int /\ n = s.filp[f].count
  <2>1. s.filp[f].count \in Int
    BY DEF Server
  <2>2. t.filp[f].count = s.filp[f].count + 1
    BY DEF Copied
  <2> QED
    BY <2>1, <2>2
<1> HIDE DEF n
<1>4. Beside(t, a, f) /\ a.filp[f].count = n /\ a.filp[f].vno = t.filp[f].vno
  BY <1>1, <1>3, CountSet
<1> HIDE DEF a
<1>5. Redirected(a, b, p, d, NULL)
  BY <1>4, ClearFdRedirected DEF Beside
<1> HIDE DEF b
<1>6. Kept(b, c, {})
  BY <1>5, RetOutside, OutsideKept DEF Redirected
<1> HIDE DEF c
<1>7. SameLocks(s, c) /\ Napping(s, c, {})
  <2>1. SameLocks(s, c)
    BY <1>4, <1>5, <1>6 DEF Copied, Beside, Redirected, Kept, SameLocks
  <2>2. Napping(s, t, {}) /\ Napping(b, c, {})
    BY <1>6 DEF Copied, Kept
  <2>3. Napping(t, b, {})
    BY <1>4, <1>5 DEF Beside, Redirected, Napping
  <2>4. Napping(s, b, {})
    BY <2>2, <2>3 DEF Napping
  <2> QED
    BY <2>1, <2>2, <2>4 DEF Napping
<1>8. ASSUME NEW q \in Procs PROVE c.proc[q].filp = s.proc[q].filp
  <2>1. \A e \in Fds : c.proc[q].filp[e] = s.proc[q].filp[e]
    <3> TAKE e \in Fds
    <3>1. c.proc[q].filp[e] = b.proc[q].filp[e] /\ a.proc[q].filp[e] = t.proc[q].filp[e]
      BY <1>4, <1>6 DEF Kept, Beside, SameFds
    <3>2. CASE q = p /\ e = d
      BY <1>5, <3>1, <3>2 DEF Redirected, FdSet
    <3>3. CASE ~(q = p /\ e = d)
      <4>1. <<q, e>> \in Procs \X Fds /\ <<q, e>> # <<p, d>>
        BY <3>3
      <4>2. /\ b.proc[<<q, e>>[1]].filp[<<q, e>>[2]] = a.proc[<<q, e>>[1]].filp[<<q, e>>[2]]
            /\ t.proc[<<q, e>>[1]].filp[<<q, e>>[2]] = s.proc[<<q, e>>[1]].filp[<<q, e>>[2]]
        BY <1>5, <4>1 DEF Redirected, FdSet, Copied
      <4> QED
        BY <3>1, <4>2
    <3> QED
      BY <3>2, <3>3
  <2>2. /\ c.proc[q].filp \in [Fds -> Filps \cup {NULL}]
        /\ s.proc[q].filp \in [Fds -> Filps \cup {NULL}]
    BY <1>6 DEF Kept, Server
  <2> QED
    BY <2>1, <2>2
<1>9. \A g \in Filps : SameFilp(s, c, g)
  BY <1>3, <1>4, <1>5, <1>6 DEF Copied, Beside, Redirected, Kept, SameFilp
<1> QED
  BY <1>2, <1>6, <1>7, <1>8, <1>9 DEF Kept, SameFds

\* A reference in flight is made and dropped.
LEMMA SetFilpSound ==
    ASSUME NEW s, NEW fly \in [Filps -> Nat], NEW f \in Filps, Sound(s, fly)
    PROVE  Sound(set_filp(s, f), [fly EXCEPT ![f] = @ + 1])
<1> DEFINE n == s.filp[f].count + 1
           a == [s EXCEPT !.filp[f].count = n]
           t == Ret(a, OK)
           more == [fly EXCEPT ![f] = @ + 1]
<1>1. Server(s) /\ f # NULL /\ n \in Int
  BY DEF Sound, Server, Filps, NULL
<1>2. set_filp(s, f) = t
  BY <1>1 DEF set_filp, Ret
<1>0. more \in [Filps -> Nat] /\ more[f] = fly[f] + 1 /\ \A g \in Filps : g # f => more[g] = fly[g]
  OBVIOUS
<1> HIDE DEF n, more
<1>3. Beside(s, a, f) /\ a.filp[f].count = n /\ a.filp[f].vno = s.filp[f].vno
  <2>1. Server(s) /\ n \in Int
    BY <1>1
  <2> QED
    BY <2>1, CountSet
<1> HIDE DEF a
<1>4. Kept(a, t, {})
  BY <1>3, RetOutside, OutsideKept DEF Beside
<1> HIDE DEF t
<1>5. \A g \in Filps : At(t, g) = At(s, g)
  BY <1>3, <1>4 DEF Beside, Kept, SameFds, At, Refs
<1>6. Books(t, more)
  <2>1. ASSUME NEW g \in Filps PROVE more[g] \in Nat /\ At(t, g) + more[g] =< t.filp[g].count
    <3>1. At(s, g) \in Nat /\ At(s, g) + fly[g] =< s.filp[g].count /\ s.filp[g].count \in Int
      BY <1>1, RefsFinite DEF Sound, Books, Server
    <3>2. t.filp[g].count = a.filp[g].count
      BY <1>4 DEF Kept, SameFilp
    <3>3. CASE g = f
      BY <1>0, <1>3, <1>5, <3>1, <3>2, <3>3 DEF n
    <3>4. CASE g # f
      BY <1>0, <1>3, <1>5, <3>1, <3>2, <3>4 DEF Beside, SameFilp
    <3> QED
      BY <3>3, <3>4
  <2>2. \A q \in Procs : ~t.proc[q].used => \A e \in Fds : t.proc[q].filp[e] = NULL
    BY <1>3, <1>4 DEF Sound, Books, Beside, Kept, SameFds, Napping
  <2> QED
    BY <2>1, <2>2 DEF Books
<1>7. Sound(t, fly)
  <2>1. Grown(s, t, {})
    <3>1. Server(t) /\ SameLocks(s, t) /\ Napping(s, t, {}) /\ SameFds(s, t)
      BY <1>3, <1>4 DEF Beside, Kept, SameLocks, Napping, SameFds
    <3>2. ASSUME NEW g \in Filps
          PROVE  s.filp[g].count =< t.filp[g].count /\ t.filp[g].vno = s.filp[g].vno
      <4>1. s.filp[g].count \in Int
        BY <1>1 DEF Server
      <4>2. t.filp[g].count = a.filp[g].count /\ t.filp[g].vno = a.filp[g].vno
        BY <1>4 DEF Kept, SameFilp
      <4> QED
        BY <1>3, <4>1, <4>2 DEF Beside, SameFilp, n
    <3> QED
      BY <1>1, <3>1, <3>2, GrownByNone DEF SameFds
  <2> QED
    BY <2>1, GrownSound
<1> QED
  BY <1>2, <1>6, <1>7 DEF Sound, more

LEMMA PutFilpSound ==
    ASSUME NEW s, NEW fly \in [Filps -> Nat], NEW f \in Filps, Sound(s, fly), fly[f] > 0
    PROVE  Sound(put_filp(s, f), [fly EXCEPT ![f] = @ - 1])
<1> DEFINE t == put_filp(s, f)
           less == [fly EXCEPT ![f] = @ - 1]
<1>1. Closed(s, t, f) /\ Server(s)
  BY CloseFilpClosed DEF put_filp, Sound
<1> HIDE DEF t
<1>2. \A g \in Filps : At(t, g) = At(s, g)
  BY <1>1 DEF Closed, SameFds, At, Refs
<1>3. \A g \in Filps : /\ At(s, g) \in Nat /\ fly[g] \in Nat /\ s.filp[g].count \in Int
                       /\ At(s, g) + fly[g] =< s.filp[g].count
  BY <1>1, RefsFinite DEF Sound, Books, Server
<1>4. Books(t, less)
  <2>1. ASSUME NEW g \in Filps PROVE less[g] \in Nat /\ At(t, g) + less[g] =< t.filp[g].count
    <3>1. CASE g # f
      BY <1>1, <1>2, <1>3, <3>1 DEF Closed, SameFilp
    <3>2. CASE g = f /\ s.filp[f].count > 1
      BY <1>1, <1>2, <1>3, <3>2 DEF Closed
    <3>3. CASE g = f /\ ~(s.filp[f].count > 1)
      BY <1>1, <1>2, <1>3, <3>3 DEF Closed
    <3> QED
      BY <3>1, <3>2, <3>3
  <2>2. \A q \in Procs : ~t.proc[q].used => \A e \in Fds : t.proc[q].filp[e] = NULL
    BY <1>1 DEF Sound, Books, Closed, SameFds, Napping
  <2> QED
    BY <2>1, <2>2 DEF Books
<1>5. Waiters(t)
  BY <1>1 DEF Sound, Waiters, Waiter, Closed, SameFds, Napping
<1>6. Table(t) /\ Taken(t) = Taken(s) /\ t.lock = s.lock
  BY <1>1 DEF Sound, Table, Taken, Apart, Closed, SameLocks
<1>7. Owned(t)
  <2> SUFFICES ASSUME NEW l \in Taken(s) PROVE HasOpen(t, s.lock[l].pid, s.lock[l].vno)
    BY <1>6 DEF Owned
  <2> DEFINE q == s.lock[l].pid
             x == s.lock[l].vno
  <2>1. q \in Procs /\ HasOpen(s, q, x)
    BY DEF Sound, Table, Owned
  <2>2. PICK c \in Fds : s.proc[q].filp[c] # NULL /\ s.filp[s.proc[q].filp[c]].vno = x
    BY <2>1 DEF HasOpen
  <2> DEFINE g == s.proc[q].filp[c]
  <2>3. g \in Filps
    BY <1>1, <2>1, <2>2 DEF Server
  <2>4. At(s, g) >= 1
    BY <2>1, AtLeast
  <2> HIDE DEF q
  <2>5. t.proc[q].filp[c] = g
    BY <1>1, <2>1 DEF Closed, SameFds
  <2>6. t.filp[g].vno = s.filp[g].vno
    <3>1. CASE g = f
      <4>1. s.filp[f].count > 1
        <5> HIDE DEF g
        <5> QED
          BY <1>3, <2>4, <3>1
      <4> QED
        BY <1>1, <3>1, <4>1 DEF Closed
    <3>2. CASE g # f
      BY <1>1, <2>3, <3>2 DEF Closed, SameFilp
    <3> QED
      BY <3>1, <3>2
  <2> QED
    BY <2>2, <2>5, <2>6 DEF HasOpen, q
<1> QED
  BY <1>1, <1>4, <1>5, <1>6, <1>7 DEF Sound, Closed, t

-----------------------------------------------------------------------------
(* Calls that keep descriptors and locks. *)

LEMMA OutsideSound ==
    ASSUME NEW s, NEW t, NEW fly, Sound(s, fly), Outside(s, t) PROVE Sound(t, fly)
BY OutsideKept, KeptSound DEF Sound

LEMMA OutsideTwo ==
    ASSUME NEW s, NEW t, NEW r, Outside(s, t) PROVE Outside(s, Ret(t, r))
BY RetOutside, OutsideMore

LEMMA ReadWriteSound ==
    ASSUME NEW s, NEW fly, NEW p, NEW call, NEW d, NEW n, Sound(s, fly)
    PROVE  Sound(read_write(s, p, call, d, n), fly)
<1> DEFINE f == get_filp2(s, p, d)
           fp == s.filp[f]
           x == fp.vno
           ino == s.vnode[x].ino
           pos == IF call = "WRITE" /\ fp.append THEN s.vnode[x].size ELSE fp.pos
           end == IF call = "WRITE" THEN pos + n ELSE Max({pos, Min({pos + n, s.fsize[ino]})})
           t == [s EXCEPT !.filp[f].pos = end,
                          !.fsize[ino] = IF call = "WRITE" THEN Max({@, end}) ELSE @,
                          !.vnode[x].size = IF call = "WRITE" THEN Max({@, end}) ELSE @]
<1>1. read_write(s, p, call, d, n) \in
        {Ret(s, EBADF), Panic(s), rw_pipe(s, p, call, d, f, n), t}
  BY DEF read_write
<1>2. Server(s)
  BY DEF Sound
<1> HIDE DEF end, ino, x, f
<1>3. FilpOnly(s, t, f)
  BY <1>2 DEF Server, FilpOnly, SameFilp
<1> HIDE DEF t
<1>4. Sound(t, fly)
  BY <1>2, <1>3, FilpOnlyKept, KeptSound
<1>5. Sound(Ret(s, EBADF), fly) /\ Sound(Panic(s), fly)
  BY RetOutside, PanicOutside, OutsideSound
<1>6. Sound(rw_pipe(s, p, call, d, f, n), fly)
  <2>1. Kept(s, rw_pipe(s, p, call, d, f, n), {p})
    BY <1>2, RwPipeKept
  <2> QED
    BY <2>1, KeptSound
<1> QED
  BY <1>1, <1>4, <1>5, <1>6

LEMMA LseekSound ==
    ASSUME NEW s, NEW fly, NEW p, NEW d, NEW pos, Sound(s, fly)
    PROVE  Sound(do_lseek(s, p, d, pos), fly)
<1> DEFINE f == get_filp2(s, p, d)
           t == [s EXCEPT !.filp[f].pos = pos]
<1>1. do_lseek(s, p, d, pos) \in {Ret(s, EBADF), Ret(s, ESPIPE), t}
  BY DEF do_lseek
<1> HIDE DEF f
<1>2. FilpOnly(s, t, f) /\ Server(s)
  BY DEF Sound, Server, FilpOnly, SameFilp
<1> HIDE DEF t
<1> QED
  BY <1>1, <1>2, FilpOnlyKept, KeptSound, RetSound

LEMMA SetflSound ==
    ASSUME NEW s, NEW fly, NEW p, NEW d, NEW nonblock, NEW append, Sound(s, fly)
    PROVE  Sound(setfl(s, p, d, nonblock, append), fly)
<1> DEFINE f == get_filp2(s, p, d)
           t == [s EXCEPT !.filp[f].nonblock = nonblock, !.filp[f].append = append]
<1>1. setfl(s, p, d, nonblock, append) \in {Ret(s, EBADF), t}
  BY DEF setfl
<1> HIDE DEF f
<1>2. FilpOnly(s, t, f) /\ Server(s)
  BY DEF Sound, Server, FilpOnly, SameFilp
<1> HIDE DEF t
<1> QED
  BY <1>1, <1>2, FilpOnlyKept, KeptSound, RetSound

LEMMA FreespSound ==
    ASSUME NEW s, NEW fly, NEW p, NEW d, NEW start, Sound(s, fly)
    PROVE  Sound(freesp(s, p, d, start), fly)
<1> DEFINE x == s.filp[get_filp2(s, p, d)].vno
           t == [s EXCEPT !.fsize[s.vnode[x].ino] = start, !.vnode[x].size = start]
<1>1. freesp(s, p, d, start) \in {Ret(s, EBADF), Ret(s, EINVAL), t}
  BY DEF freesp
<1> HIDE DEF x
<1>2. Outside(s, t)
  BY DEF Outside
<1> HIDE DEF t
<1> QED
  BY <1>1, <1>2, OutsideSound, RetSound

LEMMA TruncateSound ==
    ASSUME NEW s, NEW fly, NEW ino, NEW size, Sound(s, fly)
    PROVE  Sound(do_truncate(s, ino, size), fly)
<1> DEFINE n == advance(s, ino)
           a == truncate_vnode(n.s, n.v, size)
           t == put_vnode(a, n.v)
<1>1. do_truncate(s, ino, size) \in {n.s, t}
  BY DEF do_truncate
<1>2. Outside(s, n.s)
  BY AdvanceOutside
<1> HIDE DEF n
<1>3. Outside(n.s, a)
  BY TruncateOutside
<1> HIDE DEF a
<1>4. Outside(a, t)
  BY PutVnodeOutside
<1> HIDE DEF t
<1> QED
  BY <1>1, <1>2, <1>3, <1>4, OutsideMore, OutsideSound

LEMMA FtruncateSound ==
    ASSUME NEW s, NEW fly, NEW p, NEW d, NEW size, Sound(s, fly)
    PROVE  Sound(do_ftruncate(s, p, d, size), fly)
<1> DEFINE x == s.filp[get_filp2(s, p, d)].vno
<1>1. do_ftruncate(s, p, d, size) \in {Ret(s, EBADF), truncate_vnode(s, x, size)}
  BY DEF do_ftruncate
<1> HIDE DEF x
<1> QED
  BY <1>1, TruncateOutside, OutsideSound, RetSound

LEMMA DirKept ==
    ASSUME NEW s, NEW p, NEW x, Server(s)
    PROVE  Kept(s, [s EXCEPT !.proc[p].wd = x], {}) /\ Kept(s, [s EXCEPT !.proc[p].rd = x], {})
<1> DEFINE a == [s EXCEPT !.proc[p].wd = x]
           b == [s EXCEPT !.proc[p].rd = x]
<1>1. SlotOnly(s, a, p) /\ SlotOnly(s, b, p)
  BY DEF Server, SlotOnly
<1>2. p \in Procs => /\ a.proc[p].blocked_on = s.proc[p].blocked_on
                     /\ a.proc[p].lock = s.proc[p].lock
                     /\ a.proc[p].block_fd = s.proc[p].block_fd
                     /\ a.proc[p].revived = s.proc[p].revived
                     /\ b.proc[p].blocked_on = s.proc[p].blocked_on
                     /\ b.proc[p].lock = s.proc[p].lock
                     /\ b.proc[p].block_fd = s.proc[p].block_fd
                     /\ b.proc[p].revived = s.proc[p].revived
  BY DEF Server
<1>3. p \in Procs => (s.proc[p].revived => s.proc[p].blocked_on \in {"PIPE", "LOCK"})
  BY DEF Server
<1> HIDE DEF a, b
<1>4. Kept(s, a, {})
  BY <1>1, <1>2, <1>3, SlotOnlyKept
<1>5. Kept(s, b, {})
  BY <1>1, <1>2, <1>3, SlotOnlyKept
<1> QED
  BY <1>4, <1>5 DEF a, b

LEMMA ChangeIntoSound ==
    ASSUME NEW s, NEW fly, NEW p, NEW which, NEW x, Sound(s, fly)
    PROVE  Sound(change_into(s, p, which, x), fly)
<1> DEFINE a == put_vnode(s, s.proc[p].wd)
           b == put_vnode(s, s.proc[p].rd)
           c == put_vnode(s, x)
<1>1. change_into(s, p, which, x) \in
        {Ret(c, ENOTDIR), [a EXCEPT !.proc[p].wd = x], [b EXCEPT !.proc[p].rd = x]}
  BY DEF change_into
<1>2. Sound(a, fly) /\ Sound(b, fly) /\ Sound(c, fly)
  BY PutVnodeOutside, OutsideSound
<1> HIDE DEF a, b, c
<1>3. Sound([a EXCEPT !.proc[p].wd = x], fly)
  BY <1>2, DirKept, KeptSound DEF Sound
<1>4. Sound([b EXCEPT !.proc[p].rd = x], fly)
  BY <1>2, DirKept, KeptSound DEF Sound
<1> QED
  BY <1>1, <1>2, <1>3, <1>4, RetSound

LEMMA ChangeSound ==
    ASSUME NEW s, NEW fly, NEW p, NEW which, NEW ino, Sound(s, fly)
    PROVE  Sound(change(s, p, which, ino), fly)
<1> DEFINE n == advance(s, ino)
<1>1. Sound(n.s, fly)
  BY AdvanceOutside, OutsideSound
<1>2. change(s, p, which, ino) \in {n.s, change_into(n.s, p, which, n.v)}
  BY DEF change
<1> HIDE DEF n
<1> QED
  BY <1>1, <1>2, ChangeIntoSound

LEMMA FchdirSound ==
    ASSUME NEW s, NEW fly, NEW p, NEW d, Sound(s, fly)
    PROVE  Sound(do_fchdir(s, p, d), fly)
<1> DEFINE x == s.filp[get_filp2(s, p, d)].vno
           a == dup_vnode(s, x)
<1>1. Sound(a, fly)
  BY DupVnodeOutside, OutsideSound
<1>2. do_fchdir(s, p, d) \in {Ret(s, EBADF), change_into(a, p, "wd", x)}
  BY DEF do_fchdir
<1> HIDE DEF x, a
<1> QED
  BY <1>1, <1>2, ChangeIntoSound, RetSound

LEMMA TimeoutSound ==
    ASSUME NEW s, NEW fly, NEW i \in Sels, Sound(s, fly)
    PROVE  Sound(select_timeout_check(s, i), fly)
<1>1. Kept(s, select_return(s, i), {})
  BY SelectReturnKept DEF Sound
<1>2. select_timeout_check(s, i) \in {s, select_return(s, i)}
  BY DEF select_timeout_check
<1> QED
  BY <1>1, <1>2, KeptSound

-----------------------------------------------------------------------------
(* select. *)

LEMMA CheckKept ==
    ASSUME NEW s, NEW p, NEW f, NEW ops, NEW call, NEW op, Server(s)
    PROVE  Kept(s, select_check(s, p, f, ops, call, op), {})
<1> DEFINE x == s.filp[f].vno
           pos == s.filp[f].pos
<1>1. select_check(s, p, f, ops, call, op) \in
        {Ret(s, SUSPEND), pipe_check(s, p, x, call, FALSE, 1, pos, TRUE)}
  BY DEF select_check
<1> HIDE DEF x, pos
<1> QED
  BY <1>1, PipeCheckKept, RetOutside, OutsideKept

LEMMA RequestPipeKept ==
    ASSUME NEW s, NEW p, NEW f, NEW ops, NEW block, Server(s)
    PROVE  Kept(s, select_request_pipe(s, p, f, ops, block).s, {})
<1> DEFINE rd == select_check(s, p, f, ops, "READ", SEL_RD)
           wr == select_check(rd, p, f, ops, "WRITE", SEL_WR)
           t == [wr EXCEPT !.filp[f].pipe_select_ops = @ \cup ops]
<1>1. select_request_pipe(s, p, f, ops, block).s \in {t, wr}
  <2> DEFINE mode == s.filp[f].mode
             q == select_answer(wr, f, mode, ops, block, rd.r)
  <2>1. select_request_pipe(s, p, f, ops, block) = q
    BY DEF select_request_pipe, select_write
  <2> HIDE DEF rd, wr, mode
  <2>2. q.s \in {t, wr}
    BY DEF select_answer
  <2> QED
    BY <2>1, <2>2
<1>2. Kept(s, rd, {})
  BY CheckKept
<1> HIDE DEF rd
<1>3. Kept(rd, wr, {})
  BY <1>2, CheckKept, KeptServer
<1> HIDE DEF wr
<1>4. FilpOnly(wr, t, f)
  BY <1>3 DEF Kept, Server, FilpOnly, SameFilp
<1> HIDE DEF t
<1>5. Kept(wr, t, {})
  BY <1>3, <1>4, FilpOnlyKept, KeptServer
<1> QED
  BY <1>1, <1>2, <1>3, <1>5, KeptTwo

LEMMA SelectFilpKept ==
    ASSUME NEW s, NEW p, NEW f, NEW ops, NEW block, Server(s)
    PROVE  Kept(s, select_filp(s, p, f, ops, block).s, {})
<1> DEFINE asked == [s EXCEPT !.filp[f].select_ops = @ \cup ops]
           want == asked.filp[f].select_ops
           q == select_request_pipe(asked, p, f, want, block)
<1>1. select_filp(s, p, f, ops, block).s \in {s, asked, q.s}
  BY DEF select_filp
<1> HIDE DEF want
<1>2. FilpOnly(s, asked, f)
  BY DEF Server, FilpOnly, SameFilp
<1> HIDE DEF asked
<1>3. Kept(s, asked, {})
  BY <1>2, FilpOnlyKept
<1>4. Kept(asked, q.s, {})
  BY <1>3, RequestPipeKept, KeptServer
<1> HIDE DEF q
<1> QED
  BY <1>1, <1>3, <1>4, KeptTwo, KeptSelf

\* Entry i counts descriptor d.
LEMMA EntryKept ==
    ASSUME NEW s, NEW i, NEW d \in Nat, NEW f, NEW ready, Server(s)
    PROVE  Kept(s, [ops2tab(s, i, d, ready) EXCEPT
                      !.sel[i].filps[d] = f, !.sel[i].nfds = d + 1, !.filp[f].selectors = @ + 1], {})
<1> DEFINE a == ops2tab(s, i, d, ready)
           b == [a EXCEPT !.sel[i].filps[d] = f]
           c == [b EXCEPT !.sel[i].nfds = d + 1]
           t == [c EXCEPT !.filp[f].selectors = @ + 1]
<1>1. t = [a EXCEPT !.sel[i].filps[d] = f, !.sel[i].nfds = d + 1, !.filp[f].selectors = @ + 1]
  OBVIOUS
<1>2. SelOnly(s, a, i)
  <2> DEFINE x == ready \cap tab2ops(s, i, d)
  <2>1. a = [s EXCEPT !.sel[i].ready[d] = @ \cup x]
    BY DEF ops2tab
  <2> HIDE DEF a, x
  <2> QED
    BY <2>1 DEF Server, SelOnly
<1> HIDE DEF a
<1>3. Kept(s, a, {})
  BY <1>2, SelOnlyKept
<1>4. SelOnly(a, b, i)
  BY <1>3 DEF Kept, Server, SelOnly
<1> HIDE DEF b
<1>5. Kept(a, b, {})
  BY <1>3, <1>4, SelOnlyKept, KeptServer
<1>6. SelOnly(b, c, i)
  BY <1>5 DEF Kept, Server, SelOnly
<1> HIDE DEF c
<1>7. Kept(b, c, {})
  BY <1>5, <1>6, SelOnlyKept, KeptServer
<1>8. FilpOnly(c, t, f)
  BY <1>7 DEF Kept, Server, FilpOnly, SameFilp
<1> HIDE DEF t
<1>9. Kept(c, t, {})
  BY <1>7, <1>8, FilpOnlyKept, KeptServer
<1>10. Kept(s, t, {})
  BY <1>3, <1>5, <1>7, <1>9, KeptTwo
<1> QED
  BY <1>1, <1>10 DEF t, c, b, a

LEMMA SelectFdKept ==
    ASSUME NEW a, NEW p, NEW i \in Sels, NEW d \in Nat, Server(a.s)
    PROVE  Kept(a.s, SelectFd(a, p, i, d).s, {})
<1> DEFINE s == a.s
           f == get_filp2(s, p, d)
           ops == tab2ops(s, i, d)
           q == select_filp(s, p, f, ops, s.sel[i].block)
           x == Ret(select_cancel_all(s, i), EBADF)
           m == [s EXCEPT !.sel[i].filps[d] = f]
           y == Ret(m, EBADF)
           z == [ops2tab(q.s, i, d, q.ready) EXCEPT
                   !.sel[i].filps[d] = f, !.sel[i].nfds = d + 1, !.filp[f].selectors = @ + 1]
<1>1. SelectFd(a, p, i, d).s \in {s, x, y, z}
  <2> DEFINE u == SelectFd(a, p, i, d)
  <2>1. u \in {a, [s |-> x, stop |-> TRUE], [s |-> y, stop |-> TRUE], [s |-> z, stop |-> FALSE]}
    BY DEF SelectFd, select_count
  <2> HIDE DEF u, x, y, z
  <2>2. u.s \in {s, x, y, z}
    BY <2>1
  <2> QED
    BY <2>2 DEF u
<1> HIDE DEF f, ops
<1>2. Kept(s, x, {})
  BY CancelKept, RetOutside, OutsideKept, KeptTwo, KeptServer
<1>3. Kept(s, y, {})
  <2>1. SelOnly(s, m, i)
    BY DEF Server, SelOnly
  <2> HIDE DEF m
  <2> QED
    BY <2>1, SelOnlyKept, RetOutside, OutsideKept, KeptTwo, KeptServer
<1>4. Kept(s, q.s, {})
  BY SelectFilpKept
<1> HIDE DEF q
<1>5. Kept(q.s, z, {})
  BY <1>4, EntryKept, KeptServer
<1> HIDE DEF x, y, z
<1> QED
  BY <1>1, <1>2, <1>3, <1>4, <1>5, KeptTwo, KeptSelf

SelectStep(p, i, c, a, d) == SelectFd(a, p, i, d)
SelectAfter(p, i, c, base, k, a) == Kept(base.s, a.s, {})
SelectFold == INSTANCE FoldInduction WITH Step <- SelectStep, Holds <- SelectAfter

LEMMA SelectCallSound ==
    ASSUME NEW s, NEW fly, NEW p \in Procs, NEW ops, NEW timeout,
           Sound(s, fly), s.proc[p].blocked_on = "NONE"
    PROVE  Sound(do_select(s, p, ops, timeout), fly)
<1> DEFINE is == {i \in Sels : s.sel[i].requestor = 0}
           i == Min(is)
           block == timeout # "POLL"
           x == [FreeSel EXCEPT !.ops = ops, !.block = block]
           e == [s EXCEPT !.sel[i] = x]
           base == [s |-> e, stop |-> FALSE]
           seq == [k \in 1..OPEN_MAX |-> k - 1]
           a == SelectFold!Fold(p, i, 0, base, seq, OPEN_MAX)
           n == NReady(a.s, i)
           freed == FreeEntry(a.s, i)
           done == Ret(FreeEntry(select_cancel_all(a.s, i), i), n)
           asked == [a.s EXCEPT !.sel[i].requestor = p, !.sel[i].timer = timeout = "TIMER"]
           asleep == suspend(asked, p, "SELECT", "SELECT", 0, 0, <<>>)
<1>1. OPEN_MAX \in Nat /\ DOMAIN seq = 1..OPEN_MAX
  BY TablesAssumption
<1>2. a = FoldLeft(LAMBDA b, d : SelectFd(b, p, i, d), base, seq)
  <2> HIDE DEF seq, base, i
  <2> QED
    BY <1>1 DEF FoldLeft, MapThenFoldSet, Max, SelectFold!Fold, SelectStep
<1>3. do_select(s, p, ops, timeout) \in {Ret(s, ENOSPC), freed, done, asleep} /\ (is = {} => do_select(s, p, ops, timeout) = Ret(s, ENOSPC))
  <2> DEFINE w == FoldLeft(LAMBDA b, d : SelectFd(b, p, i, d), base, seq)
  <2>1. do_select(s, p, ops, timeout) =
          IF is = {} THEN Ret(s, ENOSPC)
          ELSE IF w.stop THEN FreeEntry(w.s, i)
          ELSE IF NReady(w.s, i) > 0 \/ ~block THEN Ret(FreeEntry(select_cancel_all(w.s, i), i), NReady(w.s, i))
          ELSE suspend([w.s EXCEPT !.sel[i].requestor = p, !.sel[i].timer = timeout = "TIMER"],
                       p, "SELECT", "SELECT", 0, 0, <<>>)
    BY Zenon DEF do_select, select_done
  <2> HIDE DEF w, a, seq, base, is
  <2>2. w = a
    BY <1>2 DEF w
  <2> QED
    BY <2>1, <2>2
<1>4. CASE is = {}
  <2>1. do_select(s, p, ops, timeout) = Ret(s, ENOSPC)
    BY <1>3, <1>4
  <2>2. Sound(Ret(s, ENOSPC), fly)
    BY RetSound
  <2> QED
    BY <2>1, <2>2
<1>5. CASE is # {}
  <2>1. i \in Sels
    <3>1. is \in SUBSET Nat
      BY DEF Sels
    <3>2. i \in is
      BY <1>5, <3>1, MinIs
    <3> QED
      BY <3>2
  <2> HIDE DEF is, i
  <2>2. Server(s)
    BY DEF Sound
  <2>3. SelOnly(s, e, i)
    <3>1. "nfds" \in DOMAIN x /\ x.nfds = 0
      BY DEF FreeSel
    <3> HIDE DEF x
    <3> QED
      BY <2>1, <2>2, <3>1 DEF Server, SelOnly
  <2> HIDE DEF e
  <2>4. Kept(s, e, {})
    BY <2>2, <2>3, SelOnlyKept
  <2>5. base.s = e
    OBVIOUS
  <2>6. \A k \in 1..OPEN_MAX : seq[k] \in Nat
    BY <1>1
  <2> HIDE DEF base, seq
  <2>7. Kept(e, a.s, {})
    <3>1. SelectAfter(p, i, 0, base, 0, base)
      BY <2>4, <2>5, KeptSelf, KeptServer DEF SelectAfter
    <3>2. ASSUME NEW k \in 1..OPEN_MAX, NEW w, SelectAfter(p, i, 0, base, k - 1, w)
          PROVE  SelectAfter(p, i, 0, base, k, SelectStep(p, i, 0, w, seq[k]))
      <4>1. Kept(base.s, w.s, {}) /\ seq[k] \in Nat
        BY <2>6, <3>2 DEF SelectAfter
      <4>2. Kept(w.s, SelectFd(w, p, i, seq[k]).s, {})
        BY <2>1, <4>1, SelectFdKept, KeptServer
      <4> QED
        BY <4>1, <4>2, KeptTwo DEF SelectAfter, SelectStep
    <3>3. SelectAfter(p, i, 0, base, OPEN_MAX, a)
      BY <1>1, <3>1, <3>2, SelectFold!FoldHolds
    <3> QED
      BY <2>5, <3>3 DEF SelectAfter
  <2> HIDE DEF a
  <2>8. Kept(s, a.s, {})
    BY <2>4, <2>7, KeptTwo
  <2>9. Kept(s, freed, {})
    BY <2>1, <2>8, FreeEntryKept, KeptServer, KeptTwo
  <2>10. Kept(s, done, {})
    <3> DEFINE b == select_cancel_all(a.s, i)
               c == FreeEntry(b, i)
    <3>1. Kept(s, b, {})
      BY <2>1, <2>8, CancelKept, KeptServer, KeptTwo
    <3> HIDE DEF b
    <3>2. Kept(s, c, {})
      BY <2>1, <3>1, FreeEntryKept, KeptServer, KeptTwo
    <3> HIDE DEF c
    <3>3. Kept(s, Ret(c, n), {})
      BY <3>2, RetOutside, OutsideKept, KeptServer, KeptTwo
    <3> QED
      BY <3>3 DEF c, b
  <2>11. SelOnly(a.s, asked, i)
    BY <2>8 DEF Kept, Server, SelOnly
  <2> HIDE DEF asked
  <2>12. Kept(s, asked, {})
    BY <2>8, <2>11, SelOnlyKept, KeptServer, KeptTwo
  <2>13. ~asked.proc[p].revived
    BY <2>12 DEF Kept, Napping, Server
  <2>14. Kept(asked, asleep, {p})
    BY <2>12, <2>13, SuspendKept, KeptServer
  <2> HIDE DEF freed, done, asleep
  <2> QED
    BY <1>3, <2>9, <2>10, <2>12, <2>14, RetSound, KeptSound
<1> QED
  BY <1>4, <1>5

-----------------------------------------------------------------------------
(* Locks are cut. *)

\* What is left of a lock.
Within(k, m) ==
    /\ {"type", "pid", "vno", "first", "last"} \subseteq DOMAIN k
    /\ k.type = m.type /\ k.pid = m.pid /\ k.vno = m.vno
    /\ k.first \in Int /\ k.last \in Int
    /\ m.first =< k.first /\ k.first =< k.last /\ k.last =< m.last

\* Every lock is left of one there was, and nothing else has changed.
Trimmed(s, t) ==
    /\ Server(t) /\ Table(t) /\ t.proc = s.proc /\ t.filp = s.filp
    /\ \A l \in Taken(t) : \E m \in Taken(s) : t.lock[l].pid = s.lock[m].pid
                                               /\ t.lock[l].vno = s.lock[m].vno

LEMMA TrimmedSound ==
    ASSUME NEW s, NEW t, NEW fly, Sound(s, fly), Trimmed(s, t) PROVE Sound(t, fly)
<1>1. Books(t, fly) /\ Waiters(t)
  BY DEF Sound, Trimmed, Books, At, Refs, Waiters, Waiter
<1>2. Owned(t)
  <2> SUFFICES ASSUME NEW l \in Taken(t) PROVE HasOpen(t, t.lock[l].pid, t.lock[l].vno)
    BY DEF Owned
  <2>1. PICK m \in Taken(s) : t.lock[l].pid = s.lock[m].pid /\ t.lock[l].vno = s.lock[m].vno
    BY DEF Trimmed
  <2>2. HasOpen(s, s.lock[m].pid, s.lock[m].vno)
    BY DEF Sound, Owned
  <2> QED
    BY <2>1, <2>2 DEF Trimmed, HasOpen
<1> QED
  BY <1>1, <1>2 DEF Sound, Trimmed

LEMMA TrimmedMore ==
    ASSUME NEW s, NEW t, NEW u, Trimmed(s, t), Trimmed(t, u) PROVE Trimmed(s, u)
BY DEF Trimmed

LEMMA TrimmedSelf ==
    ASSUME NEW s, NEW t, Server(s), Table(s), Outside(s, t) PROVE Trimmed(s, t)
<1>1. Server(t)
  BY OutsideKept DEF Kept
<1>2. Table(t) /\ Taken(t) = Taken(s)
  BY DEF Table, Taken, Outside
<1> QED
  BY <1>1, <1>2 DEF Trimmed, Outside

LEMMA ApartWithin ==
    ASSUME NEW k, NEW m, NEW k1, NEW m1, Within(k1, k), Within(m1, m), Apart(k, m),
           k.first \in Int, k.last \in Int, m.first \in Int, m.last \in Int
    PROVE  Apart(k1, m1)
<1> SUFFICES ASSUME m1.type # "NONE", m1.vno = k1.vno, k1.last >= m1.first,
                    k1.first =< m1.last, m1.pid # k1.pid
             PROVE  k1.type = "RD" /\ m1.type = "RD"
  BY DEF Apart
<1>1. /\ k1.first \in Int /\ k1.last \in Int /\ m1.first \in Int /\ m1.last \in Int
      /\ k.first =< k1.first /\ k1.last =< k.last /\ m.first =< m1.first /\ m1.last =< m.last
  BY DEF Within
<1>2. k.last >= m.first /\ k.first =< m.last
  BY <1>1
<1>3. m.type # "NONE" /\ m.vno = k.vno /\ m.pid # k.pid
  BY DEF Within
<1>4. k.type = "RD" /\ m.type = "RD"
  BY <1>2, <1>3 DEF Apart
<1> QED
  BY <1>4 DEF Within

LEMMA TableCut ==
    ASSUME NEW s, NEW t, Table(s), DOMAIN t.lock = Slots,
           \A l \in Taken(t) : \E m \in Taken(s) : Within(t.lock[l], s.lock[m]),
           \A l \in Slots \ Taken(t) : t.lock[l] = FreeLock \/ (t.lock[l] = s.lock[l] /\ l \notin Taken(s)),
           t.nr_locks = Cardinality(Taken(t))
    PROVE  Table(t)
<1>1. ASSUME NEW l \in Slots
      PROVE  /\ {"type", "pid", "vno", "first", "last"} \subseteq DOMAIN t.lock[l]
             /\ t.lock[l].first \in Int /\ t.lock[l].last \in Int
  <2>1. CASE l \in Taken(t)
    BY <2>1 DEF Within
  <2>2. CASE l \notin Taken(t)
    BY <2>2 DEF Table, FreeLock
  <2> QED
    BY <2>1, <2>2
<1>2. \A l \in Taken(t) : t.lock[l].pid \in Procs /\ t.lock[l].first =< t.lock[l].last
  BY DEF Table, Within
<1>3. \A l \in Slots \ Taken(t) : t.lock[l].pid = 0
  BY DEF Table, FreeLock
<1>4. ASSUME NEW l \in Taken(t), NEW m \in Taken(t) PROVE Apart(t.lock[l], t.lock[m])
  <2>1. PICK l0 \in Taken(s) : Within(t.lock[l], s.lock[l0])
    OBVIOUS
  <2>2. PICK m0 \in Taken(s) : Within(t.lock[m], s.lock[m0])
    OBVIOUS
  <2>3. /\ Apart(s.lock[l0], s.lock[m0])
        /\ s.lock[l0].first \in Int /\ s.lock[l0].last \in Int
        /\ s.lock[m0].first \in Int /\ s.lock[m0].last \in Int
    BY DEF Table, Taken
  <2> QED
    BY <2>1, <2>2, <2>3, ApartWithin
<1> QED
  BY <1>1, <1>2, <1>3, <1>4 DEF Table

\* The slots are finite in number.
LEMMA TakenFinite ==
    ASSUME NEW s
    PROVE  /\ IsFiniteSet(Slots) /\ Cardinality(Slots) = NR_LOCKS
           /\ IsFiniteSet(Taken(s)) /\ Cardinality(Taken(s)) \in Nat
<1>1. NR_LOCKS \in Nat /\ NR_LOCKS \in Int /\ 1 \in Int
  BY TablesAssumption
<1>2. IsFiniteSet(Slots) /\ Cardinality(Slots) = NR_LOCKS
  BY <1>1, FS_Interval DEF Slots
<1>3. IsFiniteSet(Taken(s))
  BY <1>2, FS_Subset DEF Taken
<1> QED
  BY <1>2, <1>3, FS_CardinalityType

LEMMA CutTrimmed ==
    ASSUME NEW s, NEW l \in Taken(s), NEW fl \in Flocks, Server(s), Table(s),
           fl.first =< fl.last, fl.last >= s.lock[l].first, fl.first =< s.lock[l].last
    PROVE  Trimmed(s, Cut(s, l, fl))
<1> DEFINE k == s.lock[l]
           frees == {m \in 1..NR_LOCKS : s.lock[m].type = "NONE"}
           other == Min(frees)
           front == [k EXCEPT !.first = fl.last + 1]
           end == [k EXCEPT !.last = fl.first - 1]
           a == [s EXCEPT !.lock[l] = FreeLock, !.nr_locks = @ - 1]
           b == [s EXCEPT !.lock[l].first = fl.last + 1]
           c == [s EXCEPT !.lock[l].last = fl.first - 1]
           e == [s EXCEPT !.lock[other] = front, !.lock[l].last = fl.first - 1, !.nr_locks = @ + 1]
<1>1. Cut(s, l, fl) = IF fl.first <= k.first /\ fl.last >= k.last THEN a
                      ELSE IF fl.first <= k.first THEN b
                      ELSE IF fl.last >= k.last THEN c
                      ELSE IF s.nr_locks = NR_LOCKS THEN Ret(s, ENOLCK)
                      ELSE e
  BY Zenon DEF Cut
<1>2. /\ l \in Slots /\ k.type # "NONE" /\ k.first \in Int /\ k.last \in Int
      /\ {"type", "pid", "vno", "first", "last"} \subseteq DOMAIN k
      /\ k.first =< k.last /\ fl.first \in Int /\ fl.last \in Int
      /\ DOMAIN s.lock = Slots
  BY DEF Taken, Table, Flocks
<1>3. \A m \in Taken(s) : Within(s.lock[m], s.lock[m])
  BY DEF Table, Within, Taken
<1>4. /\ IsFiniteSet(Taken(s)) /\ s.nr_locks = Cardinality(Taken(s)) /\ Cardinality(Taken(s)) \in Nat
      /\ IsFiniteSet(Slots) /\ Cardinality(Slots) = NR_LOCKS
  BY TakenFinite DEF Table
<1>5. CASE fl.first <= k.first /\ fl.last >= k.last
  <2>1. /\ Server(a) /\ a.proc = s.proc /\ a.filp = s.filp /\ DOMAIN a.lock = Slots
        /\ a.lock[l] = FreeLock /\ \A m \in Slots : m # l => a.lock[m] = s.lock[m]
        /\ a.nr_locks = s.nr_locks - 1
    BY <1>2 DEF Server
  <2>2. Cut(s, l, fl) = a
    BY <1>1, <1>5
  <2> HIDE DEF a
  <2>3. Taken(a) = Taken(s) \ {l}
    BY <2>1 DEF Taken, FreeLock
  <2>4. Cardinality(Taken(a)) = Cardinality(Taken(s)) - 1
    BY <1>4, <2>3, FS_RemoveElement
  <2>5. \A m \in Taken(a) : m \in Taken(s) /\ a.lock[m] = s.lock[m]
    BY <2>1, <2>3 DEF Taken
  <2>6. \A m \in Slots \ Taken(a) : a.lock[m] = FreeLock \/ (a.lock[m] = s.lock[m] /\ m \notin Taken(s))
    BY <2>1, <2>3
  <2>7. Table(a)
    BY <1>3, <1>4, <2>1, <2>4, <2>5, <2>6, TableCut
  <2> QED
    BY <2>1, <2>2, <2>5, <2>7 DEF Trimmed
<1>6. ASSUME NEW t, NEW part, Within(part, k), t.lock[l] = part,
             Server(t), t.proc = s.proc, t.filp = s.filp, DOMAIN t.lock = Slots,
             \A m \in Slots : m # l => t.lock[m] = s.lock[m], t.nr_locks = s.nr_locks
      PROVE  Trimmed(s, t)
  <2>1. Taken(t) = Taken(s)
    BY <1>2, <1>6 DEF Taken, Within
  <2>2. \A m \in Taken(t) : Within(t.lock[m], s.lock[m])
    BY <1>3, <1>6, <2>1 DEF Taken
  <2>3. \A m \in Slots \ Taken(t) : t.lock[m] = FreeLock \/ (t.lock[m] = s.lock[m] /\ m \notin Taken(s))
    BY <1>6, <2>1
  <2>4. Table(t)
    BY <1>4, <1>6, <2>1, <2>2, <2>3, TableCut
  <2> QED
    BY <1>6, <2>1, <2>2, <2>4 DEF Trimmed, Within
<1>7. CASE fl.first <= k.first /\ ~(fl.last >= k.last)
  <2>1. Within(front, k)
    BY <1>2, <1>7 DEF Within
  <2>2. /\ Server(b) /\ b.proc = s.proc /\ b.filp = s.filp /\ DOMAIN b.lock = Slots
        /\ b.lock[l] = front /\ \A m \in Slots : m # l => b.lock[m] = s.lock[m]
        /\ b.nr_locks = s.nr_locks
    BY <1>2 DEF Server
  <2>3. Cut(s, l, fl) = b
    BY <1>1, <1>7
  <2> HIDE DEF b, front
  <2> QED
    BY <1>6, <2>1, <2>2, <2>3
<1>8. CASE ~(fl.first <= k.first) /\ fl.last >= k.last
  <2>1. Within(end, k)
    BY <1>2, <1>8 DEF Within
  <2>2. /\ Server(c) /\ c.proc = s.proc /\ c.filp = s.filp /\ DOMAIN c.lock = Slots
        /\ c.lock[l] = end /\ \A m \in Slots : m # l => c.lock[m] = s.lock[m]
        /\ c.nr_locks = s.nr_locks
    BY <1>2 DEF Server
  <2>3. Cut(s, l, fl) = c
    BY <1>1, <1>8
  <2> HIDE DEF c, end
  <2> QED
    BY <1>6, <2>1, <2>2, <2>3
<1>9. CASE ~(fl.first <= k.first) /\ ~(fl.last >= k.last) /\ s.nr_locks = NR_LOCKS
  <2>1. Cut(s, l, fl) = Ret(s, ENOLCK)
    BY <1>1, <1>9
  <2> QED
    BY <2>1, RetOutside, TrimmedSelf
<1>10. CASE ~(fl.first <= k.first) /\ ~(fl.last >= k.last) /\ s.nr_locks # NR_LOCKS
  <2>1. Within(front, k) /\ Within(end, k)
    BY <1>2, <1>10 DEF Within
  <2>2. frees # {}
    <3> SUFFICES ASSUME frees = {} PROVE FALSE
      OBVIOUS
    <3>1. Taken(s) = Slots
      BY DEF Taken, Slots
    <3> QED
      BY <1>4, <1>10, <3>1
  <2>3. other \in Slots /\ other \notin Taken(s)
    <3>1. frees \in SUBSET Nat
      OBVIOUS
    <3>2. other \in frees
      BY <2>2, <3>1, MinIs
    <3> QED
      BY <3>2 DEF Slots, Taken
  <2> HIDE DEF other
  <2>4. l # other
    BY <2>3
  <2>5. /\ Server(e) /\ e.proc = s.proc /\ e.filp = s.filp /\ DOMAIN e.lock = Slots
        /\ e.lock[l] = end /\ e.lock[other] = front
        /\ \A m \in Slots : m # l /\ m # other => e.lock[m] = s.lock[m]
        /\ e.nr_locks = s.nr_locks + 1
    BY <1>2, <2>3, <2>4 DEF Server
  <2>6. Cut(s, l, fl) = e
    BY <1>1, <1>10
  <2> HIDE DEF e, front, end
  <2>7. Taken(e) = Taken(s) \cup {other}
    BY <1>2, <2>1, <2>3, <2>5 DEF Taken, Within
  <2>8. Cardinality(Taken(e)) = Cardinality(Taken(s)) + 1
    <3>1. \A x : x \notin Taken(s) => Cardinality(Taken(s) \cup {x}) = Cardinality(Taken(s)) + 1
      BY <1>4, FS_AddElement
    <3> QED
      BY <2>3, <2>7, <3>1
  <2>9. ASSUME NEW m \in Taken(e) PROVE \E m0 \in Taken(s) : Within(e.lock[m], s.lock[m0])
    <3>1. CASE m = l \/ m = other
      BY <2>1, <2>5, <3>1
    <3>2. CASE m # l /\ m # other
      <4>1. m \in Taken(s) /\ m \in Slots
        BY <2>7, <3>2 DEF Taken
      <4> QED
        BY <1>3, <2>5, <3>2, <4>1
    <3> QED
      BY <3>1, <3>2
  <2>10. \A m \in Slots \ Taken(e) : e.lock[m] = FreeLock \/ (e.lock[m] = s.lock[m] /\ m \notin Taken(s))
    BY <2>5, <2>7
  <2>11. Table(e)
    BY <1>4, <2>5, <2>8, <2>9, <2>10, TableCut
  <2> QED
    BY <2>5, <2>6, <2>9, <2>11 DEF Trimmed, Within
<1> QED
  BY <1>5, <1>7, <1>8, <1>9, <1>10

-----------------------------------------------------------------------------
(* The calls on locks. *)

ClearStep(p, x, fl, t, l) ==
    IF t.r # OK \/ ~InTheWay(t, p, x, fl, l) THEN t ELSE Cut(t, l, fl)
ClearAfter(p, x, fl, base, k, t) == Trimmed(base, t)
ClearFold == INSTANCE FoldInduction WITH Step <- ClearStep, Holds <- ClearAfter

LEMMA ClearStepTrimmed ==
    ASSUME NEW p, NEW x, NEW fl \in Flocks, NEW t, NEW l \in Slots, Server(t), Table(t),
           fl.first =< fl.last
    PROVE  Trimmed(t, ClearStep(p, x, fl, t, l))
<1>1. CASE t.r # OK \/ ~InTheWay(t, p, x, fl, l)
  BY <1>1, TrimmedSelf DEF ClearStep, Outside
<1>2. CASE ~(t.r # OK \/ ~InTheWay(t, p, x, fl, l))
  <2>1. l \in Taken(t) /\ fl.last >= t.lock[l].first /\ fl.first =< t.lock[l].last
    BY <1>2 DEF InTheWay, Overlap, Taken
  <2>2. ClearStep(p, x, fl, t, l) = Cut(t, l, fl)
    BY <1>2 DEF ClearStep
  <2> QED
    BY <2>1, <2>2, CutTrimmed
<1> QED
  BY <1>1, <1>2

LEMMA ClearTrimmed ==
    ASSUME NEW s, NEW p, NEW x, NEW fl \in Flocks, Server(s), Table(s), fl.first =< fl.last
    PROVE  Trimmed(s, Clear(s, p, x, fl))
<1> DEFINE base == Ret(s, OK)
           seq == [l \in 1..NR_LOCKS |-> l]
           t == ClearFold!Fold(p, x, fl, base, seq, NR_LOCKS)
<1>1. NR_LOCKS \in Nat /\ DOMAIN seq = 1..NR_LOCKS /\ \A k \in 1..NR_LOCKS : seq[k] \in Slots
  BY TablesAssumption DEF Slots
<1>2. Clear(s, p, x, fl) = t
  <2> HIDE DEF seq, base
  <2>1. t = FoldLeft(LAMBDA w, l : IF w.r # OK \/ ~InTheWay(w, p, x, fl, l) THEN w ELSE Cut(w, l, fl),
                     base, seq)
    BY <1>1 DEF FoldLeft, MapThenFoldSet, Max, ClearFold!Fold, ClearStep
  <2> QED
    BY <2>1, Zenon DEF Clear, base, seq
<1>3. Trimmed(s, base)
  BY RetOutside, TrimmedSelf
<1> HIDE DEF base, seq
<1>4. ClearAfter(p, x, fl, base, 0, base)
  BY <1>3, TrimmedSelf DEF ClearAfter, Trimmed, Outside
<1>5. ASSUME NEW k \in 1..NR_LOCKS, NEW w, ClearAfter(p, x, fl, base, k - 1, w)
      PROVE  ClearAfter(p, x, fl, base, k, ClearStep(p, x, fl, w, seq[k]))
  <2>1. Trimmed(base, w) /\ Server(w) /\ Table(w)
    BY <1>5 DEF ClearAfter, Trimmed
  <2>2. Trimmed(w, ClearStep(p, x, fl, w, seq[k]))
    BY <1>1, <2>1, ClearStepTrimmed
  <2> QED
    BY <2>1, <2>2, TrimmedMore DEF ClearAfter
<1>6. ClearAfter(p, x, fl, base, NR_LOCKS, t)
  BY <1>1, <1>4, <1>5, ClearFold!FoldHolds
<1> QED
  BY <1>2, <1>3, <1>6, TrimmedMore DEF ClearAfter

\* A process that waits for a lock.
LEMMA LockWaitSound ==
    ASSUME NEW s, NEW fly, NEW p \in Procs, NEW d \in Fds, NEW req, NEW fl \in Flocks,
           Sound(s, fly), s.proc[p].blocked_on = "NONE", s.proc[p].filp[d] # NULL, fl.type # "UNLCK"
    PROVE  Sound(suspend(s, p, "LOCK", "FCNTL", d, 0, <<req, fl>>), fly)
<1> DEFINE t == suspend(s, p, "LOCK", "FCNTL", d, 0, <<req, fl>>)
<1>1. Server(s)
  BY DEF Sound
<1>2. /\ SlotOnly(s, t, p)
      /\ t.proc[p].blocked_on = "LOCK" /\ t.proc[p].block_fd = d
      /\ t.proc[p].lock = <<req, fl>> /\ t.proc[p].revived = s.proc[p].revived
  BY <1>1, SuspendSlot
<1> HIDE DEF t
<1>3. ~t.proc[p].revived
  BY <1>1, <1>2 DEF Server
<1>4. \A q \in Procs : /\ DOMAIN t.proc[q] = DOMAIN s.proc[q] /\ t.proc[q].filp = s.proc[q].filp
                       /\ t.proc[q].used = s.proc[q].used
  BY <1>2 DEF SlotOnly
<1>5. Server(t)
  BY <1>1, <1>2, <1>3, <1>4 DEF Server, SlotOnly
<1>6. Books(t, fly)
  <2>1. \A f \in Filps : At(t, f) = At(s, f)
    BY <1>4 DEF At, Refs
  <2> QED
    BY <1>2, <1>4, <2>1 DEF Sound, Books, SlotOnly
<1>7. Waiters(t)
  <2> SUFFICES ASSUME NEW q \in Procs, t.proc[q].blocked_on = "LOCK" PROVE Waiter(t, q)
    BY DEF Waiters
  <2>1. CASE q = p
    <3>1. t.proc[p].lock[2] = fl
      BY <1>2
    <3> QED
      BY <1>2, <1>4, <2>1, <3>1 DEF Waiter
  <2>2. CASE q # p
    <3>1. t.proc[q] = s.proc[q]
      BY <1>2, <2>2 DEF SlotOnly
    <3> QED
      BY <3>1 DEF Sound, Waiters, Waiter
  <2> QED
    BY <2>1, <2>2
<1>8. Table(t) /\ Taken(t) = Taken(s) /\ t.lock = s.lock
  BY <1>2 DEF Sound, Table, Taken, SlotOnly
<1>9. Owned(t)
  <2>1. \A l \in Taken(s) : s.lock[l].pid \in Procs
    BY DEF Sound, Table
  <2>2. \A q \in Procs : \A x : HasOpen(s, q, x) => HasOpen(t, q, x)
    BY <1>2, <1>4 DEF HasOpen, SlotOnly
  <2> QED
    BY <1>8, <2>1, <2>2 DEF Sound, Owned
<1> QED
  BY <1>5, <1>6, <1>7, <1>8, <1>9 DEF Sound, t

\* A lock that nothing is in the way of.
LEMMA NewLockSound ==
    ASSUME NEW s, NEW fly, NEW p \in Procs, NEW d \in Fds, NEW l \in Slots, NEW fl \in Flocks, NEW x,
           Sound(s, fly), s.proc[p].filp[d] # NULL, x = s.filp[s.proc[p].filp[d]].vno,
           fl.type # "UNLCK", fl.first =< fl.last, s.lock[l].type = "NONE",
           \A m \in Slots : ~InTheWay(s, p, x, fl, m)
    PROVE  Sound([s EXCEPT !.lock[l] = [type |-> fl.type, pid |-> p, vno |-> x,
                                        first |-> fl.first, last |-> fl.last],
                           !.nr_locks = @ + 1, !.r = OK], fly)
<1> DEFINE new == [type |-> fl.type, pid |-> p, vno |-> x, first |-> fl.first, last |-> fl.last]
           t == [s EXCEPT !.lock[l] = new, !.nr_locks = @ + 1, !.r = OK]
<1>1. Server(s) /\ DOMAIN s.lock = Slots
  BY DEF Sound, Table
<1>2. /\ {"type", "pid", "vno", "first", "last"} \subseteq DOMAIN new
      /\ new.type # "NONE" /\ new.pid = p /\ new.vno = x /\ new.first = fl.first /\ new.last = fl.last
      /\ new.first \in Int /\ new.last \in Int /\ new.first =< new.last /\ new.type = fl.type
  BY DEF Flocks
<1> HIDE DEF new
<1>3. /\ Server(t) /\ t.proc = s.proc /\ t.filp = s.filp /\ DOMAIN t.lock = Slots
      /\ t.lock[l] = new /\ \A m \in Slots : m # l => t.lock[m] = s.lock[m]
      /\ t.nr_locks = s.nr_locks + 1
  BY <1>1 DEF Server
<1> HIDE DEF t
<1>4. l \notin Taken(s) /\ Taken(t) = Taken(s) \cup {l}
  BY <1>2, <1>3 DEF Taken
<1>5. t.nr_locks = Cardinality(Taken(t))
  <2>1. IsFiniteSet(Taken(s)) /\ s.nr_locks = Cardinality(Taken(s))
    BY TakenFinite DEF Sound, Table
  <2>2. \A y : y \notin Taken(s) => Cardinality(Taken(s) \cup {y}) = Cardinality(Taken(s)) + 1
    BY <2>1, FS_AddElement
  <2> QED
    BY <1>3, <1>4, <2>1, <2>2
<1>6. \A m \in Taken(s) : m \in Slots /\ m # l /\ t.lock[m] = s.lock[m]
  BY <1>3, <1>4 DEF Taken
<1>7. ASSUME NEW m \in Taken(s) PROVE Apart(new, s.lock[m]) /\ Apart(s.lock[m], new)
  <2>1. /\ s.lock[m].type # "NONE" /\ s.lock[m].first \in Int /\ s.lock[m].last \in Int
        /\ ~InTheWay(s, p, x, fl, m) /\ fl.first \in Int /\ fl.last \in Int
    BY DEF Sound, Table, Taken, Flocks
  <2>2. ASSUME s.lock[m].vno = x, fl.last >= s.lock[m].first, fl.first =< s.lock[m].last,
               s.lock[m].pid # p
        PROVE  fl.type = "RD" /\ s.lock[m].type = "RD"
    BY <2>1, <2>2 DEF InTheWay, Overlap
  <2> QED
    BY <1>2, <2>1, <2>2 DEF Apart
<1>8. Apart(new, new)
  BY DEF Apart
<1>9. Table(t)
  <2>1. \A m \in Slots : /\ {"type", "pid", "vno", "first", "last"} \subseteq DOMAIN t.lock[m]
                         /\ t.lock[m].first \in Int /\ t.lock[m].last \in Int
    BY <1>2, <1>3 DEF Sound, Table
  <2>2. \A m \in Taken(t) : t.lock[m].pid \in Procs /\ t.lock[m].first =< t.lock[m].last
    BY <1>2, <1>3, <1>4, <1>6 DEF Sound, Table
  <2>3. \A m \in Slots \ Taken(t) : t.lock[m].pid = 0
    BY <1>3, <1>4 DEF Sound, Table
  <2>4. ASSUME NEW m \in Taken(t), NEW n \in Taken(t) PROVE Apart(t.lock[m], t.lock[n])
    <3>1. CASE m = l
      BY <1>3, <1>4, <1>6, <1>7, <1>8, <3>1
    <3>2. CASE m # l
      <4>1. m \in Taken(s) /\ t.lock[m] = s.lock[m]
        BY <1>4, <1>6, <3>2
      <4>2. CASE n = l
        BY <1>3, <1>7, <4>1, <4>2
      <4>3. CASE n # l
        BY <1>4, <1>6, <4>1, <4>3 DEF Sound, Table
      <4> QED
        BY <4>2, <4>3
    <3> QED
      BY <3>1, <3>2
  <2> QED
    BY <1>3, <1>5, <2>1, <2>2, <2>3, <2>4 DEF Table
<1>10. Owned(t)
  <2>1. \A q, y : HasOpen(s, q, y) => HasOpen(t, q, y)
    BY <1>3 DEF HasOpen
  <2>2. HasOpen(t, p, x)
    BY <1>3 DEF HasOpen
  <2> QED
    BY <1>2, <1>3, <1>4, <1>6, <2>1, <2>2 DEF Sound, Owned
<1>11. Books(t, fly) /\ Waiters(t)
  <2>1. \A g \in Filps : At(t, g) = At(s, g)
    BY <1>3 DEF At, Refs
  <2>2. Books(t, fly)
    BY <1>3, <2>1 DEF Sound, Books
  <2>3. Waiters(t)
    BY <1>3 DEF Sound, Waiters, Waiter
  <2> QED
    BY <2>2, <2>3
<1>12. Sound(t, fly)
  BY <1>3, <1>9, <1>10, <1>11 DEF Sound
<1> QED
  BY <1>12 DEF t, new

LEMMA LockOpSound ==
    ASSUME NEW s, NEW fly, NEW p \in Procs, NEW d \in Fds, NEW req, NEW fl \in Flocks,
           Sound(s, fly), s.proc[p].blocked_on = "NONE", s.proc[p].filp[d] # NULL
    PROVE  Sound(lock_op(s, p, d, req, fl), fly)
<1> DEFINE g == s.proc[p].filp[d]
           f == s.filp[g]
           x == f.vno
           way == {l \in 1..NR_LOCKS : InTheWay(s, p, x, fl, l)}
           empty == {l \in 1..NR_LOCKS : s.lock[l].type = "NONE"}
           a == Clear(s, p, x, fl)
           c == IF a.r = OK /\ way # {} THEN lock_revive(a) ELSE a
           w == suspend(s, p, "LOCK", "FCNTL", d, 0, <<req, fl>>)
           new == [type |-> fl.type, pid |-> p, vno |-> x, first |-> fl.first, last |-> fl.last]
           t == [s EXCEPT !.lock[Min(empty)] = new, !.nr_locks = @ + 1, !.r = OK]
           u == lock_op(s, p, d, req, fl)
<1>1. u = IF ModeOf(s, x) # "REG" \/ fl.last < fl.first THEN Ret(s, EINVAL)
          ELSE IF \/ req # "GETLK" /\ fl.type = "RD" /\ R_BIT \notin f.mode
                  \/ req # "GETLK" /\ fl.type = "WR" /\ W_BIT \notin f.mode THEN Ret(s, EBADF)
          ELSE IF req = "GETLK" THEN Ret(s, IF fl.type = "UNLCK" THEN EINVAL ELSE OK)
          ELSE IF fl.type = "UNLCK" THEN c
          ELSE IF way # {} THEN IF req = "SETLK" THEN Ret(s, EAGAIN) ELSE w
          ELSE IF empty = {} THEN Ret(s, ENOLCK)
          ELSE t
  BY Zenon DEF lock_op
<1>2. \A r : Sound(Ret(s, r), fly)
  BY RetSound
<1>3. Server(s) /\ Table(s) /\ fl.first \in Int /\ fl.last \in Int
  BY DEF Sound, Flocks
<1>4. ASSUME ~(fl.last < fl.first) PROVE Sound(c, fly)
  <2>1. fl.first =< fl.last
    BY <1>3, <1>4
  <2>2. Trimmed(s, a)
    BY <1>3, <2>1, ClearTrimmed
  <2> HIDE DEF a
  <2>3. Sound(a, fly)
    BY <2>2, TrimmedSound
  <2>4. Sound(lock_revive(a), fly)
    BY <2>2, <2>3, LockReviveKept, KeptSound DEF Trimmed
  <2> QED
    BY <2>3, <2>4
<1>5. ASSUME fl.type # "UNLCK" PROVE Sound(w, fly)
  BY <1>5, LockWaitSound
<1>6. ASSUME ~(fl.last < fl.first), fl.type # "UNLCK", way = {}, empty # {} PROVE Sound(t, fly)
  <2>1. Min(empty) \in Slots /\ s.lock[Min(empty)].type = "NONE"
    <3>1. empty \in SUBSET Nat
      OBVIOUS
    <3>2. Min(empty) \in empty
      BY <1>6, <3>1, MinIs
    <3> QED
      BY <3>2 DEF Slots
  <2>2. \A m \in Slots : ~InTheWay(s, p, x, fl, m)
    BY <1>6 DEF Slots
  <2>3. fl.first =< fl.last /\ x = s.filp[s.proc[p].filp[d]].vno
    BY <1>3, <1>6
  <2> DEFINE l == Min(empty)
  <2>4. l \in Slots /\ s.lock[l].type = "NONE"
    BY <2>1
  <2> HIDE DEF l, x, empty
  <2> QED
    BY <1>6, <2>2, <2>3, <2>4, NewLockSound DEF l
<1> HIDE DEF c, w, t, u, way, empty
<1> QED
  BY <1>1, <1>2, <1>4, <1>5, <1>6 DEF u

LEMMA SetlkSound ==
    ASSUME NEW s, NEW fly, NEW p \in Procs, NEW d \in Fds, NEW req, NEW fl \in Flocks,
           Sound(s, fly), s.proc[p].blocked_on = "NONE"
    PROVE  Sound(setlk(s, p, d, req, fl), fly)
<1>1. CASE s.proc[p].filp[d] = NULL
  BY <1>1, RetSound DEF setlk, get_filp2
<1>2. CASE s.proc[p].filp[d] # NULL
  BY <1>2, LockOpSound DEF setlk, get_filp2
<1> QED
  BY <1>1, <1>2

-----------------------------------------------------------------------------
(* Processes that come and go. *)

LEMMA PairsFew ==
    ASSUME NEW D, NEW q, IsFiniteSet(D)
    PROVE  LET T == {<<q, d>> : d \in D}
           IN IsFiniteSet(T) /\ Cardinality(T) =< Cardinality(D)
<1> DEFINE T == {<<q, d>> : d \in D}
           g == [d \in D |-> <<q, d>>]
<1>1. g \in Surjection(D, T)
  BY DEF Surjection
<1> HIDE DEF T, g
<1>2. IsFiniteSet(T) /\ Cardinality(T) =< Cardinality(D)
  BY <1>1, FS_Surjection
<1> QED
  BY <1>2 DEF T

\* A child has its parent's descriptors, each counted.
Copies(s, p, f) == {d \in Fds : s.proc[p].filp[d] = f}
Recounted(s, p) == [f \in Filps |-> [s.filp[f] EXCEPT !.count = @ + Cardinality(Copies(s, p, f))]]
Forked(s, p, child) == [s EXCEPT !.proc[child] = s.proc[p], !.filp = Recounted(s, p)]

LEMMA ForkedSound ==
    ASSUME NEW s, NEW fly, NEW p \in Procs, NEW child \in Procs,
           Sound(s, fly), s.proc[p].used, s.proc[p].blocked_on = "NONE", ~s.proc[child].used
    PROVE  Sound(Forked(s, p, child), fly)
<1> DEFINE D(f) == Copies(s, p, f)
           t == Forked(s, p, child)
<1>1. Server(s)
  BY DEF Sound
<1>2. \A f \in Filps : IsFiniteSet(D(f)) /\ Cardinality(D(f)) \in Nat
  <2>1. OPEN_MAX \in Nat /\ 0 \in Int /\ OPEN_MAX - 1 \in Int
    BY TablesAssumption
  <2>2. IsFiniteSet(Fds)
    BY <2>1, FS_Interval DEF Fds
  <2>3. \A f \in Filps : D(f) \subseteq Fds
    BY DEF Copies
  <2> HIDE DEF D
  <2> QED
    BY <2>2, <2>3, FS_Subset, FS_CardinalityType
<1>3. /\ DOMAIN t = DOMAIN s /\ DOMAIN t.proc = Procs /\ DOMAIN t.filp = Filps
      /\ t.lock = s.lock /\ t.nr_locks = s.nr_locks /\ t.sel = s.sel /\ t.susp_count = s.susp_count
      /\ t.proc[child] = s.proc[p] /\ \A q \in Procs : q # child => t.proc[q] = s.proc[q]
      /\ \A f \in Filps : t.filp[f] = [s.filp[f] EXCEPT !.count = @ + Cardinality(D(f))]
  <2>1. /\ DOMAIN t = DOMAIN s /\ DOMAIN t.proc = Procs /\ t.filp = Recounted(s, p)
        /\ t.lock = s.lock /\ t.nr_locks = s.nr_locks /\ t.sel = s.sel /\ t.susp_count = s.susp_count
        /\ t.proc[child] = s.proc[p] /\ \A q \in Procs : q # child => t.proc[q] = s.proc[q]
    BY <1>1 DEF Server, Forked
  <2>2. /\ DOMAIN Recounted(s, p) = Filps
        /\ \A f \in Filps : Recounted(s, p)[f] = [s.filp[f] EXCEPT !.count = @ + Cardinality(D(f))]
    BY DEF Recounted
  <2> HIDE DEF t, D
  <2> QED
    BY <2>1, <2>2
<1>4. \A f \in Filps : /\ t.filp[f].count = s.filp[f].count + Cardinality(D(f))
                       /\ t.filp[f].vno = s.filp[f].vno /\ DOMAIN t.filp[f] = DOMAIN s.filp[f]
  <2> SUFFICES ASSUME NEW f \in Filps
               PROVE  /\ t.filp[f].count = s.filp[f].count + Cardinality(D(f))
                      /\ t.filp[f].vno = s.filp[f].vno /\ DOMAIN t.filp[f] = DOMAIN s.filp[f]
    OBVIOUS
  <2>1. {"count", "vno"} \subseteq DOMAIN s.filp[f]
    BY <1>1 DEF Server
  <2>2. t.filp[f] = [s.filp[f] EXCEPT !.count = @ + Cardinality(D(f))]
    BY <1>3
  <2> HIDE DEF t, D
  <2> QED
    BY <2>1, <2>2
<1>5. \A d \in Fds : s.proc[child].filp[d] = NULL
  BY DEF Sound, Books
<1> HIDE DEF t
<1>6. child # p
  OBVIOUS
<1>7. Server(t)
  <2>1. \A f \in Filps : {"count", "vno"} \subseteq DOMAIN t.filp[f] /\ t.filp[f].count \in Int
    <3> HIDE DEF D
    <3>1. \A f \in Filps : s.filp[f].count \in Int
      BY <1>1 DEF Server
    <3> QED
      BY <1>1, <1>2, <1>4, <3>1 DEF Server
  <2> QED
    BY <1>1, <1>3, <2>1 DEF Server
<1>8. Books(t, fly)
  <2>1. ASSUME NEW f \in Filps PROVE fly[f] \in Nat /\ At(t, f) + fly[f] =< t.filp[f].count
    <3> DEFINE T == {<<child, d>> : d \in D(f)}
    <3>1. f # NULL
      BY DEF Filps, NULL
    <3>2. Refs(t, f) = Refs(s, f) \cup T
      <4>1. ASSUME NEW x \in Procs \X Fds PROVE x \in Refs(t, f) <=> x \in Refs(s, f) \cup T
        <5>1. PICK q \in Procs, d \in Fds : x = <<q, d>>
          OBVIOUS
        <5>2. /\ x \in Refs(t, f) <=> t.proc[q].filp[d] = f
              /\ x \in Refs(s, f) <=> s.proc[q].filp[d] = f
          BY <5>1 DEF Refs
        <5>3. CASE q = child
          <6>1. x \in T <=> d \in D(f)
            BY <5>1, <5>3
          <6>2. d \in D(f) <=> s.proc[p].filp[d] = f
            BY DEF Copies
          <6> QED
            BY <1>3, <1>5, <3>1, <5>2, <5>3, <6>1, <6>2
        <5>4. CASE q # child
          <6>1. x \notin T
            BY <5>1, <5>4
          <6> QED
            BY <1>3, <5>2, <5>4, <6>1
        <5> QED
          BY <5>3, <5>4
      <4>2. Refs(t, f) \subseteq Procs \X Fds /\ Refs(s, f) \subseteq Procs \X Fds
            /\ T \subseteq Procs \X Fds
        BY DEF Refs, Copies
      <4> QED
        BY <4>1, <4>2
    <3>3. IsFiniteSet(T) /\ Cardinality(T) =< Cardinality(D(f)) /\ Cardinality(T) \in Nat
      <4> HIDE DEF D
      <4>1. IsFiniteSet(T) /\ Cardinality(T) =< Cardinality(D(f))
        BY <1>2, PairsFew
      <4> QED
        BY <4>1, FS_CardinalityType
    <3> HIDE DEF T, D
    <3>4. IsFiniteSet(Refs(s, f)) /\ At(s, f) \in Nat
      BY RefsFinite
    <3>5. At(t, f) =< At(s, f) + Cardinality(T) /\ At(t, f) \in Nat
      <4>1. /\ IsFiniteSet(Refs(s, f) \cup T)
            /\ Cardinality(Refs(s, f) \cup T) =
                 Cardinality(Refs(s, f)) + Cardinality(T) - Cardinality(Refs(s, f) \cap T)
        BY <3>3, <3>4, FS_Union
      <4>2. IsFiniteSet(Refs(s, f) \cap T)
        BY <3>3, FS_Subset
      <4>3. Cardinality(Refs(s, f) \cap T) \in Nat
        BY <4>2, FS_CardinalityType
      <4>4. At(t, f) = Cardinality(Refs(s, f) \cup T) /\ At(s, f) = Cardinality(Refs(s, f))
        BY <3>2 DEF At
      <4>5. At(t, f) \in Nat
        BY RefsFinite
      <4> QED
        BY <3>3, <3>4, <4>1, <4>3, <4>4, <4>5
    <3>6. fly[f] \in Nat /\ At(s, f) + fly[f] =< s.filp[f].count /\ s.filp[f].count \in Int
      BY <1>1 DEF Sound, Books, Server
    <3>7. t.filp[f].count = s.filp[f].count + Cardinality(D(f)) /\ Cardinality(D(f)) \in Nat
      BY <1>2, <1>4
    <3> QED
      BY <3>3, <3>4, <3>5, <3>6, <3>7
  <2>2. ASSUME NEW q \in Procs, ~t.proc[q].used, NEW e \in Fds PROVE t.proc[q].filp[e] = NULL
    <3>1. q # child
      BY <1>3, <2>2
    <3> QED
      BY <1>3, <2>2, <3>1 DEF Sound, Books
  <2> QED
    BY <2>1, <2>2 DEF Books
<1>9. Waiters(t)
  <2> SUFFICES ASSUME NEW q \in Procs, t.proc[q].blocked_on = "LOCK" PROVE Waiter(t, q)
    BY DEF Waiters
  <2>1. q # child
    BY <1>3
  <2>2. t.proc[q] = s.proc[q]
    BY <1>3, <2>1
  <2> QED
    BY <2>2 DEF Sound, Waiters, Waiter
<1>10. Table(t) /\ Taken(t) = Taken(s)
  BY <1>3 DEF Sound, Table, Taken
<1>11. Owned(t)
  <2> SUFFICES ASSUME NEW l \in Taken(s) PROVE HasOpen(t, s.lock[l].pid, s.lock[l].vno)
    BY <1>3, <1>10 DEF Owned
  <2> DEFINE q == s.lock[l].pid
             x == s.lock[l].vno
  <2>1. q \in Procs /\ HasOpen(s, q, x)
    BY DEF Sound, Table, Owned
  <2>2. PICK c \in Fds : s.proc[q].filp[c] # NULL /\ s.filp[s.proc[q].filp[c]].vno = x
    BY <2>1 DEF HasOpen
  <2>3. q # child
    BY <1>5, <2>2
  <2>4. s.proc[q].filp[c] \in Filps
    BY <1>1, <2>1, <2>2 DEF Server
  <2> QED
    BY <1>3, <1>4, <2>1, <2>2, <2>3, <2>4 DEF HasOpen
<1>12. Sound(t, fly)
  BY <1>7, <1>8, <1>9, <1>10, <1>11 DEF Sound
<1> QED
  BY <1>12 DEF t

LEMMA ForkSound ==
    ASSUME NEW s, NEW fly, NEW p \in Procs, NEW child \in Procs,
           Sound(s, fly), s.proc[p].used, s.proc[p].blocked_on = "NONE", ~s.proc[child].used
    PROVE  Sound(pm_fork(s, p, child), fly)
<1> DEFINE t == Forked(s, p, child)
           rd == s.proc[p].rd
           wd == s.proc[p].wd
<1>1. pm_fork(s, p, child) = dup_vnode(dup_vnode(t, rd), wd)
  BY Zenon DEF pm_fork, Forked, Recounted, Copies
<1>2. Sound(t, fly)
  BY ForkedSound
<1> HIDE DEF t, rd, wd
<1>3. Sound(dup_vnode(t, rd), fly)
  BY <1>2, DupVnodeOutside, OutsideSound
<1> QED
  BY <1>1, <1>3, DupVnodeOutside, OutsideSound

CloseStep(p, b, c, t, d) == close_fd(t, p, d)
\* The first k descriptors are closed.
CloseAfter(p, fly, c, base, k, t) ==
    /\ Sound(t, fly) /\ t.proc[p].blocked_on = "NONE" /\ t.proc[p].used = base.proc[p].used
    /\ \A d \in Fds : d < k => t.proc[p].filp[d] = NULL
CloseFold == INSTANCE FoldInduction WITH Step <- CloseStep, Holds <- CloseAfter

LEMMA FreeProcSound ==
    ASSUME NEW s, NEW fly, NEW p \in Procs, Sound(s, fly)
    PROVE  LET t == free_proc(s, p)
           IN /\ Sound(t, fly) /\ t.proc[p].blocked_on = "NONE"
              /\ \A d \in Fds : t.proc[p].filp[d] = NULL
<1> DEFINE base == unpause(s, p)
           seq == [k \in 1..OPEN_MAX |-> k - 1]
           t == CloseFold!Fold(p, fly, 0, base, seq, OPEN_MAX)
           a == put_vnode(t, t.proc[p].rd)
           b == put_vnode(a, t.proc[p].wd)
           c == [b EXCEPT !.proc[p] = [@ EXCEPT !.rd = NULL, !.wd = NULL]]
<1>1. OPEN_MAX \in Nat /\ DOMAIN seq = 1..OPEN_MAX
      /\ \A k \in 1..OPEN_MAX : seq[k] \in Fds /\ seq[k] = k - 1
  BY TablesAssumption DEF Fds
<1>2. free_proc(s, p) = c
  <2> DEFINE w == FoldLeft(LAMBDA u, d : close_fd(u, p, d), base, seq)
  <2>1. w = t
    <3> HIDE DEF seq, base
    <3> QED
      BY <1>1 DEF FoldLeft, MapThenFoldSet, Max, CloseFold!Fold, CloseStep
  <2>2. free_proc(s, p) = [put_vnode(put_vnode(w, w.proc[p].rd), w.proc[p].wd) EXCEPT
                             !.proc[p] = [@ EXCEPT !.rd = NULL, !.wd = NULL]]
    BY Zenon DEF free_proc, leave_dirs
  <2> HIDE DEF w, t
  <2> QED
    BY <2>1, <2>2
<1>3. Kept(s, base, {}) /\ base.proc[p].blocked_on = "NONE"
  BY UnpauseKept DEF Sound
<1>4. Sound(base, fly)
  BY <1>3, KeptSound
<1> HIDE DEF base, seq
<1>5. CloseAfter(p, fly, 0, base, 0, base)
  <2>1. \A d \in Fds : ~(d < 0)
    BY TablesAssumption DEF Fds
  <2> QED
    BY <1>3, <1>4, <2>1 DEF CloseAfter
<1>6. ASSUME NEW k \in 1..OPEN_MAX, NEW w, CloseAfter(p, fly, 0, base, k - 1, w)
      PROVE  CloseAfter(p, fly, 0, base, k, CloseStep(p, fly, 0, w, seq[k]))
  <2> DEFINE u == close_fd(w, p, seq[k])
  <2>1. /\ Sound(w, fly) /\ w.proc[p].blocked_on = "NONE" /\ w.proc[p].used = base.proc[p].used
        /\ \A d \in Fds : d < k - 1 => w.proc[p].filp[d] = NULL
    BY <1>6 DEF CloseAfter
  <2>2. Sound(u, fly) /\ Napping(w, u, {}) /\ FdSet(w, u, p, seq[k], NULL)
    BY <1>1, <2>1, CloseFdSound
  <2>3. CloseStep(p, fly, 0, w, seq[k]) = u
    BY DEF CloseStep
  <2> HIDE DEF u
  <2>4. u.proc[p].blocked_on = "NONE" /\ u.proc[p].used = base.proc[p].used
    BY <2>1, <2>2 DEF Napping
  <2>5. ASSUME NEW d \in Fds, d < k PROVE u.proc[p].filp[d] = NULL
    <3>1. CASE d = seq[k]
      BY <2>2, <3>1 DEF FdSet
    <3>2. CASE d # seq[k]
      <4>1. d < k - 1
        BY <1>1, <2>5, <3>2 DEF Fds
      <4>2. <<p, d>> \in Procs \X Fds /\ <<p, d>> # <<p, seq[k]>>
        BY <3>2
      <4>3. u.proc[<<p, d>>[1]].filp[<<p, d>>[2]] = w.proc[<<p, d>>[1]].filp[<<p, d>>[2]]
        BY <2>2, <4>2 DEF FdSet
      <4> QED
        BY <2>1, <4>1, <4>3
    <3> QED
      BY <3>1, <3>2
  <2> QED
    BY <2>2, <2>3, <2>4, <2>5 DEF CloseAfter
<1>7. CloseAfter(p, fly, 0, base, OPEN_MAX, t)
  BY <1>1, <1>5, <1>6, CloseFold!FoldHolds
<1> HIDE DEF t
<1>8. /\ Sound(t, fly) /\ t.proc[p].blocked_on = "NONE"
      /\ \A d \in Fds : t.proc[p].filp[d] = NULL
  <2>1. \A d \in Fds : d < OPEN_MAX
    BY <1>1 DEF Fds
  <2> QED
    BY <1>7, <2>1 DEF CloseAfter
<1>9. Outside(t, b)
  BY PutVnodeOutside, OutsideMore
<1> HIDE DEF b
<1>10. Kept(t, b, {})
  BY <1>8, <1>9, OutsideKept DEF Sound
<1>11. Kept(b, c, {})
  <2>1. Server(b)
    BY <1>10 DEF Kept
  <2>2. SlotOnly(b, c, p)
    BY <2>1 DEF Server, SlotOnly
  <2>3. /\ c.proc[p].blocked_on = b.proc[p].blocked_on /\ c.proc[p].lock = b.proc[p].lock
        /\ c.proc[p].block_fd = b.proc[p].block_fd /\ c.proc[p].revived = b.proc[p].revived
        /\ b.proc[p].revived => b.proc[p].blocked_on \in {"PIPE", "LOCK"}
    BY <2>1 DEF Server
  <2> HIDE DEF c
  <2> QED
    BY <2>1, <2>2, <2>3, SlotOnlyKept
<1> HIDE DEF c
<1>12. Kept(t, c, {})
  BY <1>10, <1>11, KeptTwo
<1>13. Sound(c, fly)
  BY <1>8, <1>12, KeptSound
<1>14. c.proc[p].blocked_on = "NONE" /\ \A d \in Fds : c.proc[p].filp[d] = NULL
  BY <1>8, <1>12 DEF Kept, SameFds, Napping
<1> QED
  BY <1>2, <1>13, <1>14

\* A slot that is given up has no descriptors, so nothing hangs on it.
LEMMA GiveUpSound ==
    ASSUME NEW s, NEW fly, NEW p \in Procs, Sound(s, fly),
           \A d \in Fds : s.proc[p].filp[d] = NULL
    PROVE  Sound([s EXCEPT !.proc[p] = FreeProc], fly)
<1> DEFINE t == [s EXCEPT !.proc[p] = FreeProc]
<1>1. Server(s)
  BY DEF Sound
<1>2. /\ DOMAIN t = DOMAIN s /\ DOMAIN t.proc = Procs /\ t.filp = s.filp
      /\ t.lock = s.lock /\ t.nr_locks = s.nr_locks /\ t.sel = s.sel /\ t.susp_count = s.susp_count
      /\ t.proc[p] = FreeProc /\ \A q \in Procs : q # p => t.proc[q] = s.proc[q]
  BY <1>1 DEF Server
<1> HIDE DEF t
<1>3. /\ {"filp", "inuse", "used", "revived", "blocked_on", "block_fd", "lock"} \subseteq DOMAIN FreeProc
      /\ FreeProc.filp \in [Fds -> Filps \cup {NULL}] /\ ~FreeProc.revived
      /\ FreeProc.blocked_on = "NONE" /\ \A d \in Fds : FreeProc.filp[d] = NULL
  BY DEF FreeProc
<1>4. Server(t)
  BY <1>1, <1>2, <1>3 DEF Server
<1>5. \A q \in Procs, d \in Fds : t.proc[q].filp[d] = s.proc[q].filp[d]
  BY <1>2, <1>3
<1>6. Books(t, fly)
  <2>1. \A f \in Filps : At(t, f) = At(s, f)
    BY <1>5 DEF At, Refs
  <2> QED
    BY <1>2, <1>3, <2>1 DEF Sound, Books
<1>7. Waiters(t)
  BY <1>2, <1>3 DEF Sound, Waiters, Waiter
<1>8. Table(t) /\ Taken(t) = Taken(s)
  BY <1>2 DEF Sound, Table, Taken
<1>9. Owned(t)
  <2>1. \A l \in Taken(s) : s.lock[l].pid \in Procs
    BY DEF Sound, Table
  <2>2. \A q \in Procs : \A x : HasOpen(s, q, x) => HasOpen(t, q, x)
    BY <1>2, <1>5 DEF HasOpen
  <2> QED
    BY <1>2, <1>8, <2>1, <2>2 DEF Sound, Owned
<1>10. Sound(t, fly)
  BY <1>4, <1>6, <1>7, <1>8, <1>9 DEF Sound
<1> QED
  BY <1>10 DEF t

LEMMA ExitSound ==
    ASSUME NEW s, NEW fly, NEW p \in Procs, Sound(s, fly)
    PROVE  Sound(pm_exit(s, p), fly)
<1> DEFINE t == free_proc(s, p)
<1>1. Sound(t, fly) /\ \A d \in Fds : t.proc[p].filp[d] = NULL
  BY FreeProcSound
<1>2. pm_exit(s, p) = [t EXCEPT !.proc[p] = FreeProc]
  BY Zenon DEF pm_exit
<1> HIDE DEF t
<1> QED
  BY <1>1, <1>2, GiveUpSound

StopStep(a, b, c, t, p) == IF t.proc[p].used THEN free_proc(t, p) ELSE t
StopAfter(a, fly, c, base, k, t) == Sound(t, fly)
StopFold == INSTANCE FoldInduction WITH Step <- StopStep, Holds <- StopAfter

LEMMA UnmountOutside ==
    ASSUME NEW s PROVE Outside(s, unmount_all(s))
<1> DEFINE users == MapThenSumSet(LAMBDA x : IF s.vnode[x].ino \in Files THEN s.vnode[x].ref ELSE 0,
                                  Vnodes)
           t == [s EXCEPT !.vnode[ROOT] = FreeVnode, !.node[Min(Files)] = 0]
<1>1. unmount_all(s) = IF users > 1 THEN s ELSE t
  BY Zenon DEF unmount_all
<1> HIDE DEF users
<1>2. Outside(s, t) /\ Outside(s, s)
  BY DEF Outside
<1> QED
  BY <1>1, <1>2

LEMMA RebootSound ==
    ASSUME NEW s, NEW fly, Sound(s, fly)
    PROVE  Sound(pm_reboot(s), fly)
<1> DEFINE seq == [p \in Procs |-> p]
           t == StopFold!Fold(0, fly, 0, s, seq, NR_PROCS)
<1>1. NR_PROCS \in Nat /\ DOMAIN seq = 1..NR_PROCS /\ \A k \in 1..NR_PROCS : seq[k] \in Procs
  BY TablesAssumption DEF Procs
<1>2. pm_reboot(s) = unmount_all(t)
  <2> DEFINE w == FoldLeft(LAMBDA u, p : IF u.proc[p].used THEN free_proc(u, p) ELSE u, s, seq)
  <2>1. w = t
    <3> HIDE DEF seq
    <3> QED
      BY <1>1 DEF FoldLeft, MapThenFoldSet, Max, StopFold!Fold, StopStep
  <2>2. pm_reboot(s) = unmount_all(w)
    BY Zenon DEF pm_reboot
  <2> HIDE DEF w, t
  <2> QED
    BY <2>1, <2>2
<1> HIDE DEF seq
<1>3. StopAfter(0, fly, 0, s, 0, s)
  BY DEF StopAfter
<1>4. ASSUME NEW k \in 1..NR_PROCS, NEW w, StopAfter(0, fly, 0, s, k - 1, w)
      PROVE  StopAfter(0, fly, 0, s, k, StopStep(0, fly, 0, w, seq[k]))
  <2>1. Sound(w, fly)
    BY <1>4 DEF StopAfter
  <2>2. Sound(free_proc(w, seq[k]), fly)
    BY <1>1, <2>1, FreeProcSound
  <2> QED
    BY <2>1, <2>2 DEF StopAfter, StopStep
<1>5. StopAfter(0, fly, 0, s, NR_PROCS, t)
  BY <1>1, <1>3, <1>4, StopFold!FoldHolds
<1> HIDE DEF t
<1> QED
  BY <1>2, <1>5, UnmountOutside, OutsideSound DEF StopAfter

\* A call that is tried again.
Awake(s, p) == [Unblock(s, p) EXCEPT !.proc[p].revived = FALSE, !.reviving = @ - 1]

LEMMA RevivedKept ==
    ASSUME NEW s, NEW p \in Procs, Server(s)
    PROVE  Kept(s, Awake(s, p), {}) /\ Awake(s, p).proc[p].blocked_on = "NONE"
<1> DEFINE u == Unblock(s, p)
           t == [u EXCEPT !.proc[p].revived = FALSE, !.reviving = @ - 1]
<1>1. SlotOnly(s, u, p) /\ u.proc[p].blocked_on = "NONE"
  BY UnblockSlot
<1> HIDE DEF u
<1>2. "revived" \in DOMAIN u.proc[p] /\ DOMAIN u.proc = Procs /\ "proc" \in DOMAIN u
  BY <1>1 DEF SlotOnly, Server
<1>3. SlotOnly(s, t, p)
  BY <1>1, <1>2 DEF SlotOnly, Server
<1>4. t.proc[p].blocked_on = "NONE" /\ ~t.proc[p].revived
  BY <1>1, <1>2
<1> HIDE DEF t
<1>5. Kept(s, t, {})
  BY <1>3, <1>4, SlotOnlyKept
<1> QED
  BY <1>4, <1>5 DEF t, u, Awake

-----------------------------------------------------------------------------
(* The requests. *)

LEMMA BecomeSound ==
    ASSUME NEW s, NEW fly, Sound(s, fly), Become(s) PROVE Sound(v', fly) /\ load' = load
<1> DEFINE n == IF s.reviving = 0 THEN 1 ELSE s.scan
           t == [s EXCEPT !.r = OK, !.io = NoIO, !.scan = n]
<1>1. v' = t /\ load' = load
  BY DEF Become
<1> HIDE DEF n
<1>2. Outside(s, t)
  BY DEF Outside
<1> HIDE DEF t
<1> QED
  BY <1>1, <1>2, OutsideSound

\* A process that runs makes its call from a slot in use, and waits for nothing.
LEMMA RunsFree ==
    ASSUME NEW p \in Procs, Running(p) PROVE v.proc[p].used /\ v.proc[p].blocked_on = "NONE"
BY DEF Running, fp_is_blocked

\* Who goes on is a process that waits for a pipe or for a lock.
LEMMA GetWorkSound ==
    ASSUME VInv, GetWork PROVE VInv'
<1> DEFINE ps == {q \in Procs : v.proc[q].used /\ v.proc[q].revived}
           next == {q \in ps : q >= v.scan}
           some == IF next # {} THEN next ELSE ps
           p == Min(some)
           rp == v.proc[p]
           s == Awake(v, p)
           f == get_filp2(s, p, rp.block_fd)
           rw == rw_pipe(s, p, rp.callnr, rp.block_fd, f, rp.nbytes)
           a == [rw EXCEPT !.scan = p + 1]
           lk == setlk(s, p, rp.block_fd, rp.lock[1], rp.lock[2])
           b == [lk EXCEPT !.scan = 1]
<1>1. Sound(v, flying) /\ Server(v) /\ load \in Loads /\ flying \in [Filps -> Nat]
  BY DEF VInv, Sound
<1>2. /\ flying' = flying
      /\ IF ps = {} THEN Become(Panic(v)) ELSE IF rp.blocked_on = "PIPE" THEN Become(a) ELSE Become(b)
  BY Zenon DEF GetWork, Same, Awake
<1>3. CASE ps = {}
  <2>1. Sound(Panic(v), flying)
    BY <1>1, PanicOutside, OutsideSound
  <2> HIDE DEF ps, a, b, rp
  <2>2. Become(Panic(v)) /\ flying' = flying
    BY <1>2, <1>3
  <2> QED
    BY <1>1, <2>1, <2>2, BecomeSound DEF VInv
<1>4. CASE ps # {}
  <2>1. some \in SUBSET Nat /\ some # {} /\ some \subseteq ps
    <3>1. Procs \subseteq Nat
      BY DEF Procs
    <3> QED
      BY <1>4, <3>1
  <2>2. p \in ps
    BY <2>1, MinIs
  <2>3. p \in Procs /\ v.proc[p].used /\ v.proc[p].revived
    BY <2>2
  <2> HIDE DEF p, some, ps
  <2>4. Kept(v, s, {}) /\ s.proc[p].blocked_on = "NONE"
    BY <1>1, <2>3, RevivedKept
  <2> HIDE DEF s
  <2>5. Sound(s, flying)
    BY <1>1, <2>4, KeptSound
  <2>6. rp.blocked_on \in {"PIPE", "LOCK"}
    BY <1>1, <2>3 DEF Server
  <2>7. CASE rp.blocked_on = "PIPE"
    <3>1. Kept(s, rw, {p})
      BY <2>5, RwPipeKept DEF Sound
    <3>2. Sound(rw, flying)
      BY <2>5, <3>1, KeptSound
    <3> HIDE DEF rw
    <3>3. Outside(rw, a)
      BY DEF Outside
    <3> HIDE DEF a
    <3>4. Sound(a, flying)
      BY <3>2, <3>3, OutsideSound
    <3> QED
      BY <1>1, <1>2, <1>4, <2>7, <3>4, BecomeSound DEF VInv
  <2>8. CASE rp.blocked_on = "LOCK"
    <3>1. rp.block_fd \in Fds /\ rp.lock[2] \in Flocks
      BY <1>1, <2>3, <2>8 DEF Sound, Waiters, Waiter
    <3>2. Sound(lk, flying)
      <4> HIDE DEF rp
      <4> QED
        BY <2>3, <2>4, <2>5, <3>1, SetlkSound
    <3> HIDE DEF lk
    <3>3. Outside(lk, b)
      BY DEF Outside
    <3> HIDE DEF b
    <3>4. Sound(b, flying)
      BY <3>2, <3>3, OutsideSound
    <3>5. rp.blocked_on # "PIPE"
      BY <2>8
    <3> QED
      BY <1>1, <1>2, <1>4, <3>4, <3>5, BecomeSound DEF VInv
  <2> QED
    BY <2>6, <2>7, <2>8
<1> QED
  BY <1>3, <1>4

\* A descriptor that PFS takes into a message, or out of one.
LEMMA SendFdSound ==
    ASSUME NEW p \in Procs, NEW c, NEW d \in Fds, VInv, SendFd(p, c, d) PROVE VInv'
<1> DEFINE f == verify_fd(v, p, d)
           more == [flying EXCEPT ![f] = @ + 1]
<1>1. Sound(v, flying) /\ load \in Loads /\ flying \in [Filps -> Nat]
  BY DEF VInv
<1>2. f # NULL /\ Become(set_filp(v, f)) /\ flying' = more
  BY DEF SendFd
<1>3. f \in Filps
  BY <1>1, <1>2 DEF verify_fd, get_filp2, Sound, Server
<1> HIDE DEF f
<1>4. more \in [Filps -> Nat]
  BY <1>1, <1>3
<1>5. Sound(set_filp(v, f), more)
  BY <1>1, <1>3, SetFilpSound
<1> QED
  BY <1>1, <1>2, <1>4, <1>5, BecomeSound DEF VInv

LEMMA ReceiveFdSound ==
    ASSUME NEW p \in Procs, NEW c, NEW f \in Filps, VInv, ReceiveFd(p, c, f) PROVE VInv'
<1> DEFINE t == copy_filp(v, p, f)
           less == [flying EXCEPT ![f] = @ - 1]
<1>1. Sound(v, flying) /\ Server(v) /\ load \in Loads /\ flying \in [Filps -> Nat]
  BY DEF VInv, Sound
<1>2. /\ v.proc[p].used /\ flying[f] > 0
      /\ \/ t.r >= 0 /\ Become(put_filp(t, f)) /\ flying' = less
         \/ t.r >= 0 /\ Become(cancel_fd(t, p, t.r)) /\ flying' = flying
         \/ Become(put_filp(v, f)) /\ flying' = less
  BY RunsFree DEF ReceiveFd, Asks
<1>3. less \in [Filps -> Nat]
  BY <1>1, <1>2
<1>4. t.r >= 0 => t.r \in Fds /\ v.proc[p].filp[t.r] = NULL /\ Copied(v, t, p, t.r, f)
  BY <1>1, CopyFilp
<1> HIDE DEF t
<1>5. CASE t.r >= 0 /\ Become(put_filp(t, f)) /\ flying' = less
  <2>1. Grown(v, t, {})
    BY <1>1, <1>2, <1>4, <1>5, CopiedGrown
  <2>2. Sound(t, flying)
    BY <1>1, <2>1, GrownSound
  <2>3. Sound(put_filp(t, f), less)
    BY <1>1, <1>2, <2>2, PutFilpSound
  <2> QED
    BY <1>1, <1>3, <1>5, <2>3, BecomeSound DEF VInv
<1>6. CASE t.r >= 0 /\ Become(cancel_fd(t, p, t.r)) /\ flying' = flying
  <2>1. Kept(v, cancel_fd(t, p, t.r), {})
    BY <1>1, <1>4, <1>6, CancelKeptFd
  <2>2. Sound(cancel_fd(t, p, t.r), flying)
    BY <1>1, <2>1, KeptSound
  <2> QED
    BY <1>1, <1>6, <2>2, BecomeSound DEF VInv
<1>7. CASE Become(put_filp(v, f)) /\ flying' = less
  <2>1. Sound(put_filp(v, f), less)
    BY <1>1, <1>2, PutFilpSound
  <2> QED
    BY <1>1, <1>3, <1>7, <2>1, BecomeSound DEF VInv
<1> QED
  BY <1>2, <1>5, <1>6, <1>7

LEMMA CallsSound ==
    ASSUME NEW p \in Procs, NEW c, VInv,
           \/ Open(p, c) \/ Pipe(p, c) \/ Select(p, c) \/ Truncate(p, c) \/ Directory(p, c)
           \/ \E d \in Fds : ReadWrite(p, c, d) \/ Close(p, c, d) \/ Dup(p, c, d) \/ Position(p, c, d)
    PROVE  VInv'
<1>1. Sound(v, flying) /\ load \in Loads /\ flying \in [Filps -> Nat]
  BY DEF VInv
<1>2. Asks(p, c) /\ Same
  BY Zenon DEF Open, Pipe, Select, Truncate, Directory, ReadWrite, Close, Dup, Position
<1>3. v.proc[p].used /\ v.proc[p].blocked_on = "NONE" /\ flying' = flying
  BY <1>2, RunsFree DEF Asks, Same
<1>4. ASSUME NEW s, Become(s), Sound(s, flying) PROVE VInv'
  BY <1>1, <1>3, <1>4, BecomeSound DEF VInv
<1>5. CASE Open(p, c)
  <2>1. Become(common_open(v, p, c.call, c.ino, c.o))
    BY <1>5 DEF Open
  <2> QED
    BY <1>1, <1>3, <1>4, <2>1, OpenSound
<1>6. CASE Pipe(p, c)
  <2>1. Become(do_pipe(v, p))
    BY <1>6 DEF Pipe
  <2> QED
    BY <1>1, <1>3, <1>4, <2>1, PipeSound
<1>7. CASE Select(p, c)
  <2>1. Become(do_select(v, p, c.ops, c.timeout))
    BY <1>7 DEF Select
  <2> QED
    BY <1>1, <1>3, <1>4, <2>1, SelectCallSound
<1>8. CASE Truncate(p, c)
  <2>1. Become(do_truncate(v, c.ino, c.size))
    BY <1>8 DEF Truncate
  <2> QED
    BY <1>1, <1>4, <2>1, TruncateSound
<1>9. CASE Directory(p, c)
  <2>1. CASE Become(change(v, p, c.which, c.ino))
    BY <1>1, <1>4, <2>1, ChangeSound
  <2>2. CASE \E d \in Fds : Become(do_fchdir(v, p, d))
    BY <1>1, <1>4, <2>2, FchdirSound
  <2> QED
    BY <1>9, <2>1, <2>2 DEF Directory
<1>10. ASSUME NEW d \in Fds, ReadWrite(p, c, d) PROVE VInv'
  <2>1. Become(read_write(v, p, c.call, d, c.n))
    BY Zenon, <1>10 DEF ReadWrite
  <2> QED
    BY <1>1, <1>4, <2>1, ReadWriteSound
<1>11. ASSUME NEW d \in Fds, Close(p, c, d) PROVE VInv'
  <2>1. Become(close_fd(v, p, d))
    BY <1>11 DEF Close
  <2>2. Sound(close_fd(v, p, d), flying)
    BY <1>1, <1>3, CloseFdSound
  <2> QED
    BY <1>4, <2>1, <2>2
<1>12. ASSUME NEW d \in Fds, Dup(p, c, d) PROVE VInv'
  <2>1. Become(do_dup(v, p, d, c.to))
    BY <1>12 DEF Dup
  <2> QED
    BY <1>1, <1>3, <1>4, <2>1, DupSound
<1>13. ASSUME NEW d \in Fds, Position(p, c, d) PROVE VInv'
  <2>1. CASE Become(do_lseek(v, p, d, c.pos))
    BY <1>1, <1>4, <2>1, LseekSound
  <2>2. CASE Become(do_ftruncate(v, p, d, c.size))
    BY <1>1, <1>4, <2>2, FtruncateSound
  <2> QED
    BY <1>13, <2>1, <2>2 DEF Position
<1> QED
  BY <1>5, <1>6, <1>7, <1>8, <1>9, <1>10, <1>11, <1>12, <1>13

\* A lock that is asked for is one that fcntl knows, and so is a copy.
LEMMA FcntlSound ==
    ASSUME NEW p \in Procs, VInv, NEW c \in load.may[p], NEW d \in Fds,
           Fcntl(p, c, d) \/ Lock(p, c, d)
    PROVE  VInv'
<1>1. Sound(v, flying) /\ load \in Loads /\ flying \in [Filps -> Nat]
  BY DEF VInv
<1>2. Asks(p, c) /\ Same
  BY Zenon DEF Fcntl, Lock
<1>3. v.proc[p].used /\ v.proc[p].blocked_on = "NONE" /\ flying' = flying
  BY <1>2, RunsFree DEF Asks, Same
<1>4. ASSUME NEW s, Become(s), Sound(s, flying) PROVE VInv'
  BY <1>1, <1>3, <1>4, BecomeSound DEF VInv
<1>5. CASE Fcntl(p, c, d)
  <2>1. CASE c.op = "dupfd" /\ Become(dupfd(v, p, d, c.start))
    <3>1. c.start \in Fds
      BY <1>1, <2>1, LoadsAssumption
    <3> QED
      BY <1>1, <1>3, <1>4, <2>1, <3>1, DupfdSound
  <2>2. CASE Become(setfl(v, p, d, c.nonblock, c.append))
    BY <1>1, <1>4, <2>2, SetflSound
  <2>3. CASE Become(freesp(v, p, d, c.start))
    BY <1>1, <1>4, <2>3, FreespSound
  <2> QED
    BY <1>5, <2>1, <2>2, <2>3 DEF Fcntl
<1>6. CASE Lock(p, c, d)
  <2>1. c.op = "lock" /\ Become(setlk(v, p, d, c.req, c.fl))
    BY Zenon, <1>6 DEF Lock, Asks
  <2>2. c.fl \in Flocks
    BY <1>1, <2>1, LoadsAssumption
  <2> QED
    BY <1>1, <1>3, <1>4, <2>1, <2>2, SetlkSound
<1> QED
  BY <1>5, <1>6

LEMMA ManagerSound ==
    ASSUME VInv,
           \/ \E p \in Procs : \/ Unpause(p) \/ Exit(p)
                                \/ \E c \in load.may[p], child \in Procs : Fork(p, c, child)
           \/ \E i \in Sels : Alarm(i)
           \/ Reboot
    PROVE  VInv'
<1>1. Sound(v, flying) /\ load \in Loads /\ flying \in [Filps -> Nat]
  BY DEF VInv
<1>2. flying' = flying
  BY Zenon DEF Unpause, Exit, Fork, Alarm, Reboot, Same
<1>3. ASSUME NEW s, Become(s), Sound(s, flying) PROVE VInv'
  BY <1>1, <1>2, <1>3, BecomeSound DEF VInv
<1>4. ASSUME NEW p \in Procs, Unpause(p) PROVE VInv'
  <2>1. Become(unpause(v, p))
    BY <1>4 DEF Unpause
  <2>2. Kept(v, unpause(v, p), {})
    BY <1>1, UnpauseKept DEF Sound
  <2>3. Sound(unpause(v, p), flying)
    BY <1>1, <2>2, KeptSound
  <2> QED
    BY <1>3, <2>1, <2>3
<1>5. ASSUME NEW p \in Procs, Exit(p) PROVE VInv'
  <2>1. Become(pm_exit(v, p))
    BY <1>5 DEF Exit
  <2> QED
    BY <1>1, <1>3, <2>1, ExitSound
<1>6. ASSUME NEW p \in Procs, NEW c, NEW child \in Procs, Fork(p, c, child) PROVE VInv'
  <2>1. Become(pm_fork(v, p, child)) /\ ~v.proc[child].used /\ Running(p)
    BY <1>6 DEF Fork, Asks
  <2>2. v.proc[p].used /\ v.proc[p].blocked_on = "NONE"
    BY <2>1, RunsFree
  <2> QED
    BY <1>1, <1>3, <2>1, <2>2, ForkSound
<1>7. ASSUME NEW i \in Sels, Alarm(i) PROVE VInv'
  <2>1. Become(select_timeout_check(v, i))
    BY <1>7 DEF Alarm
  <2> QED
    BY <1>1, <1>3, <2>1, TimeoutSound
<1>8. CASE Reboot
  <2>1. Become(pm_reboot(v))
    BY <1>8 DEF Reboot
  <2> QED
    BY <1>1, <1>3, <2>1, RebootSound
<1> QED
  BY <1>4, <1>5, <1>6, <1>7, <1>8

LEMMA NextSound ==
    ASSUME VInv, [Next]_vars PROVE VInv'
<1>1. CASE GetWork
  BY <1>1, GetWorkSound
<1>2. ASSUME NEW p \in Procs, NEW c \in load.may[p],
             \/ Open(p, c) \/ Pipe(p, c) \/ Select(p, c) \/ Truncate(p, c) \/ Directory(p, c)
             \/ \E d \in Fds : ReadWrite(p, c, d) \/ Close(p, c, d) \/ Dup(p, c, d) \/ Position(p, c, d)
      PROVE VInv'
  BY <1>2, CallsSound
<1>3. ASSUME NEW p \in Procs, NEW c \in load.may[p], NEW d \in Fds, Fcntl(p, c, d) \/ Lock(p, c, d)
      PROVE VInv'
  BY <1>3, FcntlSound
<1>4. ASSUME NEW p \in Procs, NEW c, NEW d \in Fds, SendFd(p, c, d) PROVE VInv'
  BY <1>4, SendFdSound
<1>5. ASSUME NEW p \in Procs, NEW c, NEW f \in Filps, ReceiveFd(p, c, f) PROVE VInv'
  BY <1>5, ReceiveFdSound
<1>6. CASE \/ \E p \in Procs : \/ Unpause(p) \/ Exit(p)
                                \/ \E c \in load.may[p], child \in Procs : Fork(p, c, child)
           \/ \E i \in Sels : Alarm(i)
           \/ Reboot
  BY <1>6, ManagerSound
<1>7. CASE UNCHANGED vars
  BY <1>7 DEF VInv, vars
<1> QED
  BY Zenon, <1>1, <1>2, <1>3, <1>4, <1>5, <1>6, <1>7 DEF Next

LEMMA FreshSound ==
    ASSUME NEW alive, NEW made PROVE Sound(Fresh(alive, made), [f \in Filps |-> 0])
<1> DEFINE s == Fresh(alive, made)
           fly == [f \in Filps |-> 0]
           slot(p) == IF p \in alive THEN [FreeProc EXCEPT !.used = TRUE, !.rd = ROOT, !.wd = ROOT]
                      ELSE FreeProc
<1>1. /\ {"proc", "filp", "lock", "nr_locks", "susp_count", "sel", "r"} \subseteq DOMAIN s
      /\ s.proc = [p \in Procs |-> slot(p)] /\ s.filp = [f \in Filps |-> FreeFilp]
      /\ s.lock = [l \in Slots |-> FreeLock] /\ s.nr_locks = 0
      /\ s.sel = [i \in Sels |-> FreeSel] /\ s.susp_count = 0
  BY DEF Fresh, Slots, Sels
<1> HIDE DEF s
<1>2. \A p \in Procs :
         /\ {"filp", "inuse", "used", "revived", "blocked_on", "block_fd", "lock"} \subseteq DOMAIN slot(p)
         /\ slot(p).filp = [d \in Fds |-> NULL] /\ ~slot(p).revived /\ slot(p).blocked_on = "NONE"
  BY DEF FreeProc
<1> HIDE DEF slot
<1>3. \A p \in Procs : s.proc[p] = slot(p)
  BY <1>1
<1>4. \A p \in Procs, d \in Fds : s.proc[p].filp[d] = NULL
  BY <1>2, <1>3
<1>5. Server(s)
  <2>1. \A f \in Filps : s.filp[f] = FreeFilp
    BY <1>1
  <2>2. \A i \in Sels : s.sel[i] = FreeSel
    BY <1>1
  <2>3. {"count", "vno"} \subseteq DOMAIN FreeFilp /\ FreeFilp.count = 0
    BY DEF FreeFilp
  <2>4. "nfds" \in DOMAIN FreeSel /\ FreeSel.nfds = 0
    BY DEF FreeSel
  <2>5. DOMAIN s.proc = Procs /\ DOMAIN s.filp = Filps /\ DOMAIN s.sel = Sels
    BY <1>1
  <2> QED
    BY <1>1, <1>2, <1>3, <2>1, <2>2, <2>3, <2>4, <2>5 DEF Server
<1>6. Books(s, fly)
  <2>1. ASSUME NEW f \in Filps PROVE fly[f] \in Nat /\ At(s, f) + fly[f] =< s.filp[f].count
    <3>1. f # NULL
      BY DEF Filps, NULL
    <3>2. Refs(s, f) = {}
      BY <1>4, <3>1 DEF Refs
    <3>3. At(s, f) = 0
      BY <3>2, FS_EmptySet DEF At
    <3>4. s.filp[f].count = 0
      BY <1>1 DEF FreeFilp
    <3> QED
      BY <3>3, <3>4
  <2> QED
    BY <1>4, <2>1 DEF Books
<1>7. Waiters(s)
  BY <1>2, <1>3 DEF Waiters
<1>8. \A l \in Slots : s.lock[l] = FreeLock
  BY <1>1
<1>9. Taken(s) = {}
  BY <1>8 DEF Taken, FreeLock
<1>10. Table(s)
  <2>1. DOMAIN s.lock = Slots
    BY <1>1
  <2>2. /\ {"type", "pid", "vno", "first", "last"} \subseteq DOMAIN FreeLock
        /\ FreeLock.first = 0 /\ FreeLock.last = 0 /\ FreeLock.pid = 0
    BY DEF FreeLock
  <2>3. Cardinality({}) = 0
    BY FS_EmptySet
  <2> QED
    BY <1>1, <1>8, <1>9, <2>1, <2>2, <2>3 DEF Table
<1>11. Owned(s)
  BY <1>9 DEF Owned
<1>12. Sound(s, fly)
  BY <1>5, <1>6, <1>7, <1>10, <1>11 DEF Sound
<1> QED
  BY <1>12 DEF s

-----------------------------------------------------------------------------
(* The theorems. *)

\* After every request of the server no filp has fewer references counted than
\* made, a slot nobody uses has no descriptors, who waits for a lock waits in a
\* call on a descriptor it has, and the table of locks is in order: the number of
\* locks is right (nr_locks, lock.c), and each has an owner with the file open.
THEOREM VfsSound == Spec => []VInv
<1>1. Init => VInv
  <2> SUFFICES ASSUME Init PROVE VInv
    OBVIOUS
  <2>1. v = Fresh(load.alive, load.made) /\ flying = [f \in Filps |-> 0] /\ load \in Loads
    BY DEF Init
  <2> QED
    BY <2>1, FreshSound DEF VInv
<1>2. VInv /\ [Next]_vars => VInv'
  BY NextSound
<1> QED
  BY <1>1, <1>2, PTL DEF Spec

\* Two processes lock the same bytes of a file only for reading, a lock has a
\* byte at least, and it goes with the last descriptor its owner has on the file:
\* lock_op in lock.c, and close_fd, free_proc and do_dup, which give descriptors
\* up (open.c, misc.c, dup's way through close).
THEOREM VfsLocksExclusive == Spec => []LocksExclusive
<1>1. VInv => LocksExclusive
  <2> SUFFICES ASSUME VInv PROVE LocksExclusive
    OBVIOUS
  <2> DEFINE share(k, m) == Overlap(m, k.vno, k) /\ m.pid # k.pid => k.type = "RD" /\ m.type = "RD"
  <2>1. ASSUME NEW l \in Slots, v.lock[l].type # "NONE"
        PROVE  /\ v.lock[l].first <= v.lock[l].last
               /\ HasOpen(v, v.lock[l].pid, v.lock[l].vno)
               /\ \A m \in Slots : share(v.lock[l], v.lock[m])
    <3>1. Table(v) /\ Owned(v) /\ l \in Taken(v)
      BY <2>1 DEF VInv, Sound, Taken
    <3>2. v.lock[l].first <= v.lock[l].last /\ HasOpen(v, v.lock[l].pid, v.lock[l].vno)
      BY <3>1 DEF Table, Owned
    <3>3. ASSUME NEW m \in Slots, Overlap(v.lock[m], v.lock[l].vno, v.lock[l]),
                 v.lock[m].pid # v.lock[l].pid
          PROVE  v.lock[l].type = "RD" /\ v.lock[m].type = "RD"
      <4>1. m \in Taken(v)
        BY <3>3 DEF Overlap, Taken
      <4>2. Apart(v.lock[l], v.lock[m])
        BY <3>1, <4>1 DEF Table
      <4> QED
        BY <3>3, <4>2 DEF Apart, Overlap
    <3> QED
      BY <3>2, <3>3
  <2> QED
    BY Zenon, <2>1 DEF LocksExclusive, HasOpen, Slots
<1> QED
  BY <1>1, VfsSound, PTL
=============================================================================
