------------------------------ MODULE MfsTree ------------------------------
(***************************************************************************)
(* Directories and inodes in the MINIX file server (assn5/mfs): the inode  *)
(* table with its unused list and the inodes on disk (inode.c), the slots  *)
(* of directories (path.c), and the requests that make, name, find and     *)
(* remove files (link.c, open.c, path.c, mount.c, protect.c, read.c).      *)
(*                                                                         *)
(* The virtual file system names inodes that it holds; `held' is its count *)
(* for each.  File contents are the subject of MfsFile, buffers of         *)
(* MfsCache; here a file has blocks only if it is a directory or a link.   *)
(***************************************************************************)
EXTENDS Integers, Sequences, FiniteSets, SequencesExt, FiniteSetsExt

CONSTANTS NInodes,      \* s_ninodes
          Slots,        \* NR_INODES: slots of the inode table
          Names,        \* names, and so components of paths, besides the dots
          Paths,        \* what is looked up
          Queries,      \* what a lookup carries: [root_ino, ret_symlink, denied]
          Targets,      \* what symbolic links may hold: [abs, path]
          Images,       \* disks that may be mounted, with how and what is in use:
                        \* [disk, dir, is_root, open]
          PerBlock,     \* directory entries in a block
          Blocks,       \* zones of the disk
          LINK_MAX, SYMLOOP_MAX,
          MaxHeld,      \* references the callers hold at a time
          Careful,      \* TRUE: no rename when the table is full
          MaxCalls

ROOT_INODE == 1
NO_ENTRY == 0
NULL == 0
Inodes == 1..NInodes
Dot == "."
DotDot == ".."
IsDots(name) == name \in {Dot, DotDot}

VARIABLES m,       \* the server's memory and its disk
          held,    \* what the callers hold: v_fs_count of their vnodes
          calls,
          reply    \* the last request with its answer

vars == <<m, held, calls, reply>>

\* What the disk keeps of an inode.
DiskPart(rip) == [nlinks |-> rip.nlinks, mode |-> rip.mode, size |-> rip.size]
FreeInode == [nlinks |-> 0, mode |-> "NONE", size |-> 0]
FreeSlot == FreeInode @@ [num |-> NO_ENTRY, count |-> 0, mountpoint |-> FALSE, dirt |-> FALSE]

Err(s, e) == [s EXCEPT !.err = e]

-----------------------------------------------------------------------------
(* The inode table.  A slot is known by its number, NULL is none. *)

\* On the hash chain of a number.
SlotOf(s, num) ==
    LET ks == {k \in 1..Slots : s.slot[k].num = num} IN IF ks = {} THEN NULL ELSE Min(ks)
find_inode(s, num) ==
    LET k == SlotOf(s, num) IN IF k # NULL /\ s.slot[k].count > 0 THEN k ELSE NULL

dup_inode(s, k) == [s EXCEPT !.slot[k].count = @ + 1]

\* The first unused slot takes inode num, with what part holds of it.
TakeSlot(s, num, part) ==
    LET k == Head(s.unused)
    IN IF s.unused = <<>> THEN [s |-> Err(s, "ENFILE"), k |-> NULL]
       ELSE [s |-> [s EXCEPT !.unused = Tail(@),
                             !.slot[k] = part @@ [FreeSlot EXCEPT !.num = num, !.count = 1]],
             k |-> k]

get_inode(s, num) ==
    LET k == SlotOf(s, num)
        t == IF s.slot[k].count = 0 THEN [s EXCEPT !.unused = RemoveFirst(@, k)] ELSE s
    IN IF k = NULL THEN TakeSlot(s, num, s.disk[num])
       ELSE [s |-> dup_inode(t, k), k |-> k]

\* fs_readsuper on an empty table: the root inode is got, and what the callers
\* have looked up since.
Mounted(im) ==
    LET s == [slot |-> [k \in 1..Slots |-> FreeSlot],
              unused |-> [k \in 1..Slots |-> Slots + 1 - k],
              disk |-> im.disk,
              dir |-> im.dir,      \* the entries in the blocks; of a link, its target
              imap |-> {i \in Inodes : im.disk[i].mode # "NONE"},
              isearch |-> 0,
              lost |-> 0,          \* zones in use that no inode leads to
              is_root |-> im.is_root,
              mounted |-> TRUE,
              err |-> "OK",        \* err_code
              panic |-> FALSE]
    IN FoldLeft(LAMBDA t, i : get_inode(t, i).s, s, <<ROOT_INODE>> \o im.open)

Init ==
    /\ \E im \in Images :
        /\ m = Mounted(im)
        /\ held = [i \in Inodes |-> IF i = ROOT_INODE \/ i \in ToSet(im.open) THEN 1 ELSE 0]
    /\ calls = 0 /\ reply = [op |-> "none", r |-> "OK"]

rw_inode(s, k) ==
    [s EXCEPT !.disk[s.slot[k].num] = DiskPart(s.slot[k]), !.slot[k].dirt = FALSE]

free_inode(s, num) ==
    [s EXCEPT !.imap = @ \ {num}, !.isearch = IF num < @ THEN num ELSE @]

\* Zones of a file of size 0, which truncation does not find.
Beyond(s, k) ==
    IF s.slot[k].size = 0 /\ s.dir[s.slot[k].num] # <<>> THEN 1 ELSE 0

\* Mutant: a slot without links stays on its hash chain.
put_inode_StaysHashed(s, k) ==
    LET rip == s.slot[k]
        gone == rip.nlinks = 0
        last == IF gone
                THEN free_inode([s EXCEPT !.dir[rip.num] = <<>>, !.slot[k].size = 0,
                                          !.lost = @ + Beyond(s, k),
                                          !.slot[k].mode = "NONE", !.slot[k].dirt = TRUE],
                                rip.num)
                ELSE s
        idle == [last EXCEPT !.slot[k].count = 0, !.slot[k].mountpoint = FALSE]
        clean == IF idle.slot[k].dirt THEN rw_inode(idle, k) ELSE idle
    IN IF k = NULL THEN s
       ELSE IF rip.count < 1 THEN [s EXCEPT !.panic = TRUE]
       ELSE IF rip.count > 1 THEN [s EXCEPT !.slot[k].count = @ - 1]
       ELSE [clean EXCEPT !.unused = Append(@, k)]

\* The last reference frees an inode without links; a dirty one is written.
put_inode(s, k) ==
    LET rip == s.slot[k]
        gone == rip.nlinks = 0
        last == IF gone
                THEN free_inode([s EXCEPT !.dir[rip.num] = <<>>, !.slot[k].size = 0,
                                          !.lost = @ + Beyond(s, k),
                                          !.slot[k].mode = "NONE", !.slot[k].dirt = TRUE],
                                rip.num)
                ELSE s
        idle == [last EXCEPT !.slot[k].count = 0, !.slot[k].mountpoint = FALSE]
        clean == IF idle.slot[k].dirt THEN rw_inode(idle, k) ELSE idle
    IN IF k = NULL THEN s
       ELSE IF rip.count < 1 THEN [s EXCEPT !.panic = TRUE]
       ELSE IF rip.count > 1 THEN [s EXCEPT !.slot[k].count = @ - 1]
       ELSE IF gone
       THEN [clean EXCEPT !.unused = <<k>> \o @, !.slot[k].num = NO_ENTRY]
       ELSE [clean EXCEPT !.unused = Append(@, k)]

PutAll(s, ks) == FoldLeft(put_inode, s, ks)

\* The bit is set; when the table is full it is cleared again, by free_bit.
alloc_inode(s, mode) ==
    LET free == Inodes \ s.imap
        later == {i \in free : i >= s.isearch}
        b == IF later # {} THEN Min(later) ELSE Min(free)
        t == [s EXCEPT !.isearch = b, !.imap = @ \cup {b}]
        a == TakeSlot(t, b, [FreeInode EXCEPT !.mode = mode])
    IN IF free = {} THEN [s |-> Err(s, "ENOSPC"), k |-> NULL]
       ELSE IF a.k = NULL THEN [s |-> [a.s EXCEPT !.imap = @ \ {b}], k |-> NULL]
       ELSE [s |-> [a.s EXCEPT !.slot[a.k].dirt = TRUE], k |-> a.k]

-----------------------------------------------------------------------------
(* Directories: an entry whose ino is NO_ENTRY is free and keeps its name. *)

Entries(s, k) == SubSeq(s.dir[s.slot[k].num], 1, s.slot[k].size)
Holds(s, k, name) ==
    {j \in 1..Len(Entries(s, k)) : /\ Entries(s, k)[j].ino # NO_ENTRY
                                   /\ Entries(s, k)[j].name = name}

UsedBlocks(s) ==
    s.lost + FoldFunction(LAMBDA d, n : n + ((Len(d) + PerBlock - 1) \div PerBlock), 0, s.dir)

\* search_dir, LOOK_UP
LookUp(s, k, name) ==
    IF s.slot[k].mode # "DIR" THEN [r |-> "ENOTDIR", numb |-> NO_ENTRY]
    ELSE IF Holds(s, k, name) = {} THEN [r |-> "ENOENT", numb |-> NO_ENTRY]
    ELSE [r |-> "OK", numb |-> Entries(s, k)[Min(Holds(s, k, name))].ino]

\* search_dir, IS_EMPTY
IsEmpty(s, k) ==
    IF s.slot[k].mode # "DIR" THEN "ENOTDIR"
    ELSE IF \E j \in DOMAIN Entries(s, k) :
                Entries(s, k)[j].ino # NO_ENTRY /\ ~IsDots(Entries(s, k)[j].name)
         THEN "ENOTEMPTY" ELSE "OK"

\* search_dir, DELETE
Delete(s, k, name) ==
    IF s.slot[k].mode # "DIR" THEN [s |-> s, r |-> "ENOTDIR"]
    ELSE IF Holds(s, k, name) = {} THEN [s |-> s, r |-> "ENOENT"]
    ELSE [s |-> [s EXCEPT !.dir[s.slot[k].num][Min(Holds(s, k, name))].ino = NO_ENTRY,
                          !.slot[k].dirt = TRUE],
          r |-> "OK"]

\* Mutant: the size stays when the entry goes into a block that is there.
Enter_SizeStays(s, k, name, numb) ==
    LET num == s.slot[k].num
        free == {j \in 1..s.slot[k].size : s.dir[num][j].ino = NO_ENTRY}
        j == IF free # {} THEN Min(free) ELSE s.slot[k].size + 1
        extended == j > Len(s.dir[num])
        blank == [i \in 1..PerBlock |-> [ino |-> NO_ENTRY, name |-> ""]]
        t == IF extended THEN [s EXCEPT !.dir[num] = @ \o blank] ELSE s
        u == [t EXCEPT !.dir[num][j] = [ino |-> numb, name |-> name],
                       !.slot[k].dirt = TRUE,
                       !.slot[k].size = IF extended THEN j ELSE @]
    IN IF s.slot[k].mode # "DIR" THEN [s |-> s, r |-> "ENOTDIR"]
       ELSE IF extended /\ UsedBlocks(s) >= Blocks
       THEN [s |-> Err(s, "ENOSPC"), r |-> "ENOSPC"]
       ELSE [s |-> IF extended THEN rw_inode(u, k) ELSE u, r |-> "OK"]

\* Mutant: the last free entry.
Enter_LastFree(s, k, name, numb) ==
    LET num == s.slot[k].num
        free == {j \in 1..s.slot[k].size : s.dir[num][j].ino = NO_ENTRY}
        j == IF free # {} THEN Max(free) ELSE s.slot[k].size + 1
        extended == j > Len(s.dir[num])
        blank == [i \in 1..PerBlock |-> [ino |-> NO_ENTRY, name |-> ""]]
        t == IF extended THEN [s EXCEPT !.dir[num] = @ \o blank] ELSE s
        u == [t EXCEPT !.dir[num][j] = [ino |-> numb, name |-> name],
                       !.slot[k].dirt = TRUE,
                       !.slot[k].size = Max({@, j})]
    IN IF s.slot[k].mode # "DIR" THEN [s |-> s, r |-> "ENOTDIR"]
       ELSE IF extended /\ UsedBlocks(s) >= Blocks
       THEN [s |-> Err(s, "ENOSPC"), r |-> "ENOSPC"]
       ELSE [s |-> IF extended THEN rw_inode(u, k) ELSE u, r |-> "OK"]

\* search_dir, ENTER: the first free entry, or one more, for which the
\* directory may need a block.
Enter(s, k, name, numb) ==
    LET num == s.slot[k].num
        free == {j \in 1..s.slot[k].size : s.dir[num][j].ino = NO_ENTRY}
        j == IF free # {} THEN Min(free) ELSE s.slot[k].size + 1
        extended == j > Len(s.dir[num])
        blank == [i \in 1..PerBlock |-> [ino |-> NO_ENTRY, name |-> ""]]
        t == IF extended THEN [s EXCEPT !.dir[num] = @ \o blank] ELSE s
        u == [t EXCEPT !.dir[num][j] = [ino |-> numb, name |-> name],
                       !.slot[k].dirt = TRUE,
                       !.slot[k].size = Max({@, j})]
    IN IF s.slot[k].mode # "DIR" THEN [s |-> s, r |-> "ENOTDIR"]
       ELSE IF extended /\ UsedBlocks(s) >= Blocks
       THEN [s |-> Err(s, "ENOSPC"), r |-> "ENOSPC"]
       ELSE [s |-> IF extended THEN rw_inode(u, k) ELSE u, r |-> "OK"]

\* One component: the inode a name leads to, and in err what was met.
advance(s, k, name) ==
    LET Leaves(numb) == /\ numb = ROOT_INODE /\ s.slot[k].num = ROOT_INODE
                        /\ name = DotDot /\ ~s.is_root
        Got(g, numb) ==
            IF g.k = NULL THEN g
            ELSE IF g.s.slot[g.k].mountpoint THEN [g EXCEPT !.s.err = "EENTERMOUNT"]
            ELSE IF Leaves(numb) THEN [g EXCEPT !.s.err = "ELEAVEMOUNT"]
            ELSE g
        Found(l) == IF l.r # "OK" THEN [s |-> Err(s, l.r), k |-> NULL]
                    ELSE Got(get_inode(Err(s, "OK"), l.numb), l.numb)
    IN IF k = NULL THEN [s |-> s, k |-> NULL] ELSE Found(LookUp(s, k, name))

Crossed(err) == err \in {"EENTERMOUNT", "ELEAVEMOUNT"}

-----------------------------------------------------------------------------
(* Removing and linking. *)

Unlinked(s, k) == [s EXCEPT !.slot[k].nlinks = @ - 1, !.slot[k].dirt = TRUE]
Linked(s, k) == [s EXCEPT !.slot[k].nlinks = @ + 1, !.slot[k].dirt = TRUE]

\* The slot k of the file may be NULL: then it is looked up.
unlink_file(s, dirk, k, name) ==
    LET Deleted(d, i) == [s |-> put_inode(IF d.r = "OK" THEN Unlinked(d.s, i) ELSE d.s, i),
                          r |-> d.r]
        Got(g) == IF g.k = NULL THEN [s |-> g.s, r |-> g.s.err]
                  ELSE Deleted(Delete(g.s, dirk, name), g.k)
        Found(l) == IF l.r # "OK" THEN [s |-> Err(s, l.r), r |-> l.r]
                    ELSE Got(get_inode(Err(s, "OK"), l.numb))
    IN IF k # NULL THEN Got([s |-> dup_inode(s, k), k |-> k])
       ELSE Found(LookUp(s, dirk, name))

remove_dir(s, dirk, k, name) ==
    LET WithoutDots(u) ==
            IF u.r # "OK" THEN u
            ELSE [s |-> unlink_file(unlink_file(u.s, k, NULL, Dot).s, k, NULL, DotDot).s,
                  r |-> "OK"]
    IN IF IsEmpty(s, k) # "OK" THEN [s |-> s, r |-> IsEmpty(s, k)]
       ELSE IF IsDots(name) THEN [s |-> s, r |-> "EINVAL"]
       ELSE IF s.slot[k].num = ROOT_INODE THEN [s |-> s, r |-> "EBUSY"]
       ELSE WithoutDots(unlink_file(s, dirk, k, name))

\* fs_unlink, for unlink and rmdir.
fs_unlink(s, dir, name, rmdir) ==
    LET Put(u, ks) == [s |-> PutAll(u.s, ks), r |-> u.r]
        Found(a, dirk) ==
            IF Crossed(a.s.err) THEN Put([s |-> a.s, r |-> "EBUSY"], <<a.k, dirk>>)
            ELSE IF a.s.err # "OK" THEN Put([s |-> a.s, r |-> a.s.err], <<dirk>>)
            ELSE Put(IF rmdir THEN remove_dir(a.s, dirk, a.k, name)
                     ELSE IF a.s.slot[a.k].mode = "DIR" THEN [s |-> a.s, r |-> "EPERM"]
                     ELSE unlink_file(a.s, dirk, a.k, name), <<a.k, dirk>>)
        In(g) == Found(advance(g.s, g.k, name), g.k)
    IN In(get_inode(s, dir))

\* The caller's id is never set for this request (main.c:48), so a directory
\* cannot be linked by anyone.
fs_link(s, num, dir, name) ==
    LET Put(e, ks) == [s |-> PutAll(e.s, ks), r |-> e.r]
        Entered(e, k) == IF e.r # "OK" THEN e ELSE [e EXCEPT !.s = Linked(@, k)]
        Found(t, a, k, dirk) ==
            IF a.k # NULL THEN [s |-> t, r |-> "EEXIST"]
            ELSE IF t.err # "ENOENT" THEN [s |-> t, r |-> t.err]
            ELSE Entered(Enter(t, dirk, name, num), k)
        Looked(a, k, dirk) == Put(Found(put_inode(a.s, a.k), a, k, dirk), <<k, dirk>>)
        In(g, k) == IF g.s.slot[g.k].nlinks = 0
                    THEN Put([s |-> g.s, r |-> "ENOENT"], <<k, g.k>>)
                    ELSE Looked(advance(g.s, g.k, name), k, g.k)
        File(f, rip) ==
            IF rip.nlinks >= LINK_MAX THEN Put([s |-> f.s, r |-> "EMLINK"], <<f.k>>)
            ELSE IF rip.mode = "DIR" THEN Put([s |-> f.s, r |-> "EPERM"], <<f.k>>)
            ELSE In(get_inode(f.s, dir), f.k)
        Got(f) == File(f, f.s.slot[f.k])
    IN Got(get_inode(s, num))

-----------------------------------------------------------------------------
(* Renaming. *)

\* From the new directory up to the root: the old inode must not be met.
RECURSIVE WalkUp(_, _, _)
WalkUp(s, k, old) ==
    LET Up(t, up) ==
            IF up = k THEN [s |-> put_inode(t, k), r |-> "OK"]
            ELSE IF t.err = "ELEAVEMOUNT" THEN [s |-> Err(put_inode(t, up), "OK"), r |-> "OK"]
            ELSE IF up = NULL THEN [s |-> t, r |-> "EINVAL"]
            ELSE WalkUp(t, up, old)
        Found(a) == Up(put_inode(a.s, k), a.k)
    IN IF k = old THEN [s |-> put_inode(s, k), r |-> "EINVAL"]
       ELSE Found(advance(s, k, DotDot))

\* The result of the checks, in the order of the code: a later one overrides.
RenameCheck(s, r, odir, old, new, ndk, same_pdir, names) ==
    LET r1 == IF \E n \in names : IsDots(n) THEN "EINVAL" ELSE r
        ndir == s.slot[new].mode = "DIR"
    IN IF new = NULL
       THEN IF odir /\ s.slot[ndk].nlinks >= LINK_MAX /\ ~same_pdir /\ r1 = "OK"
            THEN "EMLINK" ELSE r1
       ELSE IF odir /\ ~ndir THEN "ENOTDIR"
       ELSE IF ~odir /\ ndir THEN "EISDIR"
       ELSE IF old = new THEN "SAME" ELSE r1

\* Mutant: the way up to the root is not walked.
RenameChecks_NoWalk(s, odk, ndk, old, new, names) ==
    [s |-> s, r |-> RenameCheck(s, "OK", s.slot[old].mode = "DIR", old, new, ndk,
                                odk = ndk, names)]

RenameChecks(s, odk, ndk, old, new, names) ==
    LET odir == s.slot[old].mode = "DIR"
        Walked(w) == [w EXCEPT !.r = RenameCheck(w.s, @, odir, old, new, ndk, odk = ndk, names)]
    IN Walked(IF odir /\ odk # ndk THEN WalkUp(dup_inode(s, ndk), ndk, old)
              ELSE [s |-> s, r |-> "OK"])

\* The entry moves; in one directory it is deleted first, else entered first.
MoveEntry(s, odk, ndk, old, oname, nname) ==
    LET numb == s.slot[old].num
        Deleted(d) == IF d.r = "OK" THEN [d EXCEPT !.s = Enter(@, odk, nname, numb).s] ELSE d
        Entered(e) == IF e.r = "OK" THEN [e EXCEPT !.s = Delete(@, odk, oname).s] ELSE e
    IN IF odk = ndk THEN Deleted(Delete(s, odk, oname)) ELSE Entered(Enter(s, ndk, nname, numb))

\* A directory that moved has a new `..'.
MoveDotDot(s, ndk, old) ==
    LET Entered(e) == IF e.r = "OK" THEN Linked(e.s, ndk) ELSE e.s
    IN Entered(Enter(unlink_file(s, old, NULL, DotDot).s, old, DotDot, s.slot[ndk].num))

\* The inodes the two names lead to are in the slots old and new.
RenameFile(s, r, odk, ndk, old, new, oname, nname) ==
    LET Moved(y) ==
            [s |-> PutAll(IF y.r = "OK" /\ y.s.slot[old].mode = "DIR" /\ odk # ndk
                          THEN MoveDotDot(y.s, ndk, old) ELSE y.s, <<odk, old, ndk, new>>),
             r |-> y.r]
        Cleared(x) ==
            Moved(IF x.r = "OK" THEN MoveEntry(x.s, odk, ndk, old, oname, nname) ELSE x)
        Checked(c) ==
            Cleared(IF c.r # "OK" \/ new = NULL THEN c
                    ELSE IF c.s.slot[old].mode = "DIR" THEN remove_dir(c.s, ndk, new, nname)
                    ELSE unlink_file(c.s, ndk, new, nname))
    IN Checked(IF r = "OK" THEN RenameChecks(s, odk, ndk, old, new, {oname, nname})
               ELSE [s |-> s, r |-> r])

fs_rename(s, odir, oname, ndir, nname) ==
    LET Back(a, errs) ==       \* an inode across a mount is put back
            IF a.s.err \in errs THEN [s |-> put_inode(a.s, a.k), k |-> NULL] ELSE a
        Code(err) == CASE err = "EENTERMOUNT" -> "EXDEV"
                       [] err = "ELEAVEMOUNT" -> "EINVAL"
                       [] OTHER -> err
        New(b, r, odk, ndk, old) ==
            RenameFile(b.s, IF b.s.err = "EENTERMOUNT" THEN "EBUSY" ELSE r,
                       odk, ndk, old, b.k, oname, nname)
        InNew(h, r, odk, old) ==
            IF h.s.slot[h.k].nlinks = 0
            THEN [s |-> PutAll(h.s, <<old, odk, h.k>>), r |-> "ENOENT"]
            ELSE New(Back(advance(h.s, h.k, nname), {"EENTERMOUNT"}), r, odk, h.k, old)
        Old(a, odk) == InNew(get_inode(a.s, ndir), Code(a.s.err), odk, a.k)
        InOld(g) == Old(Back(advance(g.s, g.k, oname), {"EENTERMOUNT", "ELEAVEMOUNT"}), g.k)
    IN InOld(get_inode(s, odir))

-----------------------------------------------------------------------------
(* Creating. *)

\* The new inode in its slot, with err; also an old one, with EEXIST.
new_node(s, dirk, name, mode) ==
    LET Entered(e, k) ==
            IF e.r # "OK" THEN [s |-> Err(put_inode(Unlinked(e.s, k), k), e.r), k |-> NULL]
            ELSE [s |-> Err(e.s, "OK"), k |-> k]
        Made(t, k) == Entered(Enter(t, dirk, name, t.slot[k].num), k)
        Allocated(n) == IF n.k = NULL THEN n ELSE Made(rw_inode(Linked(n.s, n.k), n.k), n.k)
        Found(a) ==
            IF mode = "DIR" /\ s.slot[dirk].nlinks >= LINK_MAX
            THEN [s |-> Err(put_inode(a.s, a.k), "EMLINK"), k |-> NULL]
            ELSE IF a.k # NULL THEN [s |-> Err(a.s, "EEXIST"), k |-> a.k]
            ELSE IF a.s.err # "ENOENT" THEN a
            ELSE Allocated(alloc_inode(a.s, mode))
    IN IF s.slot[dirk].nlinks = 0 THEN [s |-> Err(s, "ENOENT"), k |-> NULL]
       ELSE Found(advance(s, dirk, name))

\* The caller of a creat that succeeds holds the inode (num).
fs_create(s, dir, name) ==
    LET Made(n, dirk) ==
            IF n.s.err # "OK"
            THEN [s |-> PutAll(n.s, <<dirk, n.k>>), r |-> n.s.err, num |-> NO_ENTRY]
            ELSE [s |-> put_inode(n.s, dirk), r |-> "OK", num |-> n.s.slot[n.k].num]
        In(g) == Made(new_node(g.s, g.k, name, "REG"), g.k)
    IN In(get_inode(s, dir))

fs_mknod(s, dir, name) ==
    LET Made(n, dirk) == [s |-> PutAll(n.s, <<n.k, dirk>>), r |-> n.s.err,
                          num |-> IF n.k = NULL THEN NO_ENTRY ELSE n.s.slot[n.k].num]
        In(g) == Made(new_node(g.s, g.k, name, "BLK"), g.k)
    IN In(get_inode(s, dir))

\* Mutant: the parent's count stays.
fs_mkdir_ParentStays(s, dir, name) ==
    LET Done(t, n, dirk, num) == [s |-> PutAll(t, <<dirk, n.k>>), r |-> t.err, num |-> num]
        Filled(ok, t, n, dirk, num) ==
            Done(IF ok THEN Linked(t, n.k)
                 ELSE Unlinked(Delete(t, dirk, name).s, n.k), n, dirk, num)
        Both(e1, e2, n, dirk, num) ==
            Filled(e1.r = "OK" /\ e2.r = "OK", e2.s, n, dirk, num)
        First(e, n, dirk, num) == Both(e, Enter(e.s, n.k, DotDot, dir), n, dirk, num)
        New(n, dirk, num) == First(Enter(n.s, n.k, Dot, num), n, dirk, num)
        Made(n, dirk) ==
            IF n.k = NULL \/ n.s.err = "EEXIST"
            THEN [s |-> PutAll(n.s, <<n.k, dirk>>), r |-> n.s.err, num |-> NO_ENTRY]
            ELSE New(n, dirk, n.s.slot[n.k].num)
        In(g) == Made(new_node(g.s, g.k, name, "DIR"), g.k)
    IN In(get_inode(s, dir))

fs_mkdir(s, dir, name) ==
    LET Done(t, n, dirk, num) == [s |-> PutAll(t, <<dirk, n.k>>), r |-> t.err, num |-> num]
        Filled(ok, t, n, dirk, num) ==
            Done(IF ok THEN Linked(Linked(t, n.k), dirk)
                 ELSE Unlinked(Delete(t, dirk, name).s, n.k), n, dirk, num)
        Both(e1, e2, n, dirk, num) ==
            Filled(e1.r = "OK" /\ e2.r = "OK", e2.s, n, dirk, num)
        First(e, n, dirk, num) == Both(e, Enter(e.s, n.k, DotDot, dir), n, dirk, num)
        New(n, dirk, num) == First(Enter(n.s, n.k, Dot, num), n, dirk, num)
        Made(n, dirk) ==
            IF n.k = NULL \/ n.s.err = "EEXIST"
            THEN [s |-> PutAll(n.s, <<n.k, dirk>>), r |-> n.s.err, num |-> NO_ENTRY]
            ELSE New(n, dirk, n.s.slot[n.k].num)
        In(g) == Made(new_node(g.s, g.k, name, "DIR"), g.k)
    IN In(get_inode(s, dir))

\* fault: the text cannot be copied, or is not as long as it is said to be.
fs_slink(s, dir, name, target, fault) ==
    LET Put(t, n, dirk, r) ==
            [s |-> PutAll(t, <<n.k, dirk>>), r |-> r, num |-> n.s.slot[n.k].num]
        Written(t, n, dirk, r) ==
            Put(IF r = "OK" THEN t
                ELSE Delete([t EXCEPT !.slot[n.k].nlinks = 0], dirk, name).s, n, dirk, r)
        Made(n, dirk) ==
            IF n.s.err # "OK"
            THEN [s |-> PutAll(n.s, <<n.k, dirk>>), r |-> n.s.err, num |-> NO_ENTRY]
            ELSE IF UsedBlocks(n.s) >= Blocks THEN Written(n.s, n, dirk, "ENOSPC")
            ELSE Written([n.s EXCEPT !.dir[n.s.slot[n.k].num] = <<target>>,
                                     !.slot[n.k].size = IF fault = "EFAULT" THEN 0 ELSE 1,
                                     !.slot[n.k].dirt = TRUE], n, dirk, fault)
        In(g) == Made(new_node(g.s, g.k, name, "LNK"), g.k)
    IN In(get_inode(s, dir))

-----------------------------------------------------------------------------
(* Finding. *)

\* Along a path, a sequence of components.  leaving: the walk comes up from a
\* file system mounted on its first directory; denied: directories the
\* caller may not search.
RECURSIVE parse_path(_, _, _, _, _, _)
parse_path(s, k, path, leaving, links, q) ==
    LET rip == s.slot[k]
        comp == Head(path)
        rest == Tail(path)
        denied == rip.mode = "DIR" /\ rip.num \in q.denied
        fail(t, ks, e) == [s |-> PutAll(t, ks), r |-> e, k |-> NULL, links |-> links]
        stop(t, i, e) == [s |-> t, r |-> e, k |-> i, links |-> links]
        Follow(a, target) ==
            IF target.abs THEN fail(a.s, <<k, a.k>>, "ESYMLINK")
            ELSE parse_path(put_inode(a.s, a.k), k, target.path \o rest, FALSE, links + 1, q)
        Component(a) ==
            IF a.s.err # "OK" /\ ~Crossed(a.s.err) THEN fail(a.s, <<k>>, a.s.err)
            ELSE IF a.s.slot[a.k].mode # "LNK"
            THEN parse_path(put_inode(a.s, k), a.k, rest, FALSE, links, q)
            ELSE IF rest = <<>> /\ q.ret_symlink THEN stop(put_inode(a.s, k), a.k, "OK")
            ELSE IF links = SYMLOOP_MAX THEN fail(a.s, <<k, a.k>>, "ELOOP")
            ELSE Follow(a, a.s.dir[a.s.slot[a.k].num][1])
    IN IF path = <<>> THEN stop(s, k, IF rip.mountpoint THEN "EENTERMOUNT" ELSE "OK")
       ELSE IF comp = DotDot /\ denied THEN fail(s, <<k>>, "EACCES")
       ELSE IF comp = DotDot /\ rip.num = q.root_ino
       THEN parse_path(s, k, rest, leaving, links, q)
       ELSE IF comp = DotDot /\ rip.num = ROOT_INODE /\ ~s.is_root
       THEN fail(s, <<k>>, "ELEAVEMOUNT")
       ELSE IF ~leaving /\ rip.mountpoint THEN stop(s, k, "EENTERMOUNT")
       ELSE IF ~leaving /\ denied THEN fail(s, <<k>>, "EACCES")
       ELSE Component(advance(s, k, IF leaving THEN DotDot ELSE comp))

\* A directory that is found is left to the caller, who holds it; a mount
\* point is put back.
fs_lookup(s, dir, path, q) ==
    LET Parsed(p) ==
            [s |-> IF p.r = "EENTERMOUNT" THEN put_inode(p.s, p.k) ELSE p.s,
             r |-> p.r, links |-> p.links,
             num |-> IF p.k = NULL THEN NO_ENTRY ELSE p.s.slot[p.k].num]
        From(k) ==
            IF k = NULL \/ s.slot[k].nlinks = 0
            THEN [s |-> s, r |-> "ENOENT", num |-> NO_ENTRY, links |-> 0]
            ELSE Parsed(parse_path(dup_inode(s, k), k, path, s.slot[k].mountpoint, 0, q))
    IN From(find_inode(s, dir))

-----------------------------------------------------------------------------
(* The other requests on an inode. *)

\* The callers release n of their references.
fs_putnode(s, num, n) ==
    LET k == find_inode(s, num)
    IN IF k = NULL \/ n > s.slot[k].count THEN [s EXCEPT !.panic = TRUE]
       ELSE put_inode([s EXCEPT !.slot[k].count = @ - (n - 1)], k)

\* The flag is set after the inode was put.
fs_mountpoint(s, num) ==
    LET Check(rip) == IF rip.mode = "BLK" THEN "ENOTDIR"
                      ELSE IF rip.mountpoint THEN "EBUSY" ELSE "OK"
        Put(t, k, r) ==
            [s |-> IF r = "OK" THEN [t EXCEPT !.slot[k].mountpoint = TRUE] ELSE t, r |-> r]
        Got(g) == Put(put_inode(g.s, g.k), g.k, Check(g.s.slot[g.k]))
    IN Got(get_inode(s, num))

\* Requests that only mark the inode changed: chmod, chown, utime, getdents.
Touch(s, num) ==
    LET Got(g) == put_inode([g.s EXCEPT !.slot[g.k].dirt = TRUE], g.k)
    IN Got(get_inode(s, num))

\* fs_sync: the inodes in use that are dirty.
SyncInodes(s) ==
    FoldLeft(LAMBDA t, k : IF t.slot[k].count > 0 /\ t.slot[k].dirt THEN rw_inode(t, k) ELSE t,
             s, [k \in 1..Slots |-> k])

\* Only the reference to the root may be left.
fs_unmount(s) ==
    LET k == find_inode(s, ROOT_INODE)
        count == FoldLeft(LAMBDA n, rip : n + rip.count, 0, s.slot)
    IN IF count > 1 THEN [s |-> s, r |-> "EBUSY"]
       ELSE [s |-> [SyncInodes(put_inode(s, k)) EXCEPT !.mounted = FALSE], r |-> "OK"]

-----------------------------------------------------------------------------
(* The requests, as the virtual file system sends them. *)

Current(s, num) ==
    LET k == SlotOf(s, num) IN IF k = NULL THEN s.disk[num] ELSE DiskPart(s.slot[k])
Held == {i \in Inodes : held[i] > 0}
HeldTotal == FoldFunction(LAMBDA n, t : n + t, 0, held)
AllNames == Names \cup {Dot, DotDot}

Ready == m.mounted /\ calls < MaxCalls
Quiet(s) == Err(s, "OK")        \* no request reads an err_code of an earlier one

Answer(o, rest) ==
    /\ calls' = calls + 1 /\ m' = Quiet(o.s) /\ reply' = [r |-> o.r] @@ rest

Create(dir, name) ==
    /\ Ready /\ HeldTotal < MaxHeld
    /\ \E o \in {fs_create(m, dir, name)} :
       /\ Answer(o, [op |-> "create", d |-> dir, name |-> name, i |-> o.num])
       /\ held' = IF o.r = "OK" THEN [held EXCEPT ![o.num] = @ + 1] ELSE held

MakeOther(dir, name) ==
    /\ Ready
    /\ \/ \E o \in {fs_mknod(m, dir, name)} :
          Answer(o, [op |-> "create", d |-> dir, name |-> name, i |-> o.num])
       \/ \E o \in {fs_mkdir(m, dir, name)} :
          Answer(o, [op |-> "mkdir", d |-> dir, name |-> name, i |-> o.num])
       \/ \E target \in Targets, fault \in {"OK", "EFAULT", "ENAMETOOLONG"} :
          \E o \in {fs_slink(m, dir, name, target, fault)} :
            Answer(o, [op |-> "create", d |-> dir, name |-> name, i |-> o.num])
    /\ UNCHANGED held

\* The file was looked up by another name just before.
Link(num, dir, name) ==
    /\ Ready /\ Current(m, num).nlinks > 0
    /\ Answer(fs_link(m, num, dir, name), [op |-> "link", d |-> dir, name |-> name, i |-> num])
    /\ UNCHANGED held

RemoveName(dir, name) ==
    /\ Ready
    /\ \E rmdir \in BOOLEAN :
         Answer(fs_unlink(m, dir, name, rmdir),
                [op |-> IF rmdir THEN "rmdir" ELSE "unlink", d |-> dir, name |-> name])
    /\ UNCHANGED held

\* A careful caller has room in the inode table for the file that a rename
\* replaces.
Rename(odir, oname, ndir, nname) ==
    /\ Ready
    /\ Careful => \/ Len(m.unused) >= 2
                  \/ LookUp(m, SlotOf(m, ndir), nname).r # "OK"
    /\ \E o \in {fs_rename(m, odir, oname, ndir, nname)} :
         Answer([o EXCEPT !.r = IF @ = "SAME" THEN "OK" ELSE @],
                [op |-> "rename", d |-> odir, name |-> oname, nd |-> ndir, nname |-> nname])
    /\ UNCHANGED held

Lookup(dir, path, q) ==
    /\ Ready /\ HeldTotal < MaxHeld
    /\ \E o \in {fs_lookup(m, dir, path, q)} :
       LET plain == /\ o.links = 0 /\ o.r \in {"OK", "ENOENT"}
                    /\ DotDot \notin ToSet(path) /\ ~m.slot[SlotOf(m, dir)].mountpoint
       IN /\ Answer(o, [op |-> IF plain THEN "lookup" ELSE "other", d |-> dir, path |-> path,
                        i |-> o.num])
          /\ held' = IF o.r = "OK" THEN [held EXCEPT ![o.num] = @ + 1] ELSE held

PutNode(num) ==
    \E n \in 1..(IF num = ROOT_INODE THEN held[num] - 1 ELSE held[num]) :
        /\ Ready
        /\ Answer([s |-> fs_putnode(m, num, n), r |-> "OK"], [op |-> "other"])
        /\ held' = [held EXCEPT ![num] = @ - n]

OnInode(num) ==
    /\ Ready
    /\ \/ Answer(fs_mountpoint(m, num), [op |-> "other"])
       \/ Answer([s |-> Touch(m, num), r |-> "OK"], [op |-> "other"])
    /\ UNCHANGED held

Unmount ==
    Ready /\ \E o \in {fs_unmount(m)} :
       /\ Answer(o, [op |-> "other"])
       /\ held' = IF o.r = "OK" THEN [held EXCEPT ![ROOT_INODE] = 0] ELSE held

Sync == Ready /\ Answer([s |-> SyncInodes(m), r |-> "OK"], [op |-> "other"]) /\ UNCHANGED held

\* `.' and `..' are tried as names where the code looks for them.
Next ==
    \/ \E d \in Held, name \in Names \cup {DotDot} : Create(d, name)
    \/ \E d \in Held, name \in Names :
         MakeOther(d, name) \/ \E i \in Held : Link(i, d, name)
    \/ \E d \in Held, name \in AllNames : RemoveName(d, name)
    \/ \E d, nd \in Held, name \in Names \cup {DotDot}, nname \in Names \cup {Dot} :
         Rename(d, name, nd, nname)
    \/ \E d \in Held, path \in Paths, q \in Queries : Lookup(d, path, q)
    \/ \E i \in Held : PutNode(i) \/ OnInode(i)
    \/ Unmount \/ Sync

Spec == Init /\ [][Next]_vars

-----------------------------------------------------------------------------
(* Properties *)

\* What an inode's entries say, as long as it is a directory.
Edges ==
    UNION {LET d == m.dir[i]
               part == Current(m, i)
               named == {j \in 1..part.size : d[j].ino # NO_ENTRY}
           IN IF part.mode = "DIR" THEN {<<i, d[j].name, d[j].ino>> : j \in named} ELSE {} :
           i \in {i \in Inodes : m.dir[i] # <<>>}}

\* Every inode counts exactly the entries that name it, in whatever order
\* names and files are made, moved and removed, and what fails on a full disk
\* or table is taken back; the map of inodes holds those that are named or
\* still held, and nothing below isearch is free (link.c, open.c, inode.c).
LinksExact ==
    /\ ~m.panic
    /\ \E E \in {Edges} : \A i \in Inodes :
         /\ Current(m, i).nlinks = Cardinality({e \in E : e[3] = i})
         /\ i \in m.imap <=> Current(m, i).nlinks > 0 \/ held[i] > 0
    /\ \A i \in Inodes \ m.imap : i >= m.isearch

\* After a request the table counts exactly what the callers hold: no path
\* through a request loses or takes a reference.  A number has one slot; the
\* slots not in use are on the list, once; a clean slot is as its inode on
\* the disk (inode.c:125-252).
TableExact ==
    /\ \A i \in Inodes :
         LET ks == {k \in 1..Slots : m.slot[k].num = i}
         IN /\ Cardinality(ks) <= 1
            /\ held[i] = IF ks = {} THEN 0 ELSE m.slot[Min(ks)].count
    /\ ToSet(m.unused) = {k \in 1..Slots : m.slot[k].count = 0}
    /\ IsInjective(m.unused)
    /\ \A k \in 1..Slots :
         m.slot[k].num # NO_ENTRY /\ ~m.slot[k].dirt => m.disk[m.slot[k].num] = DiskPart(m.slot[k])

\* The directories are a tree, and each request changes it as it should or,
\* when it fails, not at all (link.c:33-480, open.c:17-316, path.c:37-617).
Tree == INSTANCE DirTree WITH
          Root <- ROOT_INODE, edges <- Edges, used <- m.imap, reply <- reply
ImplementsDirTree == Tree!Spec
DirectoriesAreTree == Tree!IsTree
=============================================================================
