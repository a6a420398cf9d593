------------------------------ MODULE MfsFile ------------------------------
(***************************************************************************)
(* The contents of files in the MINIX file server (assn5/mfs): zones and   *)
(* the bit map that allocates them (super.c, cache.c), the map from a      *)
(* position to a zone, direct, single and double indirect (read.c,         *)
(* write.c), reading and writing (read.c), truncation and the freeing of a *)
(* range (link.c), and the counting of free space (stats.c).               *)
(*                                                                         *)
(* A position counts units, of which a block has U; an indirect block has  *)
(* as many entries.  A zone has 2^scale blocks.  What a freed zone held    *)
(* stays on the disk, so a block used again without being cleared shows.   *)
(* A device with errors is the subject of MfsCache.                        *)
(***************************************************************************)
EXTENDS Integers, Sequences, FiniteSets, SequencesExt, FiniteSetsExt

CONSTANTS Files,
          U,               \* units, and zone numbers, in a block
          DZones,          \* s_ndzones: direct zones of an inode
          Scales,          \* s_log_zone_size, chosen at the start
          Zones,           \* s_zones
          FirstZone,       \* s_firstdatazone
          ChunkBits,       \* FS_BITCHUNK_BITS
          BlockBits,       \* FS_BITS_PER_BLOCK
          Positions, Lengths,  \* what a request may name
          CopyFaults,      \* TRUE: copies from the caller may fail
          Careful,         \* TRUE: the callers avoid UnclearedZone
          MaxCalls

ASSUME MfsFileAssumption ==
    /\ U \in Nat \ {0} /\ DZones \in Nat \ {0} /\ Zones \in Nat /\ FirstZone \in 2..Zones
    /\ ChunkBits \in Nat \ {0} /\ BlockBits \in Nat \ {0} /\ BlockBits % ChunkBits = 0

\* A zone has a positive number of blocks.
ASSUME ScalesAssumption == Scales \subseteq Nat /\ \A scale \in Scales : 2 ^ scale \in Nat \ {0}

ASSUME RequestsAssumption ==
    Positions \subseteq Nat /\ Lengths \subseteq Nat \ {0} /\ MaxCalls \in Nat

VARIABLES fs,      \* the file system: the inodes, the bit map and the blocks
          calls,
          reply,   \* the last request with its answer
          lost     \* history: zones whose names removals wiped out

vars == <<fs, calls, reply, lost>>

NO_ZONE == 0
NO_BLOCK == 0
NO_BIT == 0

MapBits == Zones - (FirstZone - 1)
MapBlocks == ((MapBits - 1) \div BlockBits) + 1
ZoneBlocks(s) == 2 ^ s.scale
ZoneSize(s) == U * ZoneBlocks(s)
MaxSize(s) == (DZones + U + U * U) * ZoneSize(s)

Zeros == [i \in 0..(U - 1) |-> 0]
NewInode == [zone |-> [i \in 0..(DZones + 1) |-> NO_ZONE], size |-> 0,
             zsearch |-> NO_ZONE]

Init ==
    /\ \E scale \in Scales :
        fs = [scale |-> scale,
              bits |-> {0},          \* bits of the zone map that are set
              zsearch |-> 0,
              blk |-> [b \in 0..(Zones * 2 ^ scale - 1) |-> Zeros],
              ino |-> [f \in Files |-> NewInode],
              panic |-> FALSE]
    /\ calls = 0 /\ reply = [op |-> "none"] /\ lost = {}

-----------------------------------------------------------------------------
(* Bits and zones. *)

\* The search runs from the word of the origin to the end of its block,
\* through the other blocks, and over the first block again.  It gives up on
\* a block at a free bit beyond the map.
InMap(origin) == IF origin \in 0..(MapBits - 1) THEN origin ELSE 0
map_block(o, k) == ((o \div BlockBits) + k) % MapBlocks
search_from(o, k) ==
    IF k = 0 THEN (o \div ChunkBits) * ChunkBits ELSE map_block(o, k) * BlockBits
free_bits(bits, o, k) == (search_from(o, k)..((map_block(o, k) + 1) * BlockBits - 1)) \ bits

alloc_bit(bits, origin) ==
    LET o == InMap(origin)
        ks == {k \in 0..MapBlocks : free_bits(bits, o, k) # {} /\ Min(free_bits(bits, o, k)) < MapBits}
    IN IF ks = {} THEN NO_BIT ELSE Min(free_bits(bits, o, Min(ks)))

free_bit(s, bit) ==
    IF bit \in s.bits THEN [s EXCEPT !.bits = @ \ {bit}] ELSE [s EXCEPT !.panic = TRUE]

\* The new state, and the zone.
alloc_zone(s, z) ==
    LET b == alloc_bit(s.bits, IF z = FirstZone THEN s.zsearch ELSE z - (FirstZone - 1))
    IN IF b = NO_BIT THEN [s |-> s, z |-> NO_ZONE]
       ELSE [s |-> [s EXCEPT !.bits = @ \cup {b},
                             !.zsearch = IF z = FirstZone THEN b ELSE @],
             z |-> FirstZone - 1 + b]

free_zone(s, z) ==
    LET bit == z - (FirstZone - 1)
    IN IF z \notin FirstZone..(Zones - 1) THEN s
       ELSE [free_bit(s, bit) EXCEPT !.zsearch = IF bit < @ THEN bit ELSE @]

\* From the word of s_zsearch on to the end of the map: what is below is full.
count_free_bits(s) ==
    LET o == InMap(s.zsearch)
    IN Cardinality((((o \div ChunkBits) * ChunkBits)..(MapBits - 1)) \ s.bits)

-----------------------------------------------------------------------------
(* Positions and zones. *)

rd_indir(s, z, i) == s.blk[z * ZoneBlocks(s)][i]
wr_indir(s, z, i, zone) == [s EXCEPT !.blk[z * ZoneBlocks(s)][i] = zone]
empty_indir(s, z) == \A i \in 0..(U - 1) : rd_indir(s, z, i) = NO_ZONE

Zone(s, pos) == (pos \div U) \div ZoneBlocks(s)
IsDirect(zone) == zone < DZones
IsSingle(zone) == zone < DZones + U
Double(zone) == (zone - DZones - U) \div U          \* index in the double block
Single(zone) == (zone - DZones) % U                 \* index in the single block
SINGLE == DZones
DOUBLE == DZones + 1

\* The single indirect zone that holds a zone which is not direct.
IndirectOf(s, f, zone) ==
    IF IsSingle(zone) THEN s.ino[f].zone[SINGLE]
    ELSE IF s.ino[f].zone[DOUBLE] = NO_ZONE THEN NO_ZONE
    ELSE rd_indir(s, s.ino[f].zone[DOUBLE], Double(zone))

\* The zone at a position, and the block.
zone_at(s, f, pos) ==
    LET zone == Zone(s, pos)
        ind == IndirectOf(s, f, zone)
    IN IF IsDirect(zone) THEN s.ino[f].zone[zone]
       ELSE IF ind = NO_ZONE THEN NO_ZONE ELSE rd_indir(s, ind, Single(zone))

read_map(s, f, pos) ==
    LET z == zone_at(s, f, pos)
    IN IF z = NO_ZONE THEN NO_BLOCK
       ELSE z * ZoneBlocks(s) + ((pos \div U) % ZoneBlocks(s))

Near(s, f) == s.ino[f].zone[0]

\* Clears the first block of a zone: a new indirect block.
Cleared(s, z) == [s EXCEPT !.blk[z * ZoneBlocks(s)] = Zeros]

\* A new indirect zone is cleared and entered; on a full disk there is none.
EnterDouble(s, f) ==
    LET a == alloc_zone(s, Near(s, f))
    IN IF a.z = NO_ZONE THEN s ELSE Cleared([a.s EXCEPT !.ino[f].zone[DOUBLE] = a.z], a.z)

enter_single(s, f, zone, z) ==
    IF IsSingle(zone) THEN [s EXCEPT !.ino[f].zone[SINGLE] = z]
    ELSE wr_indir(s, s.ino[f].zone[DOUBLE], Double(zone), z)

EnterSingle(s, f, zone) ==
    LET a == alloc_zone(s, Near(s, f))
        t == enter_single(a.s, f, zone, a.z)
    IN IF a.z = NO_ZONE THEN t ELSE Cleared(t, a.z)

with_double(s, f, zone) ==
    IF IsSingle(zone) \/ s.ino[f].zone[DOUBLE] # NO_ZONE THEN s ELSE EnterDouble(s, f)

with_single(s, f, zone) ==
    IF IndirectOf(s, f, zone) # NO_ZONE THEN s ELSE EnterSingle(s, f, zone)

enter_zone(s, ind, zone, new_zone) ==
    IF ind = NO_ZONE THEN [s |-> s, r |-> "ENOSPC"]
    ELSE [s |-> wr_indir(s, ind, Single(zone), new_zone), r |-> "OK"]

enter_indirect(s, f, zone, new_zone) == enter_zone(s, IndirectOf(s, f, zone), zone, new_zone)

\* write_map, entering new_zone.  A double indirect block made for a single
\* one that finds no room stays.
write_map_double(s, f, zone, new_zone) ==
    IF ~IsSingle(zone) /\ s.ino[f].zone[DOUBLE] = NO_ZONE THEN [s |-> s, r |-> "ENOSPC"]
    ELSE enter_indirect(with_single(s, f, zone), f, zone, new_zone)

write_map(s, f, pos, new_zone) ==
    LET zone == Zone(s, pos)
    IN IF IsDirect(zone)
       THEN [s |-> [s EXCEPT !.ino[f].zone[zone] = new_zone], r |-> "OK"]
       ELSE write_map_double(with_double(s, f, zone), f, zone, new_zone)

\* write_map with WMAP_FREE: the zone, and the indirect blocks it empties.
FreeSingle(s, f, zone) ==
    LET ind == IndirectOf(s, f, zone)
        old == rd_indir(s, ind, Single(zone))
        t == IF old = NO_ZONE THEN s
             ELSE wr_indir(free_zone(s, old), ind, Single(zone), NO_ZONE)
        u == free_zone(t, ind)
    IN IF ind = NO_ZONE THEN s
       ELSE IF ~empty_indir(t, ind) THEN t
       ELSE IF IsSingle(zone) THEN [u EXCEPT !.ino[f].zone[SINGLE] = NO_ZONE]
       ELSE wr_indir(u, s.ino[f].zone[DOUBLE], Double(zone), NO_ZONE)

FreeDouble(s, f, zone) ==
    LET dbl == s.ino[f].zone[DOUBLE]
    IN IF ~IsSingle(zone) /\ dbl # NO_ZONE
          /\ IndirectOf(s, f, zone) = NO_ZONE /\ empty_indir(s, dbl)
       THEN [free_zone(s, dbl) EXCEPT !.ino[f].zone[DOUBLE] = NO_ZONE]
       ELSE s

write_map_free(s, f, pos) ==
    LET zone == Zone(s, pos)
    IN IF IsDirect(zone)
       THEN [free_zone(s, s.ino[f].zone[zone]) EXCEPT !.ino[f].zone[zone] = NO_ZONE]
       ELSE FreeDouble(FreeSingle(s, f, zone), f, zone)

-----------------------------------------------------------------------------
(* Blocks *)

zero_block(s, b) == [s EXCEPT !.blk[b] = Zeros]

\* Mutant: the zone is not cleared.
clear_zone_Skipped(s, f, pos, whole) == s

\* Zeroes the rest of a zone, from the block after pos on, or (whole) the
\* zone of pos.  With zones of one block there is nothing to do.
clear_zone(s, f, pos, whole) ==
    LET zs == ZoneSize(s)
        p == IF whole THEN (pos \div zs) * zs ELSE pos
        next == p + U - 1
        blo == read_map(s, f, next)
        bhi == ((blo \div ZoneBlocks(s)) + 1) * ZoneBlocks(s) - 1
    IN IF s.scale = 0 \/ next \div zs # p \div zs \/ blo = NO_BLOCK THEN s
       ELSE [s EXCEPT !.blk = [b \in DOMAIN @ |-> IF b \in blo..bhi THEN Zeros ELSE @[b]]]

\* Mutant: the zone is not given back when it finds no place in the map.
new_block_Kept(s, f, pos) ==
    LET near == IF s.ino[f].zone[0] # NO_ZONE THEN s.ino[f].zone[0] ELSE FirstZone
        Fresh(t, b) == [s |-> zero_block(t, b), b |-> b, r |-> "OK"]
        Entered(w) == IF w.r # "OK" THEN [s |-> w.s, b |-> NO_BLOCK, r |-> w.r]
                      ELSE Fresh(w.s, read_map(w.s, f, pos))
        Taken(a) == IF a.z = NO_ZONE THEN [s |-> a.s, b |-> NO_BLOCK, r |-> "ENOSPC"]
                    ELSE Entered(write_map(a.s, f, pos, a.z))
    IN Taken(alloc_zone(s, near))

fresh_block(s, f, pos) ==
    LET b == read_map(s, f, pos) IN [s |-> zero_block(s, b), b |-> b, r |-> "OK"]

\* Zone z is in the map, as w says, or is given back.
new_zone_block(w, f, pos, z) ==
    IF w.r # "OK" THEN [s |-> free_zone(w.s, z), b |-> NO_BLOCK, r |-> w.r]
    ELSE fresh_block(IF pos # w.s.ino[f].size THEN clear_zone(w.s, f, pos, TRUE) ELSE w.s, f, pos)

\* A zone for pos, entered in the map; given back when that finds no room.
new_block(s, f, pos) ==
    LET near == IF s.ino[f].zsearch # NO_ZONE THEN s.ino[f].zsearch
                ELSE IF s.ino[f].zone[0] # NO_ZONE THEN s.ino[f].zone[0]
                ELSE FirstZone
        a == alloc_zone(s, near)
    IN IF a.z = NO_ZONE THEN [s |-> a.s, b |-> NO_BLOCK, r |-> "ENOSPC"]
       ELSE new_zone_block(write_map([a.s EXCEPT !.ino[f].zsearch = a.z], f, pos, a.z), f, pos, a.z)

copied(s, b, off, n, v) ==
    [s EXCEPT !.blk[b] = [i \in DOMAIN @ |-> IF i \in off..(off + n - 1) THEN v ELSE @[i]]]
garbage(s, b) == [s EXCEPT !.blk[b] = [i \in DOMAIN @ |-> MaxCalls + 1]]

copy_chunk(new, off, n, v, past, unread, copy_fails) ==
    LET s == IF n # U /\ past THEN zero_block(new.s, new.b) ELSE new.s
    IN IF new.r # "OK" THEN [s |-> new.s, r |-> new.r]
       ELSE IF ~copy_fails THEN [s |-> copied(s, new.b, off, n, v), r |-> "OK"]
       ELSE [s |-> IF unread /\ n = U THEN garbage(s, new.b) ELSE s, r |-> "EFAULT"]

\* Part of a block is written.  A block that is replaced whole, or lies past
\* the end, is not fetched (NO_READ): when the copy from the caller fails,
\* it holds what the buffer held.
rw_chunk(s, f, pos, n, v, copy_fails) ==
    LET off == pos % U
        past == pos >= s.ino[f].size /\ off = 0
        old == read_map(s, f, pos)
        unread == old # NO_BLOCK /\ (n = U \/ past)
    IN copy_chunk(IF old = NO_BLOCK THEN new_block(s, f, pos) ELSE [s |-> s, b |-> old, r |-> "OK"],
                  off, n, v, past, unread, copy_fails)

\* The chunks of a request: none spans two blocks.
chunk_from(pos, k) == IF k = 0 THEN pos ELSE ((pos \div U) + k) * U
chunk_to(pos, len, k) == Min({pos + len, ((pos \div U) + k + 1) * U})
Chunks(pos, len) ==
    [j \in 1..(((pos + len - 1) \div U) - (pos \div U) + 1) |->
        [pos |-> chunk_from(pos, j - 1), n |-> chunk_to(pos, len, j - 1) - chunk_from(pos, j - 1)]]

written(acc, n, w) ==
    [s |-> w.s, r |-> w.r, pos |-> IF w.r = "OK" THEN acc.pos + n ELSE acc.pos]

WriteChunk(f, c, v, fails, acc) ==
    IF acc.r # "OK" THEN acc ELSE written(acc, c.n, rw_chunk(acc.s, f, c.pos, c.n, v, fails))

\* The chunks are written until one fails; chunk number `fault' finds no data.
WriteChunks(s, f, pos, len, v, fault) ==
    LET chunks == Chunks(pos, len)
    IN FoldLeft(LAMBDA acc, j : WriteChunk(f, chunks[j], v, j = fault, acc),
                [s |-> s, r |-> "OK", pos |-> pos], [j \in DOMAIN chunks |-> j])

-----------------------------------------------------------------------------
(* Freeing *)

\* Units from..to-1 of the file are zeroed where there are blocks; they lie in
\* one zone, and that of pos has block b.
range_block(b, pos, k) == b + ((pos + k) \div U) - (pos \div U)

zerozone_range(s, f, pos, len) ==
    LET b == read_map(s, f, pos)
    IN IF len = 0 \/ b = NO_BLOCK THEN s
       ELSE [s EXCEPT !.blk = [c \in DOMAIN @ |-> [i \in 0..(U - 1) |->
                IF \E k \in 0..(len - 1) : range_block(b, pos, k) = c /\ (pos + k) % U = i THEN 0
                ELSE @[c][i]]]]

zerozone_half(s, f, pos, half) ==
    LET offset == pos % ZoneSize(s)
    IN IF half = "LAST_HALF" THEN zerozone_range(s, f, pos, ZoneSize(s) - offset)
       ELSE zerozone_range(s, f, pos - offset, offset)

nextblock(s, pos) == ((pos + ZoneSize(s) - 1) \div ZoneSize(s)) * ZoneSize(s)

\* Zones p to e - 1 of the file.
free_zones(s, f, p, e) ==
    FoldLeft(LAMBDA acc, k : write_map_free(acc, f, (p + k - 1) * ZoneSize(s)), s,
             [k \in 1..(e - p) |-> k])

\* Mutant: the last zone, of which the file has a part only, is left out.
freesp_inode_WholeZones(s, f, start, end0) ==
    LET zs == ZoneSize(s)
        end == Min({end0, s.ino[f].size})
        zero_last == start % zs # 0
        t == IF zero_last THEN zerozone_half(s, f, start, "LAST_HALF") ELSE s
    IN IF end <= start THEN [s |-> s, r |-> "EINVAL"]
       ELSE [s |-> free_zones(t, f, nextblock(s, start) \div zs, end \div zs), r |-> "OK"]

freesp_inode(s, f, start, end0) ==
    LET zs == ZoneSize(s)
        size == s.ino[f].size
        end == Min({end0, size})
        zero_last == start % zs # 0
        zero_first == end % zs # 0 /\ end < size
        t == IF zero_last THEN zerozone_half(s, f, start, "LAST_HALF") ELSE s
        u == IF zero_first THEN zerozone_half(t, f, end, "FIRST_HALF") ELSE t
        e == (end \div zs) + (IF end = size /\ end % zs # 0 THEN 1 ELSE 0)
        p == nextblock(s, start) \div zs
    IN IF end <= start THEN [s |-> s, r |-> "EINVAL"]
       ELSE IF start \div zs = (end - 1) \div zs /\ (zero_last \/ zero_first)
       THEN [s |-> zerozone_range(s, f, start, end - start), r |-> "OK"]
       ELSE [s |-> free_zones(u, f, p, e), r |-> "OK"]

truncate_inode(s, f, newsize) ==
    LET size == s.ino[f].size
        cut == IF newsize < size THEN freesp_inode(s, f, newsize, size).s ELSE s
        t == IF newsize > size THEN clear_zone(cut, f, size, FALSE) ELSE cut
    IN IF newsize > MaxSize(s) THEN [s |-> s, r |-> "EFBIG"]
       ELSE [s |-> [t EXCEPT !.ino[f].size = newsize], r |-> "OK"]

-----------------------------------------------------------------------------
(* The requests *)

Call == calls < MaxCalls /\ calls' = calls + 1

\* A call that goes wrong, which a careful caller does not make: to append to a
\* file that ends inside a zone it does not have.
UnclearedZone(f, pos) ==
    /\ pos = fs.ino[f].size /\ read_map(fs, f, pos) = NO_BLOCK
    /\ (pos \div U) % ZoneBlocks(fs) # 0

\* fs_readwrite, WRITING.  The size is set even when not a unit was written.
Write(f, pos, len) ==
    \E fault \in IF CopyFaults THEN 0..2 ELSE {0} :
        LET size == fs.ino[f].size
            v == calls + 1
            start == IF pos > size THEN clear_zone(fs, f, size, FALSE) ELSE fs
        IN /\ Call /\ UNCHANGED lost /\ (Careful => ~UnclearedZone(f, pos))
           /\ \/ /\ pos > MaxSize(fs) - len
                 /\ fs' = fs
                 /\ reply' = [op |-> "write", r |-> "EFBIG", f |-> f, pos |-> 0,
                              v |-> v, n |-> 0]
              \/ /\ pos <= MaxSize(fs) - len
                 /\ \E w \in {WriteChunks(start, f, pos, len, v, fault)} :
                       /\ fs' = [w.s EXCEPT !.ino[f].size = Max({w.pos, size})]
                       /\ reply' = [op |-> "write", r |-> w.r, f |-> f, pos |-> pos,
                                    v |-> v, n |-> w.pos - pos]

\* fs_readwrite, READING: up to the end of the file, holes as zeros.
Read(f, pos, len) ==
    LET last == Min({pos + len, fs.ino[f].size})
        chunks == Chunks(pos, last - pos)
        read(c) == [k \in 1..c.n |->
                      IF read_map(fs, f, c.pos) = NO_BLOCK THEN 0
                      ELSE fs.blk[read_map(fs, f, c.pos)][(c.pos % U) + k - 1]]
    IN /\ Call
       /\ reply' = [op |-> "read", f |-> f, pos |-> pos, len |-> len,
                    data |-> IF pos >= fs.ino[f].size THEN <<>>
                             ELSE FlattenSeq([j \in DOMAIN chunks |-> read(chunks[j])])]
       /\ UNCHANGED <<fs, lost>>

\* fs_ftrunc: an end of 0 asks for truncation.
fs_ftrunc(f, start, end) ==
    \E t \in {IF end = 0 THEN truncate_inode(fs, f, start)
              ELSE freesp_inode(fs, f, start, end)} :
       /\ Call /\ UNCHANGED lost
       /\ fs' = t.s
       /\ reply' = IF t.r # "OK" THEN [op |-> "refused", r |-> t.r]
                   ELSE IF end = 0 THEN [op |-> "trunc", f |-> f, pos |-> start]
                   ELSE [op |-> "free", f |-> f, pos |-> start, end |-> end]

\* The zones an inode leads to, each with the place that names it.
EntriesOf(s, ind) ==
    IF ind = NO_ZONE THEN {} ELSE {<<ind, i, rd_indir(s, ind, i)>> : i \in 0..(U - 1)}

References(s, f) ==
    LET z == s.ino[f].zone
    IN {<<f, i, z[i]>> : i \in 0..(DZones + 1)}
       \cup EntriesOf(s, z[SINGLE]) \cup EntriesOf(s, z[DOUBLE])
       \cup UNION {EntriesOf(s, e[3]) : e \in EntriesOf(s, z[DOUBLE])}

ZonesOf(s, f) == {e[3] : e \in References(s, f)} \ {NO_ZONE}

\* put_inode of a file without links, and alloc_inode for the next that gets
\* its number: the map of zones is wiped, with the zones it still leads to.
RemoveFile(f) ==
    \E t \in {truncate_inode(fs, f, 0).s} :
       /\ Call
       /\ fs' = [t EXCEPT !.ino[f] = NewInode]
       /\ lost' = lost \cup ZonesOf(t, f)
       /\ reply' = [op |-> "remove", f |-> f]

\* The inode leaves the table and is read again.
Reload(f) ==
    /\ fs.ino[f].zsearch # NO_ZONE
    /\ fs' = [fs EXCEPT !.ino[f].zsearch = NO_ZONE]
    /\ reply' = [op |-> "none"] /\ UNCHANGED <<calls, lost>>

Next ==
    \E f \in Files :
        \/ \E pos \in Positions, len \in Lengths : Write(f, pos, len) \/ Read(f, pos, len)
        \/ \E start, end \in Positions : fs_ftrunc(f, start, end)
        \/ RemoveFile(f) \/ Reload(f)

Spec == Init /\ [][Next]_vars

-----------------------------------------------------------------------------
(* Properties *)

AllReferences == {e \in UNION {References(fs, f) : f \in Files} : e[3] # NO_ZONE}
ReferredZones == {e[3] : e \in AllReferences}

\* Every zone in use is named in one place only, by one inode or indirect
\* block, and its bit is set.  No other bit is set but those of the zones in
\* `lost', which an inode still led to when put_inode had truncated it, and
\* these are never named again: through growth, holes, a full disk, truncation
\* and freeing no zone is shared, lost or freed twice (write.c:26-183,
\* link.c:510-610).  The count that statvfs gives starts at s_zsearch, and
\* still is the number of free zones (stats.c:14-88, cache.c:299-335).
ZonesExact ==
    /\ ~fs.panic
    /\ ReferredZones \subseteq FirstZone..(Zones - 1) /\ lost \subseteq FirstZone..(Zones - 1)
    /\ Cardinality(AllReferences) = Cardinality(ReferredZones)
    /\ ReferredZones \cap lost = {}
    /\ fs.bits = {0} \cup {z - (FirstZone - 1) : z \in ReferredZones \cup lost}
    /\ count_free_bits(fs) = Cardinality((1..(MapBits - 1)) \ fs.bits)

\* The zones of a file past its end, with the indirect zones on the way to
\* them, and the double indirect zone when all it could lead to is past the end.
BeyondEnd(s, f) ==
    LET zone_of(k) == zone_at(s, f, k * ZoneSize(s))
        end == (s.ino[f].size + ZoneSize(s) - 1) \div ZoneSize(s)
        past == {k \in end..(DZones + U + U * U - 1) : zone_of(k) # NO_ZONE}
    IN {zone_of(k) : k \in past}
       \cup {IndirectOf(s, f, k) : k \in past \ 0..(DZones - 1)}
       \cup {s.ino[f].zone[DOUBLE] :
                k \in {k \in past \cup {DZones + U} : k >= DZones + U /\ k >= end}}

\* The removal of a file returns every zone up to its end, and what leads to
\* these zones only; what it loses lies past the end (inode.c:225-237,
\* link.c:571, 597-602).
RemovalLosesPastEnd ==
    [][lost' # lost => lost' \ lost \subseteq BeyondEnd(fs, reply'.f)]_vars

\* "return all the disk blocks" (inode.c:228): a removed file leaves no zone
\* behind.  The code returns those up to the end of the file; a write that
\* runs out of space for the single indirect zone leaves the double indirect
\* zone it took just before, which may be past the end (write.c:77-126).
NothingLost == lost = {}

Content(f) ==
    [i \in 1..fs.ino[f].size |->
        LET b == read_map(fs, f, i - 1) IN IF b = NO_BLOCK THEN 0 ELSE fs.blk[b][(i - 1) % U]]

\* Through all the levels of the map, the contents are those of plain sparse
\* files: nothing of a zone's former use appears, not in the tail of a zone,
\* not in a hole (read.c:29-356, write.c:26-336, link.c:486-697).
Sparse == INSTANCE SparseFile WITH
            Block <- U, file <- [f \in Files |-> Content(f)], reply <- reply
ImplementsSparseFile == Sparse!Spec
=============================================================================
