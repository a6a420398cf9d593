------------------------------- MODULE Minget -------------------------------
(***************************************************************************)
(* How minls and minget (assn5/shared.c) read a file from the image that   *)
(* the file server wrote: zone after zone, until the size is used up.      *)
(***************************************************************************)
EXTENDS MfsFile

\* The units of a zone, as they lie in the image.
ZoneUnits(z) ==
    [i \in 1..ZoneSize(fs) |-> fs.blk[z * ZoneBlocks(fs) + (i - 1) \div U][(i - 1) % U]]

\* The zones are read in turn after what is there; a zone 0 is skipped.
set_data(zones, size, data) ==
    LET one(acc, z) ==
            IF z = NO_ZONE THEN acc
            ELSE acc \o SubSeq(ZoneUnits(z), 1, Min({size - Len(acc), ZoneSize(fs)}))
    IN FoldLeft(one, data, zones)

\* The numbers in an indirect zone that are not 0: all of the zone is read.
read_indirect_zones(z) == SelectSeq(ZoneUnits(z), LAMBDA n : n # NO_ZONE)

\* Mutant: the double indirect zone is taken for a single one.
get_data_OneIndirect(f) ==
    LET ino == fs.ino[f]
        direct == [i \in 1..DZones |-> ino.zone[i - 1]]
        more(data, ind) ==
            IF Len(data) = ino.size \/ ind = NO_ZONE THEN data
            ELSE set_data(read_indirect_zones(ind), ino.size, data)
        single == more(set_data(direct, ino.size, <<>>), ino.zone[SINGLE])
        data == more(single, ino.zone[DOUBLE])
    IN [i \in 1..ino.size |-> IF i \in DOMAIN data THEN data[i] ELSE 0]

get_data(f) ==
    LET ino == fs.ino[f]
        direct == [i \in 1..DZones |-> ino.zone[i - 1]]
        more(data, ind) ==
            IF Len(data) = ino.size \/ ind = NO_ZONE THEN data
            ELSE set_data(read_indirect_zones(ind), ino.size, data)
        single == more(set_data(direct, ino.size, <<>>), ino.zone[SINGLE])
        dbl == IF ino.zone[DOUBLE] = NO_ZONE THEN <<>>
               ELSE read_indirect_zones(ino.zone[DOUBLE])
        data == FoldLeft(more, single, dbl)
    IN [i \in 1..ino.size |-> IF i \in DOMAIN data THEN data[i] ELSE 0]

-----------------------------------------------------------------------------

\* No hole lies before data.
Packed(f) ==
    \A i, j \in 0..(fs.ino[f].size - 1) :
        i < j /\ read_map(fs, f, j) # NO_BLOCK => read_map(fs, f, i) # NO_BLOCK

\* On a disk whose zones are single blocks the tools read what the file server
\* reads, for every file with no hole before its data: the two walk direct,
\* single and double indirect zones in the same order (shared.c:49-160,
\* read.c:294-356).  Of a file with holes the tools lose the holes.
ToolReadsFiles ==
    fs.scale = 0 => \A f \in Files : Packed(f) => get_data(f) = Content(f)
=============================================================================
