---------------------------- MODULE MfsFile_proofs ----------------------------
(***************************************************************************)
(* Proofs about the zones of the MINIX file server and what its files      *)
(* hold, for any number of files, any sizes of blocks, zones, inodes and   *)
(* map, any requests and any number of them.  That the zones are exact is  *)
(* proved with copies that fail or without, that the contents are those of *)
(* sparse files without.                                                   *)
(*                                                                         *)
(* The proofs about contents are about callers who do not append where a   *)
(* zone was not cleared (the constant Careful); those about zones are      *)
(* about any callers.                                                      *)
(***************************************************************************)
EXTENDS MfsFile, FiniteSetTheorems, SequenceTheorems, WellFoundedInduction, TLAPS

\* The numbers a zone has.
DataZones == FirstZone..(Zones - 1)
Numbers == {NO_ZONE} \cup DataZones
MaxZone == DZones + U + U * U
Entries == 0..(U - 1)
Tops == 0..(DZones + 1)

Inode(s) == [zone : [Tops -> Int], size : 0..MaxSize(s), zsearch : Int]

\* A file system whose bit map, blocks and inodes have their shape.
Volume(s) ==
    /\ s = [scale |-> s.scale, bits |-> s.bits, zsearch |-> s.zsearch, blk |-> s.blk,
            ino |-> s.ino, panic |-> s.panic]
    /\ s.scale \in Scales
    /\ s.blk \in [0..(Zones * ZoneBlocks(s) - 1) -> [Entries -> Int]]
    /\ s.ino \in [Files -> Inode(s)]
    /\ s.panic = FALSE

\* The indirect zones.
Doubles(s) == {s.ino[f].zone[DOUBLE] : f \in Files} \ {NO_ZONE}
Singles(s) ==
    ({s.ino[f].zone[SINGLE] : f \in Files}
        \cup {rd_indir(s, e[1], e[2]) : e \in Doubles(s) \X Entries}) \ {NO_ZONE}
Indirects(s) == Doubles(s) \cup Singles(s)

\* The places that name zones, and what each names.
Names(s) ==
    {<<"ino", e[1], e[2]>> : e \in Files \X Tops}
        \cup {<<"blk", e[1], e[2]>> : e \in Indirects(s) \X Entries}
Named(s, n) == IF n[1] = "ino" THEN s.ino[n[2]].zone[n[3]] ELSE rd_indir(s, n[2], n[3])
Map(s) == [n \in Names(s) |-> Named(s, n)]

\* No zone has two names, and the bits that are set are those of the zones that
\* have one and of the zones X that are about to get one.
Exact(m, bits, X) ==
    /\ \A n \in DOMAIN m : m[n] \in Numbers
    /\ \A n, k \in DOMAIN m : m[n] = m[k] /\ m[n] # NO_ZONE => n = k
    /\ X \subseteq DataZones /\ \A n \in DOMAIN m : m[n] \notin X
    /\ \A b \in Int :
         b \in bits <=> \/ b = 0
                        \/ b + (FirstZone - 1) \in X
                        \/ b + (FirstZone - 1) # NO_ZONE
                           /\ \E n \in DOMAIN m : m[n] = b + (FirstZone - 1)
    /\ bits \subseteq Int

\* Below s_zsearch nothing is free.
Low(s) == s.zsearch \in 0..(MapBits - 1) /\ \A b \in 0..(s.zsearch - 1) : b \in s.bits

Sound(s, X) == Volume(s) /\ Exact(Map(s), s.bits, X) /\ Low(s)

\* What holds between requests: the zones that removals wiped out have their
\* bits, and no name.
FInv == Sound(fs, lost) /\ calls \in Nat

-----------------------------------------------------------------------------
(* Numbers. *)

LEMMA DivMod ==
    ASSUME NEW a \in Nat, NEW d \in Nat \ {0}
    PROVE  /\ a \div d \in Nat /\ a % d \in 0..(d - 1)
           /\ a = (d * (a \div d)) + (a % d)
OBVIOUS

LEMMA Quotient ==
    ASSUME NEW a \in Nat, NEW d \in Nat \ {0}, NEW q \in Nat, NEW r \in 0..(d - 1), a = d * q + r
    PROVE  a \div d = q /\ a % d = r
OBVIOUS

LEMMA Apart ==
    ASSUME NEW a \in Int, NEW b \in Int, NEW d \in Nat \ {0}, NEW q \in 0..(d - 1),
           NEW r \in 0..(d - 1), a * d + q = b * d + r
    PROVE  a = b /\ q = r
OBVIOUS

LEMMA DivBelow ==
    ASSUME NEW a \in Nat, NEW d \in Nat \ {0}, NEW q \in Nat, a < q * d
    PROVE  a \div d < q
OBVIOUS

LEMMA DivAtMost ==
    ASSUME NEW a \in Nat, NEW d \in Nat \ {0}, NEW q \in Nat, a =< q * d
    PROVE  a \div d =< q
OBVIOUS

LEMMA DivTwice ==
    ASSUME NEW a \in Nat, NEW d \in Nat \ {0}, NEW e \in Nat \ {0}
    PROVE  (a \div d) \div e = a \div (d * e)
OBVIOUS

LEMMA Times ==
    ASSUME NEW a \in Nat, NEW b \in Nat
    PROVE  a * b \in Nat /\ (a # 0 /\ b # 0 => a * b # 0)
OBVIOUS

LEMMA Larger ==
    ASSUME NEW a \in Int, NEW b \in Int, NEW d \in Nat, a =< b
    PROVE  a * d =< b * d
OBVIOUS

\* The least of a set of numbers.
LEMMA MinIs ==
    ASSUME NEW S \in SUBSET Nat, S # {}
    PROVE  Min(S) \in S /\ \A x \in S : Min(S) =< x
<1>1. PICK m \in S : \A k \in S : ~(<<k, m>> \in OpToRel(<, Nat))
  BY NatLessThanWellFounded, WFMin
<1>2. ASSUME NEW k \in S PROVE m =< k
  <2>1. ~(<<k, m>> \in OpToRel(<, Nat))
    BY <1>1
  <2>2. k \in Nat /\ m \in Nat
    OBVIOUS
  <2> QED
    BY <2>1, <2>2 DEF OpToRel
<1> QED
  BY <1>2 DEF Min

LEMMA MinOfTwo ==
    ASSUME NEW a \in Int, NEW b \in Int
    PROVE  Min({a, b}) = IF a =< b THEN a ELSE b
<1> DEFINE m == IF a =< b THEN a ELSE b
<1>1. m \in {a, b} /\ \A x \in {a, b} : m =< x
  OBVIOUS
<1>2. \A k \in {a, b} : (\A x \in {a, b} : k =< x) => k = m
  OBVIOUS
<1> QED
  BY <1>1, <1>2 DEF Min

LEMMA MaxOfTwo ==
    ASSUME NEW a \in Int, NEW b \in Int
    PROVE  Max({a, b}) = IF a >= b THEN a ELSE b
<1> DEFINE m == IF a >= b THEN a ELSE b
<1>1. m \in {a, b} /\ \A x \in {a, b} : m >= x
  OBVIOUS
<1>2. \A k \in {a, b} : (\A x \in {a, b} : k >= x) => k = m
  OBVIOUS
<1> QED
  BY <1>1, <1>2 DEF Max

-----------------------------------------------------------------------------
(* Zones and blocks. *)

LEMMA BlocksPositive ==
    ASSUME NEW s, s.scale \in Scales
    PROVE  ZoneBlocks(s) \in Nat \ {0}
BY ScalesAssumption DEF ZoneBlocks

\* A position below the largest size lies in a zone the map has a place for.
LEMMA ZoneInRange ==
    ASSUME NEW s, s.scale \in Scales, NEW pos \in Nat, pos < MaxSize(s)
    PROVE  Zone(s, pos) \in 0..(MaxZone - 1)
<1> DEFINE B == ZoneBlocks(s)
           K == DZones + U + U * U
<1>1. B \in Nat \ {0} /\ U \in Nat \ {0} /\ K \in Nat
  BY BlocksPositive, Times, MfsFileAssumption
<1>2. U * B \in Nat \ {0}
  BY <1>1, Times
<1>3. pos < K * (U * B)
  BY DEF MaxSize, ZoneSize
<1> HIDE DEF B, K
<1>4. pos \div (U * B) < K /\ pos \div (U * B) \in Nat
  BY <1>1, <1>2, <1>3, DivBelow, DivMod
<1>5. (pos \div U) \div B = pos \div (U * B)
  BY <1>1, DivTwice
<1> QED
  BY <1>1, <1>4, <1>5 DEF Zone, B, K, MaxZone

LEMMA IndexInRange ==
    ASSUME NEW zone \in 0..(MaxZone - 1), ~IsDirect(zone)
    PROVE  Single(zone) \in Entries /\ (~IsSingle(zone) => Double(zone) \in Entries)
<1>1. U \in Nat \ {0} /\ DZones \in Nat \ {0} /\ U * U \in Nat /\ zone \in Nat
  BY Times, MfsFileAssumption DEF MaxZone
<1>2. zone - DZones \in Nat
  BY <1>1 DEF IsDirect
<1>3. Single(zone) \in Entries
  BY <1>1, <1>2, DivMod DEF Single, Entries
<1>4. ASSUME ~IsSingle(zone) PROVE Double(zone) \in Entries
  <2> DEFINE x == zone - DZones - U
  <2>1. x \in Nat /\ x < U * U
    BY <1>1, <1>4 DEF IsSingle, MaxZone
  <2>2. x \div U \in Nat /\ x \div U < U
    BY <1>1, <2>1, DivBelow, DivMod
  <2> QED
    BY <1>1, <2>2 DEF Double, Entries
<1> QED
  BY <1>3, <1>4

\* The blocks of a zone lie on the disk.
LEMMA BlockOnDisk ==
    ASSUME NEW s, s.scale \in Scales, NEW z \in DataZones, NEW i \in 0..(ZoneBlocks(s) - 1)
    PROVE  z * ZoneBlocks(s) + i \in 0..(Zones * ZoneBlocks(s) - 1)
<1> DEFINE B == ZoneBlocks(s)
<1>1. B \in Nat \ {0} /\ z \in Nat \ {0} /\ z + 1 \in Nat /\ z + 1 =< Zones /\ Zones \in Nat
  BY BlocksPositive, MfsFileAssumption DEF DataZones
<1>2. i \in 0..(B - 1)
  OBVIOUS
<1> HIDE DEF B
<1>3. (z + 1) * B =< Zones * B /\ (z + 1) * B = z * B + B /\ z * B \in Nat
  BY <1>1, Larger, Times
<1>4. z * B + i \in Nat /\ z * B + i =< Zones * B - 1 /\ Zones * B \in Nat
  BY <1>1, <1>2, <1>3, Times
<1> QED
  BY <1>4 DEF B

LEMMA FirstBlockOnDisk ==
    ASSUME NEW s, s.scale \in Scales, NEW z \in DataZones
    PROVE  z * ZoneBlocks(s) \in 0..(Zones * ZoneBlocks(s) - 1)
<1>1. ZoneBlocks(s) \in Nat \ {0} /\ z \in Nat
  BY BlocksPositive, MfsFileAssumption DEF DataZones
<1>2. 0 \in 0..(ZoneBlocks(s) - 1)
  BY <1>1
<1>3. z * ZoneBlocks(s) + 0 \in 0..(Zones * ZoneBlocks(s) - 1)
  BY <1>2, BlockOnDisk
<1>4. z * ZoneBlocks(s) \in Nat
  BY <1>1, Times
<1> QED
  BY <1>3, <1>4

\* The first block of a zone is no block of another.
LEMMA ZonesApart ==
    ASSUME NEW s, s.scale \in Scales, NEW y \in DataZones, NEW z \in DataZones,
           NEW i \in 0..(ZoneBlocks(s) - 1), y # z
    PROVE  y * ZoneBlocks(s) # z * ZoneBlocks(s) + i
<1> DEFINE B == ZoneBlocks(s)
<1>1. B \in Nat \ {0} /\ y \in Int /\ z \in Int /\ i \in 0..(B - 1) /\ 0 \in 0..(B - 1)
  BY BlocksPositive, MfsFileAssumption DEF DataZones
<1> HIDE DEF B
<1>2. y * B \in Int /\ y * B + 0 = y * B
  BY <1>1
<1>3. y * B # z * B + i
  BY <1>1, <1>2, Apart
<1> QED
  BY <1>3 DEF B

-----------------------------------------------------------------------------
(* The bit map. *)

LEMMA MapSizes ==
    /\ MapBits \in Nat \ {0} /\ MapBlocks \in Nat \ {0}
    /\ MapBits - 1 \in Nat /\ (MapBits - 1) \div BlockBits \in Nat
    /\ MapBlocks = ((MapBits - 1) \div BlockBits) + 1
<1>1. MapBits \in Nat \ {0} /\ MapBits - 1 \in Nat /\ BlockBits \in Nat \ {0}
  BY MfsFileAssumption DEF MapBits
<1>2. (MapBits - 1) \div BlockBits \in Nat
  BY <1>1, DivMod
<1> QED
  BY <1>1, <1>2 DEF MapBlocks

LEMMA OriginInMap ==
    ASSUME NEW origin PROVE InMap(origin) \in 0..(MapBits - 1)
BY MapSizes DEF InMap

\* The search looks at numbers, and what it finds in a part is not in use.
LEMMA FreeBits ==
    ASSUME NEW bits, NEW o \in 0..(MapBits - 1), NEW k \in 0..MapBlocks
    PROVE  /\ free_bits(bits, o, k) \in SUBSET Nat
           /\ \A b \in free_bits(bits, o, k) : b \notin bits
           /\ map_block(o, k) \in Nat /\ search_from(o, k) \in Nat
<1>1. o \in Nat /\ BlockBits \in Nat \ {0} /\ ChunkBits \in Nat \ {0}
  BY MfsFileAssumption, MapSizes
<1>2. o \div BlockBits \in Nat /\ o \div ChunkBits \in Nat
  BY <1>1, DivMod
<1>3. map_block(o, k) \in Nat
  BY <1>2, MapSizes, DivMod DEF map_block
<1>4. search_from(o, k) \in Nat
  <2>1. (o \div ChunkBits) * ChunkBits \in Nat
    BY <1>1, <1>2, Times
  <2>2. map_block(o, k) * BlockBits \in Nat
    BY <1>1, <1>3, Times
  <2> QED
    BY <2>1, <2>2 DEF search_from
<1>5. (map_block(o, k) + 1) * BlockBits \in Nat
  BY <1>1, <1>3, Times
<1> HIDE DEF map_block
<1> QED
  BY <1>3, <1>4, <1>5 DEF free_bits

\* The parts of the map the search has something to take from.
Parts(bits, o) ==
    {k \in 0..MapBlocks : free_bits(bits, o, k) # {} /\ Min(free_bits(bits, o, k)) < MapBits}

LEMMA AllocIs ==
    ASSUME NEW bits, NEW origin
    PROVE  alloc_bit(bits, origin) =
             IF Parts(bits, InMap(origin)) = {} THEN NO_BIT
             ELSE Min(free_bits(bits, InMap(origin), Min(Parts(bits, InMap(origin)))))
BY DEF alloc_bit, Parts

\* A bit that is handed out was free, and belongs to a zone.
LEMMA AllocFree ==
    ASSUME NEW bits, 0 \in bits, NEW origin, alloc_bit(bits, origin) # NO_BIT
    PROVE  alloc_bit(bits, origin) \in 1..(MapBits - 1) /\ alloc_bit(bits, origin) \notin bits
<1> DEFINE o == InMap(origin)
           ks == Parts(bits, o)
           k == Min(ks)
           F == free_bits(bits, o, k)
<1>1. o \in 0..(MapBits - 1)
  BY OriginInMap
<1>2. ks # {} /\ alloc_bit(bits, origin) = Min(F)
  BY AllocIs
<1> HIDE DEF o
<1>3. ks \in SUBSET Nat /\ ks \subseteq 0..MapBlocks
  BY MapSizes DEF Parts
<1>4. k \in ks
  BY <1>2, <1>3, MinIs
<1>5. k \in 0..MapBlocks /\ F # {} /\ Min(F) < MapBits
  BY <1>3, <1>4 DEF Parts
<1> HIDE DEF ks, k
<1>6. F \in SUBSET Nat /\ \A b \in F : b \notin bits
  BY <1>1, <1>5, FreeBits
<1>7. Min(F) \in F
  BY <1>5, <1>6, MinIs
<1> HIDE DEF F
<1>8. Min(F) \in Nat /\ Min(F) \notin bits
  BY <1>6, <1>7
<1> QED
  BY <1>2, <1>5, <1>8, MapSizes

\* The search from a bit below which none is free finds the first that is.
LEMMA AllocLow ==
    ASSUME NEW bits, NEW o \in 0..(MapBits - 1), \A b \in 0..(o - 1) : b \in bits,
           alloc_bit(bits, o) # NO_BIT
    PROVE  \A c \in Nat : c < alloc_bit(bits, o) => c \in bits
<1> DEFINE ks == Parts(bits, o)
           k == Min(ks)
           F == free_bits(bits, o, k)
           b == Min(F)
<1>1. InMap(o) = o
  BY DEF InMap
<1>2. ks # {} /\ alloc_bit(bits, o) = b
  BY <1>1, AllocIs
<1>3. ks \in SUBSET Nat /\ ks \subseteq 0..MapBlocks
  BY MapSizes DEF Parts
<1>4. k \in ks /\ \A j \in ks : k =< j
  BY <1>2, <1>3, MinIs
<1>5. k \in 0..MapBlocks /\ F # {} /\ b < MapBits
  BY <1>3, <1>4 DEF Parts
<1>6. F \in SUBSET Nat
  BY <1>5, FreeBits
<1>7. b \in F /\ b \in Nat /\ \A c \in F : b =< c
  BY <1>5, <1>6, MinIs
<1> HIDE DEF b
<1> SUFFICES ASSUME NEW c \in Nat, c < b, c \notin bits PROVE FALSE
  BY <1>2
<1> DEFINE q == o \div BlockBits
           B == c \div BlockBits
           j == B - q
<1>8. BlockBits \in Nat \ {0} /\ ChunkBits \in Nat \ {0} /\ o \in Nat /\ c >= o /\ c < MapBits
  BY <1>5, <1>7, MapSizes, MfsFileAssumption
<1>9. q \in Nat /\ B \in Nat /\ q =< B /\ B < MapBlocks /\ o \div ChunkBits \in Nat
  <2>1. q \in Nat /\ B \in Nat /\ o \div ChunkBits \in Nat
    BY <1>8, DivMod
  <2>2. c =< MapBits - 1 /\ c \div BlockBits =< (MapBits - 1) \div BlockBits
    BY <1>8, MapSizes
  <2>3. o \div BlockBits =< c \div BlockBits
    BY <1>8
  <2> QED
    BY <2>1, <2>2, <2>3, MapSizes
<1>10. B * BlockBits =< c /\ c < (B + 1) * BlockBits /\ (o \div ChunkBits) * ChunkBits =< o
  BY <1>8
<1> HIDE DEF q, B
<1>11. j \in 0..MapBlocks /\ q + j = B
  BY <1>9, MapSizes
<1>12. map_block(o, j) = B
  <2>1. B % MapBlocks = B
    BY <1>9, MapSizes
  <2> QED
    BY <1>11, <2>1 DEF map_block, q
<1>13. c \in free_bits(bits, o, j)
  <2>1. search_from(o, j) =< c /\ search_from(o, j) \in Nat
    BY <1>8, <1>10, <1>11, <1>12, FreeBits DEF search_from
  <2>2. (B + 1) * BlockBits \in Nat
    BY <1>8, <1>9, Times
  <2> QED
    BY <1>10, <1>12, <2>1, <2>2 DEF free_bits
<1>14. j \in ks
  <2>1. free_bits(bits, o, j) \in SUBSET Nat
    BY <1>11, FreeBits
  <2>2. Min(free_bits(bits, o, j)) \in Nat /\ Min(free_bits(bits, o, j)) =< c
    BY <1>13, <2>1, MinIs
  <2>3. Min(free_bits(bits, o, j)) < MapBits
    BY <1>8, <2>2, MapSizes
  <2> QED
    BY <1>11, <1>13, <2>3 DEF Parts
<1>15. k =< j
  BY <1>4, <1>14
<1>16. k # j
  BY <1>7, <1>13
<1>17. k < j /\ k \in Nat
  BY <1>5, <1>11, <1>15, <1>16, MapSizes
<1>18. map_block(o, k) = q + k /\ q + k + 1 =< B
  <2>1. q + k \in Nat /\ q + k < MapBlocks /\ q + k + 1 =< B
    BY <1>9, <1>11, <1>17, MapSizes
  <2>2. (q + k) % MapBlocks = q + k
    BY <2>1, MapSizes
  <2> QED
    BY <2>1, <2>2 DEF map_block, q
<1>19. b =< (q + k + 1) * BlockBits - 1
  BY <1>7, <1>18 DEF free_bits
<1>20. (q + k + 1) * BlockBits =< B * BlockBits
  BY <1>8, <1>9, <1>17, <1>18, Larger
<1>21. (q + k + 1) * BlockBits \in Int /\ B * BlockBits \in Int
  BY <1>8, <1>9, <1>17
<1> QED
  BY <1>7, <1>10, <1>19, <1>20, <1>21

-----------------------------------------------------------------------------
(* Maps of places to zones. *)

\* In map k place n names zone z, which it does not in map m, and places that
\* are new in k name none.
Linked(m, k, n, z) ==
    /\ n \in DOMAIN m /\ DOMAIN m \subseteq DOMAIN k
    /\ m[n] = NO_ZONE /\ k[n] = z
    /\ \A j \in DOMAIN m : j # n => k[j] = m[j]
    /\ \A j \in DOMAIN k : j \notin DOMAIN m => k[j] = NO_ZONE

LEMMA LinkExact ==
    ASSUME NEW m, NEW k, NEW n, NEW bits, NEW X, NEW z \in X, Linked(m, k, n, z), Exact(m, bits, X)
    PROVE  Exact(k, bits, X \ {z})
<1>1. z \in DataZones /\ z # NO_ZONE /\ z \in Int
  BY MfsFileAssumption DEF Exact, DataZones, NO_ZONE
<1>2. \A j \in DOMAIN k : \/ j = n /\ k[j] = z
                          \/ j # n /\ j \in DOMAIN m /\ k[j] = m[j]
                          \/ j # n /\ j \notin DOMAIN m /\ k[j] = NO_ZONE
  BY DEF Linked
<1>3. n \in DOMAIN m /\ n \in DOMAIN k /\ m[n] = NO_ZONE /\ k[n] = z /\ DOMAIN m \subseteq DOMAIN k
  BY DEF Linked
<1>4. \A j \in DOMAIN m : m[j] # z /\ m[j] \notin X
  BY DEF Exact
<1>5. \A j \in DOMAIN k : k[j] \in Numbers
  BY <1>1, <1>2 DEF Exact, Numbers
<1>6. ASSUME NEW i \in DOMAIN k, NEW j \in DOMAIN k, k[i] = k[j], k[i] # NO_ZONE PROVE i = j
  <2>1. CASE i = n \/ j = n
    BY <1>2, <1>4, <1>6, <2>1
  <2>2. CASE i # n /\ j # n
    BY <1>2, <1>6, <2>2 DEF Exact
  <2> QED
    BY <2>1, <2>2
<1>7. X \ {z} \subseteq DataZones /\ \A j \in DOMAIN k : k[j] \notin X \ {z}
  BY <1>2, <1>4, MfsFileAssumption DEF Exact, DataZones, NO_ZONE
<1>8. ASSUME NEW b \in Int
      PROVE  b \in bits <=> \/ b = 0
                            \/ b + (FirstZone - 1) \in X \ {z}
                            \/ b + (FirstZone - 1) # NO_ZONE
                               /\ \E j \in DOMAIN k : k[j] = b + (FirstZone - 1)
  <2> DEFINE y == b + (FirstZone - 1)
  <2>1. b \in bits <=> b = 0 \/ y \in X \/ (y # NO_ZONE /\ \E j \in DOMAIN m : m[j] = y)
    BY DEF Exact
  <2> HIDE DEF y
  <2>2. (y # NO_ZONE /\ \E j \in DOMAIN k : k[j] = y)
          <=> (y = z \/ (y # NO_ZONE /\ \E j \in DOMAIN m : m[j] = y))
    BY <1>1, <1>2, <1>3
  <2>3. y \in X <=> y = z \/ y \in X \ {z}
    OBVIOUS
  <2> QED
    BY <2>1, <2>2, <2>3 DEF y
<1> QED
  BY <1>5, <1>6, <1>7, <1>8 DEF Exact

LEMMA UnlinkExact ==
    ASSUME NEW m, NEW k, NEW n, NEW bits, NEW X, NEW z \in DataZones, Linked(m, k, n, z),
           Exact(k, bits, X)
    PROVE  Exact(m, bits, X \cup {z})
<1>1. z # NO_ZONE /\ z \in Int
  BY MfsFileAssumption DEF DataZones, NO_ZONE
<1>2. \A j \in DOMAIN k : \/ j = n /\ k[j] = z
                          \/ j # n /\ j \in DOMAIN m /\ k[j] = m[j]
                          \/ j # n /\ j \notin DOMAIN m /\ k[j] = NO_ZONE
  BY DEF Linked
<1>3. n \in DOMAIN m /\ n \in DOMAIN k /\ m[n] = NO_ZONE /\ k[n] = z /\ DOMAIN m \subseteq DOMAIN k
  BY DEF Linked
<1>4. \A j \in DOMAIN m : j = n \/ m[j] = k[j]
  BY DEF Linked
<1>5. \A j \in DOMAIN m : m[j] \in Numbers
  BY <1>3, <1>4 DEF Exact, Numbers
<1>6. ASSUME NEW i \in DOMAIN m, NEW j \in DOMAIN m, m[i] = m[j], m[i] # NO_ZONE PROVE i = j
  BY <1>3, <1>4, <1>6 DEF Exact
<1>7. \A j \in DOMAIN m : m[j] # z
  BY <1>1, <1>3, <1>4 DEF Exact
<1>8. X \cup {z} \subseteq DataZones /\ \A j \in DOMAIN m : m[j] \notin X \cup {z}
  <2>1. \A j \in DOMAIN m : m[j] \notin X
    BY <1>3, <1>4, MfsFileAssumption DEF Exact, DataZones, NO_ZONE
  <2> QED
    BY <1>7, <2>1 DEF Exact
<1>9. ASSUME NEW b \in Int
      PROVE  b \in bits <=> \/ b = 0
                            \/ b + (FirstZone - 1) \in X \cup {z}
                            \/ b + (FirstZone - 1) # NO_ZONE
                               /\ \E j \in DOMAIN m : m[j] = b + (FirstZone - 1)
  <2> DEFINE y == b + (FirstZone - 1)
  <2>1. b \in bits <=> b = 0 \/ y \in X \/ (y # NO_ZONE /\ \E j \in DOMAIN k : k[j] = y)
    BY DEF Exact
  <2> HIDE DEF y
  <2>2. (y # NO_ZONE /\ \E j \in DOMAIN k : k[j] = y)
          <=> (y = z \/ (y # NO_ZONE /\ \E j \in DOMAIN m : m[j] = y))
    BY <1>1, <1>2, <1>3
  <2>3. y \in X \cup {z} <=> y = z \/ y \in X
    OBVIOUS
  <2> QED
    BY <2>1, <2>2, <2>3 DEF y
<1> QED
  BY <1>5, <1>6, <1>8, <1>9 DEF Exact

\* A bit is set for a zone that is about to get a name.
LEMMA AllocExact ==
    ASSUME NEW m, NEW bits, NEW X, NEW b \in 1..(MapBits - 1), b \notin bits, Exact(m, bits, X)
    PROVE  /\ FirstZone - 1 + b \in DataZones \ X
           /\ Exact(m, bits \cup {b}, X \cup {FirstZone - 1 + b})
<1> DEFINE z == FirstZone - 1 + b
<1>1. b \in Int /\ z = b + (FirstZone - 1) /\ z \in DataZones /\ z # NO_ZONE /\ FirstZone \in Int
  BY MfsFileAssumption DEF DataZones, MapBits, NO_ZONE
<1>2. z \notin X /\ \A j \in DOMAIN m : m[j] # z
  BY <1>1 DEF Exact
<1>3. ASSUME NEW c \in Int
      PROVE  c \in bits \cup {b} <=> \/ c = 0
                                     \/ c + (FirstZone - 1) \in X \cup {z}
                                     \/ c + (FirstZone - 1) # NO_ZONE
                                        /\ \E j \in DOMAIN m : m[j] = c + (FirstZone - 1)
  <2>1. c = b <=> c + (FirstZone - 1) = z
    BY <1>1
  <2>2. c \in bits <=> \/ c = 0
                       \/ c + (FirstZone - 1) \in X
                       \/ c + (FirstZone - 1) # NO_ZONE
                          /\ \E j \in DOMAIN m : m[j] = c + (FirstZone - 1)
    BY DEF Exact
  <2> HIDE DEF z
  <2> QED
    BY <2>1, <2>2
<1>4. bits \cup {b} \subseteq Int
  BY <1>1 DEF Exact
<1> HIDE DEF z
<1>5. X \cup {z} \subseteq DataZones /\ \A j \in DOMAIN m : m[j] \notin X \cup {z}
  BY <1>1, <1>2 DEF Exact
<1>6. Exact(m, bits \cup {b}, X \cup {z})
  BY <1>3, <1>4, <1>5 DEF Exact
<1> QED
  BY <1>1, <1>2, <1>6 DEF z

\* A bit is cleared for a zone that has no name.
LEMMA FreeExact ==
    ASSUME NEW m, NEW bits, NEW X, NEW z \in X, Exact(m, bits, X)
    PROVE  /\ z - (FirstZone - 1) \in bits /\ z - (FirstZone - 1) \in 1..(MapBits - 1)
           /\ Exact(m, bits \ {z - (FirstZone - 1)}, X \ {z})
<1> DEFINE b == z - (FirstZone - 1)
<1>1. b \in Int /\ z = b + (FirstZone - 1) /\ z \in DataZones /\ z # NO_ZONE /\ FirstZone \in Int
  BY MfsFileAssumption DEF DataZones, NO_ZONE, Exact
<1>2. b \in 1..(MapBits - 1)
  BY <1>1, MfsFileAssumption DEF DataZones, MapBits
<1>3. b \in bits
  BY <1>1 DEF Exact
<1>4. \A j \in DOMAIN m : m[j] # z
  BY DEF Exact
<1>5. ASSUME NEW c \in Int
      PROVE  c \in bits \ {b} <=> \/ c = 0
                                  \/ c + (FirstZone - 1) \in X \ {z}
                                  \/ c + (FirstZone - 1) # NO_ZONE
                                     /\ \E j \in DOMAIN m : m[j] = c + (FirstZone - 1)
  <2>1. (c = b <=> c + (FirstZone - 1) = z) /\ b # 0
    BY <1>1, <1>2
  <2>2. c \in bits <=> \/ c = 0
                       \/ c + (FirstZone - 1) \in X
                       \/ c + (FirstZone - 1) # NO_ZONE
                          /\ \E j \in DOMAIN m : m[j] = c + (FirstZone - 1)
    BY DEF Exact
  <2> HIDE DEF b
  <2> QED
    BY <1>4, <2>1, <2>2
<1> HIDE DEF b
<1>6. bits \ {b} \subseteq Int /\ X \ {z} \subseteq DataZones
  BY DEF Exact
<1>7. Exact(m, bits \ {b}, X \ {z})
  BY <1>5, <1>6 DEF Exact
<1> QED
  BY <1>2, <1>3, <1>7 DEF b

-----------------------------------------------------------------------------
(* Places. *)

LEMMA TopName ==
    ASSUME NEW s, NEW f \in Files, NEW i \in Tops
    PROVE  /\ <<"ino", f, i>> \in Names(s) /\ Named(s, <<"ino", f, i>>) = s.ino[f].zone[i]
           /\ <<"ino", f, i>> \in DOMAIN Map(s) /\ Map(s)[<<"ino", f, i>>] = s.ino[f].zone[i]
<1>1. <<f, i>> \in Files \X Tops
  OBVIOUS
<1>2. <<"ino", <<f, i>>[1], <<f, i>>[2]>> \in Names(s)
  BY <1>1 DEF Names
<1>3. <<"ino", f, i>> \in Names(s)
  BY <1>2
<1>4. Named(s, <<"ino", f, i>>) = s.ino[f].zone[i]
  BY DEF Named
<1> QED
  BY <1>3, <1>4 DEF Map

LEMMA EntryName ==
    ASSUME NEW s, NEW z \in Indirects(s), NEW i \in Entries
    PROVE  /\ <<"blk", z, i>> \in Names(s) /\ Named(s, <<"blk", z, i>>) = rd_indir(s, z, i)
           /\ <<"blk", z, i>> \in DOMAIN Map(s) /\ Map(s)[<<"blk", z, i>>] = rd_indir(s, z, i)
<1>1. <<z, i>> \in Indirects(s) \X Entries
  OBVIOUS
<1>2. <<"blk", <<z, i>>[1], <<z, i>>[2]>> \in Names(s)
  BY <1>1 DEF Names
<1>3. <<"blk", z, i>> \in Names(s)
  BY <1>2
<1>4. Named(s, <<"blk", z, i>>) = rd_indir(s, z, i)
  BY DEF Named
<1> QED
  BY <1>3, <1>4 DEF Map

LEMMA NameIs ==
    ASSUME NEW s, NEW n \in DOMAIN Map(s)
    PROVE  \/ \E f \in Files, i \in Tops : n = <<"ino", f, i>>
           \/ \E z \in Indirects(s), i \in Entries : n = <<"blk", z, i>>
<1>1. n \in Names(s)
  BY DEF Map
<1>2. CASE n \in {<<"ino", e[1], e[2]>> : e \in Files \X Tops}
  <2>1. PICK e \in Files \X Tops : n = <<"ino", e[1], e[2]>>
    BY <1>2
  <2>2. e[1] \in Files /\ e[2] \in Tops
    BY <2>1
  <2> QED
    BY <2>1, <2>2
<1>3. CASE n \in {<<"blk", e[1], e[2]>> : e \in Indirects(s) \X Entries}
  <2>1. PICK e \in Indirects(s) \X Entries : n = <<"blk", e[1], e[2]>>
    BY <1>3
  <2>2. e[1] \in Indirects(s) /\ e[2] \in Entries
    BY <2>1
  <2> QED
    BY <2>1, <2>2
<1> QED
  BY <1>1, <1>2, <1>3 DEF Names

\* The names of indirect zones.
LEMMA DoubleName ==
    ASSUME NEW s, NEW z \in Doubles(s)
    PROVE  z # NO_ZONE /\ \E f \in Files : z = s.ino[f].zone[DOUBLE]
BY DEF Doubles

LEMMA SingleName ==
    ASSUME NEW s, NEW z \in Singles(s)
    PROVE  z # NO_ZONE /\ \/ \E f \in Files : z = s.ino[f].zone[SINGLE]
                          \/ \E d \in Doubles(s), i \in Entries : z = rd_indir(s, d, i)
<1>1. CASE z \in {rd_indir(s, e[1], e[2]) : e \in Doubles(s) \X Entries}
  <2>1. PICK e \in Doubles(s) \X Entries : z = rd_indir(s, e[1], e[2])
    BY <1>1
  <2>2. e[1] \in Doubles(s) /\ e[2] \in Entries
    BY <2>1
  <2> QED
    BY <2>1, <2>2 DEF Singles
<1>2. CASE z \in {s.ino[f].zone[SINGLE] : f \in Files}
  BY <1>2 DEF Singles
<1> QED
  BY <1>1, <1>2 DEF Singles

LEMMA SingleIs ==
    ASSUME NEW s
    PROVE  /\ \A f \in Files : s.ino[f].zone[SINGLE] # NO_ZONE => s.ino[f].zone[SINGLE] \in Singles(s)
           /\ \A d \in Doubles(s), i \in Entries :
                rd_indir(s, d, i) # NO_ZONE => rd_indir(s, d, i) \in Singles(s)
<1>1. ASSUME NEW d \in Doubles(s), NEW i \in Entries, rd_indir(s, d, i) # NO_ZONE
      PROVE  rd_indir(s, d, i) \in Singles(s)
  <2>1. <<d, i>> \in Doubles(s) \X Entries
    OBVIOUS
  <2>2. rd_indir(s, <<d, i>>[1], <<d, i>>[2])
          \in {rd_indir(s, e[1], e[2]) : e \in Doubles(s) \X Entries}
    BY <2>1
  <2>3. rd_indir(s, d, i) \in {rd_indir(s, e[1], e[2]) : e \in Doubles(s) \X Entries}
    BY <2>2
  <2> QED
    BY <1>1, <2>3 DEF Singles
<1> QED
  BY <1>1 DEF Singles

LEMMA TopIndices ==
    /\ SINGLE \in Tops /\ DOUBLE \in Tops /\ SINGLE # DOUBLE
    /\ \A i \in Nat : i < DZones => i \in Tops /\ i # SINGLE /\ i # DOUBLE
BY MfsFileAssumption DEF Tops, SINGLE, DOUBLE

\* No zone is indirect twice over.
LEMMA IndirectOnce ==
    ASSUME NEW s, NEW bits, NEW X, Exact(Map(s), bits, X)
    PROVE  /\ Doubles(s) \cap Singles(s) = {}
           /\ Indirects(s) \subseteq DataZones /\ Indirects(s) \cap X = {}
<1> DEFINE m == Map(s)
<1>1. ASSUME NEW z \in Doubles(s)
      PROVE  z # NO_ZONE /\ \E f \in Files : <<"ino", f, DOUBLE>> \in DOMAIN m /\ m[<<"ino", f, DOUBLE>>] = z
  BY DoubleName, TopName, TopIndices
<1>2. ASSUME NEW z \in Singles(s)
      PROVE  z # NO_ZONE /\ \/ \E f \in Files : /\ <<"ino", f, SINGLE>> \in DOMAIN m
                                                /\ m[<<"ino", f, SINGLE>>] = z
                            \/ \E d \in Doubles(s), i \in Entries :
                                 <<"blk", d, i>> \in DOMAIN m /\ m[<<"blk", d, i>>] = z
  <2>1. Doubles(s) \subseteq Indirects(s)
    BY DEF Indirects
  <2> QED
    BY <2>1, SingleName, TopName, EntryName, TopIndices
<1> HIDE DEF m
<1>3. \A n, k \in DOMAIN m : m[n] = m[k] /\ m[n] # NO_ZONE => n = k
  BY DEF Exact, m
<1>4. ASSUME NEW z \in Doubles(s), z \in Singles(s) PROVE FALSE
  <2>1. PICK f \in Files : <<"ino", f, DOUBLE>> \in DOMAIN m /\ m[<<"ino", f, DOUBLE>>] = z
    BY <1>1
  <2>2. CASE \E g \in Files : <<"ino", g, SINGLE>> \in DOMAIN m /\ m[<<"ino", g, SINGLE>>] = z
    <3>1. PICK g \in Files : <<"ino", g, SINGLE>> \in DOMAIN m /\ m[<<"ino", g, SINGLE>>] = z
      BY <2>2
    <3>2. <<"ino", f, DOUBLE>> = <<"ino", g, SINGLE>>
      BY <1>1, <1>3, <2>1, <3>1
    <3> QED
      BY <3>2, TopIndices
  <2>3. CASE \E d \in Doubles(s), i \in Entries :
               <<"blk", d, i>> \in DOMAIN m /\ m[<<"blk", d, i>>] = z
    <3>1. PICK d \in Doubles(s), i \in Entries :
                 <<"blk", d, i>> \in DOMAIN m /\ m[<<"blk", d, i>>] = z
      BY <2>3
    <3>2. <<"ino", f, DOUBLE>> = <<"blk", d, i>>
      BY <1>1, <1>3, <2>1, <3>1
    <3> QED
      BY <3>2
  <2> QED
    BY <1>2, <1>4, <2>2, <2>3
<1>5. ASSUME NEW z \in Indirects(s) PROVE z # NO_ZONE /\ \E n \in DOMAIN m : m[n] = z
  BY <1>1, <1>2 DEF Indirects
<1>6. ASSUME NEW z \in Indirects(s) PROVE z \in DataZones /\ z \notin X
  BY <1>5 DEF Exact, Numbers, m
<1> QED
  BY <1>4, <1>6

\* What differs in neither inodes nor indirect zones has the same map.
LEMMA SameMap ==
    ASSUME NEW s, NEW t, \A f \in Files : t.ino[f].zone = s.ino[f].zone,
           \A z \in Indirects(s), i \in Entries : rd_indir(t, z, i) = rd_indir(s, z, i)
    PROVE  Map(t) = Map(s) /\ Doubles(t) = Doubles(s) /\ Singles(t) = Singles(s)
<1>1. Doubles(t) = Doubles(s)
  BY DEF Doubles
<1>2. \A e \in Doubles(s) \X Entries : rd_indir(t, e[1], e[2]) = rd_indir(s, e[1], e[2])
  BY DEF Indirects
<1>3. Singles(t) = Singles(s)
  <2>1. {t.ino[f].zone[SINGLE] : f \in Files} = {s.ino[f].zone[SINGLE] : f \in Files}
    OBVIOUS
  <2>2. {rd_indir(t, e[1], e[2]) : e \in Doubles(s) \X Entries}
          = {rd_indir(s, e[1], e[2]) : e \in Doubles(s) \X Entries}
    BY <1>2
  <2> QED
    BY <1>1, <2>1, <2>2 DEF Singles
<1>4. Names(t) = Names(s)
  BY <1>1, <1>3 DEF Names, Indirects
<1>5. \A n \in Names(s) : Named(t, n) = Named(s, n)
  <2> TAKE n \in Names(s)
  <2>1. n \in DOMAIN Map(s)
    BY DEF Map
  <2>2. CASE \E f \in Files, i \in Tops : n = <<"ino", f, i>>
    BY <2>2 DEF Named
  <2>3. CASE \E z \in Indirects(s), i \in Entries : n = <<"blk", z, i>>
    BY <2>3 DEF Named
  <2> QED
    BY <2>1, <2>2, <2>3, NameIs
<1> QED
  BY <1>1, <1>3, <1>4, <1>5 DEF Map

-----------------------------------------------------------------------------
(* One place changes. *)

\* Zone i of inode f is z in t; entry i of the indirect zone d is z in t; the
\* entries of the indirect zones of s are the same; zone z holds no entries.
TopSet(s, t, f, i, z) ==
    /\ t.ino[f].zone[i] = z
    /\ \A g \in Files, j \in Tops : g # f \/ j # i => t.ino[g].zone[j] = s.ino[g].zone[j]
EntrySet(s, t, d, i, z) ==
    /\ rd_indir(t, d, i) = z
    /\ \A y \in Indirects(s), j \in Entries : y # d \/ j # i => rd_indir(t, y, j) = rd_indir(s, y, j)
SameTops(s, t) == \A g \in Files, j \in Tops : t.ino[g].zone[j] = s.ino[g].zone[j]
SameEntries(s, t) ==
    \A y \in Indirects(s), j \in Entries : rd_indir(t, y, j) = rd_indir(s, y, j)
Blank(t, z) == \A j \in Entries : rd_indir(t, z, j) = NO_ZONE

LEMMA LinkedWhen ==
    ASSUME NEW s, NEW t, NEW n \in DOMAIN Map(s), NEW z, Named(s, n) = NO_ZONE, Named(t, n) = z,
           Indirects(s) \subseteq Indirects(t),
           \A y \in Indirects(t) : y \notin Indirects(s) => Blank(t, y),
           \A g \in Files, j \in Tops : <<"ino", g, j>> # n => t.ino[g].zone[j] = s.ino[g].zone[j],
           \A y \in Indirects(s), j \in Entries :
             <<"blk", y, j>> # n => rd_indir(t, y, j) = rd_indir(s, y, j)
    PROVE  Linked(Map(s), Map(t), n, z)
<1>1. ASSUME NEW k \in DOMAIN Map(s)
      PROVE  k \in DOMAIN Map(t) /\ (k # n => Map(t)[k] = Map(s)[k])
  <2>1. CASE \E g \in Files, j \in Tops : k = <<"ino", g, j>>
    <3>1. PICK g \in Files, j \in Tops : k = <<"ino", g, j>>
      BY <2>1
    <3> QED
      BY <3>1, TopName
  <2>2. CASE \E y \in Indirects(s), j \in Entries : k = <<"blk", y, j>>
    <3>1. PICK y \in Indirects(s), j \in Entries : k = <<"blk", y, j>>
      BY <2>2
    <3>2. y \in Indirects(t)
      OBVIOUS
    <3> QED
      BY <3>1, <3>2, EntryName
  <2> QED
    BY <2>1, <2>2, NameIs
<1>2. ASSUME NEW k \in DOMAIN Map(t), k \notin DOMAIN Map(s) PROVE Map(t)[k] = NO_ZONE
  <2>1. CASE \E g \in Files, j \in Tops : k = <<"ino", g, j>>
    BY <1>2, <2>1, TopName
  <2>2. CASE \E y \in Indirects(t), j \in Entries : k = <<"blk", y, j>>
    <3>1. PICK y \in Indirects(t), j \in Entries : k = <<"blk", y, j>>
      BY <2>2
    <3>2. y \notin Indirects(s)
      BY <1>2, <3>1, EntryName
    <3>3. rd_indir(t, y, j) = NO_ZONE
      BY <3>2 DEF Blank
    <3> QED
      BY <3>1, <3>3, EntryName
  <2> QED
    BY <2>1, <2>2, NameIs
<1>3. Map(s)[n] = NO_ZONE /\ Map(t)[n] = z
  BY <1>1 DEF Map
<1>4. DOMAIN Map(s) \subseteq DOMAIN Map(t)
  BY <1>1
<1> QED
  BY <1>1, <1>2, <1>3, <1>4 DEF Linked

\* A direct zone.
LEMMA LinkDirect ==
    ASSUME NEW s, NEW t, NEW f \in Files, NEW i \in Nat, i < DZones, NEW z,
           s.ino[f].zone[i] = NO_ZONE, TopSet(s, t, f, i, z), SameEntries(s, t)
    PROVE  Linked(Map(s), Map(t), <<"ino", f, i>>, z)
<1>1. i \in Tops /\ i # SINGLE /\ i # DOUBLE /\ SINGLE \in Tops /\ DOUBLE \in Tops
  BY TopIndices
<1>2. Doubles(t) = Doubles(s)
  BY <1>1 DEF Doubles, TopSet
<1>3. Singles(t) = Singles(s)
  <2>1. {t.ino[g].zone[SINGLE] : g \in Files} = {s.ino[g].zone[SINGLE] : g \in Files}
    BY <1>1 DEF TopSet
  <2>2. {rd_indir(t, e[1], e[2]) : e \in Doubles(s) \X Entries}
          = {rd_indir(s, e[1], e[2]) : e \in Doubles(s) \X Entries}
    BY DEF SameEntries, Indirects
  <2> QED
    BY <1>2, <2>1, <2>2 DEF Singles
<1>4. Indirects(t) = Indirects(s)
  BY <1>2, <1>3 DEF Indirects
<1>5. \A g \in Files, j \in Tops : <<"ino", g, j>> # <<"ino", f, i>>
                                     => t.ino[g].zone[j] = s.ino[g].zone[j]
  BY DEF TopSet
<1>6. <<"ino", f, i>> \in DOMAIN Map(s) /\ Named(s, <<"ino", f, i>>) = NO_ZONE
      /\ Named(t, <<"ino", f, i>>) = z
  BY <1>1, TopName DEF TopSet
<1> QED
  BY <1>4, <1>5, <1>6, LinkedWhen DEF SameEntries

\* An entry of a single indirect zone.
LEMMA LinkEntry ==
    ASSUME NEW s, NEW t, NEW d \in Singles(s), d \notin Doubles(s), NEW i \in Entries, NEW z,
           rd_indir(s, d, i) = NO_ZONE, EntrySet(s, t, d, i, z), SameTops(s, t)
    PROVE  Linked(Map(s), Map(t), <<"blk", d, i>>, z)
<1>1. SINGLE \in Tops /\ DOUBLE \in Tops /\ d \in Indirects(s)
  BY TopIndices DEF Indirects
<1>2. Doubles(t) = Doubles(s)
  BY <1>1 DEF Doubles, SameTops
<1>3. Singles(t) = Singles(s)
  <2>1. {t.ino[g].zone[SINGLE] : g \in Files} = {s.ino[g].zone[SINGLE] : g \in Files}
    BY <1>1 DEF SameTops
  <2>2. \A e \in Doubles(s) \X Entries : rd_indir(t, e[1], e[2]) = rd_indir(s, e[1], e[2])
    <3> TAKE e \in Doubles(s) \X Entries
    <3>1. e[1] \in Indirects(s) /\ e[1] # d /\ e[2] \in Entries
      BY DEF Indirects
    <3> QED
      BY <3>1 DEF EntrySet
  <2>3. {rd_indir(t, e[1], e[2]) : e \in Doubles(s) \X Entries}
          = {rd_indir(s, e[1], e[2]) : e \in Doubles(s) \X Entries}
    BY <2>2
  <2> QED
    BY <1>2, <2>1, <2>3 DEF Singles
<1>4. Indirects(t) = Indirects(s)
  BY <1>2, <1>3 DEF Indirects
<1>5. \A y \in Indirects(s), j \in Entries : <<"blk", y, j>> # <<"blk", d, i>>
                                               => rd_indir(t, y, j) = rd_indir(s, y, j)
  BY DEF EntrySet
<1>6. <<"blk", d, i>> \in DOMAIN Map(s) /\ Named(s, <<"blk", d, i>>) = NO_ZONE
      /\ Named(t, <<"blk", d, i>>) = z
  BY <1>1, EntryName DEF EntrySet, Named
<1> QED
  BY <1>4, <1>5, <1>6, LinkedWhen DEF SameTops

\* A double indirect zone, without entries.
LEMMA LinkDouble ==
    ASSUME NEW s, NEW t, NEW f \in Files, NEW z, z # NO_ZONE,
           s.ino[f].zone[DOUBLE] = NO_ZONE, TopSet(s, t, f, DOUBLE, z), SameEntries(s, t), Blank(t, z)
    PROVE  Linked(Map(s), Map(t), <<"ino", f, DOUBLE>>, z)
<1>1. SINGLE \in Tops /\ DOUBLE \in Tops /\ SINGLE # DOUBLE
  BY TopIndices
<1>2. Doubles(t) = Doubles(s) \cup {z}
  <2>1. {t.ino[g].zone[DOUBLE] : g \in Files} \ {NO_ZONE}
          = ({s.ino[g].zone[DOUBLE] : g \in Files} \ {NO_ZONE}) \cup {z}
    BY <1>1 DEF TopSet
  <2> QED
    BY <2>1 DEF Doubles
<1>3. Singles(t) = Singles(s)
  <2>1. {t.ino[g].zone[SINGLE] : g \in Files} = {s.ino[g].zone[SINGLE] : g \in Files}
    BY <1>1 DEF TopSet
  <2>2. ASSUME NEW y, y # NO_ZONE
        PROVE  (\E e \in Doubles(t) \X Entries : y = rd_indir(t, e[1], e[2]))
                 <=> (\E e \in Doubles(s) \X Entries : y = rd_indir(s, e[1], e[2]))
    <3>1. \A e \in Doubles(s) \X Entries : e \in Doubles(t) \X Entries
                                             /\ rd_indir(t, e[1], e[2]) = rd_indir(s, e[1], e[2])
      <4> TAKE e \in Doubles(s) \X Entries
      <4>1. e[1] \in Indirects(s) /\ e[1] \in Doubles(t) /\ e[2] \in Entries
        BY <1>2 DEF Indirects
      <4> QED
        BY <1>2, <4>1 DEF SameEntries
    <3>2. ASSUME NEW e \in Doubles(t) \X Entries, y = rd_indir(t, e[1], e[2])
          PROVE  e \in Doubles(s) \X Entries
      <4>1. e[1] # z
        BY <2>2, <3>2 DEF Blank
      <4> QED
        BY <1>2, <4>1
    <3> QED
      BY <3>1, <3>2
  <2>3. {rd_indir(t, e[1], e[2]) : e \in Doubles(t) \X Entries} \ {NO_ZONE}
          = {rd_indir(s, e[1], e[2]) : e \in Doubles(s) \X Entries} \ {NO_ZONE}
    BY <2>2
  <2> QED
    BY <2>1, <2>3 DEF Singles
<1>4. Indirects(s) \subseteq Indirects(t) /\ \A y \in Indirects(t) : y \in Indirects(s) \/ y = z
  BY <1>2, <1>3 DEF Indirects
<1>5. \A g \in Files, j \in Tops : <<"ino", g, j>> # <<"ino", f, DOUBLE>>
                                     => t.ino[g].zone[j] = s.ino[g].zone[j]
  BY DEF TopSet
<1>6. <<"ino", f, DOUBLE>> \in DOMAIN Map(s) /\ Named(s, <<"ino", f, DOUBLE>>) = NO_ZONE
      /\ Named(t, <<"ino", f, DOUBLE>>) = z
  BY <1>1, TopName DEF TopSet
<1> QED
  BY <1>4, <1>5, <1>6, LinkedWhen DEF SameEntries

\* A single indirect zone of an inode, without entries.
LEMMA LinkSingle ==
    ASSUME NEW s, NEW t, NEW f \in Files, NEW z, z # NO_ZONE,
           s.ino[f].zone[SINGLE] = NO_ZONE, TopSet(s, t, f, SINGLE, z), SameEntries(s, t), Blank(t, z)
    PROVE  Linked(Map(s), Map(t), <<"ino", f, SINGLE>>, z)
<1>1. SINGLE \in Tops /\ DOUBLE \in Tops /\ SINGLE # DOUBLE
  BY TopIndices
<1>2. Doubles(t) = Doubles(s)
  BY <1>1 DEF TopSet, Doubles
<1>3. Singles(t) = Singles(s) \cup {z}
  <2>1. {t.ino[g].zone[SINGLE] : g \in Files} \ {NO_ZONE}
          = ({s.ino[g].zone[SINGLE] : g \in Files} \ {NO_ZONE}) \cup {z}
    BY <1>1 DEF TopSet
  <2>2. {rd_indir(t, e[1], e[2]) : e \in Doubles(t) \X Entries}
          = {rd_indir(s, e[1], e[2]) : e \in Doubles(s) \X Entries}
    BY <1>2 DEF SameEntries, Indirects
  <2> QED
    BY <2>1, <2>2 DEF Singles
<1>4. Indirects(s) \subseteq Indirects(t) /\ \A y \in Indirects(t) : y \in Indirects(s) \/ y = z
  BY <1>2, <1>3 DEF Indirects
<1>5. \A g \in Files, j \in Tops : <<"ino", g, j>> # <<"ino", f, SINGLE>>
                                     => t.ino[g].zone[j] = s.ino[g].zone[j]
  BY DEF TopSet
<1>6. <<"ino", f, SINGLE>> \in DOMAIN Map(s) /\ Named(s, <<"ino", f, SINGLE>>) = NO_ZONE
      /\ Named(t, <<"ino", f, SINGLE>>) = z
  BY <1>1, TopName DEF TopSet
<1> QED
  BY <1>4, <1>5, <1>6, LinkedWhen DEF SameEntries

\* A single indirect zone, without entries, of a double indirect one.
LEMMA LinkInner ==
    ASSUME NEW s, NEW t, NEW d \in Doubles(s), NEW i \in Entries, NEW z, z # NO_ZONE,
           rd_indir(s, d, i) = NO_ZONE, EntrySet(s, t, d, i, z), SameTops(s, t), Blank(t, z)
    PROVE  Linked(Map(s), Map(t), <<"blk", d, i>>, z)
<1>1. SINGLE \in Tops /\ DOUBLE \in Tops /\ d \in Indirects(s)
  BY TopIndices DEF Indirects
<1>2. Doubles(t) = Doubles(s)
  BY <1>1 DEF Doubles, SameTops
<1>3. Singles(t) = Singles(s) \cup {z}
  <2>1. {t.ino[g].zone[SINGLE] : g \in Files} = {s.ino[g].zone[SINGLE] : g \in Files}
    BY <1>1 DEF SameTops
  <2>2. ASSUME NEW y, y # NO_ZONE
        PROVE  (\E e \in Doubles(s) \X Entries : y = rd_indir(t, e[1], e[2]))
                 <=> y = z \/ (\E e \in Doubles(s) \X Entries : y = rd_indir(s, e[1], e[2]))
    <3>1. \A e \in Doubles(s) \X Entries :
             IF e = <<d, i>> THEN rd_indir(t, e[1], e[2]) = z /\ rd_indir(s, e[1], e[2]) = NO_ZONE
             ELSE rd_indir(t, e[1], e[2]) = rd_indir(s, e[1], e[2])
      <4> TAKE e \in Doubles(s) \X Entries
      <4>1. e[1] \in Indirects(s) /\ e[2] \in Entries /\ e = <<e[1], e[2]>>
        BY DEF Indirects
      <4> QED
        BY <4>1 DEF EntrySet
    <3>2. <<d, i>> \in Doubles(s) \X Entries
      OBVIOUS
    <3> QED
      BY <2>2, <3>1, <3>2
  <2>3. {rd_indir(t, e[1], e[2]) : e \in Doubles(s) \X Entries} \ {NO_ZONE}
          = ({rd_indir(s, e[1], e[2]) : e \in Doubles(s) \X Entries} \ {NO_ZONE}) \cup {z}
    BY <2>2
  <2> QED
    BY <1>2, <2>1, <2>3 DEF Singles
<1>4. Indirects(s) \subseteq Indirects(t) /\ \A y \in Indirects(t) : y \in Indirects(s) \/ y = z
  BY <1>2, <1>3 DEF Indirects
<1>5. \A y \in Indirects(s), j \in Entries : <<"blk", y, j>> # <<"blk", d, i>>
                                               => rd_indir(t, y, j) = rd_indir(s, y, j)
  BY DEF EntrySet
<1>6. <<"blk", d, i>> \in DOMAIN Map(s) /\ Named(s, <<"blk", d, i>>) = NO_ZONE
      /\ Named(t, <<"blk", d, i>>) = z
  BY <1>1, EntryName DEF EntrySet, Named
<1> QED
  BY <1>4, <1>5, <1>6, LinkedWhen DEF SameTops

-----------------------------------------------------------------------------
(* Writing a place. *)

LEMMA ZoneStart ==
    ASSUME NEW s, s.scale \in Scales, NEW z \in DataZones
    PROVE  ZoneBlocks(s) \in Nat \ {0} /\ z \in Nat \ {0} /\ z * ZoneBlocks(s) \in Nat \ {0}
<1>1. ZoneBlocks(s) \in Nat \ {0} /\ z \in Nat \ {0}
  BY BlocksPositive, MfsFileAssumption DEF DataZones
<1> QED
  BY <1>1, Times

\* The sizes of the zones and of the files are the same.
Frame(s, t) == t.scale = s.scale /\ \A f \in Files : t.ino[f].size = s.ino[f].size

LEMMA VolumeIs ==
    ASSUME NEW s, Volume(s)
    PROVE  /\ s.scale \in Scales
           /\ s.blk \in [0..(Zones * ZoneBlocks(s) - 1) -> [Entries -> Int]]
           /\ s.ino \in [Files -> Inode(s)] /\ s.panic = FALSE
BY DEF Volume

LEMMA InodeIs ==
    ASSUME NEW s, Volume(s), NEW f \in Files
    PROVE  /\ s.ino[f] = [zone |-> s.ino[f].zone, size |-> s.ino[f].size, zsearch |-> s.ino[f].zsearch]
           /\ s.ino[f].zone \in [Tops -> Int] /\ s.ino[f].size \in 0..MaxSize(s)
           /\ s.ino[f].zsearch \in Int
BY VolumeIs DEF Inode

\* What replaces one of the parts of a file system.
WithBits(s, bits, low) == [s EXCEPT !.bits = bits, !.zsearch = low]

LEMMA BitsPut ==
    ASSUME NEW s, Volume(s), NEW bits, NEW low
    PROVE  LET t == WithBits(s, bits, low)
           IN /\ Volume(t) /\ t.bits = bits /\ t.zsearch = low
              /\ t.scale = s.scale /\ t.blk = s.blk /\ t.ino = s.ino
<1> DEFINE u == [s EXCEPT !.bits = bits]
           t == WithBits(s, bits, low)
<1>1. t = [scale |-> s.scale, bits |-> bits, zsearch |-> low, blk |-> s.blk, ino |-> s.ino,
           panic |-> s.panic]
  <2>1. u = [scale |-> s.scale, bits |-> bits, zsearch |-> s.zsearch, blk |-> s.blk, ino |-> s.ino,
             panic |-> s.panic]
    BY DEF Volume
  <2>2. t = [u EXCEPT !.zsearch = low]
    BY DEF WithBits
  <2> HIDE DEF t, u
  <2> QED
    BY <2>1, <2>2
<1> HIDE DEF t
<1>2. /\ t.bits = bits /\ t.zsearch = low
      /\ t.scale = s.scale /\ t.blk = s.blk /\ t.ino = s.ino /\ t.panic = s.panic
  BY <1>1
<1>3. ZoneBlocks(t) = ZoneBlocks(s) /\ Inode(t) = Inode(s)
  BY <1>2 DEF ZoneBlocks, Inode, MaxSize, ZoneSize
<1>4. Volume(t)
  BY <1>1, <1>2, <1>3 DEF Volume
<1> QED
  BY <1>2, <1>4 DEF t

LEMMA BlkPut ==
    ASSUME NEW s, Volume(s),
           NEW blk \in [0..(Zones * ZoneBlocks(s) - 1) -> [Entries -> Int]]
    PROVE  LET t == [s EXCEPT !.blk = blk]
           IN /\ Volume(t) /\ t.blk = blk /\ Frame(s, t)
              /\ t.scale = s.scale /\ t.bits = s.bits /\ t.zsearch = s.zsearch /\ t.ino = s.ino
<1> DEFINE t == [s EXCEPT !.blk = blk]
<1>1. t = [scale |-> s.scale, bits |-> s.bits, zsearch |-> s.zsearch, blk |-> blk, ino |-> s.ino,
           panic |-> s.panic]
  BY DEF Volume
<1> HIDE DEF t
<1>2. /\ t.bits = s.bits /\ t.zsearch = s.zsearch
      /\ t.scale = s.scale /\ t.blk = blk /\ t.ino = s.ino /\ t.panic = s.panic
  BY <1>1
<1>3. ZoneBlocks(t) = ZoneBlocks(s) /\ Inode(t) = Inode(s)
  BY <1>2 DEF ZoneBlocks, Inode, MaxSize, ZoneSize
<1>4. Volume(t) /\ Frame(s, t)
  BY <1>1, <1>2, <1>3 DEF Volume, Frame
<1> QED
  BY <1>2, <1>4 DEF t

LEMMA InoPut ==
    ASSUME NEW s, Volume(s), NEW f \in Files, NEW inode \in Inode(s)
    PROVE  LET t == [s EXCEPT !.ino[f] = inode]
           IN /\ Volume(t) /\ t.ino[f] = inode /\ \A g \in Files : g # f => t.ino[g] = s.ino[g]
              /\ t.scale = s.scale /\ t.bits = s.bits /\ t.zsearch = s.zsearch /\ t.blk = s.blk
<1> DEFINE ino == [s.ino EXCEPT ![f] = inode]
           t == [s EXCEPT !.ino[f] = inode]
<1>1. t = [scale |-> s.scale, bits |-> s.bits, zsearch |-> s.zsearch, blk |-> s.blk, ino |-> ino,
           panic |-> s.panic]
  BY DEF Volume
<1>2. ino \in [Files -> Inode(s)] /\ ino[f] = inode /\ \A g \in Files : g # f => ino[g] = s.ino[g]
  BY VolumeIs
<1> HIDE DEF t, ino
<1>3. /\ t.bits = s.bits /\ t.zsearch = s.zsearch
      /\ t.scale = s.scale /\ t.blk = s.blk /\ t.ino = ino /\ t.panic = s.panic
  BY <1>1
<1>4. ZoneBlocks(t) = ZoneBlocks(s) /\ Inode(t) = Inode(s)
  BY <1>3 DEF ZoneBlocks, Inode, MaxSize, ZoneSize
<1>5. Volume(t)
  BY <1>1, <1>2, <1>3, <1>4 DEF Volume
<1> QED
  BY <1>2, <1>3, <1>5 DEF t

LEMMA ZoneRecord ==
    ASSUME NEW n, n = [zone |-> n.zone, size |-> n.size, zsearch |-> n.zsearch], NEW w
    PROVE  [n EXCEPT !.zone = w] = [zone |-> w, size |-> n.size, zsearch |-> n.zsearch]
OBVIOUS

\* A zone number of an inode is written.
LEMMA TopPut ==
    ASSUME NEW s, Volume(s), NEW f \in Files, NEW i \in Tops, NEW z \in Int
    PROVE  LET t == [s EXCEPT !.ino[f].zone[i] = z]
           IN /\ Volume(t) /\ t.ino[f].zone[i] = z /\ Frame(s, t)
              /\ \A g \in Files, j \in Tops : g # f \/ j # i => t.ino[g].zone[j] = s.ino[g].zone[j]
              /\ t.scale = s.scale /\ t.bits = s.bits /\ t.zsearch = s.zsearch /\ t.blk = s.blk
<1> DEFINE inode == [s.ino[f] EXCEPT !.zone[i] = z]
           u == [s EXCEPT !.ino[f] = inode]
           t == [s EXCEPT !.ino[f].zone[i] = z]
<1>1. t = u
  OBVIOUS
<1>2. inode = [zone |-> [s.ino[f].zone EXCEPT ![i] = z], size |-> s.ino[f].size,
               zsearch |-> s.ino[f].zsearch]
  BY InodeIs, ZoneRecord
<1>3. /\ inode \in Inode(s) /\ inode.zone[i] = z /\ inode.size = s.ino[f].size
      /\ \A j \in Tops : j # i => inode.zone[j] = s.ino[f].zone[j]
  <2>1. s.ino[f].zone \in [Tops -> Int] /\ s.ino[f].size \in 0..MaxSize(s) /\ s.ino[f].zsearch \in Int
    BY InodeIs
  <2> HIDE DEF inode
  <2> QED
    BY <1>2, <2>1 DEF Inode
<1> HIDE DEF inode, t
<1>4. /\ Volume(u) /\ u.ino[f] = inode /\ \A g \in Files : g # f => u.ino[g] = s.ino[g]
      /\ u.scale = s.scale /\ u.bits = s.bits /\ u.zsearch = s.zsearch /\ u.blk = s.blk
  BY <1>3, InoPut
<1> HIDE DEF u
<1>5. \A g \in Files, j \in Tops : g # f \/ j # i => u.ino[g].zone[j] = s.ino[g].zone[j]
  BY <1>3, <1>4
<1>6. u.ino[f].zone[i] = z /\ Frame(s, u)
  BY <1>3, <1>4 DEF Frame
<1> QED
  BY <1>1, <1>4, <1>5, <1>6 DEF t

\* The blocks of a zone are the same; those of all zones but one.
SameZone(s, t, z) ==
    \A i \in 0..(ZoneBlocks(s) - 1) : t.blk[z * ZoneBlocks(s) + i] = s.blk[z * ZoneBlocks(s) + i]
SameBut(s, t, d) == \A y \in DataZones : y # d => SameZone(s, t, y)

LEMMA SameButWhen ==
    ASSUME NEW s, s.scale \in Scales, NEW t, NEW d \in DataZones,
           \A c \in 0..(Zones * ZoneBlocks(s) - 1) : c # d * ZoneBlocks(s) => t.blk[c] = s.blk[c]
    PROVE  SameBut(s, t, d)
<1> SUFFICES ASSUME NEW y \in DataZones, y # d, NEW i \in 0..(ZoneBlocks(s) - 1)
             PROVE  t.blk[y * ZoneBlocks(s) + i] = s.blk[y * ZoneBlocks(s) + i]
  BY DEF SameBut, SameZone
<1>1. y * ZoneBlocks(s) + i \in 0..(Zones * ZoneBlocks(s) - 1)
  BY BlockOnDisk
<1>2. y * ZoneBlocks(s) + i # d * ZoneBlocks(s)
  BY ZonesApart
<1> QED
  BY <1>1, <1>2

\* An entry of an indirect zone is written.
LEMMA EntryPut ==
    ASSUME NEW s, Volume(s), NEW d \in DataZones, NEW i \in Entries, NEW z \in Int
    PROVE  LET t == wr_indir(s, d, i, z)
           IN /\ Volume(t) /\ rd_indir(t, d, i) = z /\ Frame(s, t)
              /\ \A y \in DataZones, j \in Entries :
                   y # d \/ j # i => rd_indir(t, y, j) = rd_indir(s, y, j)
              /\ t.scale = s.scale /\ t.bits = s.bits /\ t.zsearch = s.zsearch /\ t.ino = s.ino
              /\ SameBut(s, t, d)
<1> DEFINE b == d * ZoneBlocks(s)
           blk == [s.blk EXCEPT ![b][i] = z]
           u == [s EXCEPT !.blk = blk]
           t == wr_indir(s, d, i, z)
<1>1. t = u
  BY DEF wr_indir
<1>2. b \in 0..(Zones * ZoneBlocks(s) - 1)
  BY VolumeIs, FirstBlockOnDisk
<1>3. /\ blk \in [0..(Zones * ZoneBlocks(s) - 1) -> [Entries -> Int]]
      /\ blk[b][i] = z
      /\ \A j \in Entries : j # i => blk[b][j] = s.blk[b][j]
      /\ \A c \in 0..(Zones * ZoneBlocks(s) - 1) : c # b => blk[c] = s.blk[c]
  <2> HIDE DEF b
  <2> QED
    BY <1>2, VolumeIs
<1> HIDE DEF blk, t
<1>4. /\ Volume(u) /\ u.blk = blk /\ Frame(s, u)
      /\ u.scale = s.scale /\ u.bits = s.bits /\ u.zsearch = s.zsearch /\ u.ino = s.ino
  BY <1>3, BlkPut
<1> HIDE DEF u
<1>5. ZoneBlocks(u) = ZoneBlocks(s)
  BY <1>4 DEF ZoneBlocks
<1>6. ASSUME NEW y \in DataZones, NEW j \in Entries, y # d \/ j # i
      PROVE  rd_indir(u, y, j) = rd_indir(s, y, j)
  <2>1. y * ZoneBlocks(s) \in 0..(Zones * ZoneBlocks(s) - 1)
    BY VolumeIs, FirstBlockOnDisk
  <2>2. ASSUME y # d PROVE y * ZoneBlocks(s) # b
    <3>1. ZoneBlocks(s) \in Nat \ {0} /\ d * ZoneBlocks(s) \in Nat
      BY VolumeIs, ZoneStart
    <3>2. 0 \in 0..(ZoneBlocks(s) - 1) /\ b + 0 = b
      BY <3>1
    <3> QED
      BY <2>2, <3>2, VolumeIs, ZonesApart
  <2> HIDE DEF b
  <2>3. CASE y = d
    BY <1>3, <1>4, <1>5, <1>6, <2>3 DEF rd_indir, b
  <2>4. CASE y # d
    BY <1>3, <1>4, <1>5, <2>1, <2>2, <2>4 DEF rd_indir
  <2> QED
    BY <2>3, <2>4
<1>7. rd_indir(u, d, i) = z
  BY <1>3, <1>4, <1>5 DEF rd_indir
<1>8. SameBut(s, u, d)
  BY <1>3, <1>4, VolumeIs, SameButWhen
<1> QED
  BY <1>1, <1>4, <1>6, <1>7, <1>8 DEF t

\* The first block of a zone is cleared.
LEMMA ClearedIs ==
    ASSUME NEW s, Volume(s), NEW d \in DataZones
    PROVE  LET t == Cleared(s, d)
           IN /\ Volume(t) /\ Blank(t, d) /\ Frame(s, t)
              /\ \A y \in DataZones, j \in Entries : y # d => rd_indir(t, y, j) = rd_indir(s, y, j)
              /\ t.scale = s.scale /\ t.bits = s.bits /\ t.zsearch = s.zsearch /\ t.ino = s.ino
              /\ SameBut(s, t, d)
<1> DEFINE b == d * ZoneBlocks(s)
           blk == [s.blk EXCEPT ![b] = Zeros]
           u == [s EXCEPT !.blk = blk]
           t == Cleared(s, d)
<1>1. t = u
  BY DEF Cleared
<1>2. b \in 0..(Zones * ZoneBlocks(s) - 1)
  BY VolumeIs, FirstBlockOnDisk
<1>3. /\ blk \in [0..(Zones * ZoneBlocks(s) - 1) -> [Entries -> Int]]
      /\ \A j \in Entries : blk[b][j] = 0
      /\ \A c \in 0..(Zones * ZoneBlocks(s) - 1) : c # b => blk[c] = s.blk[c]
  <2>1. Zeros \in [Entries -> Int] /\ \A j \in Entries : Zeros[j] = 0
    BY DEF Zeros, Entries
  <2> HIDE DEF b
  <2> QED
    BY <1>2, <2>1, VolumeIs
<1> HIDE DEF blk, t
<1>4. /\ Volume(u) /\ u.blk = blk /\ Frame(s, u)
      /\ u.scale = s.scale /\ u.bits = s.bits /\ u.zsearch = s.zsearch /\ u.ino = s.ino
  BY <1>3, BlkPut
<1> HIDE DEF u
<1>5. ZoneBlocks(u) = ZoneBlocks(s)
  BY <1>4 DEF ZoneBlocks
<1>6. ASSUME NEW y \in DataZones, NEW j \in Entries, y # d
      PROVE  rd_indir(u, y, j) = rd_indir(s, y, j)
  <2>1. y * ZoneBlocks(s) \in 0..(Zones * ZoneBlocks(s) - 1)
    BY VolumeIs, FirstBlockOnDisk
  <2>2. y * ZoneBlocks(s) # b
    <3>1. ZoneBlocks(s) \in Nat \ {0} /\ d * ZoneBlocks(s) \in Nat
      BY VolumeIs, ZoneStart
    <3>2. 0 \in 0..(ZoneBlocks(s) - 1) /\ b + 0 = b
      BY <3>1
    <3> QED
      BY <1>6, <3>2, VolumeIs, ZonesApart
  <2> QED
    BY <1>3, <1>4, <1>5, <2>1, <2>2 DEF rd_indir
<1>7. Blank(u, d)
  BY <1>3, <1>4, <1>5 DEF rd_indir, Blank, NO_ZONE
<1>8. SameBut(s, u, d)
  BY <1>3, <1>4, VolumeIs, SameButWhen
<1> QED
  BY <1>1, <1>4, <1>6, <1>7, <1>8 DEF t

-----------------------------------------------------------------------------
(* Sound file systems. *)

LEMMA SoundIs ==
    ASSUME NEW s, NEW X, Sound(s, X)
    PROVE  Volume(s) /\ Exact(Map(s), s.bits, X) /\ Low(s) /\ s.scale \in Scales
BY VolumeIs DEF Sound

\* The map and the bits are the same.
LEMMA StaysSound ==
    ASSUME NEW s, NEW t, NEW X, Sound(s, X), Volume(t), Map(t) = Map(s), t.bits = s.bits,
           t.zsearch = s.zsearch
    PROVE  Sound(t, X)
BY DEF Sound, Low

\* A zone that was about to get a name has one.
LEMMA EnteredSound ==
    ASSUME NEW s, NEW t, NEW X, NEW n, NEW z \in X, Sound(s, X), Volume(t),
           Linked(Map(s), Map(t), n, z), t.bits = s.bits, t.zsearch = s.zsearch
    PROVE  Sound(t, X \ {z})
<1>1. Exact(Map(t), s.bits, X \ {z})
  BY LinkExact DEF Sound
<1> QED
  BY <1>1 DEF Sound, Low

\* A zone has lost its name and its bit.
LEMMA ReleasedSound ==
    ASSUME NEW s, NEW t, NEW X, NEW n, NEW z \in DataZones, Sound(s, X), Volume(t),
           Linked(Map(t), Map(s), n, z), t.bits = s.bits \ {z - (FirstZone - 1)},
           t.zsearch = IF z - (FirstZone - 1) < s.zsearch THEN z - (FirstZone - 1) ELSE s.zsearch
    PROVE  Sound(t, X)
<1> DEFINE b == z - (FirstZone - 1)
<1>1. Exact(Map(t), s.bits, X \cup {z})
  BY UnlinkExact DEF Sound
<1>2. (X \cup {z}) \ {z} = X /\ z \in X \cup {z}
  <2>1. n \in DOMAIN Map(s) /\ Map(s)[n] = z
    BY DEF Linked
  <2>2. z \notin X
    BY <2>1 DEF Sound, Exact
  <2> QED
    BY <2>2
<1>3. b \in 1..(MapBits - 1) /\ Exact(Map(t), s.bits \ {b}, (X \cup {z}) \ {z})
  BY <1>1, <1>2, FreeExact
<1>4. b \in 1..(MapBits - 1)
  BY <1>3
<1>5. Exact(Map(t), t.bits, X)
  BY <1>2, <1>3
<1>6. Low(t)
  <2>1. s.zsearch \in 0..(MapBits - 1) /\ \A c \in 0..(s.zsearch - 1) : c \in s.bits
    BY DEF Sound, Low
  <2> HIDE DEF b
  <2>2. t.bits = s.bits \ {b} /\ t.zsearch = IF b < s.zsearch THEN b ELSE s.zsearch
    BY DEF b
  <2>3. t.zsearch \in 0..(MapBits - 1)
    BY <1>4, <2>1, <2>2, MapSizes
  <2>4. ASSUME NEW c \in 0..(t.zsearch - 1) PROVE c \in s.bits \ {b}
    <3>1. c \in Int /\ c < b /\ c =< s.zsearch - 1 /\ 0 =< c
      BY <1>4, <2>1, <2>2, MapSizes
    <3> QED
      BY <1>4, <2>1, <3>1, MapSizes
  <2> QED
    BY <2>2, <2>3, <2>4 DEF Low
<1> QED
  BY <1>5, <1>6 DEF Sound

\* What alloc_zone does: nothing, on a full disk, or a zone gets its bit.
LEMMA AllocSound ==
    ASSUME NEW s, NEW X, NEW near, Sound(s, X)
    PROVE  LET a == alloc_zone(s, near)
           IN \/ a.z = NO_ZONE /\ a.s = s
              \/ /\ a.z \in DataZones \ X /\ a.z # NO_ZONE
                 /\ Sound(a.s, X \cup {a.z}) /\ Map(a.s) = Map(s)
                 /\ a.s.scale = s.scale /\ a.s.ino = s.ino /\ a.s.blk = s.blk
<1> DEFINE origin == IF near = FirstZone THEN s.zsearch ELSE near - (FirstZone - 1)
           b == alloc_bit(s.bits, origin)
           low == IF near = FirstZone THEN b ELSE s.zsearch
           t == WithBits(s, s.bits \cup {b}, low)
           a == alloc_zone(s, near)
<1>1. a = IF b = NO_BIT THEN [s |-> s, z |-> NO_ZONE] ELSE [s |-> t, z |-> FirstZone - 1 + b]
  BY DEF alloc_zone, WithBits
<1>2. Volume(s) /\ Exact(Map(s), s.bits, X) /\ Low(s)
  BY DEF Sound
<1> HIDE DEF a
<1>3. CASE b = NO_BIT
  BY <1>1, <1>3 DEF a
<1>4. CASE b # NO_BIT
  <2>1. 0 \in s.bits
    BY <1>2 DEF Exact
  <2>2. b \in 1..(MapBits - 1) /\ b \notin s.bits
    BY <1>4, <2>1, AllocFree
  <2>3. near = FirstZone => \A c \in Nat : c < b => c \in s.bits
    <3>1. s.zsearch \in 0..(MapBits - 1) /\ \A c \in 0..(s.zsearch - 1) : c \in s.bits
      BY <1>2 DEF Low
    <3>2. near = FirstZone => b = alloc_bit(s.bits, s.zsearch)
      OBVIOUS
    <3> HIDE DEF b
    <3> QED
      BY <1>4, <3>1, <3>2, AllocLow
  <2> HIDE DEF b
  <2>4. /\ FirstZone - 1 + b \in DataZones \ X
        /\ Exact(Map(s), s.bits \cup {b}, X \cup {FirstZone - 1 + b})
    BY <1>2, <2>2, AllocExact
  <2>5. low \in 0..(MapBits - 1) /\ \A c \in 0..(low - 1) : c \in s.bits \cup {b}
    <3>1. s.zsearch \in 0..(MapBits - 1) /\ \A c \in 0..(s.zsearch - 1) : c \in s.bits
      BY <1>2 DEF Low
    <3>2. CASE near = FirstZone
      BY <2>2, <2>3, <3>2, MapSizes
    <3>3. CASE near # FirstZone
      BY <3>1, <3>3
    <3> QED
      BY <3>2, <3>3
  <2> HIDE DEF low
  <2>6. /\ Volume(t) /\ t.bits = s.bits \cup {b} /\ t.zsearch = low
        /\ t.scale = s.scale /\ t.blk = s.blk /\ t.ino = s.ino
    BY <1>2, BitsPut
  <2> HIDE DEF t
  <2>7. Map(t) = Map(s)
    <3>1. \A z \in Indirects(s), i \in Entries : rd_indir(t, z, i) = rd_indir(s, z, i)
      BY <2>6 DEF rd_indir, ZoneBlocks
    <3> QED
      BY <2>6, <3>1, SameMap
  <2>8. Low(t)
    BY <2>5, <2>6 DEF Low
  <2>9. Sound(t, X \cup {FirstZone - 1 + b})
    BY <2>4, <2>6, <2>7, <2>8 DEF Sound
  <2>10. a.s = t /\ a.z = FirstZone - 1 + b
    BY <1>1, <1>4
  <2>11. a.z # NO_ZONE
    BY <2>4, <2>10, MfsFileAssumption DEF DataZones, NO_ZONE
  <2> QED
    BY <2>4, <2>6, <2>7, <2>9, <2>10, <2>11 DEF a
<1> QED
  BY <1>3, <1>4

\* What free_zone does to the bits.
LEMMA FreeIs ==
    ASSUME NEW s, Volume(s), NEW z \in DataZones, z - (FirstZone - 1) \in s.bits
    PROVE  LET t == free_zone(s, z)
               b == z - (FirstZone - 1)
           IN /\ Volume(t) /\ t.bits = s.bits \ {b}
              /\ t.zsearch = IF b < s.zsearch THEN b ELSE s.zsearch
              /\ t.scale = s.scale /\ t.ino = s.ino /\ t.blk = s.blk
<1> DEFINE t == free_zone(s, z)
           b == z - (FirstZone - 1)
           low == IF b < s.zsearch THEN b ELSE s.zsearch
           v == [s EXCEPT !.bits = s.bits \ {b}]
           u == WithBits(s, s.bits \ {b}, low)
<1>1. z \in FirstZone..(Zones - 1)
  BY DEF DataZones
<1>2. free_bit(s, b) = v
  BY DEF free_bit
<1>3. t = [free_bit(s, b) EXCEPT !.zsearch = IF b < @ THEN b ELSE @]
  BY <1>1 DEF free_zone
<1>4. v.zsearch = s.zsearch
  OBVIOUS
<1>5. t = u
  <2>1. u = [v EXCEPT !.zsearch = low]
    BY DEF WithBits
  <2>2. t = [v EXCEPT !.zsearch = IF b < v.zsearch THEN b ELSE v.zsearch]
    BY <1>2, <1>3
  <2> HIDE DEF t, u, v
  <2> QED
    BY <1>4, <2>1, <2>2
<1> HIDE DEF t, low
<1>6. /\ Volume(u) /\ u.bits = s.bits \ {b} /\ u.zsearch = low
      /\ u.scale = s.scale /\ u.blk = s.blk /\ u.ino = s.ino
  BY BitsPut
<1> HIDE DEF u, b
<1> QED
  BY <1>5, <1>6 DEF t, low, b

LEMMA FreeNone ==
    ASSUME NEW s PROVE free_zone(s, NO_ZONE) = s
BY MfsFileAssumption DEF free_zone, NO_ZONE

\* A zone that has no name is given back.
LEMMA GiveBackSound ==
    ASSUME NEW s, NEW X, NEW z \in X, Sound(s, X)
    PROVE  LET t == free_zone(s, z)
           IN Sound(t, X \ {z}) /\ Frame(s, t) /\ t.scale = s.scale /\ t.ino = s.ino /\ t.blk = s.blk
<1> DEFINE t == free_zone(s, z)
           b == z - (FirstZone - 1)
<1>1. Volume(s) /\ Exact(Map(s), s.bits, X) /\ Low(s)
  BY DEF Sound
<1>2. z \in DataZones
  BY <1>1 DEF Exact
<1>3. b \in s.bits /\ b \in 1..(MapBits - 1) /\ Exact(Map(s), s.bits \ {b}, X \ {z})
  BY <1>1, FreeExact
<1>4. /\ Volume(t) /\ t.bits = s.bits \ {b} /\ t.zsearch = IF b < s.zsearch THEN b ELSE s.zsearch
      /\ t.scale = s.scale /\ t.ino = s.ino /\ t.blk = s.blk
  BY <1>1, <1>2, <1>3, FreeIs
<1> HIDE DEF t, b
<1>5. Map(t) = Map(s)
  <2>1. \A y \in Indirects(s), i \in Entries : rd_indir(t, y, i) = rd_indir(s, y, i)
    BY <1>4 DEF rd_indir, ZoneBlocks
  <2> QED
    BY <1>4, <2>1, SameMap
<1>6. Exact(Map(t), t.bits, X \ {z})
  BY <1>3, <1>4, <1>5
<1>7. Low(t)
  <2>1. s.zsearch \in 0..(MapBits - 1) /\ \A c \in 0..(s.zsearch - 1) : c \in s.bits
    BY <1>1 DEF Low
  <2>2. t.zsearch \in 0..(MapBits - 1)
    BY <1>3, <1>4, <2>1, MapSizes
  <2>3. ASSUME NEW c \in 0..(t.zsearch - 1) PROVE c \in s.bits \ {b}
    <3>1. c \in Int /\ c < b /\ c =< s.zsearch - 1 /\ 0 =< c
      BY <1>3, <1>4, <2>1, MapSizes
    <3> QED
      BY <1>3, <2>1, <3>1, MapSizes
  <2> QED
    BY <1>4, <2>2, <2>3 DEF Low
<1> QED
  BY <1>4, <1>6, <1>7 DEF Sound, Frame, t

-----------------------------------------------------------------------------
(* Entering a zone in the map. *)

\* The zone that the map of a file has for a number.
PlaceZone(s, f, zone) ==
    IF IsDirect(zone) THEN s.ino[f].zone[zone]
    ELSE IF IndirectOf(s, f, zone) = NO_ZONE THEN NO_ZONE
    ELSE rd_indir(s, IndirectOf(s, f, zone), Single(zone))

LEMMA PlaceIs ==
    ASSUME NEW s, NEW f, NEW pos
    PROVE  zone_at(s, f, pos) = PlaceZone(s, f, Zone(s, pos))
BY DEF zone_at, PlaceZone

LEMMA DoubleIs ==
    ASSUME NEW s, NEW X, Sound(s, X), NEW f \in Files, s.ino[f].zone[DOUBLE] # NO_ZONE
    PROVE  s.ino[f].zone[DOUBLE] \in Doubles(s) /\ s.ino[f].zone[DOUBLE] \in DataZones
           /\ s.ino[f].zone[DOUBLE] \notin X
<1>1. s.ino[f].zone[DOUBLE] \in Doubles(s)
  BY DEF Doubles
<1>2. Indirects(s) \subseteq DataZones /\ Indirects(s) \cap X = {}
  BY SoundIs, IndirectOnce
<1> QED
  BY <1>1, <1>2 DEF Indirects

LEMMA IndirectIs ==
    ASSUME NEW s, NEW X, Sound(s, X), NEW f \in Files, NEW zone \in 0..(MaxZone - 1), ~IsDirect(zone),
           IndirectOf(s, f, zone) # NO_ZONE
    PROVE  /\ IndirectOf(s, f, zone) \in Singles(s) /\ IndirectOf(s, f, zone) \notin Doubles(s)
           /\ IndirectOf(s, f, zone) \in DataZones /\ IndirectOf(s, f, zone) \notin X
<1>1. IndirectOf(s, f, zone) \in Singles(s)
  <2>1. CASE IsSingle(zone)
    <3>1. IndirectOf(s, f, zone) = s.ino[f].zone[SINGLE]
      BY <2>1 DEF IndirectOf
    <3> QED
      BY <3>1, SingleIs
  <2>2. CASE ~IsSingle(zone)
    <3>1. Double(zone) \in Entries
      BY <2>2, IndexInRange
    <3>2. s.ino[f].zone[DOUBLE] # NO_ZONE
          /\ IndirectOf(s, f, zone) = rd_indir(s, s.ino[f].zone[DOUBLE], Double(zone))
      BY <2>2 DEF IndirectOf
    <3>3. s.ino[f].zone[DOUBLE] \in Doubles(s)
      BY <3>2, DoubleIs
    <3> QED
      BY <3>1, <3>2, <3>3, SingleIs
  <2> QED
    BY <2>1, <2>2
<1>2. Doubles(s) \cap Singles(s) = {} /\ Indirects(s) \subseteq DataZones /\ Indirects(s) \cap X = {}
  BY SoundIs, IndirectOnce
<1> QED
  BY <1>1, <1>2 DEF Indirects

LEMMA FrameAlong ==
    ASSUME NEW s, NEW t, NEW u, Frame(s, t), Frame(t, u) PROVE Frame(s, u)
BY DEF Frame

\* What the map has for a number is not an indirect zone.
LEMMA PlaceData ==
    ASSUME NEW s, NEW X, Sound(s, X), NEW f \in Files, NEW zone \in 0..(MaxZone - 1),
           PlaceZone(s, f, zone) # NO_ZONE
    PROVE  PlaceZone(s, f, zone) \in DataZones \ Indirects(s) /\ PlaceZone(s, f, zone) \notin X
<1> DEFINE m == Map(s)
           z == PlaceZone(s, f, zone)
<1>1. /\ \A n \in DOMAIN m : m[n] \in Numbers
      /\ \A n, k \in DOMAIN m : m[n] = m[k] /\ m[n] # NO_ZONE => n = k
      /\ \A n \in DOMAIN m : m[n] \notin X
  BY SoundIs DEF Exact
<1>2. ASSUME NEW y \in Indirects(s)
      PROVE  \E k \in DOMAIN m : m[k] = y /\ \/ \E g \in Files : k = <<"ino", g, DOUBLE>>
                                             \/ \E g \in Files : k = <<"ino", g, SINGLE>>
                                             \/ \E d \in Doubles(s), i \in Entries : k = <<"blk", d, i>>
  <2>1. Doubles(s) \subseteq Indirects(s)
    BY DEF Indirects
  <2>2. ASSUME NEW g \in Files
        PROVE  /\ <<"ino", g, DOUBLE>> \in DOMAIN m /\ m[<<"ino", g, DOUBLE>>] = s.ino[g].zone[DOUBLE]
               /\ <<"ino", g, SINGLE>> \in DOMAIN m /\ m[<<"ino", g, SINGLE>>] = s.ino[g].zone[SINGLE]
    BY TopName, TopIndices
  <2>3. ASSUME NEW d \in Doubles(s), NEW i \in Entries
        PROVE  <<"blk", d, i>> \in DOMAIN m /\ m[<<"blk", d, i>>] = rd_indir(s, d, i)
    BY <2>1, EntryName
  <2> HIDE DEF m
  <2>4. CASE y \in Doubles(s)
    <3>1. PICK g \in Files : y = s.ino[g].zone[DOUBLE]
      BY <2>4, DoubleName
    <3> QED
      BY <2>2, <3>1
  <2>5. CASE \E g \in Files : y = s.ino[g].zone[SINGLE]
    BY <2>2, <2>5
  <2>6. CASE \E d \in Doubles(s), i \in Entries : y = rd_indir(s, d, i)
    BY <2>3, <2>6
  <2> QED
    BY <2>4, <2>5, <2>6, SingleName DEF Indirects
<1>3. \E n \in DOMAIN m : m[n] = z /\ \/ n = <<"ino", f, zone>> /\ zone # SINGLE /\ zone # DOUBLE
                                      \/ \E d, i : d \notin Doubles(s) /\ n = <<"blk", d, i>>
  <2>1. CASE IsDirect(zone)
    <3>1. zone \in Tops /\ zone # SINGLE /\ zone # DOUBLE /\ z = s.ino[f].zone[zone]
      BY <2>1, TopIndices DEF IsDirect, PlaceZone
    <3> QED
      BY <3>1, TopName
  <2>2. CASE ~IsDirect(zone)
    <3> DEFINE d == IndirectOf(s, f, zone)
    <3>1. d # NO_ZONE /\ z = rd_indir(s, d, Single(zone))
      BY <2>2 DEF PlaceZone
    <3>2. d \in Singles(s) /\ d \notin Doubles(s) /\ Single(zone) \in Entries
      BY <2>2, <3>1, IndirectIs, IndexInRange
    <3>3. d \in Indirects(s)
      BY <3>2 DEF Indirects
    <3> HIDE DEF d, z, m
    <3>4. <<"blk", d, Single(zone)>> \in DOMAIN m /\ m[<<"blk", d, Single(zone)>>] = z
      BY <3>1, <3>2, <3>3, EntryName DEF m
    <3> QED
      BY <3>2, <3>4
  <2> QED
    BY <2>1, <2>2
<1>4. z # NO_ZONE
  OBVIOUS
<1> HIDE DEF m, z
<1>5. z \in DataZones /\ z \notin X
  BY <1>1, <1>3, <1>4 DEF Numbers
<1>6. ASSUME z \in Indirects(s) PROVE FALSE
  <2>1. PICK k \in DOMAIN m : m[k] = z /\ \/ \E g \in Files : k = <<"ino", g, DOUBLE>>
                                          \/ \E g \in Files : k = <<"ino", g, SINGLE>>
                                          \/ \E d \in Doubles(s), i \in Entries : k = <<"blk", d, i>>
    BY <1>2, <1>6
  <2>2. PICK n \in DOMAIN m : m[n] = z /\ \/ n = <<"ino", f, zone>> /\ zone # SINGLE /\ zone # DOUBLE
                                          \/ \E d, i : d \notin Doubles(s) /\ n = <<"blk", d, i>>
    BY <1>3
  <2>3. n = k
    BY <1>1, <1>4, <2>1, <2>2
  <2> QED
    BY <2>1, <2>2, <2>3
<1> QED
  BY <1>5, <1>6 DEF z

-----------------------------------------------------------------------------
(* What linking a zone does to the zones of files. *)

\* The name of the zone that the map of a file has for a number.
Leaf(s, f, zone) ==
    IF IsDirect(zone) THEN <<"ino", f, zone>>
    ELSE <<"blk", IndirectOf(s, f, zone), Single(zone)>>

\* An indirect zone has a name.
LEMMA IndirectNamed ==
    ASSUME NEW s, NEW y \in Indirects(s)
    PROVE  y # NO_ZONE /\ \E n \in DOMAIN Map(s) : Map(s)[n] = y
<1>1. ASSUME NEW g \in Files, NEW i \in {SINGLE, DOUBLE}, s.ino[g].zone[i] = y
      PROVE  \E n \in DOMAIN Map(s) : Map(s)[n] = y
  <2>1. i \in Tops
    BY TopIndices
  <2>2. <<"ino", g, i>> \in DOMAIN Map(s) /\ Map(s)[<<"ino", g, i>>] = s.ino[g].zone[i]
    BY <2>1, TopName
  <2> QED
    BY <1>1, <2>2
<1>2. ASSUME NEW d \in Doubles(s), NEW i \in Entries, rd_indir(s, d, i) = y
      PROVE  \E n \in DOMAIN Map(s) : Map(s)[n] = y
  <2>1. d \in Indirects(s)
    BY DEF Indirects
  <2>2. <<"blk", d, i>> \in DOMAIN Map(s) /\ Map(s)[<<"blk", d, i>>] = rd_indir(s, d, i)
    BY <2>1, EntryName
  <2> QED
    BY <1>2, <2>2
<1>3. CASE y \in Doubles(s)
  BY <1>1, <1>3, DoubleName
<1>4. CASE y \in Singles(s)
  BY <1>1, <1>2, <1>4, SingleName
<1> QED
  BY <1>3, <1>4 DEF Indirects

\* An indirect zone is not the number of none, nor has an entry another zone.
LEMMA EntryOf ==
    ASSUME NEW s, NEW d, NEW i, <<"blk", d, i>> \in DOMAIN Map(s)
    PROVE  d \in Indirects(s) /\ i \in Entries /\ d # NO_ZONE
<1>1. \E z \in Indirects(s), j \in Entries : <<"blk", d, i>> = <<"blk", z, j>>
  BY NameIs
<1>2. d \in Indirects(s) /\ i \in Entries
  BY <1>1
<1> QED
  BY <1>2, IndirectNamed

\* The zone n gets, z, is looked at by nobody but who looks for n.
LEMMA PlacesLinked ==
    ASSUME NEW s, NEW t, NEW bits, NEW X, Exact(Map(t), bits, X), NEW n, NEW z, z # NO_ZONE,
           Linked(Map(s), Map(t), n, z), NEW g \in Files, NEW zone \in 0..(MaxZone - 1)
    PROVE  /\ Leaf(t, g, zone) = n => PlaceZone(t, g, zone) = z /\ PlaceZone(s, g, zone) = NO_ZONE
           /\ Leaf(t, g, zone) # n => PlaceZone(t, g, zone) = PlaceZone(s, g, zone)
<1> DEFINE m == Map(s)
           k == Map(t)
<1>1. /\ n \in DOMAIN m /\ DOMAIN m \subseteq DOMAIN k /\ m[n] = NO_ZONE /\ k[n] = z
      /\ \A j \in DOMAIN m : j # n => k[j] = m[j]
      /\ \A j \in DOMAIN k : j \notin DOMAIN m => k[j] = NO_ZONE
      /\ \A j, l \in DOMAIN k : k[j] = k[l] /\ k[j] # NO_ZONE => j = l
  BY DEF Linked, Exact
<1>2. z \notin Indirects(s)
  <2>1. ASSUME z \in Indirects(s) PROVE FALSE
    <3>1. PICK l \in DOMAIN m : m[l] = z
      BY <2>1, IndirectNamed
    <3>2. k[l] = z /\ l # n
      BY <1>1, <3>1
    <3> QED
      BY <1>1, <3>1, <3>2
  <2> QED
    BY <2>1
<1>3. ASSUME NEW i \in Tops
      PROVE  /\ <<"ino", g, i>> \in DOMAIN m /\ m[<<"ino", g, i>>] = s.ino[g].zone[i]
             /\ <<"ino", g, i>> \in DOMAIN k /\ k[<<"ino", g, i>>] = t.ino[g].zone[i]
  BY TopName
<1>4. ASSUME NEW d \in Indirects(s), NEW i \in Entries
      PROVE  <<"blk", d, i>> \in DOMAIN m /\ m[<<"blk", d, i>>] = rd_indir(s, d, i)
  BY EntryName
<1>5. ASSUME NEW d \in Indirects(t), NEW i \in Entries
      PROVE  <<"blk", d, i>> \in DOMAIN k /\ k[<<"blk", d, i>>] = rd_indir(t, d, i)
  BY EntryName
<1>6. \A d, i : <<"blk", d, i>> \in DOMAIN m => d \in Indirects(s) /\ d # NO_ZONE
  BY EntryOf
<1>7. /\ \A d \in Indirects(s), i \in Entries : <<"blk", d, i>> # n => rd_indir(t, d, i) = rd_indir(s, d, i)
      /\ \A d \in Indirects(s), i \in Entries : <<"blk", d, i>> = n =>
            rd_indir(t, d, i) = z /\ rd_indir(s, d, i) = NO_ZONE
      /\ Indirects(s) \subseteq Indirects(t)
  <2>1. ASSUME NEW d \in Indirects(s), NEW i \in Entries PROVE d \in Indirects(t)
    <3>1. <<"blk", d, i>> \in DOMAIN Map(t)
      BY <1>1, <1>4
    <3> QED
      BY <3>1, EntryOf
  <2>2. 0 \in Entries
    BY MfsFileAssumption DEF Entries
  <2>3. Indirects(s) \subseteq Indirects(t)
    BY <2>1, <2>2
  <2> HIDE DEF m, k
  <2>4. ASSUME NEW d \in Indirects(s), NEW i \in Entries
        PROVE  /\ <<"blk", d, i>> # n => rd_indir(t, d, i) = rd_indir(s, d, i)
               /\ <<"blk", d, i>> = n => rd_indir(t, d, i) = z /\ rd_indir(s, d, i) = NO_ZONE
    <3>1. <<"blk", d, i>> \in DOMAIN m /\ m[<<"blk", d, i>>] = rd_indir(s, d, i)
      BY <1>4
    <3>2. k[<<"blk", d, i>>] = rd_indir(t, d, i)
      BY <1>5, <2>3
    <3> QED
      BY <1>1, <3>1, <3>2
  <2> QED
    BY <2>3, <2>4
<1>8. ASSUME z \in Indirects(t), NEW i \in Entries PROVE rd_indir(t, z, i) = NO_ZONE
  <2>1. <<"blk", z, i>> \in DOMAIN k /\ <<"blk", z, i>> \notin DOMAIN m
    BY <1>2, <1>5, <1>6, <1>8
  <2> QED
    BY <1>1, <1>5, <1>8, <2>1
<1> HIDE DEF m, k
<1>9. CASE IsDirect(zone)
  <2>1. zone \in Tops /\ Leaf(t, g, zone) = <<"ino", g, zone>>
    BY <1>9, TopIndices DEF IsDirect, Leaf
  <2>2. PlaceZone(t, g, zone) = t.ino[g].zone[zone] /\ PlaceZone(s, g, zone) = s.ino[g].zone[zone]
    BY <1>9 DEF PlaceZone
  <2> QED
    BY <1>1, <1>3, <2>1, <2>2
<1>10. CASE ~IsDirect(zone)
  <2> DEFINE d == IndirectOf(s, g, zone)
             e == IndirectOf(t, g, zone)
             i == Single(zone)
  <2>1. i \in Entries
    BY <1>10, IndexInRange
  <2>2. d = NO_ZONE \/ d \in Indirects(s)
    <3>1. CASE IsSingle(zone)
      BY <3>1, SingleIs DEF IndirectOf, Indirects
    <3>2. CASE ~IsSingle(zone)
      <4>1. Double(zone) \in Entries
        BY <1>10, <3>2, IndexInRange
      <4>2. s.ino[g].zone[DOUBLE] # NO_ZONE => s.ino[g].zone[DOUBLE] \in Doubles(s)
        BY DEF Doubles
      <4> QED
        BY <3>2, <4>1, <4>2, SingleIs DEF IndirectOf, Indirects
    <3> QED
      BY <3>1, <3>2
  <2>3. \/ e = d
        \/ e = z /\ d = NO_ZONE /\ z \in Indirects(t)
    <3>1. CASE IsSingle(zone)
      <4>1. d = s.ino[g].zone[SINGLE] /\ e = t.ino[g].zone[SINGLE] /\ SINGLE \in Tops
        BY <3>1, TopIndices DEF IndirectOf
      <4>2. /\ <<"ino", g, SINGLE>> \in DOMAIN m /\ m[<<"ino", g, SINGLE>>] = d
            /\ <<"ino", g, SINGLE>> \in DOMAIN k /\ k[<<"ino", g, SINGLE>>] = e
        BY <1>3, <4>1
      <4>3. e # NO_ZONE => e \in Indirects(t)
        BY <4>1, SingleIs DEF Indirects
      <4> HIDE DEF d, e
      <4> QED
        BY <1>1, <4>2, <4>3
    <3>2. CASE ~IsSingle(zone)
      <4> DEFINE x == s.ino[g].zone[DOUBLE]
                 y == t.ino[g].zone[DOUBLE]
                 j == Double(zone)
      <4>1. j \in Entries
        BY <1>10, <3>2, IndexInRange
      <4>2. /\ d = IF x = NO_ZONE THEN NO_ZONE ELSE rd_indir(s, x, j)
            /\ e = IF y = NO_ZONE THEN NO_ZONE ELSE rd_indir(t, y, j)
        BY <3>2 DEF IndirectOf
      <4>3. /\ x # NO_ZONE => x \in Doubles(s) /\ x \in Indirects(s)
            /\ y # NO_ZONE => y \in Doubles(t) /\ y \in Indirects(t)
        BY DEF Doubles, Indirects
      <4>4. DOUBLE \in Tops
        BY TopIndices
      <4>5. \A w \in Doubles(t) : rd_indir(t, w, j) # NO_ZONE => rd_indir(t, w, j) \in Indirects(t)
        BY <4>1, SingleIs DEF Indirects
      <4>6. <<"ino", g, DOUBLE>> = n => y = z /\ x = NO_ZONE
        BY <1>1, <1>3, <4>4
      <4>7. <<"ino", g, DOUBLE>> # n => y = x
        BY <1>1, <1>3, <4>4
      <4> HIDE DEF x, y, j, d, e
      <4>8. CASE <<"ino", g, DOUBLE>> = n
        BY <1>8, <4>1, <4>2, <4>3, <4>6, <4>8
      <4>9. CASE <<"ino", g, DOUBLE>> # n /\ x = NO_ZONE
        BY <4>2, <4>7, <4>9
      <4>10. CASE <<"ino", g, DOUBLE>> # n /\ x # NO_ZONE
        <5>1. x \in Indirects(s) /\ y = x /\ y \in Doubles(t)
          BY <4>3, <4>7, <4>10
        <5>2. d = rd_indir(s, x, j) /\ e = rd_indir(t, x, j)
          BY <4>2, <4>10, <5>1
        <5>3. CASE <<"blk", x, j>> = n
          BY <1>7, <4>1, <4>5, <5>1, <5>2, <5>3
        <5>4. CASE <<"blk", x, j>> # n
          BY <1>7, <4>1, <5>1, <5>2, <5>4
        <5> QED
          BY <5>3, <5>4
      <4> QED
        BY <4>8, <4>9, <4>10
    <3> QED
      BY <3>1, <3>2
  <2>4. /\ Leaf(t, g, zone) = <<"blk", e, i>>
        /\ PlaceZone(s, g, zone) = IF d = NO_ZONE THEN NO_ZONE ELSE rd_indir(s, d, i)
        /\ PlaceZone(t, g, zone) = IF e = NO_ZONE THEN NO_ZONE ELSE rd_indir(t, e, i)
    BY <1>10 DEF Leaf, PlaceZone
  <2> HIDE DEF d, e, i
  <2>5. CASE e = d /\ d = NO_ZONE
    <3>1. <<"blk", e, i>> # n
      BY <1>1, <1>6, <2>5
    <3> QED
      BY <2>4, <2>5, <3>1
  <2>6. CASE e = d /\ d # NO_ZONE
    BY <1>7, <2>1, <2>2, <2>4, <2>6
  <2>7. CASE e = z /\ d = NO_ZONE /\ z \in Indirects(t)
    <3>1. <<"blk", e, i>> # n
      BY <1>1, <1>2, <1>6, <2>7
    <3> QED
      BY <1>8, <2>1, <2>4, <2>7, <3>1
  <2> QED
    BY <2>3, <2>5, <2>6, <2>7
<1> QED
  BY <1>9, <1>10

\* The names of the zones of files: each is that of one file and number.
LEMMA LeafNamed ==
    ASSUME NEW s, NEW f \in Files, NEW zone \in 0..(MaxZone - 1),
           IsDirect(zone) \/ IndirectOf(s, f, zone) # NO_ZONE
    PROVE  /\ Leaf(s, f, zone) \in DOMAIN Map(s)
           /\ Map(s)[Leaf(s, f, zone)] = PlaceZone(s, f, zone)
<1>1. CASE IsDirect(zone)
  <2>1. zone \in Tops /\ Leaf(s, f, zone) = <<"ino", f, zone>>
    BY <1>1, TopIndices DEF IsDirect, Leaf
  <2> QED
    BY <1>1, <2>1, TopName DEF PlaceZone
<1>2. CASE ~IsDirect(zone)
  <2> DEFINE d == IndirectOf(s, f, zone)
  <2>1. d # NO_ZONE
    BY <1>2
  <2>2. Single(zone) \in Entries
    BY <1>2, IndexInRange
  <2>3. d \in Indirects(s)
    <3>1. CASE IsSingle(zone)
      BY <2>1, <3>1, SingleIs DEF IndirectOf, Indirects
    <3>2. CASE ~IsSingle(zone)
      <4>1. Double(zone) \in Entries
        BY <1>2, <3>2, IndexInRange
      <4>2. s.ino[f].zone[DOUBLE] # NO_ZONE => s.ino[f].zone[DOUBLE] \in Doubles(s)
        BY DEF Doubles
      <4> QED
        BY <2>1, <3>2, <4>1, <4>2, SingleIs DEF IndirectOf, Indirects
    <3> QED
      BY <3>1, <3>2
  <2>4. Leaf(s, f, zone) = <<"blk", d, Single(zone)>> /\ PlaceZone(s, f, zone) = rd_indir(s, d, Single(zone))
    BY <1>2, <2>1 DEF Leaf, PlaceZone
  <2> HIDE DEF d
  <2> QED
    BY <2>2, <2>3, <2>4, EntryName
<1> QED
  BY <1>1, <1>2

\* The number of a zone from its indices.
LEMMA IndexOf ==
    ASSUME NEW zone \in 0..(MaxZone - 1), ~IsDirect(zone)
    PROVE  /\ IsSingle(zone) => zone = DZones + Single(zone)
           /\ ~IsSingle(zone) => zone = DZones + U + (U * Double(zone)) + Single(zone)
<1>1. U \in Nat \ {0} /\ DZones \in Nat \ {0} /\ U * U \in Nat /\ zone \in Nat
  BY Times, MfsFileAssumption DEF MaxZone
<1>2. zone - DZones \in Nat
  BY <1>1 DEF IsDirect
<1>3. ASSUME IsSingle(zone) PROVE zone = DZones + Single(zone)
  <2>1. zone - DZones < U
    BY <1>1, <1>3 DEF IsSingle
  <2>2. (zone - DZones) % U = zone - DZones
    BY <1>1, <1>2, <2>1
  <2> QED
    BY <1>1, <2>2 DEF Single
<1>4. ASSUME ~IsSingle(zone) PROVE zone = DZones + U + (U * Double(zone)) + Single(zone)
  <2> DEFINE x == zone - DZones - U
  <2>1. x \in Nat
    BY <1>1, <1>4 DEF IsSingle
  <2>2. x = (U * (x \div U)) + (x % U) /\ x \div U \in Nat /\ x % U \in 0..(U - 1)
    BY <1>1, <2>1, DivMod
  <2> DEFINE q == x \div U
             r == x % U
  <2>3. zone - DZones = U * (q + 1) + r /\ q + 1 \in Nat /\ r \in 0..(U - 1)
    BY <1>1, <2>1, <2>2
  <2>4. (zone - DZones) % U = r
    <3> HIDE DEF q, r
    <3> QED
      BY <1>1, <1>2, <2>3, Quotient
  <2> QED
    BY <1>1, <2>2, <2>4 DEF Double, Single
<1> QED
  BY <1>3, <1>4

LEMMA LeafOnce ==
    ASSUME NEW s, NEW bits, NEW X, Exact(Map(s), bits, X), NEW f \in Files, NEW g \in Files,
           NEW k \in 0..(MaxZone - 1), NEW l \in 0..(MaxZone - 1), Leaf(s, f, k) = Leaf(s, g, l),
           Leaf(s, f, k) \in DOMAIN Map(s)
    PROVE  f = g /\ k = l
<1>1. \A i, j \in DOMAIN Map(s) : Map(s)[i] = Map(s)[j] /\ Map(s)[i] # NO_ZONE => i = j
  BY DEF Exact
<1>2. CASE IsDirect(k)
  <2>1. CASE IsDirect(l)
    BY <1>2, <2>1 DEF Leaf
  <2>2. CASE ~IsDirect(l)
    BY <1>2, <2>2 DEF Leaf
  <2> QED
    BY <2>1, <2>2
<1>3. CASE ~IsDirect(k) /\ IsDirect(l)
  BY <1>3 DEF Leaf
<1>4. CASE ~IsDirect(k) /\ ~IsDirect(l)
  <2> DEFINE d == IndirectOf(s, f, k)
             e == IndirectOf(s, g, l)
  <2>1. Leaf(s, f, k) = <<"blk", d, Single(k)>> /\ Leaf(s, g, l) = <<"blk", e, Single(l)>>
    BY <1>4 DEF Leaf
  <2> HIDE DEF d, e
  <2>2. d = e /\ Single(k) = Single(l)
    <3>1. <<"blk", d, Single(k)>> = <<"blk", e, Single(l)>>
      BY <2>1
    <3> QED
      BY <3>1
  <2>3. d # NO_ZONE
    BY <2>1, EntryOf
  <2>4. ASSUME NEW h \in Files, NEW zone \in 0..(MaxZone - 1), ~IsDirect(zone),
               IndirectOf(s, h, zone) # NO_ZONE
        PROVE  \/ /\ IsSingle(zone) /\ <<"ino", h, SINGLE>> \in DOMAIN Map(s)
                  /\ Map(s)[<<"ino", h, SINGLE>>] = IndirectOf(s, h, zone)
               \/ /\ ~IsSingle(zone) /\ s.ino[h].zone[DOUBLE] # NO_ZONE
                  /\ <<"ino", h, DOUBLE>> \in DOMAIN Map(s)
                  /\ Map(s)[<<"ino", h, DOUBLE>>] = s.ino[h].zone[DOUBLE]
                  /\ <<"blk", s.ino[h].zone[DOUBLE], Double(zone)>> \in DOMAIN Map(s)
                  /\ Map(s)[<<"blk", s.ino[h].zone[DOUBLE], Double(zone)>>] = IndirectOf(s, h, zone)
    <3>1. CASE IsSingle(zone)
      <4>1. SINGLE \in Tops /\ IndirectOf(s, h, zone) = s.ino[h].zone[SINGLE]
        BY <3>1, TopIndices DEF IndirectOf
      <4> QED
        BY <3>1, <4>1, TopName
    <3>2. CASE ~IsSingle(zone)
      <4>1. DOUBLE \in Tops /\ s.ino[h].zone[DOUBLE] # NO_ZONE
            /\ IndirectOf(s, h, zone) = rd_indir(s, s.ino[h].zone[DOUBLE], Double(zone))
        BY <2>4, <3>2, TopIndices DEF IndirectOf
      <4>2. Double(zone) \in Entries /\ s.ino[h].zone[DOUBLE] \in Indirects(s)
        BY <2>4, <3>2, <4>1, IndexInRange DEF Doubles, Indirects
      <4>3. <<"blk", s.ino[h].zone[DOUBLE], Double(zone)>> \in DOMAIN Map(s)
            /\ Map(s)[<<"blk", s.ino[h].zone[DOUBLE], Double(zone)>>] = IndirectOf(s, h, zone)
        BY <4>1, <4>2, EntryName
      <4>4. <<"ino", h, DOUBLE>> \in DOMAIN Map(s)
            /\ Map(s)[<<"ino", h, DOUBLE>>] = s.ino[h].zone[DOUBLE]
        BY <4>1, TopName
      <4> QED
        BY <3>2, <4>1, <4>3, <4>4
    <3> QED
      BY <3>1, <3>2
  <2> DEFINE m == Map(s)
             x == s.ino[f].zone[DOUBLE]
             y == s.ino[g].zone[DOUBLE]
  <2>5. \/ /\ IsSingle(k) /\ <<"ino", f, SINGLE>> \in DOMAIN m /\ m[<<"ino", f, SINGLE>>] = d
        \/ /\ ~IsSingle(k) /\ x # NO_ZONE
           /\ <<"ino", f, DOUBLE>> \in DOMAIN m /\ m[<<"ino", f, DOUBLE>>] = x
           /\ <<"blk", x, Double(k)>> \in DOMAIN m /\ m[<<"blk", x, Double(k)>>] = d
    BY <1>4, <2>3, <2>4 DEF d
  <2>6. \/ /\ IsSingle(l) /\ <<"ino", g, SINGLE>> \in DOMAIN m /\ m[<<"ino", g, SINGLE>>] = e
        \/ /\ ~IsSingle(l) /\ y # NO_ZONE
           /\ <<"ino", g, DOUBLE>> \in DOMAIN m /\ m[<<"ino", g, DOUBLE>>] = y
           /\ <<"blk", y, Double(l)>> \in DOMAIN m /\ m[<<"blk", y, Double(l)>>] = e
    BY <1>4, <2>2, <2>3, <2>4 DEF e
  <2> HIDE DEF m, x, y
  <2>7. \A i, j \in DOMAIN m : m[i] = m[j] /\ m[i] # NO_ZONE => i = j
    BY <1>1 DEF m
  <2>8. CASE IsSingle(k) /\ IsSingle(l)
    <3>1. f = g
      BY <2>2, <2>3, <2>5, <2>6, <2>7, <2>8
    <3> QED
      BY <1>4, <2>2, <2>8, <3>1, IndexOf
  <2>9. CASE ~IsSingle(k) /\ ~IsSingle(l)
    <3>1. <<"blk", x, Double(k)>> = <<"blk", y, Double(l)>>
      BY <2>2, <2>3, <2>5, <2>6, <2>7, <2>9
    <3>2. x = y /\ Double(k) = Double(l)
      BY <3>1
    <3>3. f = g
      BY <2>5, <2>6, <2>7, <2>9, <3>2
    <3> QED
      BY <1>4, <2>2, <2>9, <3>2, <3>3, IndexOf
  <2>10. CASE IsSingle(k) /\ ~IsSingle(l)
    BY <2>2, <2>3, <2>5, <2>6, <2>7, <2>10
  <2>11. CASE ~IsSingle(k) /\ IsSingle(l)
    BY <2>2, <2>3, <2>5, <2>6, <2>7, <2>11
  <2> QED
    BY <2>8, <2>9, <2>10, <2>11
<1> QED
  BY <1>2, <1>3, <1>4

\* A zone belongs to one file, under one number.
LEMMA PlaceOnce ==
    ASSUME NEW s, NEW X, Sound(s, X), NEW f \in Files, NEW g \in Files,
           NEW k \in 0..(MaxZone - 1), NEW l \in 0..(MaxZone - 1),
           PlaceZone(s, f, k) = PlaceZone(s, g, l), PlaceZone(s, f, k) # NO_ZONE
    PROVE  f = g /\ k = l
<1>1. /\ Leaf(s, f, k) \in DOMAIN Map(s) /\ Map(s)[Leaf(s, f, k)] = PlaceZone(s, f, k)
      /\ Leaf(s, g, l) \in DOMAIN Map(s) /\ Map(s)[Leaf(s, g, l)] = PlaceZone(s, g, l)
  BY LeafNamed DEF PlaceZone
<1>2. Exact(Map(s), s.bits, X)
  BY SoundIs
<1>3. Leaf(s, f, k) = Leaf(s, g, l)
  BY <1>1, <1>2 DEF Exact
<1> QED
  BY <1>1, <1>2, <1>3, LeafOnce

\* No zone of a file is looked for where indirect zones are.
LEMMA NoLeaf ==
    ASSUME NEW s, NEW X, Sound(s, X), NEW f \in Files, NEW zone \in 0..(MaxZone - 1)
    PROVE  /\ \A g : Leaf(s, f, zone) # <<"ino", g, SINGLE>> /\ Leaf(s, f, zone) # <<"ino", g, DOUBLE>>
           /\ \A d \in Doubles(s) : \A i : Leaf(s, f, zone) # <<"blk", d, i>>
<1>1. CASE IsDirect(zone)
  <2>1. zone # SINGLE /\ zone # DOUBLE
    BY <1>1, TopIndices DEF IsDirect
  <2> QED
    BY <1>1, <2>1 DEF Leaf
<1>2. CASE ~IsDirect(zone)
  <2> DEFINE e == IndirectOf(s, f, zone)
  <2>1. e \notin Doubles(s)
    BY <1>2, IndirectIs DEF Doubles
  <2>2. Leaf(s, f, zone) = <<"blk", e, Single(zone)>>
    BY <1>2 DEF Leaf
  <2> HIDE DEF e
  <2> QED
    BY <2>1, <2>2
<1> QED
  BY <1>1, <1>2

\* The zone that a file has for a number is the same, with its blocks; that of
\* every file and number; that of every but one.
LikeAt(s, t, g, zone) ==
    /\ PlaceZone(t, g, zone) = PlaceZone(s, g, zone)
    /\ PlaceZone(s, g, zone) # NO_ZONE => SameZone(s, t, PlaceZone(s, g, zone))
Like(s, t) == \A g \in Files, k \in 0..(MaxZone - 1) : LikeAt(s, t, g, k)
LikeBut(s, t, f, zone) ==
    \A g \in Files, k \in 0..(MaxZone - 1) : g # f \/ k # zone => LikeAt(s, t, g, k)

LEMMA LikeSelf ==
    ASSUME NEW s PROVE Like(s, s)
BY DEF Like, LikeAt, SameZone

LEMMA LikeWhen ==
    ASSUME NEW s, NEW t, t.scale = s.scale, t.blk = s.blk, \A f \in Files : t.ino[f].zone = s.ino[f].zone
    PROVE  Like(s, t)
<1>1. \A z, i : rd_indir(t, z, i) = rd_indir(s, z, i)
  BY DEF rd_indir, ZoneBlocks
<1>2. \A g \in Files, k \in 0..(MaxZone - 1) : PlaceZone(t, g, k) = PlaceZone(s, g, k)
  BY <1>1 DEF PlaceZone, IndirectOf
<1> QED
  BY <1>2 DEF Like, LikeAt, SameZone

LEMMA LikeAtAlong ==
    ASSUME NEW s, NEW t, NEW u, t.scale = s.scale, NEW g, NEW k, LikeAt(s, t, g, k), LikeAt(t, u, g, k)
    PROVE  LikeAt(s, u, g, k)
<1>1. ZoneBlocks(t) = ZoneBlocks(s)
  BY DEF ZoneBlocks
<1> QED
  BY <1>1 DEF LikeAt, SameZone

LEMMA LikeAlong ==
    ASSUME NEW s, NEW t, NEW u, t.scale = s.scale, Like(s, t), Like(t, u) PROVE Like(s, u)
<1>1. ZoneBlocks(t) = ZoneBlocks(s)
  BY DEF ZoneBlocks
<1> SUFFICES ASSUME NEW g \in Files, NEW k \in 0..(MaxZone - 1) PROVE LikeAt(s, u, g, k)
  BY DEF Like
<1>2. LikeAt(s, t, g, k) /\ LikeAt(t, u, g, k)
  BY DEF Like
<1> QED
  BY <1>1, <1>2 DEF LikeAt, SameZone

LEMMA LikeButAlong ==
    ASSUME NEW s, NEW t, NEW u, t.scale = s.scale, NEW f, NEW zone,
           Like(s, t) \/ LikeBut(s, t, f, zone), Like(t, u) \/ LikeBut(t, u, f, zone)
    PROVE  LikeBut(s, u, f, zone)
<1>1. ZoneBlocks(t) = ZoneBlocks(s)
  BY DEF ZoneBlocks
<1> SUFFICES ASSUME NEW g \in Files, NEW k \in 0..(MaxZone - 1), g # f \/ k # zone
             PROVE LikeAt(s, u, g, k)
  BY DEF LikeBut
<1>2. LikeAt(s, t, g, k) /\ LikeAt(t, u, g, k)
  BY DEF Like, LikeBut
<1> QED
  BY <1>1, <1>2 DEF LikeAt, SameZone

\* A zone gets a name: those who look for another find the same.
LEMMA LinkLike ==
    ASSUME NEW s, NEW t, NEW X, NEW n, NEW z \in X, Sound(s, X), Linked(Map(s), Map(t), n, z),
           \A y \in DataZones : y \notin Indirects(s) /\ y # z => SameZone(s, t, y),
           NEW g \in Files, NEW k \in 0..(MaxZone - 1), Leaf(t, g, k) # n
    PROVE  LikeAt(s, t, g, k)
<1>1. Exact(Map(t), s.bits, X \ {z}) /\ z # NO_ZONE
  <2>1. Exact(Map(s), s.bits, X)
    BY SoundIs
  <2>2. z \in DataZones
    BY <2>1 DEF Exact
  <2> QED
    BY <2>1, <2>2, LinkExact, MfsFileAssumption DEF DataZones, NO_ZONE
<1>2. PlaceZone(t, g, k) = PlaceZone(s, g, k)
  BY <1>1, PlacesLinked
<1>3. PlaceZone(s, g, k) # NO_ZONE =>
        PlaceZone(s, g, k) \in DataZones \ Indirects(s) /\ PlaceZone(s, g, k) # z
  BY PlaceData
<1> QED
  BY <1>2, <1>3 DEF LikeAt

\* A zone loses its name: those who look for another find the same.
LEMMA UnlinkLike ==
    ASSUME NEW s, NEW t, NEW X, NEW n, NEW z, z # NO_ZONE, Sound(s, X), Linked(Map(t), Map(s), n, z),
           \A y \in DataZones : y \notin Indirects(s) => SameZone(s, t, y),
           NEW g \in Files, NEW k \in 0..(MaxZone - 1)
    PROVE  /\ Leaf(s, g, k) # n => LikeAt(s, t, g, k)
           /\ Leaf(s, g, k) = n => PlaceZone(t, g, k) = NO_ZONE
<1>1. Exact(Map(s), s.bits, X)
  BY SoundIs
<1>2. /\ Leaf(s, g, k) = n => PlaceZone(t, g, k) = NO_ZONE
      /\ Leaf(s, g, k) # n => PlaceZone(s, g, k) = PlaceZone(t, g, k)
  BY <1>1, PlacesLinked
<1>3. PlaceZone(s, g, k) # NO_ZONE => PlaceZone(s, g, k) \in DataZones \ Indirects(s)
  BY PlaceData
<1> QED
  BY <1>2, <1>3 DEF LikeAt

\* A double indirect zone is entered, when there is none.
LEMMA WithDoubleSound ==
    ASSUME NEW s, NEW X, Sound(s, X), NEW f \in Files, NEW zone \in 0..(MaxZone - 1), ~IsDirect(zone),
           PlaceZone(s, f, zone) = NO_ZONE
    PROVE  LET t == with_double(s, f, zone)
           IN Sound(t, X) /\ Frame(s, t) /\ PlaceZone(t, f, zone) = NO_ZONE /\ Like(s, t)
<1>1. CASE IsSingle(zone) \/ s.ino[f].zone[DOUBLE] # NO_ZONE
  BY <1>1, LikeSelf DEF with_double, Frame
<1>2. CASE ~IsSingle(zone) /\ s.ino[f].zone[DOUBLE] = NO_ZONE
  <2> DEFINE a == alloc_zone(s, Near(s, f))
             z == a.z
             v == a.s
             u == [v EXCEPT !.ino[f].zone[DOUBLE] = z]
             t == Cleared(u, z)
  <2>1. with_double(s, f, zone) = IF z = NO_ZONE THEN s ELSE t
    BY <1>2 DEF with_double, EnterDouble
  <2>2. \/ z = NO_ZONE
        \/ /\ z \in DataZones \ X /\ z # NO_ZONE
           /\ Sound(v, X \cup {z}) /\ v.scale = s.scale /\ v.ino = s.ino /\ v.blk = s.blk
    BY AllocSound
  <2> HIDE DEF a
  <2> HIDE DEF z, v
  <2>3. CASE z = NO_ZONE
    BY <2>1, <2>3, LikeSelf DEF Frame
  <2>4. CASE z # NO_ZONE
    <3>1. /\ z \in DataZones \ X
          /\ Sound(v, X \cup {z}) /\ v.scale = s.scale /\ v.ino = s.ino /\ v.blk = s.blk
      BY <2>2, <2>4
    <3>2. DOUBLE \in Tops /\ z \in Int /\ Volume(v)
      BY <3>1, TopIndices, SoundIs, MfsFileAssumption DEF DataZones
    <3>3. /\ Volume(u) /\ u.ino[f].zone[DOUBLE] = z /\ Frame(v, u)
          /\ \A g \in Files, j \in Tops : g # f \/ j # DOUBLE => u.ino[g].zone[j] = v.ino[g].zone[j]
          /\ u.scale = v.scale /\ u.bits = v.bits /\ u.zsearch = v.zsearch /\ u.blk = v.blk
      BY <3>2, TopPut
    <3> HIDE DEF u
    <3>4. /\ Volume(t) /\ Blank(t, z) /\ Frame(u, t)
          /\ \A y \in DataZones, j \in Entries : y # z => rd_indir(t, y, j) = rd_indir(u, y, j)
          /\ t.scale = u.scale /\ t.bits = u.bits /\ t.zsearch = u.zsearch /\ t.ino = u.ino
          /\ SameBut(u, t, z)
      BY <3>1, <3>3, ClearedIs
    <3> HIDE DEF t
    <3>5. v.ino[f].zone[DOUBLE] = NO_ZONE
      BY <1>2, <3>1
    <3>6. TopSet(v, t, f, DOUBLE, z)
      BY <3>3, <3>4 DEF TopSet
    <3>7. SameEntries(v, t)
      <4>1. Indirects(v) \subseteq DataZones /\ Indirects(v) \cap (X \cup {z}) = {}
        BY <3>1, SoundIs, IndirectOnce
      <4>2. \A y, j : rd_indir(u, y, j) = rd_indir(v, y, j)
        BY <3>3 DEF rd_indir, ZoneBlocks
      <4> QED
        BY <3>4, <4>1, <4>2 DEF SameEntries
    <3>8. Linked(Map(v), Map(t), <<"ino", f, DOUBLE>>, z)
      BY <2>4, <3>4, <3>5, <3>6, <3>7, LinkDouble
    <3>9. (X \cup {z}) \ {z} = X /\ z \in X \cup {z}
      BY <3>1
    <3>10. Sound(t, (X \cup {z}) \ {z})
      BY <3>1, <3>3, <3>4, <3>8, <3>9, EnteredSound
    <3>11. Frame(s, t)
      BY <3>1, <3>3, <3>4 DEF Frame
    <3>12. PlaceZone(t, f, zone) = NO_ZONE
      <4>1. t.ino[f].zone[DOUBLE] = z
        BY <3>3, <3>4
      <4>2. Double(zone) \in Entries
        BY <1>2, IndexInRange
      <4>3. IndirectOf(t, f, zone) = NO_ZONE
        BY <1>2, <3>4, <4>1, <4>2 DEF IndirectOf, Blank
      <4> QED
        BY <4>3 DEF PlaceZone
    <3>13. with_double(s, f, zone) = t
      BY <2>1, <2>4
    <3>14. Like(s, t)
      <4>1. \A y \in DataZones : y # z => SameZone(v, t, y)
        BY <3>3, <3>4 DEF SameBut, SameZone, ZoneBlocks
      <4>2. Sound(t, X)
        BY <3>9, <3>10
      <4>3. \A g \in Files, k \in 0..(MaxZone - 1) : Leaf(t, g, k) # <<"ino", f, DOUBLE>>
        BY <4>2, NoLeaf
      <4>4. Like(v, t)
        BY <3>1, <3>8, <3>9, <4>1, <4>3, LinkLike DEF Like
      <4>5. Like(s, v)
        BY <3>1, LikeWhen
      <4> QED
        BY <3>1, <4>4, <4>5, LikeAlong
    <3> QED
      BY <3>9, <3>10, <3>11, <3>12, <3>13, <3>14
  <2> QED
    BY <2>3, <2>4
<1> QED
  BY <1>1, <1>2

\* Writes what is there already.
LEMMA SameTop ==
    ASSUME NEW s, NEW X, Sound(s, X), NEW f \in Files, NEW i \in Tops, NEW z \in Int,
           s.ino[f].zone[i] = z
    PROVE  LET t == [s EXCEPT !.ino[f].zone[i] = z]
           IN Sound(t, X) /\ Frame(s, t) /\ (\A g \in Files : t.ino[g].zone = s.ino[g].zone)
              /\ t.blk = s.blk
<1> DEFINE t == [s EXCEPT !.ino[f].zone[i] = z]
<1>1. /\ Volume(t) /\ t.ino[f].zone[i] = z /\ Frame(s, t)
      /\ \A g \in Files, j \in Tops : g # f \/ j # i => t.ino[g].zone[j] = s.ino[g].zone[j]
      /\ t.scale = s.scale /\ t.bits = s.bits /\ t.zsearch = s.zsearch /\ t.blk = s.blk
  BY SoundIs, TopPut
<1> HIDE DEF t
<1>2. ASSUME NEW g \in Files PROVE t.ino[g].zone = s.ino[g].zone
  <2>1. t.ino[g].zone \in [Tops -> Int] /\ s.ino[g].zone \in [Tops -> Int]
    BY <1>1, SoundIs, InodeIs
  <2>2. \A j \in Tops : t.ino[g].zone[j] = s.ino[g].zone[j]
    BY <1>1
  <2> QED
    BY <2>1, <2>2
<1>3. \A y \in Indirects(s), j \in Entries : rd_indir(t, y, j) = rd_indir(s, y, j)
  BY <1>1 DEF rd_indir, ZoneBlocks
<1>4. Map(t) = Map(s)
  BY <1>2, <1>3, SameMap
<1>5. Sound(t, X)
  BY <1>1, <1>4, StaysSound
<1> QED
  BY <1>1, <1>2, <1>5 DEF t

LEMMA SameEntry ==
    ASSUME NEW s, NEW X, Sound(s, X), NEW d \in DataZones, NEW i \in Entries, NEW z \in Int,
           rd_indir(s, d, i) = z
    PROVE  LET t == wr_indir(s, d, i, z)
           IN Sound(t, X) /\ Frame(s, t) /\ t.ino = s.ino /\ t.blk = s.blk /\ t.scale = s.scale
              /\ \A y \in DataZones, j \in Entries : rd_indir(t, y, j) = rd_indir(s, y, j)
<1> DEFINE t == wr_indir(s, d, i, z)
<1>1. /\ Volume(t) /\ rd_indir(t, d, i) = z /\ Frame(s, t)
      /\ \A y \in DataZones, j \in Entries : y # d \/ j # i => rd_indir(t, y, j) = rd_indir(s, y, j)
      /\ t.scale = s.scale /\ t.bits = s.bits /\ t.zsearch = s.zsearch /\ t.ino = s.ino
  BY SoundIs, EntryPut
<1>2. t.blk = s.blk
  <2> DEFINE b == d * ZoneBlocks(s)
             blk == [s.blk EXCEPT ![b][i] = z]
  <2>1. t = [s EXCEPT !.blk = blk]
    BY DEF wr_indir
  <2>2. s.blk \in [0..(Zones * ZoneBlocks(s) - 1) -> [Entries -> Int]] /\ Volume(s)
    BY SoundIs, VolumeIs
  <2>3. b \in 0..(Zones * ZoneBlocks(s) - 1)
    BY SoundIs, FirstBlockOnDisk
  <2>4. s.blk[b][i] = z
    BY DEF rd_indir
  <2>5. blk = s.blk
    <3> HIDE DEF b
    <3> QED
      BY <2>2, <2>3, <2>4
  <2> HIDE DEF blk, t
  <2>6. t = [s EXCEPT !.blk = s.blk]
    BY <2>1, <2>5
  <2> QED
    BY <2>2, <2>6, BlkPut
<1> HIDE DEF t
<1>3. \A y \in DataZones, j \in Entries : rd_indir(t, y, j) = rd_indir(s, y, j)
  BY <1>1
<1>4. Map(t) = Map(s)
  <2>1. Indirects(s) \subseteq DataZones
    BY SoundIs, IndirectOnce
  <2> QED
    BY <1>1, <1>3, <2>1, SameMap
<1>5. Sound(t, X)
  BY <1>1, <1>4, StaysSound
<1> QED
  BY <1>1, <1>3, <1>5, <1>2 DEF t

\* A single indirect zone is made, and entered in the inode.
LEMMA NewSingle ==
    ASSUME NEW v, NEW X, NEW z \in X, Sound(v, X), NEW f \in Files,
           NEW zone \in 0..(MaxZone - 1), ~IsDirect(zone), IsSingle(zone),
           IndirectOf(v, f, zone) = NO_ZONE
    PROVE  LET t == Cleared(enter_single(v, f, zone, z), z)
           IN Sound(t, X \ {z}) /\ Frame(v, t) /\ PlaceZone(t, f, zone) = NO_ZONE /\ Like(v, t)
<1> DEFINE u == [v EXCEPT !.ino[f].zone[SINGLE] = z]
           t == Cleared(u, z)
<1>1. enter_single(v, f, zone, z) = u
  BY DEF enter_single
<1>2. z \in DataZones /\ z # NO_ZONE /\ z \in Int
  BY SoundIs, MfsFileAssumption DEF Exact, DataZones, NO_ZONE
<1>3. SINGLE \in Tops /\ Volume(v) /\ v.ino[f].zone[SINGLE] = NO_ZONE
  BY TopIndices, SoundIs DEF IndirectOf
<1>4. /\ Volume(u) /\ u.ino[f].zone[SINGLE] = z /\ Frame(v, u)
      /\ \A g \in Files, j \in Tops : g # f \/ j # SINGLE => u.ino[g].zone[j] = v.ino[g].zone[j]
      /\ u.scale = v.scale /\ u.bits = v.bits /\ u.zsearch = v.zsearch /\ u.blk = v.blk
  BY <1>2, <1>3, TopPut, SMTT(60)
<1> HIDE DEF u
<1>5. /\ Volume(t) /\ Blank(t, z) /\ Frame(u, t)
      /\ \A y \in DataZones, j \in Entries : y # z => rd_indir(t, y, j) = rd_indir(u, y, j)
      /\ t.scale = u.scale /\ t.bits = u.bits /\ t.zsearch = u.zsearch /\ t.ino = u.ino
      /\ SameBut(u, t, z)
  BY <1>2, <1>4, ClearedIs
<1> HIDE DEF t
<1>6. TopSet(v, t, f, SINGLE, z)
  BY <1>4, <1>5 DEF TopSet
<1>7. SameEntries(v, t)
  <2>1. Indirects(v) \subseteq DataZones /\ Indirects(v) \cap X = {}
    BY SoundIs, IndirectOnce
  <2>2. \A y, j : rd_indir(u, y, j) = rd_indir(v, y, j)
    BY <1>4 DEF rd_indir, ZoneBlocks
  <2> QED
    BY <1>5, <2>1, <2>2 DEF SameEntries
<1>8. Linked(Map(v), Map(t), <<"ino", f, SINGLE>>, z)
  BY <1>2, <1>3, <1>5, <1>6, <1>7, LinkSingle
<1>9. Sound(t, X \ {z})
  BY <1>4, <1>5, <1>8, EnteredSound
<1>10. PlaceZone(t, f, zone) = NO_ZONE
  <2>1. IndirectOf(t, f, zone) = z
    BY <1>4, <1>5 DEF IndirectOf
  <2> QED
    BY <1>5, <2>1, IndexInRange DEF PlaceZone, Blank
<1>11. Like(v, t)
  <2>1. \A y \in DataZones : y \notin Indirects(v) /\ y # z => SameZone(v, t, y)
    BY <1>4, <1>5 DEF SameBut, SameZone, ZoneBlocks
  <2>2. \A g \in Files, k \in 0..(MaxZone - 1) : Leaf(t, g, k) # <<"ino", f, SINGLE>>
    BY <1>9, NoLeaf
  <2> QED
    BY <1>8, <2>1, <2>2, LinkLike DEF Like
<1> QED
  BY <1>1, <1>4, <1>5, <1>9, <1>10, <1>11 DEF Frame, t

\* A single indirect zone is made, and entered in the double indirect one.
LEMMA NewInner ==
    ASSUME NEW v, NEW X, NEW z \in X, Sound(v, X), NEW f \in Files,
           NEW zone \in 0..(MaxZone - 1), ~IsDirect(zone), ~IsSingle(zone),
           v.ino[f].zone[DOUBLE] # NO_ZONE, IndirectOf(v, f, zone) = NO_ZONE
    PROVE  LET t == Cleared(enter_single(v, f, zone, z), z)
           IN Sound(t, X \ {z}) /\ Frame(v, t) /\ PlaceZone(t, f, zone) = NO_ZONE /\ Like(v, t)
<1> DEFINE d == v.ino[f].zone[DOUBLE]
           i == Double(zone)
           u == wr_indir(v, d, i, z)
           t == Cleared(u, z)
<1>1. enter_single(v, f, zone, z) = u
  BY DEF enter_single
<1>2. z \in DataZones /\ z # NO_ZONE /\ z \in Int
  BY SoundIs, MfsFileAssumption DEF Exact, DataZones, NO_ZONE
<1>3. /\ d \in Doubles(v) /\ d \in DataZones /\ d # z
      /\ i \in Entries /\ Volume(v) /\ rd_indir(v, d, i) = NO_ZONE
  BY DoubleIs, IndexInRange, SoundIs DEF IndirectOf
<1> HIDE DEF d, i
<1>4. /\ Volume(u) /\ rd_indir(u, d, i) = z /\ Frame(v, u)
      /\ \A y \in DataZones, j \in Entries :
           y # d \/ j # i => rd_indir(u, y, j) = rd_indir(v, y, j)
      /\ u.scale = v.scale /\ u.bits = v.bits /\ u.zsearch = v.zsearch /\ u.ino = v.ino
      /\ SameBut(v, u, d)
  BY <1>2, <1>3, EntryPut
<1> HIDE DEF u
<1>5. /\ Volume(t) /\ Blank(t, z) /\ Frame(u, t)
      /\ \A y \in DataZones, j \in Entries : y # z => rd_indir(t, y, j) = rd_indir(u, y, j)
      /\ t.scale = u.scale /\ t.bits = u.bits /\ t.zsearch = u.zsearch /\ t.ino = u.ino
      /\ SameBut(u, t, z)
  BY <1>2, <1>4, ClearedIs
<1> HIDE DEF t
<1>6. EntrySet(v, t, d, i, z)
  <2>1. Indirects(v) \subseteq DataZones /\ Indirects(v) \cap X = {}
    BY SoundIs, IndirectOnce
  <2>2. rd_indir(t, d, i) = z
    BY <1>3, <1>4, <1>5
  <2>3. ASSUME NEW y \in Indirects(v), NEW j \in Entries, y # d \/ j # i
        PROVE  rd_indir(t, y, j) = rd_indir(v, y, j)
    BY <1>4, <1>5, <2>1, <2>3
  <2> QED
    BY <2>2, <2>3 DEF EntrySet
<1>7. SameTops(v, t)
  BY <1>4, <1>5 DEF SameTops
<1>8. Linked(Map(v), Map(t), <<"blk", d, i>>, z)
  BY <1>2, <1>3, <1>5, <1>6, <1>7, LinkInner
<1>9. Sound(t, X \ {z})
  BY <1>4, <1>5, <1>8, EnteredSound
<1>10. PlaceZone(t, f, zone) = NO_ZONE
  <2>1. t.ino[f].zone[DOUBLE] = d
    BY <1>4, <1>5 DEF d
  <2>2. rd_indir(t, d, i) = z /\ d # NO_ZONE
    BY <1>3, <1>4, <1>5 DEF d
  <2>3. IndirectOf(t, f, zone) = z
    BY <2>1, <2>2 DEF IndirectOf, i
  <2> QED
    BY <1>5, <2>3, IndexInRange DEF PlaceZone, Blank
<1>11. Like(v, t)
  <2>1. \A y \in DataZones : y \notin Indirects(v) /\ y # z => SameZone(v, t, y)
    <3>1. d \in Indirects(v)
      BY <1>3 DEF Indirects
    <3> QED
      BY <1>4, <1>5, <3>1 DEF SameBut, SameZone, ZoneBlocks
  <2>2. \A g \in Files, k \in 0..(MaxZone - 1) : Leaf(t, g, k) # <<"blk", d, i>>
    <3>1. d \in Doubles(t)
      <4>1. t.ino[f].zone[DOUBLE] = d
        BY <1>4, <1>5 DEF d
      <4>2. d # NO_ZONE
        BY DEF d
      <4> QED
        BY <4>1, <4>2 DEF Doubles
    <3> QED
      BY <1>9, <3>1, NoLeaf
  <2> QED
    BY <1>8, <2>1, <2>2, LinkLike DEF Like
<1> QED
  BY <1>1, <1>4, <1>5, <1>9, <1>10, <1>11 DEF Frame, t

\* No single indirect zone is to be had: the place for one stays empty.
LEMMA NoSingle ==
    ASSUME NEW s, NEW X, Sound(s, X), NEW f \in Files,
           NEW zone \in 0..(MaxZone - 1), ~IsDirect(zone),
           IsSingle(zone) \/ s.ino[f].zone[DOUBLE] # NO_ZONE, IndirectOf(s, f, zone) = NO_ZONE
    PROVE  LET t == enter_single(s, f, zone, NO_ZONE)
           IN Sound(t, X) /\ Frame(s, t) /\ PlaceZone(t, f, zone) = NO_ZONE /\ Like(s, t)
<1> DEFINE t == enter_single(s, f, zone, NO_ZONE)
<1>1. NO_ZONE \in Int
  BY DEF NO_ZONE
<1>2. CASE IsSingle(zone)
  <2>1. t = [s EXCEPT !.ino[f].zone[SINGLE] = NO_ZONE]
    BY <1>2 DEF enter_single
  <2>2. SINGLE \in Tops /\ s.ino[f].zone[SINGLE] = NO_ZONE
    BY <1>2, TopIndices DEF IndirectOf
  <2> HIDE DEF t
  <2>3. Sound(t, X) /\ Frame(s, t) /\ (\A g \in Files : t.ino[g].zone = s.ino[g].zone)
        /\ t.blk = s.blk
    BY <1>1, <2>1, <2>2, SameTop
  <2>4. IndirectOf(t, f, zone) = NO_ZONE
    BY <1>2, <2>2, <2>3 DEF IndirectOf
  <2>5. Like(s, t)
    BY <2>3, LikeWhen DEF Frame
  <2> QED
    BY <2>3, <2>4, <2>5 DEF PlaceZone, t
<1>3. CASE ~IsSingle(zone)
  <2> DEFINE d == s.ino[f].zone[DOUBLE]
             i == Double(zone)
  <2>1. t = wr_indir(s, d, i, NO_ZONE)
    BY <1>3 DEF enter_single
  <2>2. d \in DataZones /\ i \in Entries /\ rd_indir(s, d, i) = NO_ZONE
    BY <1>3, DoubleIs, IndexInRange DEF IndirectOf
  <2> HIDE DEF t, d, i
  <2>3. Sound(t, X) /\ Frame(s, t) /\ t.ino = s.ino /\ t.blk = s.blk /\ t.scale = s.scale
        /\ \A y \in DataZones, j \in Entries : rd_indir(t, y, j) = rd_indir(s, y, j)
    BY <1>1, <2>1, <2>2, SameEntry
  <2>4. IndirectOf(t, f, zone) = NO_ZONE
    BY <1>3, <2>2, <2>3 DEF IndirectOf, d, i
  <2>5. Like(s, t)
    BY <2>3, LikeWhen
  <2> QED
    BY <2>3, <2>4, <2>5 DEF PlaceZone, t
<1> QED
  BY <1>2, <1>3

LEMMA WithSingleSound ==
    ASSUME NEW s, NEW X, Sound(s, X), NEW f \in Files,
           NEW zone \in 0..(MaxZone - 1), ~IsDirect(zone),
           IsSingle(zone) \/ s.ino[f].zone[DOUBLE] # NO_ZONE, PlaceZone(s, f, zone) = NO_ZONE
    PROVE  LET t == with_single(s, f, zone)
           IN Sound(t, X) /\ Frame(s, t) /\ PlaceZone(t, f, zone) = NO_ZONE /\ Like(s, t)
<1>1. CASE IndirectOf(s, f, zone) # NO_ZONE
  BY <1>1, LikeSelf DEF with_single, Frame
<1>2. CASE IndirectOf(s, f, zone) = NO_ZONE
  <2> DEFINE a == alloc_zone(s, Near(s, f))
             z == a.z
             v == a.s
  <2>1. with_single(s, f, zone) =
          IF z = NO_ZONE THEN enter_single(v, f, zone, z) ELSE Cleared(enter_single(v, f, zone, z), z)
    BY <1>2 DEF with_single, EnterSingle
  <2>2. \/ z = NO_ZONE /\ v = s
        \/ /\ z \in DataZones \ X /\ z # NO_ZONE
           /\ Sound(v, X \cup {z}) /\ v.scale = s.scale /\ v.ino = s.ino /\ v.blk = s.blk
    BY AllocSound
  <2> HIDE DEF a
  <2> HIDE DEF z, v
  <2>3. CASE z = NO_ZONE
    <3>1. with_single(s, f, zone) = enter_single(s, f, zone, NO_ZONE)
      BY <2>1, <2>2, <2>3
    <3> QED
      BY <1>2, <3>1, NoSingle
  <2>4. CASE z # NO_ZONE
    <3> DEFINE t == Cleared(enter_single(v, f, zone, z), z)
    <3>1. /\ z \in DataZones \ X
          /\ Sound(v, X \cup {z}) /\ v.scale = s.scale /\ v.ino = s.ino /\ v.blk = s.blk
      BY <2>2, <2>4
    <3>2. IndirectOf(v, f, zone) = NO_ZONE
      BY <1>2, <3>1 DEF IndirectOf, rd_indir, ZoneBlocks
    <3>3. (X \cup {z}) \ {z} = X /\ z \in X \cup {z}
      BY <3>1
    <3>4. IsSingle(zone) \/ v.ino[f].zone[DOUBLE] # NO_ZONE
      BY <3>1
    <3>5. Sound(t, (X \cup {z}) \ {z}) /\ Frame(v, t) /\ PlaceZone(t, f, zone) = NO_ZONE /\ Like(v, t)
      BY <3>1, <3>2, <3>3, <3>4, NewSingle, NewInner
    <3> HIDE DEF t
    <3>6. with_single(s, f, zone) = t
      BY <2>1, <2>4 DEF t
    <3>7. Frame(s, t)
      BY <3>1, <3>5 DEF Frame
    <3>8. Like(s, t)
      <4>1. Like(s, v)
        BY <3>1, LikeWhen
      <4> QED
        BY <3>1, <3>5, <4>1, LikeAlong
    <3> QED
      BY <3>3, <3>5, <3>6, <3>7, <3>8
  <2> QED
    BY <2>3, <2>4
<1> QED
  BY <1>1, <1>2

\* The zone is entered in its single indirect one, if that could be made.
LEMMA EnterIndirectSound ==
    ASSUME NEW s, NEW X, NEW z \in X, Sound(s, X), NEW f \in Files,
           NEW zone \in 0..(MaxZone - 1), ~IsDirect(zone), PlaceZone(s, f, zone) = NO_ZONE
    PROVE  LET w == enter_indirect(s, f, zone, z)
           IN /\ w.r \in {"OK", "ENOSPC"} /\ Frame(s, w.s)
              /\ w.r = "OK" => Sound(w.s, X \ {z}) /\ PlaceZone(w.s, f, zone) = z /\ LikeBut(s, w.s, f, zone)
              /\ w.r # "OK" => Sound(w.s, X) /\ Like(s, w.s)
<1> DEFINE d == IndirectOf(s, f, zone)
           i == Single(zone)
           w == enter_indirect(s, f, zone, z)
           t == wr_indir(s, d, i, z)
<1>1. w = IF d = NO_ZONE THEN [s |-> s, r |-> "ENOSPC"] ELSE [s |-> t, r |-> "OK"]
  BY DEF enter_indirect, enter_zone
<1>2. CASE d = NO_ZONE
  <2>1. w.s = s /\ w.r = "ENOSPC"
    BY <1>1, <1>2
  <2> QED
    BY <2>1, LikeSelf DEF Frame
<1>3. CASE d # NO_ZONE
  <2>1. w.s = t /\ w.r = "OK"
    BY <1>1, <1>3
  <2>2. /\ d \in Singles(s) /\ d \notin Doubles(s) /\ d \in DataZones /\ d \notin X
        /\ i \in Entries /\ Volume(s)
    BY <1>3, IndirectIs, IndexInRange, SoundIs
  <2>3. rd_indir(s, d, i) = NO_ZONE
    BY <1>3 DEF PlaceZone
  <2>4. z \in Int /\ z # NO_ZONE
    BY SoundIs, MfsFileAssumption DEF Exact, DataZones, NO_ZONE
  <2> HIDE DEF i, w
  <2>5. IndirectOf(s, f, zone) = d
    OBVIOUS
  <2> HIDE DEF d
  <2>6. /\ Volume(t) /\ rd_indir(t, d, i) = z /\ Frame(s, t)
        /\ \A y \in DataZones, j \in Entries :
             y # d \/ j # i => rd_indir(t, y, j) = rd_indir(s, y, j)
        /\ t.scale = s.scale /\ t.bits = s.bits /\ t.zsearch = s.zsearch /\ t.ino = s.ino
        /\ SameBut(s, t, d)
    BY <2>2, <2>4, EntryPut
  <2> HIDE DEF t
  <2>7. Indirects(s) \subseteq DataZones
    BY SoundIs, IndirectOnce
  <2>8. EntrySet(s, t, d, i, z) /\ SameTops(s, t)
    BY <2>6, <2>7 DEF EntrySet, SameTops
  <2>9. Linked(Map(s), Map(t), <<"blk", d, i>>, z)
    BY <2>2, <2>3, <2>8, LinkEntry
  <2>10. Sound(t, X \ {z})
    BY <2>6, <2>9, EnteredSound
  <2>11. IndirectOf(t, f, zone) = d
    <3>1. CASE IsSingle(zone)
      BY <2>5, <2>6, <3>1 DEF IndirectOf
    <3>2. CASE ~IsSingle(zone)
      <4>1. s.ino[f].zone[DOUBLE] # NO_ZONE /\ d = rd_indir(s, s.ino[f].zone[DOUBLE], Double(zone))
        BY <1>3, <2>5, <3>2 DEF IndirectOf
      <4>2. s.ino[f].zone[DOUBLE] \in Doubles(s) /\ s.ino[f].zone[DOUBLE] \in DataZones
        BY <4>1, DoubleIs
      <4>3. Double(zone) \in Entries
        BY <3>2, IndexInRange
      <4>4. rd_indir(t, s.ino[f].zone[DOUBLE], Double(zone)) = d
        BY <2>2, <2>6, <4>1, <4>2, <4>3
      <4> QED
        BY <2>6, <3>2, <4>1, <4>4 DEF IndirectOf
    <3> QED
      BY <3>1, <3>2
  <2>12. PlaceZone(t, f, zone) = z
    BY <1>3, <2>6, <2>11 DEF PlaceZone, i
  <2>13. LikeBut(s, t, f, zone)
    <3>1. d \in Indirects(s)
      BY <2>2 DEF Indirects
    <3>2. \A y \in DataZones : y \notin Indirects(s) /\ y # z => SameZone(s, t, y)
      BY <2>6, <3>1 DEF SameBut
    <3>3. Leaf(t, f, zone) = <<"blk", d, i>> /\ <<"blk", d, i>> \in DOMAIN Map(t)
      BY <2>9, <2>11 DEF Leaf, Linked, i
    <3>4. Exact(Map(t), t.bits, X \ {z})
      BY <2>10, SoundIs
    <3>5. ASSUME NEW g \in Files, NEW k \in 0..(MaxZone - 1), g # f \/ k # zone
          PROVE  Leaf(t, g, k) # <<"blk", d, i>>
      BY <3>3, <3>4, <3>5, LeafOnce
    <3> QED
      BY <2>9, <3>2, <3>5, LinkLike DEF LikeBut
  <2> QED
    BY <2>1, <2>6, <2>10, <2>12, <2>13 DEF w
<1> QED
  BY <1>2, <1>3

\* write_map: the zone is entered, or there is no room for an indirect one.
LEMMA WriteMapSound ==
    ASSUME NEW s, NEW X, NEW z \in X, Sound(s, X), NEW f \in Files, NEW pos,
           Zone(s, pos) \in 0..(MaxZone - 1), zone_at(s, f, pos) = NO_ZONE
    PROVE  LET w == write_map(s, f, pos, z)
           IN /\ w.r \in {"OK", "ENOSPC"} /\ Frame(s, w.s)
              /\ w.r = "OK" => /\ Sound(w.s, X \ {z}) /\ zone_at(w.s, f, pos) = z
                                /\ LikeBut(s, w.s, f, Zone(s, pos))
              /\ w.r # "OK" => Sound(w.s, X) /\ Like(s, w.s)
<1> DEFINE zone == Zone(s, pos)
           w == write_map(s, f, pos, z)
<1>1. PlaceZone(s, f, zone) = NO_ZONE
  BY PlaceIs
<1>2. z \in DataZones /\ z \in Int /\ z # NO_ZONE
  BY SoundIs, MfsFileAssumption DEF Exact, DataZones, NO_ZONE
<1> SUFFICES /\ w.r \in {"OK", "ENOSPC"} /\ Frame(s, w.s)
             /\ w.r = "OK" => Sound(w.s, X \ {z}) /\ PlaceZone(w.s, f, zone) = z /\ LikeBut(s, w.s, f, zone)
             /\ w.r # "OK" => Sound(w.s, X) /\ Like(s, w.s)
  <2>1. ASSUME Frame(s, w.s) PROVE zone_at(w.s, f, pos) = PlaceZone(w.s, f, zone)
    <3>1. Zone(w.s, pos) = zone
      BY <2>1 DEF Frame, Zone, ZoneBlocks
    <3> QED
      BY <3>1, PlaceIs
  <2> QED
    BY <2>1
<1>3. CASE IsDirect(zone)
  <2> DEFINE t == [s EXCEPT !.ino[f].zone[zone] = z]
  <2>1. w = [s |-> t, r |-> "OK"]
    BY <1>3 DEF write_map
  <2>2. zone \in Nat /\ zone < DZones /\ zone \in Tops /\ zone # SINGLE /\ zone # DOUBLE
    BY <1>3, TopIndices DEF IsDirect
  <2> HIDE DEF zone, w
  <2>3. /\ Volume(t) /\ t.ino[f].zone[zone] = z /\ Frame(s, t)
        /\ \A g \in Files, j \in Tops : g # f \/ j # zone => t.ino[g].zone[j] = s.ino[g].zone[j]
        /\ t.scale = s.scale /\ t.bits = s.bits /\ t.zsearch = s.zsearch /\ t.blk = s.blk
    BY <1>2, <2>2, SoundIs, TopPut
  <2> HIDE DEF t
  <2>4. TopSet(s, t, f, zone, z)
    BY <2>3 DEF TopSet
  <2>5. SameEntries(s, t)
    BY <2>3 DEF SameEntries, rd_indir, ZoneBlocks
  <2>6. s.ino[f].zone[zone] = NO_ZONE
    BY <1>1, <1>3 DEF PlaceZone
  <2>7. Linked(Map(s), Map(t), <<"ino", f, zone>>, z)
    BY <2>2, <2>4, <2>5, <2>6, LinkDirect
  <2>8. Sound(t, X \ {z})
    BY <2>3, <2>7, EnteredSound
  <2>9. PlaceZone(t, f, zone) = z
    BY <1>3, <2>3 DEF PlaceZone
  <2>10. w.s = t /\ w.r = "OK"
    BY <2>1
  <2>11. LikeBut(s, t, f, zone)
    <3>1. \A y \in DataZones : y \notin Indirects(s) /\ y # z => SameZone(s, t, y)
      BY <2>3 DEF SameZone
    <3>2. ASSUME NEW g \in Files, NEW k \in 0..(MaxZone - 1), g # f \/ k # zone
          PROVE  Leaf(t, g, k) # <<"ino", f, zone>>
      BY <3>2 DEF Leaf
    <3> QED
      BY <2>7, <3>1, <3>2, LinkLike DEF LikeBut
  <2> QED
    BY <2>3, <2>8, <2>9, <2>10, <2>11
<1>4. CASE ~IsDirect(zone)
  <2> DEFINE t == with_double(s, f, zone)
             u == with_single(t, f, zone)
  <2>1. w = write_map_double(t, f, zone, z)
    BY <1>4 DEF write_map
  <2>2. zone \in 0..(MaxZone - 1)
    OBVIOUS
  <2> HIDE DEF zone, w
  <2>3. Sound(t, X) /\ Frame(s, t) /\ PlaceZone(t, f, zone) = NO_ZONE /\ Like(s, t)
    BY <1>1, <1>4, <2>2, WithDoubleSound
  <2> HIDE DEF t
  <2>4. CASE ~IsSingle(zone) /\ t.ino[f].zone[DOUBLE] = NO_ZONE
    <3>1. w = [s |-> t, r |-> "ENOSPC"]
      BY <2>1, <2>4 DEF write_map_double
    <3>2. w.s = t /\ w.r = "ENOSPC"
      BY <3>1
    <3> QED
      BY <2>3, <3>2
  <2>5. CASE IsSingle(zone) \/ t.ino[f].zone[DOUBLE] # NO_ZONE
    <3>1. w = enter_indirect(u, f, zone, z)
      BY <2>1, <2>5 DEF write_map_double
    <3>2. Sound(u, X) /\ Frame(t, u) /\ PlaceZone(u, f, zone) = NO_ZONE /\ Like(t, u)
      BY <1>4, <2>2, <2>3, <2>5, WithSingleSound
    <3> HIDE DEF u
    <3>3. /\ w.r \in {"OK", "ENOSPC"} /\ Frame(u, w.s)
          /\ w.r = "OK" => Sound(w.s, X \ {z}) /\ PlaceZone(w.s, f, zone) = z /\ LikeBut(u, w.s, f, zone)
          /\ w.r # "OK" => Sound(w.s, X) /\ Like(u, w.s)
      BY <1>4, <2>2, <3>1, <3>2, EnterIndirectSound
    <3> HIDE DEF w
    <3>4. Frame(s, w.s)
      BY <2>3, <3>2, <3>3, FrameAlong
    <3>5. Like(s, u) /\ u.scale = s.scale
      BY <2>3, <3>2, LikeAlong DEF Frame
    <3>6. /\ w.r = "OK" => LikeBut(s, w.s, f, zone)
          /\ w.r # "OK" => Like(s, w.s)
      BY <3>3, <3>5, LikeAlong, LikeButAlong
    <3> QED
      BY <3>3, <3>4, <3>6
  <2> QED
    BY <2>4, <2>5
<1> QED
  BY <1>3, <1>4

-----------------------------------------------------------------------------
(* The blocks of files. *)

\* Block b belongs to a zone that holds no entries.
DataBlock(s, b) ==
    \E z \in DataZones \ Indirects(s), i \in 0..(ZoneBlocks(s) - 1) : b = z * ZoneBlocks(s) + i

\* A position that the map has a place for.
Within(s, pos) == pos \in Nat /\ Zone(s, pos) \in 0..(MaxZone - 1)

\* t differs from s in the data of files.
Rewritten(s, t) ==
    /\ Frame(s, t) /\ t.ino = s.ino
    /\ \A f \in Files, zone \in 0..(MaxZone - 1) : PlaceZone(t, f, zone) = PlaceZone(s, f, zone)
    /\ \A b : DataBlock(s, b) => DataBlock(t, b)

LEMMA DataBlockIs ==
    ASSUME NEW s, Volume(s), NEW b, DataBlock(s, b)
    PROVE  b \in 0..(Zones * ZoneBlocks(s) - 1) /\ s.blk[b] \in [Entries -> Int]
<1>1. b \in 0..(Zones * ZoneBlocks(s) - 1)
  <2>1. PICK z \in DataZones, i \in 0..(ZoneBlocks(s) - 1) : b = z * ZoneBlocks(s) + i
    BY DEF DataBlock
  <2> QED
    BY <2>1, VolumeIs, BlockOnDisk
<1> QED
  BY <1>1, VolumeIs

\* The block at a position.
LEMMA BlockIs ==
    ASSUME NEW s, NEW X, Sound(s, X), NEW f \in Files, NEW pos, Within(s, pos)
    PROVE  /\ zone_at(s, f, pos) = NO_ZONE => read_map(s, f, pos) = NO_BLOCK
           /\ zone_at(s, f, pos) # NO_ZONE =>
                /\ zone_at(s, f, pos) \in DataZones \ Indirects(s)
                /\ read_map(s, f, pos)
                     = zone_at(s, f, pos) * ZoneBlocks(s) + ((pos \div U) % ZoneBlocks(s))
                /\ (pos \div U) % ZoneBlocks(s) \in 0..(ZoneBlocks(s) - 1)
                /\ read_map(s, f, pos) # NO_BLOCK /\ DataBlock(s, read_map(s, f, pos))
<1> DEFINE z == zone_at(s, f, pos)
           i == (pos \div U) % ZoneBlocks(s)
           b == read_map(s, f, pos)
<1>1. b = IF z = NO_ZONE THEN NO_BLOCK ELSE z * ZoneBlocks(s) + i
  BY DEF read_map
<1>2. z # NO_ZONE => z \in DataZones \ Indirects(s)
  BY PlaceIs, PlaceData DEF Within
<1>3. i \in 0..(ZoneBlocks(s) - 1)
  <2>1. ZoneBlocks(s) \in Nat \ {0} /\ pos \div U \in Nat
    BY SoundIs, BlocksPositive, DivMod, MfsFileAssumption DEF Within
  <2> QED
    BY <2>1, DivMod
<1> HIDE DEF z, i, b
<1>4. CASE z = NO_ZONE
  BY <1>1, <1>4 DEF z, b
<1>5. CASE z # NO_ZONE
  <2>1. b = z * ZoneBlocks(s) + i /\ z \in DataZones \ Indirects(s)
    BY <1>1, <1>2, <1>5
  <2>2. z * ZoneBlocks(s) \in Nat \ {0} /\ ZoneBlocks(s) \in Nat \ {0}
    BY <2>1, SoundIs, ZoneStart
  <2>3. b # NO_BLOCK
    BY <1>3, <2>1, <2>2 DEF NO_BLOCK
  <2>4. DataBlock(s, b)
    BY <1>3, <2>1 DEF DataBlock
  <2> QED
    BY <1>3, <1>5, <2>1, <2>3, <2>4 DEF z, i, b
<1> QED
  BY <1>4, <1>5

\* Blocks of files are written.
LEMMA DataWriteSound ==
    ASSUME NEW s, NEW X, Sound(s, X), NEW blk \in [0..(Zones * ZoneBlocks(s) - 1) -> [Entries -> Int]],
           \A b \in 0..(Zones * ZoneBlocks(s) - 1) : ~DataBlock(s, b) => blk[b] = s.blk[b]
    PROVE  LET t == [s EXCEPT !.blk = blk]
           IN Sound(t, X) /\ Rewritten(s, t)
<1> DEFINE t == [s EXCEPT !.blk = blk]
<1>1. /\ Volume(t) /\ t.blk = blk /\ Frame(s, t)
      /\ t.scale = s.scale /\ t.bits = s.bits /\ t.zsearch = s.zsearch /\ t.ino = s.ino
  BY SoundIs, BlkPut
<1> HIDE DEF t
<1>2. ZoneBlocks(t) = ZoneBlocks(s)
  BY <1>1 DEF ZoneBlocks
<1>3. Indirects(s) \subseteq DataZones
  BY SoundIs, IndirectOnce
<1>4. ASSUME NEW y \in Indirects(s), NEW j PROVE rd_indir(t, y, j) = rd_indir(s, y, j)
  <2>1. y \in DataZones /\ s.scale \in Scales
    BY <1>3, SoundIs
  <2>2. y * ZoneBlocks(s) \in 0..(Zones * ZoneBlocks(s) - 1)
    BY <2>1, FirstBlockOnDisk
  <2>3. ASSUME DataBlock(s, y * ZoneBlocks(s)) PROVE FALSE
    <3>1. PICK z \in DataZones \ Indirects(s), i \in 0..(ZoneBlocks(s) - 1) :
             y * ZoneBlocks(s) = z * ZoneBlocks(s) + i
      BY <2>3 DEF DataBlock
    <3>2. z \in DataZones /\ y # z
      OBVIOUS
    <3> QED
      BY <2>1, <3>1, <3>2, ZonesApart
  <2>4. blk[y * ZoneBlocks(s)] = s.blk[y * ZoneBlocks(s)]
    BY <2>2, <2>3
  <2> QED
    BY <1>1, <1>2, <2>4 DEF rd_indir
<1>5. Map(t) = Map(s) /\ Doubles(t) = Doubles(s) /\ Singles(t) = Singles(s)
  BY <1>1, <1>4, SameMap
<1>6. Sound(t, X)
  BY <1>1, <1>5, StaysSound
<1>7. ASSUME NEW b, DataBlock(s, b) PROVE DataBlock(t, b)
  <2>1. Indirects(t) = Indirects(s)
    BY <1>5 DEF Indirects
  <2> QED
    BY <1>2, <1>7, <2>1 DEF DataBlock
<1>8. ASSUME NEW f \in Files, NEW zone \in 0..(MaxZone - 1)
      PROVE  PlaceZone(t, f, zone) = PlaceZone(s, f, zone)
  <2>1. CASE IsDirect(zone)
    BY <1>1, <2>1 DEF PlaceZone
  <2>2. CASE ~IsDirect(zone)
    <3>1. IndirectOf(t, f, zone) = IndirectOf(s, f, zone)
      <4>1. s.ino[f].zone[DOUBLE] # NO_ZONE => s.ino[f].zone[DOUBLE] \in Indirects(s)
        BY DoubleIs DEF Indirects
      <4> QED
        BY <1>1, <1>4, <4>1 DEF IndirectOf
    <3>2. IndirectOf(s, f, zone) # NO_ZONE => IndirectOf(s, f, zone) \in Indirects(s)
      BY <2>2, IndirectIs DEF Indirects
    <3> QED
      BY <1>4, <2>2, <3>1, <3>2 DEF PlaceZone
  <2> QED
    BY <2>1, <2>2
<1> QED
  BY <1>1, <1>6, <1>7, <1>8 DEF Rewritten, t

\* One block is written.
LEMMA BlockWriteSound ==
    ASSUME NEW s, NEW X, Sound(s, X), NEW b, DataBlock(s, b), NEW c \in [Entries -> Int]
    PROVE  LET t == [s EXCEPT !.blk[b] = c]
           IN Sound(t, X) /\ Rewritten(s, t)
<1> DEFINE blk == [s.blk EXCEPT ![b] = c]
           t == [s EXCEPT !.blk[b] = c]
           u == [s EXCEPT !.blk = blk]
<1>1. t = u
  OBVIOUS
<1>2. /\ blk \in [0..(Zones * ZoneBlocks(s) - 1) -> [Entries -> Int]]
      /\ \A a \in 0..(Zones * ZoneBlocks(s) - 1) : ~DataBlock(s, a) => blk[a] = s.blk[a]
  BY SoundIs, VolumeIs
<1> HIDE DEF blk, t
<1>3. Sound(u, X) /\ Rewritten(s, u)
  BY <1>2, DataWriteSound
<1> QED
  BY <1>1, <1>3 DEF t

LEMMA ZeroSound ==
    ASSUME NEW s, NEW X, Sound(s, X), NEW b, DataBlock(s, b)
    PROVE  Sound(zero_block(s, b), X) /\ Rewritten(s, zero_block(s, b))
<1>1. Zeros \in [Entries -> Int]
  BY DEF Zeros, Entries
<1> QED
  BY <1>1, BlockWriteSound DEF zero_block

LEMMA CopiedSound ==
    ASSUME NEW s, NEW X, Sound(s, X), NEW b, DataBlock(s, b), NEW off, NEW n, NEW v \in Int
    PROVE  Sound(copied(s, b, off, n, v), X) /\ Rewritten(s, copied(s, b, off, n, v))
<1> DEFINE c == [i \in DOMAIN s.blk[b] |-> IF i \in off..(off + n - 1) THEN v ELSE s.blk[b][i]]
<1>1. c \in [Entries -> Int]
  BY SoundIs, DataBlockIs
<1>2. copied(s, b, off, n, v) = [s EXCEPT !.blk[b] = c]
  BY DEF copied
<1> HIDE DEF c
<1> QED
  BY <1>1, <1>2, BlockWriteSound

LEMMA GarbageSound ==
    ASSUME NEW s, NEW X, Sound(s, X), NEW b, DataBlock(s, b)
    PROVE  Sound(garbage(s, b), X) /\ Rewritten(s, garbage(s, b))
<1> DEFINE c == [i \in DOMAIN s.blk[b] |-> MaxCalls + 1]
<1>1. c \in [Entries -> Int]
  BY SoundIs, DataBlockIs, RequestsAssumption
<1>2. garbage(s, b) = [s EXCEPT !.blk[b] = c]
  BY DEF garbage
<1> HIDE DEF c
<1> QED
  BY <1>1, <1>2, BlockWriteSound

-----------------------------------------------------------------------------
(* Clearing, and the block for a position. *)

LEMMA ZoneIs ==
    ASSUME NEW s, s.scale \in Scales
    PROVE  /\ ZoneSize(s) \in Nat \ {0} /\ ZoneSize(s) = U * ZoneBlocks(s)
           /\ \A pos \in Nat : Zone(s, pos) = pos \div ZoneSize(s)
<1>1. U \in Nat \ {0} /\ ZoneBlocks(s) \in Nat \ {0}
  BY BlocksPositive, MfsFileAssumption
<1>2. U * ZoneBlocks(s) \in Nat \ {0}
  BY <1>1, Times
<1>3. \A pos \in Nat : (pos \div U) \div ZoneBlocks(s) = pos \div (U * ZoneBlocks(s))
  BY <1>1, DivTwice
<1> QED
  BY <1>2, <1>3 DEF ZoneSize, Zone

LEMMA RewrittenAlong ==
    ASSUME NEW s, NEW t, NEW u, Rewritten(s, t), Rewritten(t, u) PROVE Rewritten(s, u)
BY FrameAlong DEF Rewritten

\* The blocks that clear_zone takes: the rest of the zone of block lo.
LEMMA RestOfZone ==
    ASSUME NEW z \in Nat, NEW B \in Nat \ {0}, NEW i \in 0..(B - 1), NEW b \in Int,
           b \in (z * B + i)..((((z * B + i) \div B) + 1) * B - 1)
    PROVE  b - z * B \in 0..(B - 1) /\ b = z * B + (b - z * B)
<1>1. z * B \in Nat /\ z * B + i \in Nat /\ z * B + i = B * z + i /\ z * B + B = (z + 1) * B
  BY Times
<1>2. (z * B + i) \div B = z
  BY <1>1, Quotient
<1>3. b =< z * B + B - 1 /\ b >= z * B + i
  BY <1>1, <1>2
<1> QED
  BY <1>1, <1>3

LEMMA ClearZoneSound ==
    ASSUME NEW s, NEW X, Sound(s, X), NEW f \in Files, NEW pos, Within(s, pos), NEW whole \in BOOLEAN
    PROVE  Sound(clear_zone(s, f, pos, whole), X) /\ Rewritten(s, clear_zone(s, f, pos, whole))
<1> DEFINE zs == ZoneSize(s)
           B == ZoneBlocks(s)
           p == IF whole THEN (pos \div zs) * zs ELSE pos
           next == p + U - 1
           blo == read_map(s, f, next)
           bhi == ((blo \div B) + 1) * B - 1
           blk == [b \in DOMAIN s.blk |-> IF b \in blo..bhi THEN Zeros ELSE s.blk[b]]
           t == [s EXCEPT !.blk = blk]
<1>1. clear_zone(s, f, pos, whole) =
        IF s.scale = 0 \/ next \div zs # p \div zs \/ blo = NO_BLOCK THEN s ELSE t
  BY DEF clear_zone
<1>2. CASE s.scale = 0 \/ next \div zs # p \div zs \/ blo = NO_BLOCK
  BY <1>1, <1>2 DEF Rewritten, Frame
<1>3. CASE ~(s.scale = 0 \/ next \div zs # p \div zs \/ blo = NO_BLOCK)
  <2>1. /\ zs \in Nat \ {0} /\ B \in Nat \ {0} /\ U \in Nat \ {0} /\ pos \in Nat
        /\ \A q \in Nat : Zone(s, q) = q \div zs
    BY SoundIs, ZoneIs, BlocksPositive, MfsFileAssumption DEF Within
  <2>2. p \in Nat /\ p \div zs = pos \div zs
    <3> HIDE DEF zs
    <3>1. pos \div zs \in Nat
      BY <2>1, DivMod
    <3>2. (pos \div zs) * zs \in Nat
      BY <2>1, <3>1, Times
    <3>3. ((pos \div zs) * zs) \div zs = pos \div zs
      BY <2>1, <3>1
    <3> QED
      BY <2>1, <3>2, <3>3
  <2> HIDE DEF zs, p
  <2>3. next \in Nat /\ next \div zs = pos \div zs
    BY <1>3, <2>1, <2>2
  <2> HIDE DEF next
  <2>4. Within(s, next)
    BY <2>1, <2>3 DEF Within
  <2>5. zone_at(s, f, next) # NO_ZONE
    BY <1>3, <2>4, BlockIs
  <2> DEFINE z == zone_at(s, f, next)
             i == (next \div U) % B
  <2>6. z \in DataZones \ Indirects(s) /\ blo = z * B + i /\ i \in 0..(B - 1)
    BY <2>4, <2>5, BlockIs
  <2> HIDE DEF i, z, blo
  <2>7. z \in Nat
    BY <2>6, SoundIs, ZoneStart
  <2>8. ASSUME NEW b \in DOMAIN s.blk, b \in blo..bhi PROVE DataBlock(s, b)
    <3>1. b \in Int
      BY <2>8, SoundIs, VolumeIs
    <3>2. b - z * B \in 0..(B - 1) /\ b = z * B + (b - z * B)
      <4> HIDE DEF B
      <4>1. b \in (z * B + i)..((((z * B + i) \div B) + 1) * B - 1)
        BY <2>6, <2>8 DEF B
      <4> QED
        BY <2>1, <2>6, <2>7, <3>1, <4>1, RestOfZone
    <3> QED
      BY <2>6, <3>2 DEF DataBlock
  <2> HIDE DEF bhi
  <2>9. DOMAIN s.blk = 0..(Zones * ZoneBlocks(s) - 1)
        /\ s.blk \in [0..(Zones * ZoneBlocks(s) - 1) -> [Entries -> Int]]
    BY SoundIs, VolumeIs
  <2>10. Zeros \in [Entries -> Int]
    BY DEF Zeros, Entries
  <2>11. /\ blk \in [0..(Zones * ZoneBlocks(s) - 1) -> [Entries -> Int]]
         /\ \A b \in 0..(Zones * ZoneBlocks(s) - 1) : ~DataBlock(s, b) => blk[b] = s.blk[b]
    BY <2>8, <2>9, <2>10
  <2> HIDE DEF blk
  <2>12. Sound(t, X) /\ Rewritten(s, t)
    BY <2>11, DataWriteSound
  <2>13. clear_zone(s, f, pos, whole) = t
    BY <1>1, <1>3
  <2> QED
    BY <2>12, <2>13
<1> QED
  BY <1>2, <1>3

\* Positions of one zone are in blocks of one zone.
LEMMA RangeBlock ==
    ASSUME NEW z \in Nat, NEW B \in Nat \ {0}, NEW p \in Nat, NEW q \in Nat, p \div B = q \div B
    PROVE  (z * B + (p % B)) + q - p = z * B + (q % B)
<1>1. p = (B * (p \div B)) + (p % B) /\ q = (B * (q \div B)) + (q % B)
  BY DivMod
<1>2. p \div B \in Nat /\ p % B \in Nat /\ q % B \in Nat
  BY DivMod
<1>3. B * (p \div B) \in Nat /\ z * B \in Nat
  BY <1>2, Times
<1> DEFINE x == B * (p \div B)
           y == z * B
           a == p % B
           b == q % B
<1>4. p = x + a /\ q = x + b /\ x \in Nat /\ y \in Nat /\ a \in Nat /\ b \in Nat
  BY <1>1, <1>2, <1>3
<1> HIDE DEF x, y, a, b
<1>5. (y + a) + q - p = y + b
  BY <1>4
<1> QED
  BY <1>5 DEF y, a, b

LEMMA RangeSound ==
    ASSUME NEW s, NEW X, Sound(s, X), NEW f \in Files, NEW pos, Within(s, pos), NEW len \in Nat,
           \A k \in 0..(len - 1) : Zone(s, pos + k) = Zone(s, pos)
    PROVE  Sound(zerozone_range(s, f, pos, len), X) /\ Rewritten(s, zerozone_range(s, f, pos, len))
<1> DEFINE b == read_map(s, f, pos)
           B == ZoneBlocks(s)
           blk == [c \in DOMAIN s.blk |-> [i \in 0..(U - 1) |->
                     IF \E k \in 0..(len - 1) : range_block(b, pos, k) = c /\ (pos + k) % U = i THEN 0
                     ELSE s.blk[c][i]]]
           t == [s EXCEPT !.blk = blk]
<1>1. zerozone_range(s, f, pos, len) = IF len = 0 \/ b = NO_BLOCK THEN s ELSE t
  BY DEF zerozone_range
<1>2. CASE len = 0 \/ b = NO_BLOCK
  BY <1>1, <1>2 DEF Rewritten, Frame
<1>3. CASE ~(len = 0 \/ b = NO_BLOCK)
  <2> DEFINE z == zone_at(s, f, pos)
  <2>1. z # NO_ZONE
    BY <1>3, BlockIs
  <2>2. z \in DataZones \ Indirects(s) /\ b = z * B + ((pos \div U) % B)
    BY <2>1, BlockIs
  <2>3. z \in Nat /\ B \in Nat \ {0} /\ U \in Nat \ {0} /\ pos \in Nat
    BY <2>2, SoundIs, ZoneStart, MfsFileAssumption DEF Within
  <2> HIDE DEF z, b
  <2>4. ASSUME NEW k \in 0..(len - 1) PROVE DataBlock(s, range_block(b, pos, k))
    <3> DEFINE p == pos \div U
               q == (pos + k) \div U
    <3>1. p \in Nat /\ q \in Nat
      <4>1. k \in Nat /\ pos + k \in Nat
        BY <2>3
      <4> QED
        BY <2>3, <4>1, DivMod
    <3>2. p \div B = q \div B
      BY DEF Zone
    <3>3. range_block(b, pos, k) = b + q - p /\ b = z * B + (p % B)
      BY <2>2 DEF range_block
    <3> HIDE DEF B, p, q
    <3>4. q % B \in 0..(B - 1)
      BY <2>3, <3>1, DivMod
    <3>5. (z * B + (p % B)) + q - p = z * B + (q % B)
      BY <2>3, <3>1, <3>2, RangeBlock
    <3>6. range_block(b, pos, k) = z * B + (q % B)
      BY <3>3, <3>5
    <3> QED
      BY <2>2, <3>4, <3>6 DEF DataBlock, B
  <2>5. DOMAIN s.blk = 0..(Zones * ZoneBlocks(s) - 1)
        /\ s.blk \in [0..(Zones * ZoneBlocks(s) - 1) -> [Entries -> Int]]
    BY SoundIs, VolumeIs
  <2>6. ASSUME NEW c \in 0..(Zones * ZoneBlocks(s) - 1)
        PROVE  blk[c] \in [Entries -> Int] /\ (~DataBlock(s, c) => blk[c] = s.blk[c])
    <3>1. blk[c] = [i \in Entries |->
                     IF \E k \in 0..(len - 1) : range_block(b, pos, k) = c /\ (pos + k) % U = i THEN 0
                     ELSE s.blk[c][i]]
      BY <2>5 DEF Entries
    <3>2. s.blk[c] \in [Entries -> Int]
      BY <2>5
    <3> HIDE DEF blk
    <3>3. blk[c] \in [Entries -> Int]
      BY <3>1, <3>2
    <3>4. ASSUME ~DataBlock(s, c) PROVE blk[c] = s.blk[c]
      <4>1. \A k \in 0..(len - 1) : range_block(b, pos, k) # c
        BY <2>4, <3>4
      <4>2. blk[c] = [i \in Entries |-> s.blk[c][i]]
        BY <3>1, <4>1
      <4> QED
        BY <3>2, <4>2
    <3> QED
      BY <3>3, <3>4
  <2>7. blk \in [0..(Zones * ZoneBlocks(s) - 1) -> [Entries -> Int]]
    <3>1. blk = [c \in 0..(Zones * ZoneBlocks(s) - 1) |-> blk[c]]
      BY <2>5
    <3> HIDE DEF blk
    <3> QED
      BY <2>6, <3>1
  <2> HIDE DEF blk
  <2>8. Sound(t, X) /\ Rewritten(s, t)
    BY <2>6, <2>7, DataWriteSound
  <2>9. zerozone_range(s, f, pos, len) = t
    BY <1>1, <1>3
  <2> QED
    BY <2>8, <2>9
<1> QED
  BY <1>2, <1>3

\* The field zsearch of an inode is written.
LEMMA SearchPutSound ==
    ASSUME NEW s, NEW X, Sound(s, X), NEW f \in Files, NEW z \in Int
    PROVE  LET t == [s EXCEPT !.ino[f].zsearch = z]
           IN /\ Sound(t, X) /\ Frame(s, t) /\ Like(s, t)
              /\ \A zone : PlaceZone(t, f, zone) = PlaceZone(s, f, zone)
<1> DEFINE inode == [s.ino[f] EXCEPT !.zsearch = z]
           u == [s EXCEPT !.ino[f] = inode]
           t == [s EXCEPT !.ino[f].zsearch = z]
<1>1. t = u
  OBVIOUS
<1>2. inode \in Inode(s) /\ inode.zone = s.ino[f].zone /\ inode.size = s.ino[f].size
  <2> DEFINE n == s.ino[f]
  <2>1. n = [zone |-> n.zone, size |-> n.size, zsearch |-> n.zsearch]
        /\ n.zone \in [Tops -> Int] /\ n.size \in 0..MaxSize(s)
    BY SoundIs, InodeIs
  <2> HIDE DEF n
  <2>2. [n EXCEPT !.zsearch = z] = [zone |-> n.zone, size |-> n.size, zsearch |-> z]
    BY <2>1
  <2>3. inode = [n EXCEPT !.zsearch = z]
    BY DEF n
  <2> HIDE DEF inode
  <2>4. inode = [zone |-> n.zone, size |-> n.size, zsearch |-> z]
    BY <2>2, <2>3
  <2> QED
    BY <2>1, <2>4 DEF Inode, n
<1> HIDE DEF inode, t
<1>3. /\ Volume(u) /\ u.ino[f] = inode /\ \A g \in Files : g # f => u.ino[g] = s.ino[g]
      /\ u.scale = s.scale /\ u.bits = s.bits /\ u.zsearch = s.zsearch /\ u.blk = s.blk
  BY <1>2, SoundIs, InoPut
<1> HIDE DEF u
<1>4. \A g \in Files : u.ino[g].zone = s.ino[g].zone /\ u.ino[g].size = s.ino[g].size
  BY <1>2, <1>3
<1>5. \A y, j : rd_indir(u, y, j) = rd_indir(s, y, j)
  BY <1>3 DEF rd_indir, ZoneBlocks
<1>6. Map(u) = Map(s)
  BY <1>4, <1>5, SameMap
<1>7. Sound(u, X)
  BY <1>3, <1>6, StaysSound
<1>8. \A zone : PlaceZone(u, f, zone) = PlaceZone(s, f, zone)
  <2> TAKE zone
  <2>1. IndirectOf(u, f, zone) = IndirectOf(s, f, zone)
    BY <1>4, <1>5 DEF IndirectOf
  <2> QED
    BY <1>4, <1>5, <2>1 DEF PlaceZone
<1>9. Like(s, u)
  BY <1>3, <1>4, LikeWhen
<1> QED
  BY <1>1, <1>3, <1>4, <1>7, <1>8, <1>9 DEF Frame, t

\* The size of a file is set.
LEMMA SizePutSound ==
    ASSUME NEW s, NEW X, Sound(s, X), NEW f \in Files, NEW n \in 0..MaxSize(s)
    PROVE  LET t == [s EXCEPT !.ino[f].size = n]
           IN /\ Sound(t, X) /\ Like(s, t) /\ t.scale = s.scale
              /\ t.ino[f].size = n /\ (\A g \in Files : g # f => t.ino[g].size = s.ino[g].size)
<1> DEFINE inode == [s.ino[f] EXCEPT !.size = n]
           u == [s EXCEPT !.ino[f] = inode]
           t == [s EXCEPT !.ino[f].size = n]
<1>1. t = u
  OBVIOUS
<1>2. inode \in Inode(s) /\ inode.zone = s.ino[f].zone /\ inode.size = n
  <2> DEFINE o == s.ino[f]
  <2>1. o = [zone |-> o.zone, size |-> o.size, zsearch |-> o.zsearch]
        /\ o.zone \in [Tops -> Int] /\ o.zsearch \in Int
    BY SoundIs, InodeIs
  <2> HIDE DEF o
  <2>2. [o EXCEPT !.size = n] = [zone |-> o.zone, size |-> n, zsearch |-> o.zsearch]
    BY <2>1
  <2>3. inode = [o EXCEPT !.size = n]
    BY DEF o
  <2> HIDE DEF inode
  <2>4. inode = [zone |-> o.zone, size |-> n, zsearch |-> o.zsearch]
    BY <2>2, <2>3
  <2> QED
    BY <2>1, <2>4 DEF Inode, o
<1> HIDE DEF inode, t
<1>3. /\ Volume(u) /\ u.ino[f] = inode /\ \A g \in Files : g # f => u.ino[g] = s.ino[g]
      /\ u.scale = s.scale /\ u.bits = s.bits /\ u.zsearch = s.zsearch /\ u.blk = s.blk
  BY <1>2, SoundIs, InoPut
<1> HIDE DEF u
<1>4. \A g \in Files : u.ino[g].zone = s.ino[g].zone
  BY <1>2, <1>3
<1>5. \A y \in Indirects(s), j \in Entries : rd_indir(u, y, j) = rd_indir(s, y, j)
  BY <1>3 DEF rd_indir, ZoneBlocks
<1>6. Map(u) = Map(s)
  BY <1>4, <1>5, SameMap
<1>7. Sound(u, X)
  BY <1>3, <1>6, StaysSound
<1>8. Like(s, u)
  BY <1>3, <1>4, LikeWhen
<1>9. u.ino[f].size = n /\ \A g \in Files : g # f => u.ino[g].size = s.ino[g].size
  BY <1>2, <1>3
<1> QED
  BY <1>1, <1>3, <1>7, <1>8, <1>9 DEF t

LEMMA WithinFrame ==
    ASSUME NEW s, NEW t, NEW pos, Within(s, pos), t.scale = s.scale
    PROVE  Within(t, pos) /\ Zone(t, pos) = Zone(s, pos)
BY DEF Within, Zone, ZoneBlocks

\* The zone at a position stays when data are written.
LEMMA RewrittenZone ==
    ASSUME NEW s, NEW t, NEW f \in Files, NEW pos, Within(s, pos), Rewritten(s, t)
    PROVE  zone_at(t, f, pos) = zone_at(s, f, pos) /\ Within(t, pos)
<1>1. Within(t, pos) /\ Zone(t, pos) = Zone(s, pos)
  BY WithinFrame DEF Rewritten, Frame
<1> QED
  BY <1>1, PlaceIs DEF Within, Rewritten

\* The block of a zone that is in the map.
LEMMA FreshSound ==
    ASSUME NEW s, Sound(s, lost), NEW f \in Files, NEW pos, Within(s, pos), zone_at(s, f, pos) # NO_ZONE
    PROVE  LET n == fresh_block(s, f, pos)
           IN Sound(n.s, lost) /\ Frame(s, n.s) /\ n.r = "OK" /\ DataBlock(n.s, n.b)
<1> DEFINE b == read_map(s, f, pos)
           n == fresh_block(s, f, pos)
<1>1. DataBlock(s, b)
  BY BlockIs
<1> HIDE DEF b
<1>2. n = [s |-> zero_block(s, b), b |-> b, r |-> "OK"]
  BY DEF fresh_block, b
<1> HIDE DEF n
<1>3. n.s = zero_block(s, b) /\ n.b = b /\ n.r = "OK"
  BY <1>2
<1>4. Sound(zero_block(s, b), lost) /\ Rewritten(s, zero_block(s, b))
  BY <1>1, ZeroSound
<1>5. Frame(s, zero_block(s, b)) /\ DataBlock(zero_block(s, b), b)
  BY <1>1, <1>4 DEF Rewritten
<1> QED
  BY <1>3, <1>4, <1>5 DEF n

\* new_block: a block of the file, or none and nothing taken.
LEMMA NewBlockSound ==
    ASSUME NEW s, Sound(s, lost), NEW f \in Files, NEW pos, Within(s, pos), zone_at(s, f, pos) = NO_ZONE
    PROVE  LET n == new_block(s, f, pos)
           IN /\ Sound(n.s, lost) /\ Frame(s, n.s)
              /\ n.r = "OK" => DataBlock(n.s, n.b)
<1> DEFINE near == IF s.ino[f].zsearch # NO_ZONE THEN s.ino[f].zsearch
                   ELSE IF s.ino[f].zone[0] # NO_ZONE THEN s.ino[f].zone[0]
                   ELSE FirstZone
           a == alloc_zone(s, near)
           z == a.z
           v == a.s
           u == [v EXCEPT !.ino[f].zsearch = z]
           w == write_map(u, f, pos, z)
           n == new_block(s, f, pos)
<1>1. n = IF z = NO_ZONE THEN [s |-> v, b |-> NO_BLOCK, r |-> "ENOSPC"]
          ELSE new_zone_block(w, f, pos, z)
  BY DEF new_block
<1>2. \/ z = NO_ZONE /\ v = s
      \/ /\ z \in DataZones \ lost /\ z # NO_ZONE
         /\ Sound(v, lost \cup {z}) /\ v.scale = s.scale /\ v.ino = s.ino /\ v.blk = s.blk
  BY AllocSound
<1> HIDE DEF a, n
<1> HIDE DEF z, v
<1>3. CASE z = NO_ZONE
  <2>1. n.s = s /\ n.r = "ENOSPC"
    BY <1>1, <1>2, <1>3
  <2> QED
    BY <2>1 DEF Frame, n
<1>4. CASE z # NO_ZONE
  <2>1. (lost \cup {z}) \ {z} = lost /\ z \in lost \cup {z}
    BY <1>2, <1>4
  <2>2. z \in DataZones /\ Sound(v, lost \cup {z}) /\ v.scale = s.scale /\ v.ino = s.ino /\ v.blk = s.blk
    BY <1>2, <1>4, <2>1
  <2>3. z \in Int
    BY <2>2, MfsFileAssumption DEF DataZones
  <2>4. Sound(u, lost \cup {z}) /\ Frame(v, u) /\ \A zone : PlaceZone(u, f, zone) = PlaceZone(v, f, zone)
    BY <2>2, <2>3, SearchPutSound
  <2> HIDE DEF u
  <2>5. Frame(s, u)
    BY <2>2, <2>4 DEF Frame
  <2>6. Within(u, pos) /\ Zone(u, pos) = Zone(s, pos) /\ pos \in Nat
    BY <2>5, WithinFrame DEF Frame, Within
  <2>7. zone_at(u, f, pos) = NO_ZONE
    <3>1. PlaceZone(v, f, Zone(s, pos)) = PlaceZone(s, f, Zone(s, pos))
      BY <2>2 DEF PlaceZone, IndirectOf, rd_indir, ZoneBlocks
    <3> QED
      BY <2>4, <2>6, <3>1, PlaceIs
  <2>8. /\ w.r \in {"OK", "ENOSPC"} /\ Frame(u, w.s)
        /\ w.r = "OK" => Sound(w.s, (lost \cup {z}) \ {z}) /\ zone_at(w.s, f, pos) = z
        /\ w.r # "OK" => Sound(w.s, lost \cup {z})
    BY <2>1, <2>4, <2>6, <2>7, WriteMapSound DEF Within
  <2>9. n = new_zone_block(w, f, pos, z)
    BY <1>1, <1>4
  <2> HIDE DEF w
  <2>10. Frame(s, w.s)
    BY <2>5, <2>8, FrameAlong
  <2>11. CASE w.r # "OK"
    <3>1. n = [s |-> free_zone(w.s, z), b |-> NO_BLOCK, r |-> w.r]
      BY <2>9, <2>11 DEF new_zone_block
    <3>2. n.s = free_zone(w.s, z) /\ n.r = w.r
      BY <3>1
    <3>3. Sound(free_zone(w.s, z), (lost \cup {z}) \ {z}) /\ Frame(w.s, free_zone(w.s, z))
      BY <2>1, <2>8, <2>11, GiveBackSound
    <3>4. Frame(s, free_zone(w.s, z))
      BY <2>10, <3>3, FrameAlong
    <3> QED
      BY <2>1, <2>11, <3>2, <3>3, <3>4 DEF n
  <2>12. CASE w.r = "OK"
    <3> DEFINE c == IF pos # w.s.ino[f].size THEN clear_zone(w.s, f, pos, TRUE) ELSE w.s
    <3>1. n = fresh_block(c, f, pos)
      BY <2>9, <2>12 DEF new_zone_block
    <3>2. Sound(w.s, lost) /\ zone_at(w.s, f, pos) = z
      BY <2>1, <2>8, <2>12
    <3>3. Within(w.s, pos)
      BY <2>10, WithinFrame DEF Frame
    <3>4. Sound(c, lost) /\ Rewritten(w.s, c)
      <4>1. Sound(clear_zone(w.s, f, pos, TRUE), lost) /\ Rewritten(w.s, clear_zone(w.s, f, pos, TRUE))
        BY <3>2, <3>3, ClearZoneSound
      <4>2. Rewritten(w.s, w.s)
        BY DEF Rewritten, Frame
      <4> QED
        BY <3>2, <4>1, <4>2
    <3> HIDE DEF c
    <3>5. zone_at(c, f, pos) = z /\ Within(c, pos)
      BY <3>2, <3>3, <3>4, RewrittenZone
    <3>6. Sound(n.s, lost) /\ Frame(c, n.s) /\ n.r = "OK" /\ DataBlock(n.s, n.b)
      BY <1>4, <3>1, <3>4, <3>5, FreshSound
    <3>7. Frame(s, n.s)
      BY <2>10, <3>4, <3>6, FrameAlong DEF Rewritten
    <3> QED
      BY <3>6, <3>7 DEF n
  <2> QED
    BY <2>11, <2>12
<1> QED
  BY <1>3, <1>4

LEMMA CopyChunkSound ==
    ASSUME NEW m, Sound(m.s, lost), m.r = "OK" => DataBlock(m.s, m.b),
           NEW off, NEW n, NEW v \in Int, NEW past, NEW unread, NEW fails
    PROVE  LET w == copy_chunk(m, off, n, v, past, unread, fails)
           IN Sound(w.s, lost) /\ Frame(m.s, w.s)
<1> DEFINE s == IF n # U /\ past THEN zero_block(m.s, m.b) ELSE m.s
           w == copy_chunk(m, off, n, v, past, unread, fails)
<1>1. w = IF m.r # "OK" THEN [s |-> m.s, r |-> m.r]
          ELSE IF ~fails THEN [s |-> copied(s, m.b, off, n, v), r |-> "OK"]
          ELSE [s |-> IF unread /\ n = U THEN garbage(s, m.b) ELSE s, r |-> "EFAULT"]
  BY DEF copy_chunk
<1>2. CASE m.r # "OK"
  <2>1. w.s = m.s
    BY <1>1, <1>2
  <2> QED
    BY <2>1 DEF Frame
<1>3. CASE m.r = "OK"
  <2>1. Rewritten(m.s, m.s)
    BY DEF Rewritten, Frame
  <2>2. Sound(zero_block(m.s, m.b), lost) /\ Rewritten(m.s, zero_block(m.s, m.b))
    BY <1>3, ZeroSound
  <2>3. Sound(s, lost) /\ Rewritten(m.s, s)
    BY <2>1, <2>2
  <2> HIDE DEF s, w
  <2>4. DataBlock(s, m.b)
    BY <1>3, <2>3 DEF Rewritten
  <2>5. Sound(copied(s, m.b, off, n, v), lost) /\ Rewritten(s, copied(s, m.b, off, n, v))
    BY <2>3, <2>4, CopiedSound
  <2>6. Sound(garbage(s, m.b), lost) /\ Rewritten(s, garbage(s, m.b))
    BY <2>3, <2>4, GarbageSound
  <2>7. w.s \in {copied(s, m.b, off, n, v), garbage(s, m.b), s}
    BY <1>1, <1>3
  <2>8. Sound(w.s, lost) /\ (Rewritten(s, w.s) \/ w.s = s)
    BY <2>3, <2>5, <2>6, <2>7
  <2>9. Frame(m.s, w.s)
    BY <2>3, <2>8, FrameAlong DEF Rewritten
  <2> QED
    BY <2>8, <2>9 DEF w
<1> QED
  BY <1>2, <1>3

\* rw_chunk, writing.
LEMMA ChunkSound ==
    ASSUME NEW s, Sound(s, lost), NEW f \in Files, NEW pos, Within(s, pos), NEW n, NEW v \in Int, NEW fails
    PROVE  LET w == rw_chunk(s, f, pos, n, v, fails)
           IN Sound(w.s, lost) /\ Frame(s, w.s)
<1> DEFINE off == pos % U
           past == pos >= s.ino[f].size /\ off = 0
           old == read_map(s, f, pos)
           unread == old # NO_BLOCK /\ (n = U \/ past)
           m == IF old = NO_BLOCK THEN new_block(s, f, pos) ELSE [s |-> s, b |-> old, r |-> "OK"]
           w == rw_chunk(s, f, pos, n, v, fails)
<1>1. w = copy_chunk(m, off, n, v, past, unread, fails)
  BY DEF rw_chunk
<1>2. Sound(m.s, lost) /\ Frame(s, m.s) /\ (m.r = "OK" => DataBlock(m.s, m.b))
  <2>1. CASE old = NO_BLOCK
    <3>1. zone_at(s, f, pos) = NO_ZONE
      BY <2>1, BlockIs
    <3>2. m = new_block(s, f, pos)
      BY <2>1
    <3> HIDE DEF m
    <3> QED
      BY <3>1, <3>2, NewBlockSound
  <2>2. CASE old # NO_BLOCK
    <3>1. DataBlock(s, old)
      BY <2>2, BlockIs
    <3>2. m.s = s /\ m.b = old
      BY <2>2
    <3> HIDE DEF m, old
    <3> QED
      BY <3>1, <3>2 DEF Frame
  <2> QED
    BY <2>1, <2>2
<1> HIDE DEF m, w, unread, past, off
<1>3. Sound(w.s, lost) /\ Frame(m.s, w.s)
  BY <1>1, <1>2, CopyChunkSound
<1>4. Frame(s, w.s)
  BY <1>2, <1>3, FrameAlong
<1> QED
  BY <1>3, <1>4 DEF w

-----------------------------------------------------------------------------
(* Freeing. *)

ClearTop(s, f, i) == [s EXCEPT !.ino[f].zone[i] = NO_ZONE]

\* A zone that has lost its name, which was that of a zone of a file, or was not.
LEMMA FreedLike ==
    ASSUME NEW s, NEW t, NEW X, NEW z, z # NO_ZONE, Sound(s, X),
           NEW f \in Files, NEW zone \in 0..(MaxZone - 1),
           Linked(Map(t), Map(s), Leaf(s, f, zone), z),
           \A y \in DataZones : y \notin Indirects(s) => SameZone(s, t, y)
    PROVE  LikeBut(s, t, f, zone) /\ PlaceZone(t, f, zone) = NO_ZONE
<1>1. Leaf(s, f, zone) \in DOMAIN Map(s)
  BY DEF Linked
<1>2. Exact(Map(s), s.bits, X)
  BY SoundIs
<1>3. ASSUME NEW g \in Files, NEW k \in 0..(MaxZone - 1), g # f \/ k # zone PROVE LikeAt(s, t, g, k)
  <2>1. Leaf(s, g, k) # Leaf(s, f, zone)
    BY <1>1, <1>2, <1>3, LeafOnce
  <2> QED
    BY <2>1, UnlinkLike
<1>4. PlaceZone(t, f, zone) = NO_ZONE
  BY UnlinkLike
<1> QED
  BY <1>3, <1>4 DEF LikeBut

LEMMA FreedOther ==
    ASSUME NEW s, NEW t, NEW X, NEW z, NEW n, z # NO_ZONE, Sound(s, X),
           Linked(Map(t), Map(s), n, z),
           \A f \in Files, zone \in 0..(MaxZone - 1) : Leaf(s, f, zone) # n,
           \A y \in DataZones : y \notin Indirects(s) => SameZone(s, t, y)
    PROVE  Like(s, t)
<1>1. ASSUME NEW g \in Files, NEW k \in 0..(MaxZone - 1) PROVE LikeAt(s, t, g, k)
  <2>1. Leaf(s, g, k) # n
    OBVIOUS
  <2> QED
    BY <2>1, UnlinkLike
<1> QED
  BY <1>1 DEF Like

\* The blocks of all zones are the same, but for an indirect zone.
LEMMA SameData ==
    ASSUME NEW s, NEW u, NEW t, u.blk = s.blk, u.scale = s.scale, NEW d \in Indirects(s),
           SameBut(u, t, d)
    PROVE  \A y \in DataZones : y \notin Indirects(s) => SameZone(s, t, y)
<1>1. ZoneBlocks(u) = ZoneBlocks(s)
  BY DEF ZoneBlocks
<1> QED
  BY <1>1 DEF SameBut, SameZone

LEMMA SameIndirects ==
    ASSUME NEW s, NEW t, \A f \in Files : /\ t.ino[f].zone[SINGLE] = s.ino[f].zone[SINGLE]
                                          /\ t.ino[f].zone[DOUBLE] = s.ino[f].zone[DOUBLE],
           \A d \in Doubles(s), i \in Entries : rd_indir(t, d, i) = rd_indir(s, d, i)
    PROVE  Doubles(t) = Doubles(s) /\ Singles(t) = Singles(s)
<1>1. Doubles(t) = Doubles(s)
  BY DEF Doubles
<1>2. {t.ino[f].zone[SINGLE] : f \in Files} = {s.ino[f].zone[SINGLE] : f \in Files}
  OBVIOUS
<1>3. {rd_indir(t, e[1], e[2]) : e \in Doubles(s) \X Entries}
        = {rd_indir(s, e[1], e[2]) : e \in Doubles(s) \X Entries}
  OBVIOUS
<1> QED
  BY <1>1, <1>2, <1>3 DEF Singles

\* A zone that has a name has its bit.
LEMMA NamedBit ==
    ASSUME NEW s, NEW X, Sound(s, X), NEW n \in DOMAIN Map(s), Map(s)[n] # NO_ZONE
    PROVE  Map(s)[n] \in DataZones /\ Map(s)[n] - (FirstZone - 1) \in s.bits
<1> DEFINE m == Map(s)
           z == m[n]
           b == z - (FirstZone - 1)
<1>1. Exact(m, s.bits, X)
  BY DEF Sound
<1> HIDE DEF m
<1>2. z \in DataZones
  BY <1>1 DEF Exact, Numbers, m
<1>3. b \in Int /\ b + (FirstZone - 1) = z
  BY <1>2, MfsFileAssumption DEF DataZones
<1> HIDE DEF b
<1>4. b \in s.bits
  BY <1>1, <1>3 DEF Exact, m
<1> QED
  BY <1>2, <1>4 DEF b, m

\* The zone of a file, if it had one, has lost its bit, and no zone has got one.
Returned(s, t, f, zone) ==
    /\ t.bits \subseteq s.bits
    /\ PlaceZone(s, f, zone) # NO_ZONE => PlaceZone(s, f, zone) - (FirstZone - 1) \notin t.bits

\* The direct zone of a position.
LEMMA FreeDirectSound ==
    ASSUME NEW s, Sound(s, lost), NEW f \in Files, NEW zone \in Nat, IsDirect(zone)
    PROVE  LET t == ClearTop(free_zone(s, s.ino[f].zone[zone]), f, zone)
           IN /\ Sound(t, lost) /\ Frame(s, t)
              /\ LikeBut(s, t, f, zone) /\ PlaceZone(t, f, zone) = NO_ZONE
              /\ Returned(s, t, f, zone)
<1> DEFINE z == s.ino[f].zone[zone]
           u == free_zone(s, z)
           t == ClearTop(u, f, zone)
<1>1. zone \in Tops /\ zone < DZones
  BY TopIndices DEF IsDirect
<1>2. NO_ZONE \in Int
  BY DEF NO_ZONE
<1>3. CASE z = NO_ZONE
  <2>1. u = s
    BY <1>3, FreeNone
  <2>2. t = [s EXCEPT !.ino[f].zone[zone] = NO_ZONE]
    BY <2>1 DEF ClearTop
  <2> HIDE DEF t, u
  <2>3. /\ Sound(t, lost) /\ Frame(s, t) /\ \A g \in Files : t.ino[g].zone = s.ino[g].zone
        /\ t.blk = s.blk
    BY <1>1, <1>2, <1>3, <2>2, SameTop
  <2>4. Like(s, t)
    BY <2>3, LikeWhen DEF Frame
  <2>5. PlaceZone(t, f, zone) = NO_ZONE
    BY <1>3, <2>3 DEF PlaceZone
  <2>6. t.bits = s.bits
    BY <2>2, SoundIs DEF Volume
  <2>7. Returned(s, t, f, zone)
    BY <1>3, <2>6 DEF Returned, PlaceZone
  <2> QED
    BY <2>3, <2>4, <2>5, <2>7 DEF t, u, Like, LikeBut
<1>4. CASE z # NO_ZONE
  <2>1. <<"ino", f, zone>> \in DOMAIN Map(s) /\ Map(s)[<<"ino", f, zone>>] = z
    BY <1>1, TopName
  <2>2. z \in DataZones /\ z - (FirstZone - 1) \in s.bits
    BY <1>4, <2>1, NamedBit
  <2>3. /\ Volume(u) /\ u.bits = s.bits \ {z - (FirstZone - 1)}
        /\ u.zsearch = IF z - (FirstZone - 1) < s.zsearch THEN z - (FirstZone - 1) ELSE s.zsearch
        /\ u.scale = s.scale /\ u.ino = s.ino /\ u.blk = s.blk
    BY <2>2, SoundIs, FreeIs
  <2>4. s.ino[f].zone[zone] = z
    OBVIOUS
  <2> HIDE DEF z, u
  <2>5. /\ Volume(t) /\ t.ino[f].zone[zone] = NO_ZONE /\ Frame(u, t)
        /\ \A g \in Files, j \in Tops : g # f \/ j # zone => t.ino[g].zone[j] = u.ino[g].zone[j]
        /\ t.scale = u.scale /\ t.bits = u.bits /\ t.zsearch = u.zsearch /\ t.blk = u.blk
    BY <1>1, <1>2, <2>3, TopPut DEF ClearTop
  <2> HIDE DEF t
  <2>6. TopSet(t, s, f, zone, z)
    BY <2>3, <2>4, <2>5 DEF TopSet
  <2>7. SameEntries(t, s)
    BY <2>3, <2>5 DEF SameEntries, rd_indir, ZoneBlocks
  <2>8. Linked(Map(t), Map(s), <<"ino", f, zone>>, z)
    BY <1>1, <2>5, <2>6, <2>7, LinkDirect
  <2>9. Sound(t, lost)
    BY <2>2, <2>3, <2>5, <2>8, ReleasedSound
  <2>10. Frame(s, t)
    BY <2>3, <2>5 DEF Frame
  <2>11. \A y \in DataZones : SameZone(s, t, y)
    BY <2>3, <2>5 DEF SameZone
  <2>12. zone \in 0..(MaxZone - 1)
    <3>1. U * U \in Nat
      BY Times, MfsFileAssumption
    <3> QED
      BY <1>1, <3>1, MfsFileAssumption DEF MaxZone
  <2>13. Leaf(s, f, zone) = <<"ino", f, zone>>
    BY DEF Leaf
  <2>14. LikeBut(s, t, f, zone) /\ PlaceZone(t, f, zone) = NO_ZONE
    BY <1>4, <2>8, <2>11, <2>12, <2>13, FreedLike
  <2>15. Returned(s, t, f, zone)
    BY <2>3, <2>4, <2>5 DEF Returned, PlaceZone
  <2> QED
    BY <2>9, <2>10, <2>14, <2>15 DEF t, u, z
<1> QED
  BY <1>3, <1>4

\* The zone of a file that the entry named is gone, and no other.
EntryFreed(s, t, d, i) ==
    \A f \in Files, zone \in 0..(MaxZone - 1) :
        Leaf(s, f, zone) = <<"blk", d, i>> =>
            LikeBut(s, t, f, zone) /\ PlaceZone(t, f, zone) = NO_ZONE

\* An entry of a single indirect zone.
LEMMA FreeEntrySound ==
    ASSUME NEW s, Sound(s, lost), NEW d \in Singles(s), d \notin Doubles(s), NEW i \in Entries,
           rd_indir(s, d, i) # NO_ZONE
    PROVE  LET t == wr_indir(free_zone(s, rd_indir(s, d, i)), d, i, NO_ZONE)
           IN Sound(t, lost) /\ Frame(s, t) /\ t.ino = s.ino /\ EntryFreed(s, t, d, i)
              /\ t.bits = s.bits \ {rd_indir(s, d, i) - (FirstZone - 1)}
              /\ Singles(t) = Singles(s) /\ Doubles(t) = Doubles(s)
              /\ \A y \in Doubles(s), j \in Entries : rd_indir(t, y, j) = rd_indir(s, y, j)
<1> DEFINE z == rd_indir(s, d, i)
           u == free_zone(s, z)
           t == wr_indir(u, d, i, NO_ZONE)
<1>1. d \in Indirects(s) /\ Indirects(s) \subseteq DataZones /\ Doubles(s) \subseteq Indirects(s)
  BY SoundIs, IndirectOnce DEF Indirects
<1>2. <<"blk", d, i>> \in DOMAIN Map(s) /\ Map(s)[<<"blk", d, i>>] = z
  BY <1>1, EntryName
<1>3. z \in DataZones /\ z - (FirstZone - 1) \in s.bits
  BY <1>2, NamedBit
<1>4. /\ Volume(u) /\ u.bits = s.bits \ {z - (FirstZone - 1)}
      /\ u.zsearch = IF z - (FirstZone - 1) < s.zsearch THEN z - (FirstZone - 1) ELSE s.zsearch
      /\ u.scale = s.scale /\ u.ino = s.ino /\ u.blk = s.blk
  BY <1>3, SoundIs, FreeIs
<1>5. rd_indir(s, d, i) = z /\ d \in DataZones /\ NO_ZONE \in Int
  BY <1>1 DEF NO_ZONE
<1> HIDE DEF z, u
<1>6. /\ Volume(t) /\ rd_indir(t, d, i) = NO_ZONE /\ Frame(u, t)
      /\ \A y \in DataZones, j \in Entries :
           y # d \/ j # i => rd_indir(t, y, j) = rd_indir(u, y, j)
      /\ t.scale = u.scale /\ t.bits = u.bits /\ t.zsearch = u.zsearch /\ t.ino = u.ino
      /\ SameBut(u, t, d)
  BY <1>4, <1>5, EntryPut
<1> HIDE DEF t
<1>7. \A y, j : rd_indir(u, y, j) = rd_indir(s, y, j)
  BY <1>4 DEF rd_indir, ZoneBlocks
<1>8. \A y \in Doubles(s), j \in Entries : rd_indir(t, y, j) = rd_indir(s, y, j)
  BY <1>1, <1>6, <1>7
<1>9. Doubles(t) = Doubles(s) /\ Singles(t) = Singles(s)
  BY <1>4, <1>6, <1>8, SameIndirects
<1>10. EntrySet(t, s, d, i, z) /\ SameTops(t, s)
  <2>1. Indirects(t) = Indirects(s)
    BY <1>9 DEF Indirects
  <2> QED
    BY <1>1, <1>4, <1>5, <1>6, <1>7, <2>1 DEF EntrySet, SameTops
<1>11. Linked(Map(t), Map(s), <<"blk", d, i>>, z)
  BY <1>6, <1>9, <1>10, LinkEntry
<1>12. Sound(t, lost)
  BY <1>3, <1>4, <1>6, <1>11, ReleasedSound
<1>13. Frame(s, t)
  BY <1>4, <1>6 DEF Frame
<1>14. \A y \in DataZones : y \notin Indirects(s) => SameZone(s, t, y)
  BY <1>1, <1>4, <1>6, SameData
<1>15. z # NO_ZONE
  BY DEF z
<1>16. EntryFreed(s, t, d, i)
  <2>1. ASSUME NEW f \in Files, NEW zone \in 0..(MaxZone - 1), Leaf(s, f, zone) = <<"blk", d, i>>
        PROVE  LikeBut(s, t, f, zone) /\ PlaceZone(t, f, zone) = NO_ZONE
    BY <1>11, <1>14, <1>15, <2>1, FreedLike
  <2> QED
    BY <2>1 DEF EntryFreed
<1> QED
  BY <1>4, <1>6, <1>8, <1>9, <1>12, <1>13, <1>16 DEF t, u, z

\* An empty indirect zone of an inode.
LEMMA FreeTop ==
    ASSUME NEW s, Sound(s, lost), NEW f \in Files, NEW k \in {SINGLE, DOUBLE}, NEW d,
           d = s.ino[f].zone[k], d # NO_ZONE, Blank(s, d)
    PROVE  LET t == ClearTop(free_zone(s, d), f, k)
           IN Sound(t, lost) /\ Frame(s, t) /\ Like(s, t) /\ t.bits \subseteq s.bits
<1> DEFINE u == free_zone(s, d)
           t == ClearTop(u, f, k)
<1>1. k \in Tops /\ NO_ZONE \in Int
  BY TopIndices DEF NO_ZONE
<1>2. <<"ino", f, k>> \in DOMAIN Map(s) /\ Map(s)[<<"ino", f, k>>] = d
  BY <1>1, TopName
<1>3. d \in DataZones /\ d - (FirstZone - 1) \in s.bits
  BY <1>2, NamedBit
<1>4. /\ Volume(u) /\ u.bits = s.bits \ {d - (FirstZone - 1)}
      /\ u.zsearch = IF d - (FirstZone - 1) < s.zsearch THEN d - (FirstZone - 1) ELSE s.zsearch
      /\ u.scale = s.scale /\ u.ino = s.ino /\ u.blk = s.blk
  BY <1>3, SoundIs, FreeIs
<1> HIDE DEF u
<1>5. /\ Volume(t) /\ t.ino[f].zone[k] = NO_ZONE /\ Frame(u, t)
      /\ \A g \in Files, j \in Tops : g # f \/ j # k => t.ino[g].zone[j] = u.ino[g].zone[j]
      /\ t.scale = u.scale /\ t.bits = u.bits /\ t.zsearch = u.zsearch /\ t.blk = u.blk
  BY <1>1, <1>4, TopPut DEF ClearTop
<1> HIDE DEF t
<1>6. TopSet(t, s, f, k, d) /\ SameEntries(t, s)
  BY <1>4, <1>5 DEF TopSet, SameEntries, rd_indir, ZoneBlocks
<1>7. Linked(Map(t), Map(s), <<"ino", f, k>>, d)
  BY <1>5, <1>6, LinkSingle, LinkDouble
<1>8. Sound(t, lost)
  BY <1>3, <1>4, <1>5, <1>7, ReleasedSound
<1>9. Frame(s, t)
  BY <1>4, <1>5 DEF Frame
<1>10. \A y \in DataZones : SameZone(s, t, y)
  BY <1>4, <1>5 DEF SameZone
<1>11. \A g \in Files, j \in 0..(MaxZone - 1) : Leaf(s, g, j) # <<"ino", f, k>>
  BY NoLeaf
<1>12. Like(s, t)
  BY <1>7, <1>10, <1>11, FreedOther
<1>13. t.bits \subseteq s.bits
  BY <1>4, <1>5
<1> QED
  BY <1>8, <1>9, <1>12, <1>13 DEF t, u

\* An empty single indirect zone of a double indirect one.
LEMMA FreeInner ==
    ASSUME NEW s, Sound(s, lost), NEW e \in Doubles(s), NEW i \in Entries, NEW d, d = rd_indir(s, e, i),
           d # NO_ZONE, Blank(s, d)
    PROVE  LET t == wr_indir(free_zone(s, d), e, i, NO_ZONE)
           IN Sound(t, lost) /\ Frame(s, t) /\ Like(s, t) /\ t.bits \subseteq s.bits
<1> DEFINE u == free_zone(s, d)
           t == wr_indir(u, e, i, NO_ZONE)
<1>1. e \in Indirects(s) /\ Indirects(s) \subseteq DataZones /\ Doubles(s) \subseteq Indirects(s)
      /\ e \in DataZones /\ NO_ZONE \in Int
  BY SoundIs, IndirectOnce DEF Indirects, NO_ZONE
<1>2. <<"blk", e, i>> \in DOMAIN Map(s) /\ Map(s)[<<"blk", e, i>>] = d
  BY <1>1, EntryName
<1>3. d \in DataZones /\ d - (FirstZone - 1) \in s.bits
  BY <1>2, NamedBit
<1>4. /\ Volume(u) /\ u.bits = s.bits \ {d - (FirstZone - 1)}
      /\ u.zsearch = IF d - (FirstZone - 1) < s.zsearch THEN d - (FirstZone - 1) ELSE s.zsearch
      /\ u.scale = s.scale /\ u.ino = s.ino /\ u.blk = s.blk
  BY <1>3, SoundIs, FreeIs
<1> HIDE DEF u
<1>5. /\ Volume(t) /\ rd_indir(t, e, i) = NO_ZONE /\ Frame(u, t)
      /\ \A y \in DataZones, j \in Entries :
           y # e \/ j # i => rd_indir(t, y, j) = rd_indir(u, y, j)
      /\ t.scale = u.scale /\ t.bits = u.bits /\ t.zsearch = u.zsearch /\ t.ino = u.ino
      /\ SameBut(u, t, e)
  BY <1>1, <1>4, EntryPut
<1> HIDE DEF t
<1>6. \A y, j : rd_indir(u, y, j) = rd_indir(s, y, j)
  BY <1>4 DEF rd_indir, ZoneBlocks
<1>7. Doubles(t) = Doubles(s)
  BY <1>4, <1>5 DEF Doubles
<1>8. Indirects(t) \subseteq Indirects(s)
  <2>1. ASSUME NEW y \in Singles(t) PROVE y \in Singles(s)
    <3>1. y # NO_ZONE
      BY SingleName
    <3>2. CASE \E g \in Files : y = t.ino[g].zone[SINGLE]
      BY <1>4, <1>5, <3>1, <3>2, SingleIs
    <3>3. CASE \E c \in Doubles(t), j \in Entries : y = rd_indir(t, c, j)
      <4>1. PICK c \in Doubles(t), j \in Entries : y = rd_indir(t, c, j)
        BY <3>3
      <4>2. c \in Doubles(s) /\ c \in DataZones
        BY <1>1, <1>7
      <4>3. y = rd_indir(s, c, j)
        BY <1>5, <1>6, <3>1, <4>1, <4>2
      <4> QED
        BY <3>1, <4>2, <4>3, SingleIs
    <3> QED
      BY <3>2, <3>3, SingleName
  <2> QED
    BY <1>7, <2>1 DEF Indirects
<1>9. EntrySet(t, s, e, i, d) /\ SameTops(t, s)
  BY <1>1, <1>4, <1>5, <1>6, <1>8 DEF EntrySet, SameTops
<1>10. Linked(Map(t), Map(s), <<"blk", e, i>>, d)
  BY <1>5, <1>7, <1>9, LinkInner
<1>11. Sound(t, lost)
  BY <1>3, <1>4, <1>5, <1>10, ReleasedSound
<1>12. Frame(s, t)
  BY <1>4, <1>5 DEF Frame
<1>13. \A y \in DataZones : y \notin Indirects(s) => SameZone(s, t, y)
  BY <1>1, <1>4, <1>5, SameData
<1>14. \A g \in Files, k \in 0..(MaxZone - 1) : Leaf(s, g, k) # <<"blk", e, i>>
  BY NoLeaf
<1>15. Like(s, t)
  BY <1>10, <1>13, <1>14, FreedOther
<1>16. t.bits \subseteq s.bits
  BY <1>4, <1>5
<1> QED
  BY <1>11, <1>12, <1>15, <1>16 DEF t, u

\* The entry for a zone, and the single indirect zone it empties.
LEMMA FreeSingleSound ==
    ASSUME NEW s, Sound(s, lost), NEW f \in Files, NEW zone \in 0..(MaxZone - 1), ~IsDirect(zone)
    PROVE  LET r == FreeSingle(s, f, zone)
           IN /\ Sound(r, lost) /\ Frame(s, r)
              /\ LikeBut(s, r, f, zone) /\ PlaceZone(r, f, zone) = NO_ZONE
              /\ Returned(s, r, f, zone)
<1> DEFINE d == IndirectOf(s, f, zone)
           i == Single(zone)
           old == rd_indir(s, d, i)
           t == IF old = NO_ZONE THEN s ELSE wr_indir(free_zone(s, old), d, i, NO_ZONE)
           u == free_zone(t, d)
           r == FreeSingle(s, f, zone)
<1>1. r = IF d = NO_ZONE THEN s
          ELSE IF ~empty_indir(t, d) THEN t
          ELSE IF IsSingle(zone) THEN ClearTop(u, f, SINGLE)
          ELSE wr_indir(u, s.ino[f].zone[DOUBLE], Double(zone), NO_ZONE)
  BY DEF FreeSingle, ClearTop
<1>2. CASE d = NO_ZONE
  <2>1. r = s
    BY <1>1, <1>2
  <2>2. PlaceZone(s, f, zone) = NO_ZONE
    BY <1>2 DEF PlaceZone
  <2> HIDE DEF r
  <2> QED
    BY <2>1, <2>2, LikeSelf DEF r, Frame, Like, LikeBut, Returned
<1>3. CASE d # NO_ZONE
  <2>1. d \in Singles(s) /\ d \notin Doubles(s) /\ i \in Entries
    BY <1>3, IndirectIs, IndexInRange
  <2>2. IndirectOf(s, f, zone) = d
    OBVIOUS
  <2>20. Leaf(s, f, zone) = <<"blk", d, i>>
    BY DEF Leaf
  <2>21. PlaceZone(s, f, zone) = old
    BY <1>3 DEF PlaceZone
  <2> HIDE DEF r, d, i
  <2>3. /\ Sound(t, lost) /\ Frame(s, t) /\ t.ino = s.ino
        /\ Singles(t) = Singles(s) /\ Doubles(t) = Doubles(s)
        /\ \A y \in Doubles(s), j \in Entries : rd_indir(t, y, j) = rd_indir(s, y, j)
        /\ LikeBut(s, t, f, zone) /\ PlaceZone(t, f, zone) = NO_ZONE
        /\ Returned(s, t, f, zone)
    <3>1. CASE old = NO_ZONE
      <4>1. t = s
        BY <3>1
      <4>2. LikeBut(s, s, f, zone)
        BY LikeSelf DEF Like, LikeBut
      <4> HIDE DEF t
      <4> QED
        BY <2>21, <3>1, <4>1, <4>2 DEF Frame, Returned
    <3>2. CASE old # NO_ZONE
      <4>1. t = wr_indir(free_zone(s, rd_indir(s, d, i)), d, i, NO_ZONE)
        BY <3>2
      <4> HIDE DEF t
      <4>2. rd_indir(s, d, i) # NO_ZONE
        BY <3>2
      <4> HIDE DEF old
      <4>3. /\ Sound(t, lost) /\ Frame(s, t) /\ t.ino = s.ino
            /\ Singles(t) = Singles(s) /\ Doubles(t) = Doubles(s)
            /\ \A y \in Doubles(s), j \in Entries : rd_indir(t, y, j) = rd_indir(s, y, j)
            /\ EntryFreed(s, t, d, i) /\ t.bits = s.bits \ {rd_indir(s, d, i) - (FirstZone - 1)}
        BY <2>1, <4>1, <4>2, FreeEntrySound
      <4>4. LikeBut(s, t, f, zone) /\ PlaceZone(t, f, zone) = NO_ZONE
        BY <2>20, <4>3 DEF EntryFreed
      <4>5. Returned(s, t, f, zone)
        <5>1. PlaceZone(s, f, zone) = rd_indir(s, d, i)
          BY <2>21 DEF old
        <5> QED
          BY <4>3, <5>1 DEF Returned
      <4> QED
        BY <4>3, <4>4, <4>5
    <3> QED
      BY <3>1, <3>2
  <2> HIDE DEF t, old
  <2>22. ASSUME Sound(r, lost), Frame(t, r), Like(t, r), r.bits \subseteq t.bits
         PROVE  /\ Sound(r, lost) /\ Frame(s, r)
                /\ LikeBut(s, r, f, zone) /\ PlaceZone(r, f, zone) = NO_ZONE
                /\ Returned(s, r, f, zone)
    <3>1. Frame(s, r)
      BY <2>3, <2>22, FrameAlong
    <3>2. LikeBut(s, r, f, zone)
      BY <2>3, <2>22, LikeButAlong DEF Frame
    <3>3. PlaceZone(r, f, zone) = NO_ZONE
      BY <2>3, <2>22 DEF Like, LikeAt
    <3>4. Returned(s, r, f, zone)
      BY <2>3, <2>22 DEF Returned
    <3> QED
      BY <2>22, <3>1, <3>2, <3>3, <3>4
  <2>4. CASE ~empty_indir(t, d)
    <3>1. r = t
      BY <1>1, <1>3, <2>4
    <3> QED
      BY <2>3, <3>1 DEF r
  <2>5. CASE empty_indir(t, d) /\ IsSingle(zone)
    <3>1. r = ClearTop(free_zone(t, d), f, SINGLE)
      BY <1>1, <1>3, <2>5
    <3>2. d = t.ino[f].zone[SINGLE]
      BY <2>2, <2>3, <2>5 DEF IndirectOf
    <3>3. Blank(t, d)
      BY <2>5 DEF empty_indir, Blank, Entries
    <3>4. Sound(r, lost) /\ Frame(t, r) /\ Like(t, r) /\ r.bits \subseteq t.bits
      BY <1>3, <2>3, <3>1, <3>2, <3>3, FreeTop
    <3> QED
      BY <2>22, <3>4 DEF r
  <2>6. CASE empty_indir(t, d) /\ ~IsSingle(zone)
    <3> DEFINE e == s.ino[f].zone[DOUBLE]
               j == Double(zone)
    <3>1. r = wr_indir(free_zone(t, d), e, j, NO_ZONE)
      BY <1>1, <1>3, <2>6
    <3>2. e # NO_ZONE /\ d = rd_indir(s, e, j)
      BY <1>3, <2>2, <2>6 DEF IndirectOf
    <3>3. e \in Doubles(s) /\ j \in Entries
      BY <2>6, <3>2, DoubleIs, IndexInRange
    <3> HIDE DEF e, j
    <3>4. e \in Doubles(t) /\ d = rd_indir(t, e, j)
      BY <2>3, <3>2, <3>3
    <3>5. Blank(t, d)
      BY <2>6 DEF empty_indir, Blank, Entries
    <3>6. Sound(r, lost) /\ Frame(t, r) /\ Like(t, r) /\ r.bits \subseteq t.bits
      BY <1>3, <2>3, <3>1, <3>3, <3>4, <3>5, FreeInner
    <3> QED
      BY <2>22, <3>6 DEF r
  <2> QED
    BY <2>4, <2>5, <2>6
<1> QED
  BY <1>2, <1>3

\* The double indirect zone, when it is empty.
LEMMA FreeDoubleSound ==
    ASSUME NEW s, Sound(s, lost), NEW f \in Files, NEW zone
    PROVE  LET r == FreeDouble(s, f, zone)
           IN Sound(r, lost) /\ Frame(s, r) /\ Like(s, r) /\ r.bits \subseteq s.bits
<1> DEFINE d == s.ino[f].zone[DOUBLE]
           r == FreeDouble(s, f, zone)
           go == ~IsSingle(zone) /\ d # NO_ZONE /\ IndirectOf(s, f, zone) = NO_ZONE /\ empty_indir(s, d)
<1>1. r = IF go THEN ClearTop(free_zone(s, d), f, DOUBLE) ELSE s
  BY DEF FreeDouble, ClearTop
<1> HIDE DEF r
<1>2. CASE go
  <2>1. Blank(s, d)
    BY <1>2 DEF empty_indir, Blank, Entries
  <2>2. r = ClearTop(free_zone(s, d), f, DOUBLE) /\ d # NO_ZONE
    BY <1>1, <1>2
  <2> HIDE DEF go
  <2> QED
    BY <2>1, <2>2, FreeTop DEF r
<1>3. CASE ~go
  <2>1. r = s
    BY <1>1, <1>3
  <2> QED
    BY <2>1, LikeSelf DEF Frame, r
<1> QED
  BY <1>2, <1>3

\* write_map with WMAP_FREE.
LEMMA MapFreeSound ==
    ASSUME NEW s, Sound(s, lost), NEW f \in Files, NEW pos, Within(s, pos)
    PROVE  LET r == write_map_free(s, f, pos)
           IN /\ Sound(r, lost) /\ Frame(s, r)
              /\ LikeBut(s, r, f, Zone(s, pos)) /\ PlaceZone(r, f, Zone(s, pos)) = NO_ZONE
              /\ Returned(s, r, f, Zone(s, pos))
<1> DEFINE zone == Zone(s, pos)
           r == write_map_free(s, f, pos)
           t == FreeSingle(s, f, zone)
<1>1. r = IF IsDirect(zone) THEN ClearTop(free_zone(s, s.ino[f].zone[zone]), f, zone)
          ELSE FreeDouble(t, f, zone)
  BY DEF write_map_free, ClearTop
<1>2. zone \in 0..(MaxZone - 1) /\ zone \in Nat
  BY DEF Within
<1> HIDE DEF zone, r
<1>3. CASE IsDirect(zone)
  <2>1. r = ClearTop(free_zone(s, s.ino[f].zone[zone]), f, zone)
    BY <1>1, <1>3
  <2> QED
    BY <1>2, <1>3, <2>1, FreeDirectSound DEF r, zone
<1>4. CASE ~IsDirect(zone)
  <2>1. /\ Sound(t, lost) /\ Frame(s, t)
        /\ LikeBut(s, t, f, zone) /\ PlaceZone(t, f, zone) = NO_ZONE
        /\ Returned(s, t, f, zone)
    BY <1>2, <1>4, FreeSingleSound
  <2> HIDE DEF t
  <2>3. r = FreeDouble(t, f, zone)
    BY <1>1, <1>4
  <2>4. Sound(r, lost) /\ Frame(t, r) /\ Like(t, r) /\ r.bits \subseteq t.bits
    BY <2>1, <2>3, FreeDoubleSound
  <2>5. Frame(s, r)
    BY <2>1, <2>4, FrameAlong
  <2>6. LikeBut(s, r, f, zone)
    BY <2>1, <2>4, LikeButAlong DEF Frame
  <2>7. PlaceZone(r, f, zone) = NO_ZONE
    BY <1>2, <2>1, <2>4 DEF Like, LikeAt
  <2>8. Returned(s, r, f, zone)
    BY <2>1, <2>4 DEF Returned
  <2> QED
    BY <2>4, <2>5, <2>6, <2>7, <2>8 DEF r, zone
<1> QED
  BY <1>3, <1>4

\* Zones p to p + n - 1 of a file are freed.
FreeStep(f, p, zs, t, k) == write_map_free(t, f, (p + k - 1) * zs)
FreeAfter(f, p, zs, s, k, t) ==
    /\ Sound(t, lost) /\ Frame(s, t)
    /\ \A g \in Files, z \in 0..(MaxZone - 1) :
         IF g = f /\ z \in p..(p + k - 1) THEN PlaceZone(t, g, z) = NO_ZONE ELSE LikeAt(s, t, g, z)
    /\ t.bits \subseteq s.bits
    /\ \A z \in 0..(MaxZone - 1) : z \in p..(p + k - 1) => Returned(s, t, f, z)
FreeFold == INSTANCE FoldInduction WITH Step <- FreeStep, Holds <- FreeAfter

LEMMA FreeZonesSound ==
    ASSUME NEW s, Sound(s, lost), NEW f \in Files, NEW p \in Nat, NEW e \in Int, e =< MaxZone
    PROVE  LET t == free_zones(s, f, p, e)
           IN /\ Sound(t, lost) /\ Frame(s, t)
              /\ \A g \in Files, z \in 0..(MaxZone - 1) :
                   IF g = f /\ z \in p..(e - 1) THEN PlaceZone(t, g, z) = NO_ZONE
                   ELSE LikeAt(s, t, g, z)
              /\ t.bits \subseteq s.bits
              /\ \A z \in 0..(MaxZone - 1) : z \in p..(e - 1) => Returned(s, t, f, z)
<1> DEFINE zs == ZoneSize(s)
           n == IF e - p > 0 THEN e - p ELSE 0
           seq == [k \in 1..(e - p) |-> k]
           t == FreeFold!Fold(f, p, zs, s, seq, n)
           w == FoldLeft(LAMBDA acc, k : write_map_free(acc, f, (p + k - 1) * zs), s, seq)
<1>1. n \in Nat /\ p..(e - 1) = p..(p + n - 1) /\ 1..(e - p) = 1..n /\ DOMAIN seq = 1..n /\ \A k \in 1..n : seq[k] = k /\ p + k - 1 =< e - 1
  OBVIOUS
<1> HIDE DEF n
<1>2. free_zones(s, f, p, e) = t
  <2>1. w = t
    <3> HIDE DEF seq, zs
    <3> QED
      BY <1>1 DEF FoldLeft, MapThenFoldSet, Max, FreeFold!Fold, FreeStep
  <2>2. free_zones(s, f, p, e) = w
    BY Zenon DEF free_zones
  <2> HIDE DEF w, t
  <2> QED
    BY <2>1, <2>2
<1> HIDE DEF w
<1>3. FreeAfter(f, p, zs, s, 0, s)
  <2>1. p..(p + 0 - 1) = {}
    OBVIOUS
  <2>2. \A g \in Files, z \in 0..(MaxZone - 1) : LikeAt(s, s, g, z)
    BY LikeSelf DEF Like
  <2> QED
    BY <2>1, <2>2 DEF FreeAfter, Frame
<1>4. MaxZone \in Nat
  <2>1. U * U \in Nat
    BY Times, MfsFileAssumption
  <2> QED
    BY <2>1, MfsFileAssumption DEF MaxZone
<1>5. zs \in Nat \ {0} /\ \A x \in Nat : Zone(s, x) = x \div zs
  BY SoundIs, ZoneIs
<1> HIDE DEF seq, zs
<1>6. ASSUME NEW k \in 1..n, NEW u, FreeAfter(f, p, zs, s, k - 1, u)
      PROVE  FreeAfter(f, p, zs, s, k, FreeStep(f, p, zs, u, seq[k]))
  <2> DEFINE q == p + k - 1
  <2>1. q \in 0..(MaxZone - 1) /\ q \in Nat
    BY <1>1, <1>4
  <2>2. seq[k] = k
    BY <1>1
  <2>3. FreeStep(f, p, zs, u, seq[k]) = write_map_free(u, f, q * zs)
    BY <2>2 DEF FreeStep
  <2> HIDE DEF q
  <2>4. q * zs \in Nat /\ (q * zs) \div zs = q
    BY <1>5, <2>1, Times
  <2>5. Within(s, q * zs)
    BY <1>5, <2>1, <2>4 DEF Within
  <2>6. /\ Sound(u, lost) /\ Frame(s, u)
        /\ \A g \in Files, z \in 0..(MaxZone - 1) :
             IF g = f /\ z \in p..(p + (k - 1) - 1) THEN PlaceZone(u, g, z) = NO_ZONE
             ELSE LikeAt(s, u, g, z)
        /\ u.bits \subseteq s.bits
        /\ \A z \in 0..(MaxZone - 1) : z \in p..(p + (k - 1) - 1) => Returned(s, u, f, z)
    BY <1>6 DEF FreeAfter
  <2>7. Within(u, q * zs)
    BY <2>5, <2>6, WithinFrame DEF Frame
  <2> DEFINE r == write_map_free(u, f, q * zs)
  <2>8. Zone(u, q * zs) = q
    <3>1. u.scale = s.scale
      BY <2>6 DEF Frame
    <3>2. Zone(u, q * zs) = Zone(s, q * zs)
      BY <2>5, <3>1, WithinFrame
    <3> QED
      BY <1>5, <2>4, <3>2
  <2>9. Sound(r, lost) /\ Frame(u, r) /\ LikeBut(u, r, f, q) /\ PlaceZone(r, f, q) = NO_ZONE
        /\ Returned(u, r, f, q)
    BY <2>6, <2>7, <2>8, MapFreeSound
  <2>10. q = p + k - 1
    BY DEF q
  <2> HIDE DEF r
  <2>11. Frame(s, r)
    BY <2>6, <2>9, FrameAlong
  <2>12. ASSUME NEW g \in Files, NEW z \in 0..(MaxZone - 1)
         PROVE  IF g = f /\ z \in p..(p + k - 1) THEN PlaceZone(r, g, z) = NO_ZONE
                ELSE LikeAt(s, r, g, z)
    <3>1. CASE g = f /\ z = q
      BY <2>9, <2>10, <3>1
    <3>2. CASE ~(g = f /\ z = q)
      <4>1. LikeAt(u, r, g, z)
        BY <2>9, <3>2 DEF LikeBut
      <4>2. CASE g = f /\ z \in p..(p + (k - 1) - 1)
        <5>1. PlaceZone(r, g, z) = NO_ZONE
          BY <2>6, <4>1, <4>2 DEF LikeAt
        <5>2. z \in p..(p + k - 1)
          BY <1>1, <4>2
        <5> QED
          BY <4>2, <5>1, <5>2
      <4>3. CASE ~(g = f /\ z \in p..(p + (k - 1) - 1))
        <5>1. LikeAt(s, r, g, z)
          BY <2>6, <4>1, <4>3, LikeAtAlong DEF Frame
        <5>2. ~(g = f /\ z \in p..(p + k - 1))
          <6>1. z \in Int /\ k \in Int
            BY <1>1, <1>4
          <6> QED
            BY <2>10, <3>2, <4>3, <6>1
        <5> QED
          BY <5>1, <5>2
      <4> QED
        BY <4>2, <4>3
    <3> QED
      BY <3>1, <3>2
  <2>13. r.bits \subseteq u.bits /\ r.bits \subseteq s.bits
    BY <2>6, <2>9 DEF Returned
  <2>14. ASSUME NEW z \in 0..(MaxZone - 1), z \in p..(p + k - 1) PROVE Returned(s, r, f, z)
    <3>1. CASE z = q
      <4>1. ~(f = f /\ q \in p..(p + (k - 1) - 1))
        BY <1>1, <2>10
      <4>2. LikeAt(s, u, f, q)
        BY <2>1, <2>6, <4>1
      <4> QED
        BY <2>9, <2>13, <3>1, <4>2 DEF LikeAt, Returned
    <3>2. CASE z # q
      <4>1. z \in p..(p + (k - 1) - 1)
        <5>1. z \in Int /\ k \in Int
          BY <1>1, <1>4
        <5> QED
          BY <2>10, <2>14, <3>2, <5>1
      <4> QED
        BY <2>6, <2>13, <4>1 DEF Returned
    <3> QED
      BY <3>1, <3>2
  <2>15. FreeAfter(f, p, zs, s, k, r)
    BY <2>9, <2>11, <2>12, <2>13, <2>14 DEF FreeAfter
  <2> QED
    BY <2>3, <2>15 DEF r
<1>7. FreeAfter(f, p, zs, s, n, t)
  BY <1>1, <1>3, <1>6, FreeFold!FoldHolds
<1> HIDE DEF t
<1> QED
  BY <1>1, <1>2, <1>7 DEF FreeAfter

LEMMA WithinBelow ==
    ASSUME NEW s, s.scale \in Scales, NEW pos \in Nat, pos < MaxSize(s)
    PROVE  Within(s, pos)
BY ZoneInRange DEF Within

LEMMA SizesIs ==
    ASSUME NEW s, s.scale \in Scales
    PROVE  MaxZone \in Nat /\ MaxSize(s) \in Nat /\ MaxSize(s) = MaxZone * ZoneSize(s)
<1>1. U * U \in Nat /\ MaxZone \in Nat
  BY Times, MfsFileAssumption DEF MaxZone
<1>2. MaxSize(s) = MaxZone * ZoneSize(s)
  BY DEF MaxSize, MaxZone
<1> QED
  BY <1>1, <1>2, ZoneIs, Times

LEMMA SizeIs ==
    ASSUME NEW s, NEW X, Sound(s, X), NEW f \in Files
    PROVE  s.ino[f].size \in Nat /\ s.ino[f].size =< MaxSize(s)
<1>1. Volume(s)
  BY SoundIs
<1>2. s.ino[f].size \in 0..MaxSize(s)
  BY <1>1, InodeIs
<1>3. MaxSize(s) \in Nat
  BY SoundIs, SizesIs
<1> HIDE DEF Sound
<1> QED
  BY <1>2, <1>3

\* Part of the zone of a position is zeroed: from it on, or what is before it.
LEMMA HalfSound ==
    ASSUME NEW s, Sound(s, lost), NEW f \in Files, NEW pos, Within(s, pos), NEW half
    PROVE  Sound(zerozone_half(s, f, pos, half), lost) /\ Rewritten(s, zerozone_half(s, f, pos, half))
<1> DEFINE zs == ZoneSize(s)
           o == pos % zs
           q == pos \div zs
           r == zerozone_half(s, f, pos, half)
<1>1. r = IF half = "LAST_HALF" THEN zerozone_range(s, f, pos, zs - o)
          ELSE zerozone_range(s, f, pos - o, o)
  BY DEF zerozone_half
<1>2. zs \in Nat \ {0} /\ pos \in Nat /\ \A x \in Nat : Zone(s, x) = x \div zs
  BY SoundIs, ZoneIs DEF Within
<1> HIDE DEF zs, r
<1>3. q \in Nat /\ o \in 0..(zs - 1) /\ pos = (zs * q) + o /\ zs * q \in Nat
  BY <1>2, DivMod, Times
<1>4. Zone(s, pos) = q /\ q \in 0..(MaxZone - 1)
  BY <1>2 DEF Within
<1> HIDE DEF o, q
<1>5. ASSUME NEW x \in Nat, NEW j \in 0..(zs - 1), x = (zs * q) + j PROVE Zone(s, x) = q
  BY <1>2, <1>3, <1>5, Quotient
<1>6. CASE half = "LAST_HALF"
  <2>1. zs - o \in Nat
    BY <1>2, <1>3
  <2>2. ASSUME NEW k \in 0..(zs - o - 1) PROVE Zone(s, pos + k) = Zone(s, pos)
    <3>1. pos + k \in Nat /\ o + k \in 0..(zs - 1) /\ pos + k = (zs * q) + (o + k)
      BY <1>2, <1>3
    <3> QED
      BY <1>4, <1>5, <3>1
  <2> QED
    BY <1>1, <1>6, <2>1, <2>2, RangeSound DEF r
<1>7. CASE half # "LAST_HALF"
  <2>1. pos - o = zs * q /\ pos - o \in Nat /\ o \in Nat /\ 0 \in 0..(zs - 1)
    BY <1>2, <1>3
  <2>2. Zone(s, pos - o) = q
    <3>1. pos - o = (zs * q) + 0
      BY <2>1
    <3> QED
      BY <1>5, <2>1, <3>1
  <2>3. Within(s, pos - o)
    BY <1>4, <2>1, <2>2 DEF Within
  <2>4. ASSUME NEW k \in 0..(o - 1) PROVE Zone(s, (pos - o) + k) = Zone(s, pos - o)
    <3>1. (pos - o) + k \in Nat /\ k \in 0..(zs - 1) /\ (pos - o) + k = (zs * q) + k
      BY <1>2, <1>3, <2>1
    <3> QED
      BY <1>5, <2>2, <3>1
  <2> QED
    BY <1>1, <1>7, <2>1, <2>3, <2>4, RangeSound DEF r
<1> QED
  BY <1>6, <1>7

\* The first and the number after the last of the zones that a range covers.
LEMMA ZonesOfRange ==
    ASSUME NEW zs \in Nat \ {0}, NEW K \in Nat, NEW start \in Nat, NEW end \in Nat, end =< K * zs,
           NEW c \in {0, 1}, c = 1 => end % zs # 0
    PROVE  /\ ((((start + zs - 1) \div zs) * zs) \div zs) \in Nat
           /\ (end \div zs) + c \in Int /\ (end \div zs) + c =< K
<1> DEFINE x == (start + zs - 1) \div zs
           e == end \div zs
           o == end % zs
<1>1. start + zs - 1 \in Nat
  OBVIOUS
<1>2. x \in Nat
  BY <1>1, DivMod
<1> HIDE DEF x
<1>3. x * zs \in Nat
  BY <1>2, Times
<1>4. (x * zs) \div zs \in Nat
  BY <1>3, DivMod
<1>5. e \in Nat /\ o \in 0..(zs - 1) /\ end = (zs * e) + o /\ e =< K
  BY DivMod, DivAtMost
<1> HIDE DEF e
<1>6. e = K => o = 0
  BY <1>5
<1>7. c = 1 => o # 0
  OBVIOUS
<1> HIDE DEF o
<1>8. e + c \in Int /\ e + c =< K
  BY <1>5, <1>6, <1>7
<1> QED
  BY <1>4, <1>8 DEF x, e

\* freesp_inode: part of a file becomes a hole.
LEMMA FreespSound ==
    ASSUME NEW s, Sound(s, lost), NEW f \in Files, NEW start \in Nat, NEW end0 \in Nat
    PROVE  LET r == freesp_inode(s, f, start, end0)
           IN Sound(r.s, lost) /\ Frame(s, r.s)
<1> DEFINE zs == ZoneSize(s)
           size == s.ino[f].size
           end == Min({end0, size})
           last == start % zs # 0
           first == end % zs # 0 /\ end < size
           t == IF last THEN zerozone_half(s, f, start, "LAST_HALF") ELSE s
           u == IF first THEN zerozone_half(t, f, end, "FIRST_HALF") ELSE t
           c == IF end = size /\ end % zs # 0 THEN 1 ELSE 0
           e == (end \div zs) + c
           p == nextblock(s, start) \div zs
           r == freesp_inode(s, f, start, end0)
<1>1. r = IF end <= start THEN [s |-> s, r |-> "EINVAL"]
          ELSE IF start \div zs = (end - 1) \div zs /\ (last \/ first)
          THEN [s |-> zerozone_range(s, f, start, end - start), r |-> "OK"]
          ELSE [s |-> free_zones(u, f, p, e), r |-> "OK"]
  BY Zenon DEF freesp_inode
<1>2. zs \in Nat \ {0} /\ \A x \in Nat : Zone(s, x) = x \div zs
  BY SoundIs, ZoneIs
<1>3. MaxZone \in Nat /\ MaxSize(s) \in Nat /\ MaxSize(s) = MaxZone * zs /\ s.scale \in Scales
  BY SoundIs, SizesIs
<1>4. size \in Nat /\ size =< MaxSize(s)
  BY SizeIs
<1> HIDE DEF size
<1>5. end \in Nat /\ end =< size
  BY <1>4, MinOfTwo
<1>6. ((((start + zs - 1) \div zs) * zs) \div zs) = p
  BY DEF nextblock
<1> HIDE DEF r, p, zs
<1> HIDE DEF end
<1>7. \A x \in Nat : x < end => Within(s, x)
  BY <1>3, <1>4, <1>5, WithinBelow
<1>8. CASE end <= start
  <2>1. r.s = s
    BY <1>1, <1>8
  <2> QED
    BY <2>1 DEF Frame, r
<1>9. CASE ~(end <= start) /\ start \div zs = (end - 1) \div zs /\ (last \/ first)
  <2>1. r.s = zerozone_range(s, f, start, end - start)
    BY <1>1, <1>9
  <2>2. start < end /\ end - start \in Nat
    BY <1>5, <1>9
  <2>3. ASSUME NEW k \in 0..(end - start - 1) PROVE Zone(s, start + k) = Zone(s, start)
    <3>1. start + k \in Nat /\ start + k =< end - 1 /\ start =< start + k
      BY <1>5, <2>2
    <3>2. (start + k) \div zs = start \div zs
      <4>1. start \div zs =< (start + k) \div zs
        BY <1>2, <3>1
      <4>2. (start + k) \div zs =< (end - 1) \div zs
        BY <1>2, <1>5, <2>2, <3>1
      <4>3. start \div zs \in Int /\ (start + k) \div zs \in Int
        BY <1>2, <3>1, DivMod
      <4> QED
        BY <1>9, <4>1, <4>2, <4>3
    <3> QED
      BY <1>2, <3>1, <3>2
  <2>4. Within(s, start)
    BY <1>7, <2>2
  <2>5. Sound(r.s, lost) /\ Rewritten(s, r.s)
    BY <2>1, <2>2, <2>3, <2>4, RangeSound
  <2> QED
    BY <2>5 DEF Rewritten, r
<1>10. CASE ~(end <= start) /\ ~(start \div zs = (end - 1) \div zs /\ (last \/ first))
  <2>1. r.s = free_zones(u, f, p, e)
    BY <1>1, <1>10
  <2>2. Rewritten(s, s)
    BY DEF Rewritten, Frame
  <2>3. Sound(t, lost) /\ Rewritten(s, t)
    <3>1. Within(s, start)
      BY <1>5, <1>7, <1>10
    <3>2. Sound(zerozone_half(s, f, start, "LAST_HALF"), lost)
          /\ Rewritten(s, zerozone_half(s, f, start, "LAST_HALF"))
      BY <3>1, HalfSound
    <3> QED
      BY <2>2, <3>2
  <2> HIDE DEF t
  <2>4. Sound(u, lost) /\ Rewritten(s, u)
    <3>1. CASE first
      <4>1. Within(s, end)
        BY <1>3, <1>4, <1>5, <3>1, WithinBelow
      <4>2. Within(t, end)
        BY <2>3, <4>1, WithinFrame DEF Rewritten, Frame
      <4>3. Sound(zerozone_half(t, f, end, "FIRST_HALF"), lost)
            /\ Rewritten(t, zerozone_half(t, f, end, "FIRST_HALF"))
        BY <2>3, <4>2, HalfSound
      <4>4. u = zerozone_half(t, f, end, "FIRST_HALF")
        BY <3>1
      <4> QED
        BY <2>3, <4>3, <4>4, RewrittenAlong
    <3>2. CASE ~first
      <4>1. u = t
        BY <3>2
      <4> QED
        BY <2>3, <4>1
    <3> QED
      BY <3>1, <3>2
  <2> HIDE DEF u, first, last
  <2>5. c \in {0, 1} /\ (c = 1 => end % zs # 0)
    OBVIOUS
  <2> HIDE DEF c
  <2>6. end =< MaxZone * zs
    BY <1>3, <1>4, <1>5
  <2>7. p \in Nat /\ e \in Int /\ e =< MaxZone
    BY <1>2, <1>3, <1>5, <1>6, <2>5, <2>6, ZonesOfRange
  <2> HIDE DEF e
  <2>8. Sound(r.s, lost) /\ Frame(u, r.s)
    BY <2>1, <2>4, <2>7, FreeZonesSound
  <2> QED
    BY <2>4, <2>8, FrameAlong DEF Rewritten, r
<1> QED
  BY <1>8, <1>9, <1>10

\* truncate_inode.
LEMMA TruncateSound ==
    ASSUME NEW s, Sound(s, lost), NEW f \in Files, NEW newsize \in Nat
    PROVE  LET r == truncate_inode(s, f, newsize)
           IN Sound(r.s, lost)
<1> DEFINE size == s.ino[f].size
           cut == IF newsize < size THEN freesp_inode(s, f, newsize, size).s ELSE s
           t == IF newsize > size THEN clear_zone(cut, f, size, FALSE) ELSE cut
           r == truncate_inode(s, f, newsize)
<1>1. r = IF newsize > MaxSize(s) THEN [s |-> s, r |-> "EFBIG"]
          ELSE [s |-> [t EXCEPT !.ino[f].size = newsize], r |-> "OK"]
  BY Zenon DEF truncate_inode
<1>2. MaxSize(s) \in Nat /\ size \in Nat /\ size =< MaxSize(s) /\ s.scale \in Scales
  BY SoundIs, SizeIs, SizesIs
<1> HIDE DEF r, size
<1>3. CASE newsize > MaxSize(s)
  BY <1>1, <1>3 DEF r
<1>4. CASE newsize =< MaxSize(s)
  <2>1. Sound(cut, lost) /\ Frame(s, cut)
    <3>1. CASE newsize < size
      <4>1. cut = freesp_inode(s, f, newsize, size).s
        BY <3>1
      <4> HIDE DEF cut
      <4> QED
        BY <1>2, <4>1, FreespSound
    <3>2. CASE ~(newsize < size)
      <4>1. cut = s
        BY <3>2
      <4> QED
        BY <4>1 DEF Frame
    <3> QED
      BY <3>1, <3>2
  <2> HIDE DEF cut
  <2>2. Sound(t, lost) /\ t.scale = s.scale
    <3>1. CASE newsize > size
      <4>1. Within(s, size)
        BY <1>2, <1>4, <3>1, WithinBelow
      <4>2. Within(cut, size)
        BY <2>1, <4>1, WithinFrame DEF Frame
      <4>3. t = clear_zone(cut, f, size, FALSE)
        BY <3>1
      <4> HIDE DEF t
      <4>4. Sound(t, lost) /\ Rewritten(cut, t)
        BY <2>1, <4>2, <4>3, ClearZoneSound
      <4> QED
        BY <2>1, <4>4 DEF Rewritten, Frame
    <3>2. CASE ~(newsize > size)
      <4>1. t = cut
        BY <3>2
      <4> QED
        BY <2>1, <4>1 DEF Frame
    <3> QED
      BY <3>1, <3>2
  <2> HIDE DEF t
  <2>3. newsize \in 0..MaxSize(t)
    BY <1>2, <1>4, <2>2 DEF MaxSize, ZoneSize, ZoneBlocks
  <2>4. Sound([t EXCEPT !.ino[f].size = newsize], lost)
    BY <2>2, <2>3, SizePutSound
  <2>5. r.s = [t EXCEPT !.ino[f].size = newsize]
    BY <1>1, <1>2, <1>4
  <2> QED
    BY <2>4, <2>5 DEF r
<1> QED
  BY <1>2, <1>3, <1>4

-----------------------------------------------------------------------------
(* Writing. *)

\* The chunks of a request follow one another up to its end.
LEMMA ChunkBounds ==
    ASSUME NEW pos \in Nat, NEW len \in Nat \ {0},
           NEW k \in 0..(((pos + len - 1) \div U) - (pos \div U))
    PROVE  /\ chunk_from(pos, k) \in Nat /\ chunk_from(pos, k) < pos + len
           /\ chunk_to(pos, len, k) \in Nat /\ chunk_to(pos, len, k) =< pos + len
           /\ k # 0 => chunk_to(pos, len, k - 1) = chunk_from(pos, k)
<1> DEFINE P == pos \div U
           E == (pos + len - 1) \div U
<1>1. U \in Nat \ {0} /\ pos + len - 1 \in Nat
  BY MfsFileAssumption
<1>2. P \in Nat /\ E \in Nat /\ E * U =< pos + len - 1
  <2>1. P \in Nat /\ E \in Nat
    BY <1>1, DivMod
  <2>2. E * U =< pos + len - 1
    BY <1>1
  <2> QED
    BY <2>1, <2>2
<1>3. chunk_from(pos, k) = IF k = 0 THEN pos ELSE (P + k) * U
  BY DEF chunk_from
<1>4. chunk_to(pos, len, k) = Min({pos + len, (P + k + 1) * U})
  BY DEF chunk_to
<1>5. chunk_to(pos, len, k - 1) = Min({pos + len, (P + (k - 1) + 1) * U})
  BY DEF chunk_to
<1>6. k \in 0..(E - P)
  OBVIOUS
<1> HIDE DEF P, E
<1>7. k \in Nat /\ P + k =< E /\ P + k \in Nat /\ P + k + 1 \in Nat /\ P + (k - 1) + 1 = P + k
  BY <1>2, <1>6
<1>8. (P + k) * U =< E * U /\ (P + k) * U \in Nat /\ (P + k + 1) * U \in Nat /\ E * U \in Nat
  BY <1>1, <1>2, <1>7, Larger, Times
<1> DEFINE a == (P + k) * U
           b == (P + k + 1) * U
<1>9. a \in Nat /\ b \in Nat /\ a < pos + len
  BY <1>1, <1>2, <1>8
<1>10. chunk_from(pos, k) = (IF k = 0 THEN pos ELSE a) /\ chunk_to(pos, len, k) = Min({pos + len, b})
       /\ chunk_to(pos, len, k - 1) = Min({pos + len, a})
  BY <1>3, <1>4, <1>5, <1>7
<1> HIDE DEF a, b
<1> QED
  BY <1>9, <1>10, MinOfTwo

\* Chunk j of request r is written; and what holds after k chunks.
WriteStep(r, chunks, c, acc, j) == WriteChunk(r.f, chunks[j], r.v, j = r.fault, acc)
WriteAfter(r, chunks, c, base, k, acc) ==
    /\ Sound(acc.s, lost) /\ Frame(base.s, acc.s)
    /\ acc.pos \in Nat /\ acc.pos =< r.pos + r.len
    /\ acc.r = "OK" => acc.pos = IF k = 0 THEN r.pos ELSE chunk_to(r.pos, r.len, k - 1)
WriteFold == INSTANCE FoldInduction WITH Step <- WriteStep, Holds <- WriteAfter

LEMMA ChunksAre ==
    ASSUME NEW pos, NEW len, NEW n, n = ((pos + len - 1) \div U) - (pos \div U) + 1
    PROVE  /\ DOMAIN Chunks(pos, len) = 1..n
           /\ \A j \in 1..n : /\ Chunks(pos, len)[j].pos = chunk_from(pos, j - 1)
                              /\ Chunks(pos, len)[j].n = chunk_to(pos, len, j - 1) - chunk_from(pos, j - 1)
BY DEF Chunks

LEMMA WriteStepHolds ==
    ASSUME NEW r, r.f \in Files, r.v \in Int, r.pos \in Nat, r.len \in Nat \ {0}, NEW base,
           Sound(base.s, lost), r.pos + r.len =< MaxSize(base.s),
           NEW n, n = ((r.pos + r.len - 1) \div U) - (r.pos \div U) + 1,
           NEW chunks, chunks = Chunks(r.pos, r.len),
           NEW k \in 1..n, NEW acc, WriteAfter(r, chunks, 0, base, k - 1, acc)
    PROVE  WriteAfter(r, chunks, 0, base, k, WriteStep(r, chunks, 0, acc, k))
<1> DEFINE c == chunks[k]
           w == rw_chunk(acc.s, r.f, c.pos, c.n, r.v, k = r.fault)
           new == WriteStep(r, chunks, 0, acc, k)
<1>1. new = IF acc.r # "OK" THEN acc ELSE written(acc, c.n, w)
  BY DEF WriteStep, WriteChunk
<1>2. /\ Sound(acc.s, lost) /\ Frame(base.s, acc.s)
      /\ acc.pos \in Nat /\ acc.pos =< r.pos + r.len
      /\ acc.r = "OK" => acc.pos = IF k - 1 = 0 THEN r.pos ELSE chunk_to(r.pos, r.len, (k - 1) - 1)
  BY DEF WriteAfter
<1> HIDE DEF new
<1>3. CASE acc.r # "OK"
  BY <1>1, <1>2, <1>3 DEF WriteAfter, new
<1>4. CASE acc.r = "OK"
  <2> DEFINE from == chunk_from(r.pos, k - 1)
             to == chunk_to(r.pos, r.len, k - 1)
             D == ((r.pos + r.len - 1) \div U) - (r.pos \div U)
  <2>1. k - 1 \in 0..D
    <3>1. (r.pos + r.len - 1) \div U \in Nat /\ r.pos \div U \in Nat
      <4>1. r.pos + r.len - 1 \in Nat /\ U \in Nat \ {0}
        BY MfsFileAssumption
      <4> QED
        BY <4>1, DivMod
    <3>2. D \in Int /\ n = D + 1
      BY <3>1
    <3> HIDE DEF D
    <3> QED
      BY <3>2
  <2>2. /\ from \in Nat /\ from < r.pos + r.len /\ to \in Nat /\ to =< r.pos + r.len
        /\ k - 1 # 0 => chunk_to(r.pos, r.len, (k - 1) - 1) = from
    BY <2>1, ChunkBounds
  <2> HIDE DEF D
  <2>3. k - 1 = 0 => from = r.pos
    BY DEF chunk_from
  <2>4. acc.pos = from
    BY <1>2, <1>4, <2>2, <2>3
  <2>5. c.pos = from /\ c.n = to - from
    BY ChunksAre
  <2> HIDE DEF c, from
  <2>6. MaxSize(base.s) \in Nat /\ base.s.scale \in Scales
    BY SoundIs, SizesIs
  <2>7. Within(acc.s, c.pos)
    <3>1. c.pos \in Nat /\ c.pos < MaxSize(base.s)
      BY <2>2, <2>5, <2>6
    <3>2. Within(base.s, c.pos)
      BY <2>6, <3>1, WithinBelow
    <3> QED
      BY <1>2, <3>2, WithinFrame DEF Frame
  <2>8. Sound(w.s, lost) /\ Frame(acc.s, w.s)
    BY <1>2, <2>7, ChunkSound
  <2> HIDE DEF w
  <2>9. new = [s |-> w.s, r |-> w.r, pos |-> IF w.r = "OK" THEN acc.pos + c.n ELSE acc.pos]
    BY <1>1, <1>4 DEF written
  <2>10. new.s = w.s /\ new.r = w.r /\ new.pos = IF w.r = "OK" THEN acc.pos + c.n ELSE acc.pos
    BY <2>9
  <2>11. acc.pos + c.n = to
    BY <2>2, <2>4, <2>5
  <2>12. Frame(base.s, new.s)
    BY <1>2, <2>8, <2>10, FrameAlong
  <2>13. new.pos \in Nat /\ new.pos =< r.pos + r.len
    BY <1>2, <2>2, <2>10, <2>11
  <2>14. new.r = "OK" => new.pos = IF k = 0 THEN r.pos ELSE chunk_to(r.pos, r.len, k - 1)
    BY <2>10, <2>11
  <2> QED
    BY <2>8, <2>10, <2>12, <2>13, <2>14 DEF WriteAfter, new
<1> QED
  BY <1>3, <1>4

LEMMA RequestSound ==
    ASSUME NEW r, r.f \in Files, r.v \in Int, r.pos \in Nat, r.len \in Nat \ {0},
           NEW s, Sound(s, lost), r.pos + r.len =< MaxSize(s)
    PROVE  LET w == WriteChunks(s, r.f, r.pos, r.len, r.v, r.fault)
           IN Sound(w.s, lost) /\ Frame(s, w.s) /\ w.pos \in Nat /\ w.pos =< r.pos + r.len
<1> DEFINE chunks == Chunks(r.pos, r.len)
           n == ((r.pos + r.len - 1) \div U) - (r.pos \div U) + 1
           base == [s |-> s, r |-> "OK", pos |-> r.pos]
           seq == [j \in DOMAIN chunks |-> j]
           t == WriteFold!Fold(r, chunks, 0, base, seq, n)
           w == FoldLeft(LAMBDA acc, j : WriteChunk(r.f, chunks[j], r.v, j = r.fault, acc), base, seq)
<1>1. n \in Nat
  <2>1. r.pos + r.len - 1 \in Nat /\ U \in Nat \ {0} /\ r.pos =< r.pos + r.len - 1
    BY MfsFileAssumption
  <2>2. r.pos \div U =< (r.pos + r.len - 1) \div U
    BY <2>1
  <2>3. (r.pos + r.len - 1) \div U \in Nat /\ r.pos \div U \in Nat
    BY <2>1, DivMod
  <2> QED
    BY <2>2, <2>3
<1>2. DOMAIN chunks = 1..n
  BY ChunksAre
<1>3. chunks = Chunks(r.pos, r.len) /\ n = ((r.pos + r.len - 1) \div U) - (r.pos \div U) + 1
  OBVIOUS
<1>4. WriteChunks(s, r.f, r.pos, r.len, r.v, r.fault) = t
  <2>1. WriteChunks(s, r.f, r.pos, r.len, r.v, r.fault) = w
    BY Zenon DEF WriteChunks
  <2> HIDE DEF n, chunks
  <2>2. DOMAIN seq = 1..n
    BY <1>2
  <2>3. w = t
    <3> HIDE DEF seq, base
    <3> QED
      BY <2>2 DEF FoldLeft, MapThenFoldSet, Max, WriteFold!Fold, WriteStep
  <2> HIDE DEF w, t
  <2> QED
    BY <2>1, <2>3
<1> HIDE DEF w
<1> HIDE DEF n, chunks
<1>5. \A k \in 1..n : seq[k] = k
  BY <1>2
<1> HIDE DEF seq
<1>6. base.s = s /\ base.pos = r.pos
  OBVIOUS
<1> HIDE DEF base
<1>7. WriteAfter(r, chunks, 0, base, 0, base)
  BY <1>6 DEF WriteAfter, Frame
<1>8. ASSUME NEW k \in 1..n, NEW acc, WriteAfter(r, chunks, 0, base, k - 1, acc)
      PROVE  WriteAfter(r, chunks, 0, base, k, WriteStep(r, chunks, 0, acc, seq[k]))
  <2>1. WriteAfter(r, chunks, 0, base, k, WriteStep(r, chunks, 0, acc, k))
    BY <1>3, <1>6, <1>8, WriteStepHolds
  <2> QED
    BY <1>5, <2>1
<1>9. WriteAfter(r, chunks, 0, base, n, t)
  BY <1>1, <1>7, <1>8, WriteFold!FoldHolds
<1> HIDE DEF t
<1> QED
  BY <1>4, <1>6, <1>9 DEF WriteAfter

LEMMA WriteChunksSound ==
    ASSUME NEW s, Sound(s, lost), NEW f \in Files, NEW pos \in Nat, NEW len \in Nat \ {0}, NEW v \in Int,
           NEW fault, pos + len =< MaxSize(s)
    PROVE  LET w == WriteChunks(s, f, pos, len, v, fault)
           IN Sound(w.s, lost) /\ Frame(s, w.s) /\ w.pos \in Nat /\ w.pos =< pos + len
<1> DEFINE r == [f |-> f, pos |-> pos, len |-> len, v |-> v, fault |-> fault]
<1>1. r.f = f /\ r.pos = pos /\ r.len = len /\ r.v = v /\ r.fault = fault
  OBVIOUS
<1> HIDE DEF r
<1> DEFINE w == WriteChunks(s, r.f, r.pos, r.len, r.v, r.fault)
<1>2. Sound(w.s, lost) /\ Frame(s, w.s) /\ w.pos \in Nat /\ w.pos =< r.pos + r.len
  BY <1>1, RequestSound
<1> QED
  BY <1>1, <1>2

-----------------------------------------------------------------------------
(* The requests keep the map sound. *)

LEMMA NewInodeIs ==
    ASSUME NEW s, s.scale \in Scales
    PROVE  NewInode \in Inode(s) /\ NewInode.zone = [i \in Tops |-> NO_ZONE]
<1>1. 0 \in 0..MaxSize(s)
  BY SizesIs
<1> QED
  BY <1>1 DEF NewInode, Inode, Tops, NO_ZONE

\* What the constants say of a request.
LEMMA RequestIs ==
    /\ \A pos \in Positions : pos \in Nat
    /\ \A len \in Lengths : len \in Nat \ {0}
BY RequestsAssumption

LEMMA WriteKeeps ==
    ASSUME FInv, NEW f \in Files, NEW pos \in Positions, NEW len \in Lengths, Write(f, pos, len)
    PROVE  FInv'
<1> DEFINE size == fs.ino[f].size
           v == calls + 1
           start == IF pos > size THEN clear_zone(fs, f, size, FALSE) ELSE fs
<1>1. Sound(fs, lost) /\ calls \in Nat
  BY DEF FInv
<1>2. PICK fault :
        /\ Call /\ lost' = lost
        /\ \/ pos > MaxSize(fs) - len /\ fs' = fs
           \/ /\ pos <= MaxSize(fs) - len
              /\ \E w \in {WriteChunks(start, f, pos, len, v, fault)} :
                    fs' = [w.s EXCEPT !.ino[f].size = Max({w.pos, size})]
  BY Zenon DEF Write
<1>3. calls' \in Nat /\ v \in Int
  <2>1. Call
    BY Zenon DEF Write
  <2>2. calls' = calls + 1
    BY <2>1 DEF Call
  <2> QED
    BY <1>1, <2>2
<1>4. pos \in Nat /\ len \in Nat \ {0}
  BY RequestIs
<1>5. size \in Nat /\ size =< MaxSize(fs) /\ MaxSize(fs) \in Nat /\ fs.scale \in Scales
  BY <1>1, SizeIs, SoundIs, SizesIs
<1> HIDE DEF size, v
<1>6. CASE fs' = fs
  BY <1>1, <1>2, <1>3, <1>6 DEF FInv
<1>7. CASE /\ pos <= MaxSize(fs) - len
           /\ \E w \in {WriteChunks(start, f, pos, len, v, fault)} :
                 fs' = [w.s EXCEPT !.ino[f].size = Max({w.pos, size})]
  <2> DEFINE w == WriteChunks(start, f, pos, len, v, fault)
             n == Max({w.pos, size})
  <2>1. fs' = [w.s EXCEPT !.ino[f].size = n]
    BY <1>7
  <2>2. pos + len =< MaxSize(fs)
    BY <1>4, <1>5, <1>7
  <2>3. Sound(start, lost) /\ start.scale = fs.scale
    <3>1. CASE pos > size
      <4>1. Within(fs, size)
        BY <1>4, <1>5, <2>2, <3>1, WithinBelow
      <4>2. start = clear_zone(fs, f, size, FALSE)
        BY <3>1
      <4> HIDE DEF start
      <4>3. Sound(start, lost) /\ Rewritten(fs, start)
        BY <1>1, <4>1, <4>2, ClearZoneSound
      <4> QED
        BY <4>3 DEF Rewritten, Frame
    <3>2. CASE ~(pos > size)
      <4>1. start = fs
        BY <3>2
      <4> QED
        BY <1>1, <4>1
    <3> QED
      BY <3>1, <3>2
  <2> HIDE DEF start
  <2>4. MaxSize(start) = MaxSize(fs)
    BY <2>3 DEF MaxSize, ZoneSize, ZoneBlocks
  <2>5. pos + len =< MaxSize(start)
    BY <2>2, <2>4
  <2>6. Sound(w.s, lost) /\ Frame(start, w.s) /\ w.pos \in Nat /\ w.pos =< pos + len
    BY <1>3, <1>4, <2>3, <2>5, WriteChunksSound
  <2> HIDE DEF w
  <2>7. MaxSize(w.s) = MaxSize(fs)
    BY <2>3, <2>6 DEF Frame, MaxSize, ZoneSize, ZoneBlocks
  <2>8. n = IF w.pos >= size THEN w.pos ELSE size
    BY <1>5, <2>6, MaxOfTwo
  <2> HIDE DEF n
  <2>9. n \in 0..MaxSize(w.s)
    BY <1>4, <1>5, <2>2, <2>6, <2>7, <2>8
  <2>10. Sound([w.s EXCEPT !.ino[f].size = n], lost)
    BY <2>6, <2>9, SizePutSound
  <2>11. Sound(fs', lost)
    BY <2>1, <2>10
  <2> QED
    BY <1>2, <1>3, <2>11 DEF FInv
<1> QED
  BY <1>2, <1>6, <1>7

LEMMA TruncKeeps ==
    ASSUME FInv, NEW f \in Files, NEW start \in Positions, NEW end \in Positions, fs_ftrunc(f, start, end)
    PROVE  FInv'
<1>1. Sound(fs, lost) /\ calls \in Nat
  BY DEF FInv
<1>2. /\ Call /\ lost' = lost
      /\ fs' = (IF end = 0 THEN truncate_inode(fs, f, start) ELSE freesp_inode(fs, f, start, end)).s
  BY Zenon DEF fs_ftrunc
<1>3. calls' \in Nat
  BY <1>1, <1>2 DEF Call
<1>4. start \in Nat /\ end \in Nat
  BY RequestIs
<1>5. Sound(truncate_inode(fs, f, start).s, lost) /\ Sound(freesp_inode(fs, f, start, end).s, lost)
  BY <1>1, <1>4, TruncateSound, FreespSound
<1>6. Sound(fs', lost)
  BY <1>2, <1>5
<1> QED
  BY <1>2, <1>3, <1>6 DEF FInv

\* The indirect zones of a file.
Owned(s, f) ==
    ({s.ino[f].zone[SINGLE], s.ino[f].zone[DOUBLE]}
        \cup {e[3] : e \in EntriesOf(s, s.ino[f].zone[DOUBLE])}) \ {NO_ZONE}

LEMMA EntriesAre ==
    ASSUME NEW s, NEW d, NEW z
    PROVE  (\E e \in EntriesOf(s, d) : e[3] = z) <=> (d # NO_ZONE /\ \E i \in Entries : z = rd_indir(s, d, i))
<1>1. ASSUME NEW i \in Entries, d # NO_ZONE
      PROVE  \E e \in EntriesOf(s, d) : e[3] = rd_indir(s, d, i)
  <2> DEFINE e == <<d, i, rd_indir(s, d, i)>>
  <2>1. e \in EntriesOf(s, d) /\ e[3] = rd_indir(s, d, i)
    BY <1>1 DEF EntriesOf, Entries
  <2> HIDE DEF e
  <2> QED
    BY <2>1
<1>2. ASSUME NEW e \in EntriesOf(s, d)
      PROVE  d # NO_ZONE /\ \E i \in Entries : e[3] = rd_indir(s, d, i)
  <2>1. PICK i \in Entries : e = <<d, i, rd_indir(s, d, i)>> /\ d # NO_ZONE
    BY <1>2 DEF EntriesOf, Entries
  <2>2. e[3] = rd_indir(s, d, i)
    BY <2>1
  <2> QED
    BY <2>1, <2>2
<1> QED
  BY <1>1, <1>2

LEMMA OwnedIs ==
    ASSUME NEW s, NEW f, NEW y
    PROVE  y \in Owned(s, f) <=>
             /\ y # NO_ZONE
             /\ \/ y = s.ino[f].zone[SINGLE] \/ y = s.ino[f].zone[DOUBLE]
                \/ /\ s.ino[f].zone[DOUBLE] # NO_ZONE
                   /\ \E i \in Entries : y = rd_indir(s, s.ino[f].zone[DOUBLE], i)
<1> DEFINE d == s.ino[f].zone[DOUBLE]
<1>1. y \in {e[3] : e \in EntriesOf(s, d)} <=> \E e \in EntriesOf(s, d) : e[3] = y
  BY Zenon
<1>2. (\E e \in EntriesOf(s, d) : e[3] = y) <=> (d # NO_ZONE /\ \E i \in Entries : y = rd_indir(s, d, i))
  <2> HIDE DEF d
  <2>1. \A x, w : (\E e \in EntriesOf(s, x) : e[3] = w) <=> (x # NO_ZONE /\ \E i \in Entries : w = rd_indir(s, x, i))
    BY EntriesAre
  <2> QED
    BY <2>1
<1> QED
  BY <1>1, <1>2 DEF Owned

\* The zones a file leads to are those of its inode and of its indirect zones.
LEMMA ZonesAre ==
    ASSUME NEW s, NEW f, NEW z
    PROVE  z \in ZonesOf(s, f) <=>
             /\ z # NO_ZONE
             /\ \/ \E i \in Tops : z = s.ino[f].zone[i]
                \/ \E y \in Owned(s, f), i \in Entries : z = rd_indir(s, y, i)
<1> DEFINE R == References(s, f)
           a == s.ino[f].zone[SINGLE]
           d == s.ino[f].zone[DOUBLE]
           T == {<<f, i, s.ino[f].zone[i]>> : i \in Tops}
           Far == UNION {EntriesOf(s, e[3]) : e \in EntriesOf(s, d)}
<1>1. z \in ZonesOf(s, f) <=> z # NO_ZONE /\ \E e \in R : e[3] = z
  BY Zenon DEF ZonesOf
<1>2. R = T \cup EntriesOf(s, a) \cup EntriesOf(s, d) \cup Far
  BY DEF References, Tops
<1>3. (\E e \in T : e[3] = z) <=> \E i \in Tops : z = s.ino[f].zone[i]
  <2>1. ASSUME NEW i \in Tops PROVE \E e \in T : e[3] = s.ino[f].zone[i]
    <3> DEFINE e == <<f, i, s.ino[f].zone[i]>>
    <3>1. e \in T /\ e[3] = s.ino[f].zone[i]
      OBVIOUS
    <3> HIDE DEF e, T
    <3> QED
      BY <3>1
  <2>2. ASSUME NEW e \in T PROVE \E i \in Tops : e[3] = s.ino[f].zone[i]
    <3>1. PICK i \in Tops : e = <<f, i, s.ino[f].zone[i]>>
      OBVIOUS
    <3>2. e[3] = s.ino[f].zone[i]
      BY <3>1
    <3> QED
      BY <3>2
  <2> HIDE DEF T
  <2> QED
    BY <2>1, <2>2
<1>4. (\E e \in Far : e[3] = z) <=>
        \E x \in EntriesOf(s, d) : x[3] # NO_ZONE /\ \E i \in Entries : z = rd_indir(s, x[3], i)
  <2>1. (\E e \in Far : e[3] = z) <=> \E x \in EntriesOf(s, d) : \E e \in EntriesOf(s, x[3]) : e[3] = z
    BY Zenon
  <2> HIDE DEF Far, d
  <2>2. ASSUME NEW x
        PROVE  (\E e \in EntriesOf(s, x[3]) : e[3] = z)
                 <=> (x[3] # NO_ZONE /\ \E i \in Entries : z = rd_indir(s, x[3], i))
    BY EntriesAre, Zenon
  <2> QED
    BY <2>1, <2>2, Zenon
<1>5. (\E e \in Far : e[3] = z) <=>
        /\ d # NO_ZONE
        /\ \E j \in Entries : /\ rd_indir(s, d, j) # NO_ZONE
                              /\ \E i \in Entries : z = rd_indir(s, rd_indir(s, d, j), i)
  <2> HIDE DEF Far, d
  <2>1. \A y : (\E x \in EntriesOf(s, d) : x[3] = y)
                 <=> (d # NO_ZONE /\ \E j \in Entries : y = rd_indir(s, d, j))
    BY EntriesAre
  <2> QED
    BY <1>4, <2>1
<1> HIDE DEF R, T, Far
<1>6. (\E e \in R : e[3] = z) <=>
        \/ \E i \in Tops : z = s.ino[f].zone[i]
        \/ a # NO_ZONE /\ \E i \in Entries : z = rd_indir(s, a, i)
        \/ d # NO_ZONE /\ \E i \in Entries : z = rd_indir(s, d, i)
        \/ \E e \in Far : e[3] = z
  <2> HIDE DEF a, d
  <2>1. (\E e \in R : e[3] = z) <=> \/ \E e \in T : e[3] = z
                                    \/ \E e \in EntriesOf(s, a) : e[3] = z
                                    \/ \E e \in EntriesOf(s, d) : e[3] = z
                                    \/ \E e \in Far : e[3] = z
    BY <1>2
  <2>4. \A x, w : (\E e \in EntriesOf(s, x) : e[3] = w) <=> (x # NO_ZONE /\ \E i \in Entries : w = rd_indir(s, x, i))
    BY EntriesAre
  <2>2. (\E e \in EntriesOf(s, a) : e[3] = z) <=> (a # NO_ZONE /\ \E i \in Entries : z = rd_indir(s, a, i))
    BY <2>4
  <2>3. (\E e \in EntriesOf(s, d) : e[3] = z) <=> (d # NO_ZONE /\ \E i \in Entries : z = rd_indir(s, d, i))
    BY <2>4
  <2> QED
    BY <1>3, <2>1, <2>2, <2>3, Zenon
<1>7. \A y : y \in Owned(s, f) <=>
        y # NO_ZONE /\ (y = a \/ y = d \/ (d # NO_ZONE /\ \E j \in Entries : y = rd_indir(s, d, j)))
  BY OwnedIs
<1> HIDE DEF a, d
<1> QED
  BY <1>1, <1>5, <1>6, <1>7

\* Every indirect zone is one of a file.
LEMMA OwnedAll ==
    ASSUME NEW s, NEW y
    PROVE  y \in Indirects(s) <=> \E f \in Files : y \in Owned(s, f)
<1>1. ASSUME y \in Indirects(s) PROVE \E f \in Files : y \in Owned(s, f)
  <2>1. CASE y \in Doubles(s)
    BY <2>1, DoubleName, OwnedIs
  <2>2. CASE y \in Singles(s)
    <3>1. CASE \E f \in Files : y = s.ino[f].zone[SINGLE]
      BY <2>2, <3>1, SingleName, OwnedIs
    <3>2. CASE \E d \in Doubles(s), i \in Entries : y = rd_indir(s, d, i)
      BY <2>2, <3>2, SingleName, DoubleName, OwnedIs
    <3> QED
      BY <2>2, <3>1, <3>2, SingleName
  <2> QED
    BY <1>1, <2>1, <2>2 DEF Indirects
<1>2. ASSUME NEW f \in Files, y \in Owned(s, f) PROVE y \in Indirects(s)
  <2> DEFINE d == s.ino[f].zone[DOUBLE]
  <2>1. d # NO_ZONE => d \in Doubles(s)
    BY DEF Doubles
  <2>2. y # NO_ZONE /\ \/ y = s.ino[f].zone[SINGLE] \/ y = d
                       \/ d # NO_ZONE /\ \E i \in Entries : y = rd_indir(s, d, i)
    BY <1>2, OwnedIs
  <2> HIDE DEF d
  <2> QED
    BY <2>1, <2>2, SingleIs DEF Indirects
<1> QED
  BY <1>1, <1>2

\* No indirect zone is one of two files.
LEMMA OwnedOnce ==
    ASSUME NEW s, NEW bits, NEW X, Exact(Map(s), bits, X), NEW f \in Files, NEW g \in Files,
           NEW y, y \in Owned(s, f), y \in Owned(s, g)
    PROVE  f = g
<1> DEFINE m == Map(s)
           D(h) == s.ino[h].zone[DOUBLE]
<1>1. \A n, k \in DOMAIN m : m[n] = m[k] /\ m[n] # NO_ZONE => n = k
  BY DEF Exact
<1>2. ASSUME NEW h \in Files, y \in Owned(s, h)
      PROVE  \/ \E i \in Tops : <<"ino", h, i>> \in DOMAIN m /\ m[<<"ino", h, i>>] = y
             \/ /\ D(h) # NO_ZONE
                /\ \E i \in Entries : <<"blk", D(h), i>> \in DOMAIN m /\ m[<<"blk", D(h), i>>] = y
  <2>1. D(h) # NO_ZONE => D(h) \in Indirects(s)
    BY DEF Doubles, Indirects
  <2> HIDE DEF m
  <2>2. CASE y = s.ino[h].zone[SINGLE] \/ y = D(h)
    BY <2>2, TopName, TopIndices DEF m
  <2>3. CASE D(h) # NO_ZONE /\ \E i \in Entries : y = rd_indir(s, D(h), i)
    <3> HIDE DEF D
    <3> QED
      BY <2>1, <2>3, EntryName DEF m
  <2> QED
    BY <1>2, <2>2, <2>3, OwnedIs
<1>3. ASSUME NEW h \in Files PROVE <<"ino", h, DOUBLE>> \in DOMAIN m /\ m[<<"ino", h, DOUBLE>>] = D(h)
  BY TopName, TopIndices
<1>4. y # NO_ZONE
  BY OwnedIs
<1> HIDE DEF m, D
<1>5. CASE \E i \in Tops : <<"ino", f, i>> \in DOMAIN m /\ m[<<"ino", f, i>>] = y
  <2>1. PICK i \in Tops : <<"ino", f, i>> \in DOMAIN m /\ m[<<"ino", f, i>>] = y
    BY <1>5
  <2>2. CASE \E j \in Tops : <<"ino", g, j>> \in DOMAIN m /\ m[<<"ino", g, j>>] = y
    <3>1. PICK j \in Tops : <<"ino", g, j>> \in DOMAIN m /\ m[<<"ino", g, j>>] = y
      BY <2>2
    <3>2. <<"ino", f, i>> = <<"ino", g, j>>
      BY <1>1, <1>4, <2>1, <3>1
    <3> QED
      BY <3>2
  <2>3. CASE \E j \in Entries : <<"blk", D(g), j>> \in DOMAIN m /\ m[<<"blk", D(g), j>>] = y
    <3>1. PICK j \in Entries : <<"blk", D(g), j>> \in DOMAIN m /\ m[<<"blk", D(g), j>>] = y
      BY <2>3
    <3>2. <<"ino", f, i>> = <<"blk", D(g), j>>
      BY <1>1, <1>4, <2>1, <3>1
    <3> QED
      BY <3>2
  <2> QED
    BY <1>2, <2>2, <2>3
<1>6. CASE /\ D(f) # NO_ZONE
           /\ \E i \in Entries : <<"blk", D(f), i>> \in DOMAIN m /\ m[<<"blk", D(f), i>>] = y
  <2>1. PICK i \in Entries : <<"blk", D(f), i>> \in DOMAIN m /\ m[<<"blk", D(f), i>>] = y
    BY <1>6
  <2>2. CASE \E j \in Tops : <<"ino", g, j>> \in DOMAIN m /\ m[<<"ino", g, j>>] = y
    <3>1. PICK j \in Tops : <<"ino", g, j>> \in DOMAIN m /\ m[<<"ino", g, j>>] = y
      BY <2>2
    <3>2. <<"blk", D(f), i>> = <<"ino", g, j>>
      BY <1>1, <1>4, <2>1, <3>1
    <3> QED
      BY <3>2
  <2>3. CASE \E j \in Entries : <<"blk", D(g), j>> \in DOMAIN m /\ m[<<"blk", D(g), j>>] = y
    <3>1. PICK j \in Entries : <<"blk", D(g), j>> \in DOMAIN m /\ m[<<"blk", D(g), j>>] = y
      BY <2>3
    <3>2. <<"blk", D(f), i>> = <<"blk", D(g), j>>
      BY <1>1, <1>4, <2>1, <3>1
    <3>3. D(f) = D(g)
      BY <3>2
    <3>4. <<"ino", f, DOUBLE>> = <<"ino", g, DOUBLE>>
      BY <1>1, <1>3, <1>6, <3>3
    <3> QED
      BY <3>4
  <2> QED
    BY <1>2, <2>2, <2>3
<1> QED
  BY <1>2, <1>5, <1>6

\* Some places no longer name the zones they did.
LEMMA ForgetExact ==
    ASSUME NEW m, NEW k, NEW bits, NEW X, NEW Y, Exact(m, bits, X), DOMAIN k \subseteq DOMAIN m,
           \A n \in DOMAIN k : k[n] = m[n] \/ k[n] = NO_ZONE,
           \A z : z \in Y <=> /\ z # NO_ZONE
                              /\ \E n \in DOMAIN m : m[n] = z /\ (n \notin DOMAIN k \/ k[n] = NO_ZONE)
    PROVE  Exact(k, bits, X \cup Y)
<1>1. /\ \A n \in DOMAIN m : m[n] \in Numbers
      /\ \A n, j \in DOMAIN m : m[n] = m[j] /\ m[n] # NO_ZONE => n = j
      /\ X \subseteq DataZones /\ \A n \in DOMAIN m : m[n] \notin X
  BY DEF Exact
<1>2. NO_ZONE \notin DataZones
  BY MfsFileAssumption DEF DataZones, NO_ZONE
<1>3. \A n \in DOMAIN k : k[n] \in Numbers
  BY <1>1 DEF Numbers
<1>4. \A n, j \in DOMAIN k : k[n] = k[j] /\ k[n] # NO_ZONE => n = j
  BY <1>1
<1>5. X \cup Y \subseteq DataZones
  <2>1. ASSUME NEW z \in Y PROVE z \in DataZones
    BY <1>1 DEF Numbers
  <2> QED
    BY <1>1, <2>1
<1>6. ASSUME NEW n \in DOMAIN k PROVE k[n] \notin X \cup Y
  <2>1. CASE k[n] = NO_ZONE
    BY <1>2, <1>5, <2>1
  <2>2. CASE k[n] # NO_ZONE
    <3>1. n \in DOMAIN m /\ k[n] = m[n]
      BY <2>2
    <3>2. k[n] \notin X
      BY <1>1, <3>1
    <3>3. ASSUME k[n] \in Y PROVE FALSE
      <4>1. PICK j \in DOMAIN m : m[j] = k[n] /\ (j \notin DOMAIN k \/ k[j] = NO_ZONE)
        BY <3>3
      <4>2. j = n
        BY <1>1, <2>2, <3>1, <4>1
      <4> QED
        BY <2>2, <4>1, <4>2
    <3> QED
      BY <3>2, <3>3
  <2> QED
    BY <2>1, <2>2
<1>7. ASSUME NEW b \in Int
      PROVE  b \in bits <=> \/ b = 0
                            \/ b + (FirstZone - 1) \in X \cup Y
                            \/ b + (FirstZone - 1) # NO_ZONE
                               /\ \E n \in DOMAIN k : k[n] = b + (FirstZone - 1)
  <2> DEFINE y == b + (FirstZone - 1)
  <2>1. b \in bits <=> b = 0 \/ y \in X \/ (y # NO_ZONE /\ \E n \in DOMAIN m : m[n] = y)
    BY DEF Exact
  <2> HIDE DEF y
  <2>2. (y # NO_ZONE /\ \E n \in DOMAIN m : m[n] = y)
          <=> (y \in Y \/ (y # NO_ZONE /\ \E n \in DOMAIN k : k[n] = y))
    OBVIOUS
  <2>3. y \in X \cup Y <=> y \in X \/ y \in Y
    OBVIOUS
  <2> QED
    BY <2>1, <2>2, <2>3 DEF y
<1>8. bits \subseteq Int
  BY DEF Exact
<1> QED
  BY <1>3, <1>4, <1>5, <1>6, <1>7, <1>8 DEF Exact

\* The inode of a file is wiped: the zones it led to have no name.
LEMMA WipedExact ==
    ASSUME NEW s, NEW t, NEW bits, NEW X, Exact(Map(s), bits, X), NEW f \in Files,
           \A i \in Tops : t.ino[f].zone[i] = NO_ZONE,
           \A g \in Files : g # f => t.ino[g] = s.ino[g], t.blk = s.blk, t.scale = s.scale
    PROVE  Exact(Map(t), bits, X \cup ZonesOf(s, f))
<1> DEFINE m == Map(s)
           k == Map(t)
<1>1. \A y, i : rd_indir(t, y, i) = rd_indir(s, y, i)
  BY DEF rd_indir, ZoneBlocks
<1>2. \A y : y \notin Owned(t, f)
  BY OwnedIs, TopIndices
<1>3. \A g \in Files : g # f => \A y : y \in Owned(t, g) <=> y \in Owned(s, g)
  BY <1>1, OwnedIs
<1>4. \A y : y \in Indirects(t) <=> y \in Indirects(s) /\ y \notin Owned(s, f)
  BY <1>2, <1>3, OwnedAll, OwnedOnce
<1>5. Owned(s, f) \subseteq Indirects(s)
  BY OwnedAll
<1>6. ASSUME NEW n \in DOMAIN k PROVE n \in DOMAIN m /\ (k[n] = m[n] \/ k[n] = NO_ZONE)
  <2>1. CASE \E g \in Files, i \in Tops : n = <<"ino", g, i>>
    BY <2>1, TopName
  <2>2. CASE \E y \in Indirects(t), i \in Entries : n = <<"blk", y, i>>
    <3>1. PICK y \in Indirects(t), i \in Entries : n = <<"blk", y, i>>
      BY <2>2
    <3>2. y \in Indirects(s)
      BY <1>4
    <3>3. k[n] = rd_indir(t, y, i)
      BY <3>1, EntryName
    <3>4. n \in DOMAIN m /\ m[n] = rd_indir(s, y, i)
      BY <3>1, <3>2, EntryName
    <3> QED
      BY <1>1, <3>3, <3>4
  <2> QED
    BY <2>1, <2>2, NameIs
<1>7. ASSUME NEW z \in ZonesOf(s, f)
      PROVE  z # NO_ZONE /\ \E n \in DOMAIN m : m[n] = z /\ (n \notin DOMAIN k \/ k[n] = NO_ZONE)
  <2>1. z # NO_ZONE
    BY ZonesAre
  <2>2. CASE \E i \in Tops : z = s.ino[f].zone[i]
    <3>1. PICK i \in Tops : z = s.ino[f].zone[i]
      BY <2>2
    <3> DEFINE n == <<"ino", f, i>>
    <3>2. n \in DOMAIN m /\ m[n] = z /\ k[n] = NO_ZONE
      BY <3>1, TopName
    <3> QED
      BY <2>1, <3>2
  <2>3. CASE \E y \in Owned(s, f), i \in Entries : z = rd_indir(s, y, i)
    <3>1. PICK y \in Owned(s, f), i \in Entries : z = rd_indir(s, y, i)
      BY <2>3
    <3> DEFINE n == <<"blk", y, i>>
    <3>2. n \in DOMAIN m /\ m[n] = z
      BY <1>5, <3>1, EntryName
    <3>3. n \notin DOMAIN k
      <4>1. ASSUME n \in DOMAIN k PROVE FALSE
        <5>1. PICK x \in Indirects(t), j \in Entries : n = <<"blk", x, j>>
          BY <4>1, NameIs
        <5>2. x = y
          BY <5>1
        <5> QED
          BY <1>4, <5>2
      <4> QED
        BY <4>1
    <3> QED
      BY <2>1, <3>2, <3>3
  <2> QED
    BY <2>2, <2>3, ZonesAre
<1>8. ASSUME NEW z, z # NO_ZONE, NEW n \in DOMAIN m, m[n] = z, n \notin DOMAIN k \/ k[n] = NO_ZONE
      PROVE  z \in ZonesOf(s, f)
  <2>1. CASE \E g \in Files, i \in Tops : n = <<"ino", g, i>>
    <3>1. PICK g \in Files, i \in Tops : n = <<"ino", g, i>>
      BY <2>1
    <3>2. n \in DOMAIN k /\ k[n] = t.ino[g].zone[i] /\ z = s.ino[g].zone[i]
      BY <1>8, <3>1, TopName
    <3>3. g = f
      BY <1>8, <3>2
    <3> QED
      BY <1>8, <3>2, <3>3, ZonesAre
  <2>2. CASE \E y \in Indirects(s), i \in Entries : n = <<"blk", y, i>>
    <3>1. PICK y \in Indirects(s), i \in Entries : n = <<"blk", y, i>>
      BY <2>2
    <3>2. z = rd_indir(s, y, i)
      BY <1>8, <3>1, EntryName
    <3>3. y \in Indirects(t) => n \in DOMAIN k /\ k[n] = rd_indir(t, y, i)
      BY <3>1, EntryName
    <3>4. y \in Owned(s, f)
      BY <1>1, <1>4, <1>8, <3>2, <3>3
    <3> QED
      BY <1>8, <3>2, <3>4, ZonesAre
  <2> QED
    BY <2>1, <2>2, NameIs
<1> HIDE DEF m, k
<1>9. DOMAIN k \subseteq DOMAIN m /\ \A n \in DOMAIN k : k[n] = m[n] \/ k[n] = NO_ZONE
  BY <1>6
<1>10. Exact(m, bits, X)
  BY DEF m
<1> DEFINE Y == ZonesOf(s, f)
<1>11. \A z : z \in Y <=> /\ z # NO_ZONE
                          /\ \E n \in DOMAIN m : m[n] = z /\ (n \notin DOMAIN k \/ k[n] = NO_ZONE)
  BY <1>7, <1>8
<1> HIDE DEF Y
<1>12. Exact(k, bits, X \cup Y)
  BY <1>9, <1>10, <1>11, ForgetExact
<1> QED
  BY <1>12 DEF k, Y

\* A file that is removed: what its inode still led to joins the zones lost.
LEMMA WipedSound ==
    ASSUME NEW s, NEW X, Sound(s, X), NEW f \in Files
    PROVE  Sound([s EXCEPT !.ino[f] = NewInode], X \cup ZonesOf(s, f))
<1> DEFINE t == [s EXCEPT !.ino[f] = NewInode]
<1>1. Volume(s) /\ Exact(Map(s), s.bits, X) /\ Low(s) /\ s.scale \in Scales
  BY SoundIs
<1>2. NewInode \in Inode(s) /\ NewInode.zone = [i \in Tops |-> NO_ZONE]
  BY <1>1, NewInodeIs
<1>3. /\ Volume(t) /\ t.ino[f] = NewInode /\ \A g \in Files : g # f => t.ino[g] = s.ino[g]
      /\ t.scale = s.scale /\ t.bits = s.bits /\ t.zsearch = s.zsearch /\ t.blk = s.blk
  BY <1>1, <1>2, InoPut
<1> HIDE DEF t
<1>4. \A i \in Tops : t.ino[f].zone[i] = NO_ZONE
  BY <1>2, <1>3
<1>5. Exact(Map(t), s.bits, X \cup ZonesOf(s, f))
  BY <1>1, <1>3, <1>4, WipedExact
<1>6. Sound(t, X \cup ZonesOf(s, f))
  BY <1>1, <1>3, <1>5 DEF Sound, Low
<1> QED
  BY <1>6 DEF t

LEMMA RemoveKeeps ==
    ASSUME FInv, NEW f \in Files, RemoveFile(f)
    PROVE  FInv'
<1> DEFINE t == truncate_inode(fs, f, 0).s
<1>1. Sound(fs, lost) /\ calls \in Nat
  BY DEF FInv
<1>2. Call /\ fs' = [t EXCEPT !.ino[f] = NewInode] /\ lost' = lost \cup ZonesOf(t, f)
  BY Zenon DEF RemoveFile
<1>3. calls' \in Nat
  BY <1>1, <1>2 DEF Call
<1>4. Sound(t, lost)
  BY <1>1, TruncateSound
<1> HIDE DEF t
<1>5. Sound([t EXCEPT !.ino[f] = NewInode], lost \cup ZonesOf(t, f))
  BY <1>4, WipedSound
<1>6. Sound(fs', lost')
  BY <1>2, <1>5
<1> QED
  BY <1>3, <1>6 DEF FInv

\* A zone that a file leads to has its bit.
LEMMA ZonesHaveBits ==
    ASSUME NEW s, NEW X, Sound(s, X), NEW f \in Files, NEW z \in ZonesOf(s, f)
    PROVE  z - (FirstZone - 1) \in s.bits
<1>1. z # NO_ZONE
  BY ZonesAre
<1>2. CASE \E i \in Tops : z = s.ino[f].zone[i]
  <2>1. PICK i \in Tops : z = s.ino[f].zone[i]
    BY <1>2
  <2>2. <<"ino", f, i>> \in DOMAIN Map(s) /\ Map(s)[<<"ino", f, i>>] = z
    BY <2>1, TopName
  <2> QED
    BY <1>1, <2>2, NamedBit
<1>3. CASE \E y \in Owned(s, f), i \in Entries : z = rd_indir(s, y, i)
  <2>1. PICK y \in Owned(s, f), i \in Entries : z = rd_indir(s, y, i)
    BY <1>3
  <2>2. y \in Indirects(s)
    BY OwnedAll
  <2>3. <<"blk", y, i>> \in DOMAIN Map(s) /\ Map(s)[<<"blk", y, i>>] = z
    BY <2>1, <2>2, EntryName
  <2> QED
    BY <1>1, <2>3, NamedBit
<1> QED
  BY <1>2, <1>3, ZonesAre

\* A position before the end of a file lies in one of the zones that a
\* truncation to 0 frees.
LEMMA PlaceBefore ==
    ASSUME NEW zs \in Nat \ {0}, NEW size \in Nat, NEW k \in Nat, k * zs < size,
           NEW c, c = IF size % zs # 0 THEN 1 ELSE 0
    PROVE  k < (size \div zs) + c
<1> DEFINE q == size \div zs
           r == size % zs
<1>1. q \in Nat /\ r \in 0..(zs - 1) /\ size = (zs * q) + r
  BY DivMod
<1>2. c \in {0, 1} /\ (c = 0 => r = 0)
  OBVIOUS
<1> HIDE DEF q, r
<1>3. size =< (q + c) * zs
  BY <1>1, <1>2
<1>4. ASSUME q + c =< k PROVE FALSE
  BY <1>1, <1>2, <1>3, <1>4, Larger
<1>5. k < q + c
  BY <1>1, <1>2, <1>4
<1> QED
  BY <1>5 DEF q

\* A truncation to 0 returns every zone up to the end of the file.
LEMMA TruncateReturns ==
    ASSUME NEW s, Sound(s, lost), NEW f \in Files, NEW k \in Nat, k * ZoneSize(s) < s.ino[f].size,
           zone_at(s, f, k * ZoneSize(s)) # NO_ZONE
    PROVE  zone_at(s, f, k * ZoneSize(s)) - (FirstZone - 1) \notin truncate_inode(s, f, 0).s.bits
<1> DEFINE zs == ZoneSize(s)
           size == s.ino[f].size
           e == (size \div zs) + (IF size % zs # 0 THEN 1 ELSE 0)
           p == nextblock(s, 0) \div zs
           z == zone_at(s, f, k * zs)
           fr == freesp_inode(s, f, 0, size)
           cut == free_zones(s, f, p, e)
           r == truncate_inode(s, f, 0)
<1>1. zs \in Nat \ {0} /\ \A x \in Nat : Zone(s, x) = x \div zs
  BY SoundIs, ZoneIs
<1>2. /\ MaxZone \in Nat /\ MaxSize(s) \in Nat /\ MaxSize(s) = MaxZone * zs /\ s.scale \in Scales
      /\ size \in Nat /\ size =< MaxSize(s)
  BY SoundIs, SizesIs, SizeIs
<1>3. k * zs \in Nat /\ 0 < size
  BY <1>1, <1>2, Times
<1>4. Min({size, size}) = size
  BY <1>2, MinOfTwo
<1>5. fr.s = cut
  <2>1. 0 % zs = 0 /\ ~(size <= 0) /\ ~(size < size)
    BY <1>1, <1>2, <1>3
  <2> HIDE DEF fr, size, zs
  <2>2. fr = [s |-> cut, r |-> "OK"]
    BY <1>4, <2>1 DEF freesp_inode, fr, size, zs
  <2> QED
    BY <2>2
<1> HIDE DEF fr, cut
<1>6. r.s = [cut EXCEPT !.ino[f].size = 0]
  <2>1. ~(0 > size) /\ ~(0 > MaxSize(s))
    BY <1>2, <1>3
  <2>2. r = LET c == IF 0 < size THEN fr.s ELSE s
                t == IF 0 > size THEN clear_zone(c, f, size, FALSE) ELSE c
            IN IF 0 > MaxSize(s) THEN [s |-> s, r |-> "EFBIG"]
               ELSE [s |-> [t EXCEPT !.ino[f].size = 0], r |-> "OK"]
    BY Zenon DEF truncate_inode, fr
  <2> HIDE DEF r, size
  <2>3. r = [s |-> [cut EXCEPT !.ino[f].size = 0], r |-> "OK"]
    BY <1>3, <1>5, <2>1, <2>2
  <2> QED
    BY <2>3
<1>7. p = 0
  <2>1. p = (((0 + zs - 1) \div zs) * zs) \div zs
    BY DEF nextblock
  <2> HIDE DEF p, zs
  <2>2. zs - 1 \in Nat /\ zs - 1 = (zs * 0) + (zs - 1) /\ zs - 1 \in 0..(zs - 1)
    BY <1>1
  <2>3. (zs - 1) \div zs = 0
    BY <1>1, <2>2, Quotient
  <2>4. 0 + zs - 1 = zs - 1 /\ 0 * zs = 0 /\ 0 \div zs = 0
    BY <1>1
  <2> QED
    BY <2>1, <2>3, <2>4
<1> HIDE DEF r, p
<1>8. e \in Int /\ e =< MaxZone /\ k < e
  <2> DEFINE c == IF size % zs # 0 THEN 1 ELSE 0
  <2>1. c \in {0, 1} /\ (c = 1 => size % zs # 0)
    OBVIOUS
  <2> HIDE DEF c, size, zs
  <2>2. (size \div zs) + c \in Int /\ (size \div zs) + c =< MaxZone
    BY <1>1, <1>2, <2>1, ZonesOfRange
  <2>3. k < (size \div zs) + c
    BY <1>1, <1>2, PlaceBefore DEF c, size, zs
  <2> QED
    BY <2>2, <2>3 DEF c
<1> HIDE DEF e
<1>9. k \in 0..(MaxZone - 1) /\ k \in p..(e - 1) /\ p \in Nat
  BY <1>2, <1>7, <1>8
<1>10. Sound(cut, lost) /\ Returned(s, cut, f, k)
  BY <1>8, <1>9, FreeZonesSound DEF cut
<1>11. z = PlaceZone(s, f, k)
  <2>1. Zone(s, k * zs) = k
    BY <1>1, <1>3, Times
  <2> QED
    BY <2>1, PlaceIs
<1>12. z - (FirstZone - 1) \notin cut.bits
  BY <1>10, <1>11 DEF Returned
<1>13. [cut EXCEPT !.ino[f].size = 0].bits = cut.bits
  BY <1>10, SoundIs DEF Volume
<1> QED
  BY <1>6, <1>12, <1>13 DEF r

\* No zone up to the end of a file is among those its removal wipes out.
LEMMA RemoveReturns ==
    ASSUME FInv, NEW f \in Files, RemoveFile(f), NEW k \in Nat, k * ZoneSize(fs) < fs.ino[f].size,
           NEW z \in lost' \ lost
    PROVE  zone_at(fs, f, k * ZoneSize(fs)) # z
<1> DEFINE t == truncate_inode(fs, f, 0).s
<1>1. Sound(fs, lost)
  BY DEF FInv
<1>2. lost' = lost \cup ZonesOf(t, f)
  BY Zenon DEF RemoveFile
<1>3. Sound(t, lost)
  BY <1>1, TruncateSound
<1>4. ASSUME zone_at(fs, f, k * ZoneSize(fs)) # NO_ZONE
      PROVE  zone_at(fs, f, k * ZoneSize(fs)) - (FirstZone - 1) \notin t.bits
  BY <1>1, <1>4, TruncateReturns
<1> HIDE DEF t
<1>5. z \in ZonesOf(t, f)
  BY <1>2
<1>6. z # NO_ZONE /\ z - (FirstZone - 1) \in t.bits
  BY <1>3, <1>5, ZonesHaveBits, ZonesAre
<1> QED
  BY <1>4, <1>6

LEMMA ReloadKeeps ==
    ASSUME FInv, NEW f \in Files, Reload(f)
    PROVE  FInv'
<1>1. Sound(fs, lost) /\ calls \in Nat
  BY DEF FInv
<1>2. fs' = [fs EXCEPT !.ino[f].zsearch = NO_ZONE] /\ calls' = calls /\ lost' = lost
  BY DEF Reload
<1>3. Sound(fs', lost)
  BY <1>1, <1>2, SearchPutSound DEF NO_ZONE
<1> QED
  BY <1>1, <1>2, <1>3 DEF FInv

LEMMA ReadKeeps ==
    ASSUME FInv, NEW f, NEW pos, NEW len, Read(f, pos, len)
    PROVE  FInv'
<1>1. Call /\ fs' = fs /\ lost' = lost
  BY Zenon DEF Read
<1> QED
  BY <1>1 DEF FInv, Call

\* A new file system: nothing names a zone.
LEMMA InitSound ==
    ASSUME Init PROVE FInv
<1>1. PICK scale \in Scales :
        fs = [scale |-> scale, bits |-> {0}, zsearch |-> 0,
              blk |-> [b \in 0..(Zones * 2 ^ scale - 1) |-> Zeros],
              ino |-> [f \in Files |-> NewInode], panic |-> FALSE]
  BY Zenon DEF Init
<1>2. /\ fs.scale = scale /\ fs.bits = {0} /\ fs.zsearch = 0 /\ fs.panic = FALSE
      /\ fs.blk = [b \in 0..(Zones * ZoneBlocks(fs) - 1) |-> Zeros]
      /\ fs.ino = [f \in Files |-> NewInode]
      /\ fs = [scale |-> fs.scale, bits |-> fs.bits, zsearch |-> fs.zsearch, blk |-> fs.blk,
               ino |-> fs.ino, panic |-> fs.panic]
  BY <1>1 DEF ZoneBlocks
<1>3. NewInode \in Inode(fs) /\ NewInode.zone = [i \in Tops |-> NO_ZONE]
  BY <1>2, NewInodeIs
<1>4. Zeros \in [Entries -> Int]
  BY DEF Zeros, Entries
<1>5. fs.blk \in [0..(Zones * ZoneBlocks(fs) - 1) -> [Entries -> Int]]
  <2> HIDE DEF Entries
  <2> QED
    BY <1>2, <1>4
<1>6. Volume(fs)
  BY <1>2, <1>3, <1>5 DEF Volume
<1>7. \A f \in Files, i \in Tops : fs.ino[f].zone[i] = NO_ZONE
  BY <1>2, <1>3
<1>8. Doubles(fs) = {}
  BY <1>7, TopIndices DEF Doubles
<1>9. Singles(fs) = {}
  <2>1. ASSUME NEW z \in Singles(fs) PROVE FALSE
    BY <1>7, <1>8, <2>1, SingleName, TopIndices
  <2> QED
    BY <2>1
<1>10. \A n \in DOMAIN Map(fs) : Map(fs)[n] = NO_ZONE
  <2>1. Indirects(fs) = {}
    BY <1>8, <1>9 DEF Indirects
  <2> QED
    BY <1>7, <2>1, NameIs, TopName
<1>11. Exact(Map(fs), fs.bits, {})
  <2> DEFINE m == Map(fs)
  <2> HIDE DEF m
  <2>1. \A n \in DOMAIN m : m[n] = NO_ZONE
    BY <1>10 DEF m
  <2>2. NO_ZONE \in Numbers
    BY DEF Numbers
  <2>3. \A b \in Int : b \in fs.bits <=> b = 0
    BY <1>2
  <2>4. Exact(m, fs.bits, {})
    BY <1>2, <2>1, <2>2, <2>3 DEF Exact
  <2> QED
    BY <2>4 DEF m
<1>12. Low(fs)
  BY <1>2, MapSizes DEF Low
<1>13. calls \in Nat /\ lost = {}
  BY DEF Init
<1> QED
  BY <1>6, <1>11, <1>12, <1>13 DEF FInv, Sound

LEMMA StepSound ==
    ASSUME FInv, [Next]_vars PROVE FInv'
<1>1. ASSUME NEW f \in Files, NEW pos \in Positions, NEW len \in Lengths, Write(f, pos, len)
      PROVE  FInv'
  BY <1>1, WriteKeeps
<1>2. ASSUME NEW f \in Files, NEW pos \in Positions, NEW len \in Lengths, Read(f, pos, len)
      PROVE  FInv'
  BY <1>2, ReadKeeps
<1>3. ASSUME NEW f \in Files, NEW start \in Positions, NEW end \in Positions, fs_ftrunc(f, start, end)
      PROVE  FInv'
  BY <1>3, TruncKeeps
<1>4. ASSUME NEW f \in Files, RemoveFile(f) PROVE FInv'
  BY <1>4, RemoveKeeps
<1>5. ASSUME NEW f \in Files, Reload(f) PROVE FInv'
  BY <1>5, ReloadKeeps
<1>6. CASE UNCHANGED vars
  BY <1>6 DEF FInv, vars
<1> QED
  BY <1>1, <1>2, <1>3, <1>4, <1>5, <1>6 DEF Next

-----------------------------------------------------------------------------
(* What the invariant says of the references. *)

\* A reference is a name of the map with what it names.
NameOf(e, n) == n = <<"ino", e[1], e[2]>> \/ n = <<"blk", e[1], e[2]>>

LEMMA EntriesNamed ==
    ASSUME NEW z \in Indirects(fs) \cup {NO_ZONE}, NEW e \in EntriesOf(fs, z)
    PROVE  /\ e = <<e[1], e[2], e[3]>>
           /\ \E n \in DOMAIN Map(fs) : NameOf(e, n) /\ Map(fs)[n] = e[3]
<1>1. PICK i \in Entries : e = <<z, i, rd_indir(fs, z, i)>> /\ z \in Indirects(fs)
  BY DEF EntriesOf, Entries
<1>2. e[1] = z /\ e[2] = i /\ e[3] = rd_indir(fs, z, i)
  BY <1>1
<1>3. <<"blk", z, i>> \in DOMAIN Map(fs) /\ Map(fs)[<<"blk", z, i>>] = rd_indir(fs, z, i)
  BY <1>1, EntryName
<1>4. NameOf(e, <<"blk", z, i>>)
  BY <1>2 DEF NameOf
<1> QED
  BY <1>1, <1>2, <1>3, <1>4

LEMMA ReferenceNamed ==
    ASSUME NEW e \in AllReferences
    PROVE  /\ e = <<e[1], e[2], e[3]>> /\ e[3] # NO_ZONE
           /\ \E n \in DOMAIN Map(fs) : NameOf(e, n) /\ Map(fs)[n] = e[3]
<1> DEFINE z(f) == fs.ino[f].zone
           Goal == /\ e = <<e[1], e[2], e[3]>>
                   /\ \E n \in DOMAIN Map(fs) : NameOf(e, n) /\ Map(fs)[n] = e[3]
<1>1. e[3] # NO_ZONE
  BY DEF AllReferences
<1>2. PICK f \in Files : e \in References(fs, f)
  BY DEF AllReferences
<1>3. \/ \E i \in Tops : e = <<f, i, z(f)[i]>>
      \/ e \in EntriesOf(fs, z(f)[SINGLE])
      \/ e \in EntriesOf(fs, z(f)[DOUBLE])
      \/ \E d \in EntriesOf(fs, z(f)[DOUBLE]) : e \in EntriesOf(fs, d[3])
  BY <1>2 DEF References, Tops
<1>4. z(f)[SINGLE] \in Indirects(fs) \cup {NO_ZONE}
  BY SingleIs DEF Indirects
<1>5. z(f)[DOUBLE] \in Doubles(fs) \cup {NO_ZONE}
  BY DEF Doubles
<1>6. z(f)[DOUBLE] \in Indirects(fs) \cup {NO_ZONE}
  BY <1>5 DEF Indirects
<1>7. ASSUME NEW d \in EntriesOf(fs, z(f)[DOUBLE]) PROVE d[3] \in Indirects(fs) \cup {NO_ZONE}
  <2>1. PICK i \in Entries : d = <<z(f)[DOUBLE], i, rd_indir(fs, z(f)[DOUBLE], i)>>
                             /\ z(f)[DOUBLE] # NO_ZONE
    BY <1>7 DEF EntriesOf, Entries
  <2>2. d[3] = rd_indir(fs, z(f)[DOUBLE], i)
    BY <2>1
  <2> QED
    BY <1>5, <2>1, <2>2, SingleIs DEF Indirects
<1>8. CASE \E i \in Tops : e = <<f, i, z(f)[i]>>
  <2>1. PICK i \in Tops : e = <<f, i, z(f)[i]>>
    BY <1>8
  <2>2. e[1] = f /\ e[2] = i /\ e[3] = z(f)[i]
    BY <2>1
  <2>3. <<"ino", f, i>> \in DOMAIN Map(fs) /\ Map(fs)[<<"ino", f, i>>] = z(f)[i]
    BY TopName
  <2>4. NameOf(e, <<"ino", f, i>>)
    BY <2>2 DEF NameOf
  <2> QED
    BY <1>1, <2>1, <2>2, <2>3, <2>4
<1> HIDE DEF z
<1>9. CASE \E y \in Indirects(fs) \cup {NO_ZONE} : e \in EntriesOf(fs, y)
  BY <1>1, <1>9, EntriesNamed
<1>10. Goal
  BY <1>1, <1>3, <1>4, <1>6, <1>7, <1>8, <1>9
<1> QED
  BY <1>1, <1>10

\* What the map names is referred to.
LEMMA NamedReferred ==
    ASSUME NEW n \in DOMAIN Map(fs), Map(fs)[n] # NO_ZONE
    PROVE  Map(fs)[n] \in ReferredZones
<1> DEFINE v == Map(fs)[n]
<1>1. ASSUME NEW f \in Files, NEW e \in References(fs, f), e[3] = v PROVE v \in ReferredZones
  BY <1>1 DEF ReferredZones, AllReferences
<1>2. CASE \E f \in Files, i \in Tops : n = <<"ino", f, i>>
  <2>1. PICK f \in Files, i \in Tops : n = <<"ino", f, i>>
    BY <1>2
  <2>2. v = fs.ino[f].zone[i]
    BY <2>1, TopName
  <2>3. <<f, i, fs.ino[f].zone[i]>> \in References(fs, f)
    BY DEF References, Tops
  <2> QED
    BY <1>1, <2>2, <2>3
<1>3. CASE \E z \in Indirects(fs), i \in Entries : n = <<"blk", z, i>>
  <2>1. PICK z \in Indirects(fs), i \in Entries : n = <<"blk", z, i>>
    BY <1>3
  <2>2. v = rd_indir(fs, z, i)
    BY <2>1, EntryName
  <2> DEFINE e == <<z, i, rd_indir(fs, z, i)>>
  <2>3. z # NO_ZONE
    BY DoubleName, SingleName DEF Indirects
  <2>4. e \in EntriesOf(fs, z) /\ e[3] = v
    BY <2>2, <2>3 DEF EntriesOf, Entries
  <2> HIDE DEF e
  <2>5. CASE z \in Doubles(fs)
    <3>1. PICK f \in Files : z = fs.ino[f].zone[DOUBLE]
      BY <2>5, DoubleName
    <3>2. e \in References(fs, f)
      BY <2>4, <3>1 DEF References
    <3> QED
      BY <1>1, <2>4, <3>2
  <2>6. CASE \E f \in Files : z = fs.ino[f].zone[SINGLE]
    <3>1. PICK f \in Files : z = fs.ino[f].zone[SINGLE]
      BY <2>6
    <3>2. e \in References(fs, f)
      BY <2>4, <3>1 DEF References
    <3> QED
      BY <1>1, <2>4, <3>2
  <2>7. CASE \E d \in Doubles(fs), j \in Entries : z = rd_indir(fs, d, j)
    <3>1. PICK d \in Doubles(fs), j \in Entries : z = rd_indir(fs, d, j)
      BY <2>7
    <3>2. PICK f \in Files : d = fs.ino[f].zone[DOUBLE]
      BY DoubleName
    <3>3. d # NO_ZONE
      BY DoubleName
    <3> DEFINE x == <<d, j, rd_indir(fs, d, j)>>
    <3>4. x \in EntriesOf(fs, fs.ino[f].zone[DOUBLE]) /\ x[3] = z
      BY <3>1, <3>2, <3>3 DEF EntriesOf, Entries
    <3> HIDE DEF x
    <3>5. e \in UNION {EntriesOf(fs, y[3]) : y \in EntriesOf(fs, fs.ino[f].zone[DOUBLE])}
      BY <2>4, <3>4
    <3>6. e \in References(fs, f)
      BY <3>5 DEF References
    <3> QED
      BY <1>1, <2>4, <3>6
  <2> QED
    BY <2>5, <2>6, <2>7, SingleName DEF Indirects
<1> QED
  BY <1>2, <1>3, NameIs

\* No two references are to one zone, so there are as many as there are zones;
\* and none is to a zone that is lost.
LEMMA ReferencesOnce ==
    ASSUME FInv PROVE /\ ReferredZones \subseteq DataZones
                      /\ Cardinality(AllReferences) = Cardinality(ReferredZones)
                      /\ lost \subseteq DataZones /\ ReferredZones \cap lost = {}
<1> DEFINE m == Map(fs)
           g == [e \in AllReferences |-> e[3]]
<1>1. Exact(m, fs.bits, lost)
  BY SoundIs DEF FInv
<1>2. \A e \in AllReferences : /\ e = <<e[1], e[2], e[3]>> /\ e[3] # NO_ZONE
                               /\ \E n \in DOMAIN m : NameOf(e, n) /\ m[n] = e[3]
  BY ReferenceNamed
<1> HIDE DEF m
<1>3. ReferredZones \subseteq DataZones
  <2>1. ASSUME NEW e \in AllReferences PROVE e[3] \in DataZones
    BY <1>1, <1>2 DEF Exact, Numbers
  <2> QED
    BY <2>1 DEF ReferredZones
<1>4. ASSUME NEW d \in AllReferences, NEW e \in AllReferences, d[3] = e[3] PROVE d = e
  <2>1. PICK n \in DOMAIN m : NameOf(d, n) /\ m[n] = d[3]
    BY <1>2
  <2>2. PICK k \in DOMAIN m : NameOf(e, k) /\ m[k] = e[3]
    BY <1>2
  <2>3. m[n] = m[k] /\ m[n] # NO_ZONE
    BY <1>2, <1>4, <2>1, <2>2
  <2>4. n = k
    BY <1>1, <2>3 DEF Exact
  <2>5. n[2] = d[1] /\ n[3] = d[2]
    BY <2>1 DEF NameOf
  <2>6. k[2] = e[1] /\ k[3] = e[2]
    BY <2>2 DEF NameOf
  <2>7. d[1] = e[1] /\ d[2] = e[2]
    BY <2>4, <2>5, <2>6
  <2>8. d = <<d[1], d[2], d[3]>> /\ e = <<e[1], e[2], e[3]>>
    BY <1>2
  <2> QED
    BY <1>4, <2>7, <2>8
<1>5. g \in [AllReferences -> ReferredZones]
  BY DEF ReferredZones
<1>6. g \in Injection(AllReferences, ReferredZones)
  BY <1>4, <1>5 DEF Injection, IsInjective
<1>7. g \in Surjection(AllReferences, ReferredZones)
  BY <1>5 DEF Surjection, ReferredZones
<1>8. IsFiniteSet(ReferredZones)
  <2>1. IsFiniteSet(DataZones)
    <3>1. FirstZone \in Int /\ Zones - 1 \in Int
      BY MfsFileAssumption
    <3> QED
      BY <3>1, FS_Interval DEF DataZones
  <2> QED
    BY <1>3, <2>1, FS_Subset
<1> HIDE DEF g
<1>9. Cardinality(AllReferences) = Cardinality(ReferredZones)
  BY <1>6, <1>7, <1>8, FS_Injection
<1>10. lost \subseteq DataZones /\ ReferredZones \cap lost = {}
  <2>1. ASSUME NEW e \in AllReferences PROVE e[3] \notin lost
    BY <1>1, <1>2 DEF Exact
  <2> QED
    BY <1>1, <2>1 DEF Exact, ReferredZones
<1> QED
  BY <1>3, <1>9, <1>10

\* The bits that are set are those of the zones referred to and of the lost.
LEMMA BitsReferred ==
    ASSUME FInv PROVE fs.bits = {0} \cup {z - (FirstZone - 1) : z \in ReferredZones \cup lost}
<1> DEFINE Z == ReferredZones \cup lost
<1>1. Exact(Map(fs), fs.bits, lost)
  BY SoundIs DEF FInv
<1>2. \A z : z \in ReferredZones
               <=> z # NO_ZONE /\ \E n \in DOMAIN Map(fs) : Map(fs)[n] = z
  <2>1. ASSUME NEW z \in ReferredZones
        PROVE  z # NO_ZONE /\ \E n \in DOMAIN Map(fs) : Map(fs)[n] = z
    BY ReferenceNamed DEF ReferredZones
  <2> QED
    BY <2>1, NamedReferred
<1>3. Z \subseteq DataZones
  BY ReferencesOnce
<1>4. FirstZone \in Int /\ \A z \in DataZones : z \in Int
  BY MfsFileAssumption DEF DataZones
<1>5. fs.bits \subseteq Int
      /\ \A b \in Int : b \in fs.bits <=> b = 0 \/ b + (FirstZone - 1) \in Z
  BY <1>1, <1>2 DEF Exact
<1> HIDE DEF Z
<1>6. \A b \in Int : b \in fs.bits => b \in {0} \cup {z - (FirstZone - 1) : z \in Z}
  <2>1. ASSUME NEW b \in Int, b + (FirstZone - 1) \in Z
        PROVE  b \in {z - (FirstZone - 1) : z \in Z}
    <3>1. b = (b + (FirstZone - 1)) - (FirstZone - 1)
      BY <1>4
    <3> QED
      BY <2>1, <3>1
  <2> QED
    BY <1>5, <2>1
<1>7. ASSUME NEW z \in Z PROVE z - (FirstZone - 1) \in fs.bits
  <2>1. z - (FirstZone - 1) \in Int /\ (z - (FirstZone - 1)) + (FirstZone - 1) = z
    BY <1>3, <1>4
  <2> QED
    BY <1>5, <2>1
<1>8. 0 \in fs.bits
  BY <1>5
<1>9. fs.bits = {0} \cup {z - (FirstZone - 1) : z \in Z}
  BY <1>5, <1>6, <1>7, <1>8
<1> QED
  BY <1>9 DEF Z

\* The count from the word of s_zsearch on misses no free bit.
LEMMA CountExact ==
    ASSUME FInv PROVE count_free_bits(fs) = Cardinality((1..(MapBits - 1)) \ fs.bits)
<1> DEFINE o == InMap(fs.zsearch)
           w == (o \div ChunkBits) * ChunkBits
<1>1. fs.zsearch \in 0..(MapBits - 1) /\ \A b \in 0..(fs.zsearch - 1) : b \in fs.bits
  BY SoundIs DEF FInv, Low
<1>2. o = fs.zsearch
  BY <1>1 DEF InMap
<1>3. 0 \in fs.bits
  BY SoundIs DEF FInv, Exact
<1>4. count_free_bits(fs) = Cardinality((w..(MapBits - 1)) \ fs.bits)
  BY Zenon DEF count_free_bits
<1>5. w \in Nat /\ w =< o
  <2>1. o \in Nat /\ ChunkBits \in Nat \ {0}
    BY <1>1, <1>2, MfsFileAssumption
  <2> HIDE DEF o
  <2>2. o \div ChunkBits \in Nat /\ (o \div ChunkBits) * ChunkBits =< o
    BY <2>1, DivMod
  <2> QED
    BY <2>1, <2>2, Times
<1> HIDE DEF w, o
<1>6. MapBits \in Nat
  BY MapSizes
<1>7. \A b \in Int : b \in 0..(o - 1) => b \in fs.bits
  BY <1>1, <1>2
<1>8. o \in Nat
  BY <1>1, <1>2
<1>9. (w..(MapBits - 1)) \ fs.bits = (1..(MapBits - 1)) \ fs.bits
  BY <1>3, <1>5, <1>6, <1>7, <1>8
<1> QED
  BY <1>4, <1>9

LEMMA SoundExact ==
    ASSUME FInv PROVE ZonesExact
<1>1. ~fs.panic
  BY SoundIs, VolumeIs DEF FInv
<1> QED
  BY <1>1, ReferencesOnce, BitsReferred, CountExact DEF ZonesExact, DataZones

-----------------------------------------------------------------------------

\* Through any requests, on full disks and with copies that fail, every file
\* system reached is sound: the zones named by inodes and by indirect blocks are
\* zones of the data area, none is named twice, an indirect block names only such
\* zones, the bits that are set are those of the zones named and of the zones that
\* removals wiped out (`lost'), which no place names again, below s_zsearch no bit
\* is free, and no inode, block or bit map loses its shape (write.c, read.c,
\* link.c, inode.c, cache.c, super.c).
THEOREM MfsFileSound == Spec => []FInv
<1>1. Init => FInv
  BY InitSound
<1>2. FInv /\ [Next]_vars => FInv'
  BY StepSound
<1> QED
  BY <1>1, <1>2, PTL DEF Spec

\* No zone is shared or freed twice, none loses its bit while it has a name, no bit
\* is set but those of the zones that have names and of the zones that removals
\* wiped out, which are not used again, and the free zones that are counted are
\* those there are: through growth, holes, a full disk, copies that fail,
\* truncation, freeing and removal, for every size of everything.
THEOREM MfsFileZonesExact == Spec => []ZonesExact
<1>1. FInv => ZonesExact
  BY SoundExact
<1>2. Spec => []FInv
  BY MfsFileSound
<1> QED
  BY <1>1, <1>2, PTL

\* The removal of a file returns every zone that holds a position before its end:
\* none of those that it loses is one.  (Which of the others it may lose is what
\* RemovalLosesPastEnd says.)
RemovalReturnsContents ==
    [][\A z \in lost' \ lost, k \in Nat :
          k * ZoneSize(fs) < fs.ino[reply'.f].size
            => zone_at(fs, reply'.f, k * ZoneSize(fs)) # z]_vars

\* Whatever the sizes, the requests, the copies that failed and the zones the disk
\* had no room for, put_inode returns the contents of a file that has lost its
\* last name (inode.c:225-237, link.c:540-607).
THEOREM MfsFileRemovalReturns == Spec => RemovalReturnsContents
<1> DEFINE Returns == \A z \in lost' \ lost, k \in Nat :
                        k * ZoneSize(fs) < fs.ino[reply'.f].size
                          => zone_at(fs, reply'.f, k * ZoneSize(fs)) # z
<1>1. ASSUME FInv, [Next]_vars PROVE [Returns]_vars
  <2>1. ASSUME NEW f \in Files, RemoveFile(f) PROVE Returns
    <3>1. reply'.f = f
      BY <2>1 DEF RemoveFile
    <3>2. ASSUME NEW z \in lost' \ lost, NEW k \in Nat, k * ZoneSize(fs) < fs.ino[reply'.f].size
          PROVE  zone_at(fs, reply'.f, k * ZoneSize(fs)) # z
      BY <1>1, <2>1, <3>1, <3>2, RemoveReturns
    <3> QED
      BY <3>2
  <2>2. ASSUME lost' = lost PROVE Returns
    BY <2>2
  <2>3. ASSUME NEW f \in Files, NEW pos \in Positions, NEW len \in Lengths,
               Write(f, pos, len) \/ Read(f, pos, len)
        PROVE  lost' = lost
    <3>1. ASSUME Write(f, pos, len) PROVE lost' = lost
      BY Zenon, <3>1 DEF Write
    <3>2. ASSUME Read(f, pos, len) PROVE lost' = lost
      BY Zenon, <3>2 DEF Read
    <3> QED
      BY <2>3, <3>1, <3>2
  <2>4. ASSUME NEW f \in Files, NEW start \in Positions, NEW end \in Positions,
               fs_ftrunc(f, start, end)
        PROVE  lost' = lost
    BY Zenon, <2>4 DEF fs_ftrunc
  <2>5. ASSUME NEW f \in Files, Reload(f) PROVE lost' = lost
    BY <2>5 DEF Reload
  <2> HIDE DEF Returns
  <2>6. CASE UNCHANGED vars
    BY <2>6
  <2> QED
    BY <1>1, <2>1, <2>2, <2>3, <2>4, <2>5, <2>6 DEF Next
<1>2. Spec => []FInv
  BY MfsFileSound
<1> QED
  BY <1>1, <1>2, PTL DEF Spec, RemovalReturnsContents

-----------------------------------------------------------------------------
(* What files hold. *)

\* Unit i of a file, past its end too.
Value(s, f, i) ==
    IF read_map(s, f, i) = NO_BLOCK THEN 0 ELSE s.blk[read_map(s, f, i)][i % U]
Units(s) == 0..(MaxSize(s) - 1)

LEMMA UnitIs ==
    ASSUME NEW s, s.scale \in Scales, NEW i \in Units(s)
    PROVE  /\ i \in Nat /\ i < MaxSize(s) /\ Within(s, i) /\ Zone(s, i) \in 0..(MaxZone - 1)
           /\ i % U \in Entries /\ i \div U \in Nat /\ i = (U * (i \div U)) + (i % U)
<1>1. MaxSize(s) \in Nat /\ U \in Nat \ {0}
  BY SizesIs, MfsFileAssumption
<1>2. i \in Nat /\ i < MaxSize(s)
  BY <1>1 DEF Units
<1>3. i % U \in 0..(U - 1) /\ i \div U \in Nat /\ i = (U * (i \div U)) + (i % U)
  BY <1>1, <1>2, DivMod
<1>4. Within(s, i)
  BY <1>2, WithinBelow
<1> QED
  BY <1>2, <1>3, <1>4 DEF Entries, Within

LEMMA ValueIs ==
    ASSUME NEW s, NEW X, Sound(s, X), NEW f \in Files, NEW i, Within(s, i)
    PROVE  /\ PlaceZone(s, f, Zone(s, i)) = NO_ZONE => read_map(s, f, i) = NO_BLOCK /\ Value(s, f, i) = 0
           /\ PlaceZone(s, f, Zone(s, i)) # NO_ZONE =>
                /\ read_map(s, f, i)
                     = PlaceZone(s, f, Zone(s, i)) * ZoneBlocks(s) + ((i \div U) % ZoneBlocks(s))
                /\ (i \div U) % ZoneBlocks(s) \in 0..(ZoneBlocks(s) - 1)
                /\ PlaceZone(s, f, Zone(s, i)) \in DataZones \ Indirects(s)
                /\ read_map(s, f, i) # NO_BLOCK /\ DataBlock(s, read_map(s, f, i))
                /\ Value(s, f, i) = s.blk[read_map(s, f, i)][i % U]
<1>1. zone_at(s, f, i) = PlaceZone(s, f, Zone(s, i))
  BY PlaceIs
<1> QED
  BY <1>1, BlockIs DEF Value

\* A block belongs to one file, and holds one part of it.
LEMMA BlockOnce ==
    ASSUME NEW s, NEW X, Sound(s, X), NEW f \in Files, NEW g \in Files, NEW i, Within(s, i),
           NEW j, Within(s, j), read_map(s, f, i) = read_map(s, g, j), read_map(s, f, i) # NO_BLOCK
    PROVE  f = g /\ i \div U = j \div U
<1> DEFINE y == PlaceZone(s, f, Zone(s, i))
           z == PlaceZone(s, g, Zone(s, j))
           B == ZoneBlocks(s)
           p == i \div U
           q == j \div U
<1>1. y # NO_ZONE /\ z # NO_ZONE
  BY ValueIs
<1>2. /\ read_map(s, f, i) = y * B + (p % B) /\ p % B \in 0..(B - 1) /\ y \in DataZones
      /\ read_map(s, g, j) = z * B + (q % B) /\ q % B \in 0..(B - 1) /\ z \in DataZones
  BY <1>1, ValueIs
<1>3. B \in Nat \ {0} /\ y \in Int /\ z \in Int /\ i \in Nat /\ j \in Nat /\ U \in Nat \ {0}
  BY <1>2, SoundIs, BlocksPositive, MfsFileAssumption DEF DataZones, Within
<1>4. p \in Nat /\ q \in Nat
  BY <1>3, DivMod
<1>5. y = z /\ p % B = q % B
  <2> DEFINE a == p % B
             c == q % B
  <2>1. y * B + a = z * B + c /\ a \in 0..(B - 1) /\ c \in 0..(B - 1)
    BY <1>2
  <2> HIDE DEF y, z, B, p, q, a, c
  <2>2. y = z /\ a = c
    BY <1>3, <2>1, Apart
  <2> QED
    BY <2>2 DEF a, c
<1>6. f = g /\ Zone(s, i) = Zone(s, j)
  BY <1>1, <1>5, PlaceOnce DEF Within
<1>7. p \div B = q \div B
  BY <1>6 DEF Zone
<1> HIDE DEF y, z, B, p, q
<1>8. p = (B * (p \div B)) + (p % B) /\ q = (B * (q \div B)) + (q % B)
  BY <1>3, <1>4, DivMod
<1>9. p = q
  BY <1>5, <1>7, <1>8
<1> QED
  BY <1>6, <1>9 DEF p, q

\* Units of one block are in one zone, and have the block.
LEMMA SameBlock ==
    ASSUME NEW s, NEW f, NEW i, NEW j, i \div U = j \div U
    PROVE  Zone(s, i) = Zone(s, j) /\ read_map(s, f, i) = read_map(s, f, j)
BY DEF Zone, read_map, zone_at

LEMMA LikeValue ==
    ASSUME NEW s, NEW X, Sound(s, X), NEW t, NEW Y, Sound(t, Y), t.scale = s.scale,
           NEW g \in Files, NEW i, Within(s, i), LikeAt(s, t, g, Zone(s, i))
    PROVE  Value(t, g, i) = Value(s, g, i)
<1> DEFINE z == PlaceZone(s, g, Zone(s, i))
           B == ZoneBlocks(s)
           j == (i \div U) % B
<1>1. Within(t, i) /\ Zone(t, i) = Zone(s, i) /\ ZoneBlocks(t) = B
  BY WithinFrame DEF ZoneBlocks
<1>2. PlaceZone(t, g, Zone(t, i)) = z
  BY <1>1 DEF LikeAt
<1>3. CASE z = NO_ZONE
  BY <1>1, <1>2, <1>3, ValueIs
<1>4. CASE z # NO_ZONE
  <2>1. /\ read_map(s, g, i) = z * B + j /\ j \in 0..(B - 1)
        /\ Value(s, g, i) = s.blk[read_map(s, g, i)][i % U]
    BY <1>4, ValueIs
  <2>2. read_map(t, g, i) = z * B + j /\ Value(t, g, i) = t.blk[read_map(t, g, i)][i % U]
    BY <1>1, <1>2, <1>4, ValueIs
  <2>3. t.blk[z * B + j] = s.blk[z * B + j]
    BY <1>4, <2>1 DEF LikeAt, SameZone
  <2> QED
    BY <2>1, <2>2, <2>3
<1> QED
  BY <1>3, <1>4

\* A file has zones where it had them, and holds what it held.
SameFile(s, t, g) ==
    /\ \A k \in 0..(MaxZone - 1) : PlaceZone(t, g, k) = NO_ZONE <=> PlaceZone(s, g, k) = NO_ZONE
    /\ \A i \in Units(s) : Value(t, g, i) = Value(s, g, i)

LEMMA SameFileAlong ==
    ASSUME NEW s, NEW t, NEW u, NEW g, t.scale = s.scale, SameFile(s, t, g), SameFile(t, u, g)
    PROVE  SameFile(s, u, g)
<1>1. Units(t) = Units(s)
  BY DEF Units, MaxSize, ZoneSize, ZoneBlocks
<1> QED
  BY <1>1 DEF SameFile

LEMMA LikeFile ==
    ASSUME NEW s, NEW X, Sound(s, X), NEW t, NEW Y, Sound(t, Y), t.scale = s.scale,
           NEW g \in Files, \A k \in 0..(MaxZone - 1) : LikeAt(s, t, g, k)
    PROVE  SameFile(s, t, g)
<1>1. \A k \in 0..(MaxZone - 1) : PlaceZone(t, g, k) = NO_ZONE <=> PlaceZone(s, g, k) = NO_ZONE
  BY DEF LikeAt
<1>2. ASSUME NEW i \in Units(s) PROVE Value(t, g, i) = Value(s, g, i)
  <2>1. Within(s, i) /\ Zone(s, i) \in 0..(MaxZone - 1)
    BY SoundIs, UnitIs
  <2> QED
    BY <2>1, LikeValue
<1> QED
  BY <1>1, <1>2 DEF SameFile

-----------------------------------------------------------------------------
(* Data written. *)

\* What the units of I of a file hold becomes v; nothing else changes.
Filled(s, t, f, I, v) ==
    \A g \in Files, i \in Units(s) :
        Value(t, g, i) = IF g = f /\ i \in I THEN v ELSE Value(s, g, i)

LEMMA RewrittenMap ==
    ASSUME NEW s, NEW t, Rewritten(s, t), NEW g \in Files, NEW i, Within(s, i)
    PROVE  read_map(t, g, i) = read_map(s, g, i) /\ Within(t, i)
<1>1. zone_at(t, g, i) = zone_at(s, g, i) /\ Within(t, i)
  BY RewrittenZone
<1>2. ZoneBlocks(t) = ZoneBlocks(s)
  BY DEF Rewritten, Frame, ZoneBlocks
<1> QED
  BY <1>1, <1>2 DEF read_map

\* One block is written.
LEMMA BlockWritten ==
    ASSUME NEW s, NEW X, Sound(s, X), NEW t, Rewritten(s, t), NEW f \in Files, NEW p, Within(s, p),
           NEW b, b = read_map(s, f, p), b # NO_BLOCK, NEW c, t.blk = [s.blk EXCEPT ![b] = c],
           NEW g \in Files, NEW i \in Units(s)
    PROVE  Value(t, g, i) = IF g = f /\ i \div U = p \div U THEN c[i % U] ELSE Value(s, g, i)
<1>1. Within(s, i) /\ s.scale \in Scales
  BY SoundIs, UnitIs
<1>2. Value(t, g, i) = IF read_map(s, g, i) = NO_BLOCK THEN 0 ELSE t.blk[read_map(s, g, i)][i % U]
  <2>1. read_map(t, g, i) = read_map(s, g, i)
    BY <1>1, RewrittenMap
  <2> QED
    BY <2>1 DEF Value
<1>3. b \in DOMAIN s.blk
  <2>1. DataBlock(s, b)
    BY ValueIs
  <2>2. Volume(s)
    BY SoundIs
  <2>3. b \in 0..(Zones * ZoneBlocks(s) - 1)
    BY <2>1, <2>2, DataBlockIs
  <2>4. DOMAIN s.blk = 0..(Zones * ZoneBlocks(s) - 1)
    BY <2>2, VolumeIs
  <2> QED
    BY <2>3, <2>4
<1>4. CASE g = f /\ i \div U = p \div U
  <2>1. read_map(s, g, i) = b
    BY <1>4, SameBlock
  <2> QED
    BY <1>2, <1>3, <1>4, <2>1
<1>5. CASE ~(g = f /\ i \div U = p \div U)
  <2>1. read_map(s, g, i) # NO_BLOCK => read_map(s, g, i) # b
    BY <1>1, <1>5, BlockOnce
  <2>2. read_map(s, g, i) # NO_BLOCK => t.blk[read_map(s, g, i)] = s.blk[read_map(s, g, i)]
    BY <1>3, <2>1
  <2>3. Value(s, g, i) = IF read_map(s, g, i) = NO_BLOCK THEN 0 ELSE s.blk[read_map(s, g, i)][i % U]
    BY DEF Value
  <2> QED
    BY <1>2, <1>5, <2>2, <2>3
<1> QED
  BY <1>4, <1>5

\* The units of the block of a position.
BlockUnits(s, p) == {i \in Units(s) : i \div U = p \div U}

LEMMA ZeroFills ==
    ASSUME NEW s, NEW X, Sound(s, X), NEW f \in Files, NEW p, Within(s, p),
           NEW b, b = read_map(s, f, p), b # NO_BLOCK
    PROVE  Filled(s, zero_block(s, b), f, BlockUnits(s, p), 0)
<1> DEFINE t == zero_block(s, b)
<1>1. DataBlock(s, b)
  BY ValueIs
<1>2. Rewritten(s, t)
  BY <1>1, ZeroSound
<1>3. t.blk = [s.blk EXCEPT ![b] = Zeros]
  <2>1. s = [scale |-> s.scale, bits |-> s.bits, zsearch |-> s.zsearch, blk |-> s.blk,
             ino |-> s.ino, panic |-> s.panic]
    BY SoundIs DEF Volume
  <2> QED
    BY <2>1 DEF zero_block
<1> HIDE DEF t
<1>4. ASSUME NEW g \in Files, NEW i \in Units(s)
      PROVE  Value(t, g, i) = IF g = f /\ i \in BlockUnits(s, p) THEN 0 ELSE Value(s, g, i)
  <2>1. Value(t, g, i) = IF g = f /\ i \div U = p \div U THEN Zeros[i % U] ELSE Value(s, g, i)
    BY <1>2, <1>3, BlockWritten
  <2>2. Zeros[i % U] = 0
    BY SoundIs, UnitIs DEF Zeros, Entries
  <2> QED
    BY <2>1, <2>2 DEF BlockUnits
<1> QED
  BY <1>4 DEF Filled, t

LEMMA CopyFills ==
    ASSUME NEW s, NEW X, Sound(s, X), NEW f \in Files, NEW p, Within(s, p),
           NEW b, b = read_map(s, f, p), b # NO_BLOCK, NEW n \in Nat, (p % U) + n =< U, NEW v \in Int
    PROVE  Filled(s, copied(s, b, p % U, n, v), f, p..(p + n - 1), v)
<1> DEFINE t == copied(s, b, p % U, n, v)
           c == [i \in DOMAIN s.blk[b] |-> IF i \in (p % U)..((p % U) + n - 1) THEN v ELSE s.blk[b][i]]
<1>1. DataBlock(s, b)
  BY ValueIs
<1>2. Rewritten(s, t)
  BY <1>1, CopiedSound
<1>3. t.blk = [s.blk EXCEPT ![b] = c]
  <2>1. s = [scale |-> s.scale, bits |-> s.bits, zsearch |-> s.zsearch, blk |-> s.blk,
             ino |-> s.ino, panic |-> s.panic]
    BY SoundIs DEF Volume
  <2>2. t = [s EXCEPT !.blk[b] = c]
    BY DEF copied
  <2> HIDE DEF c, t
  <2> QED
    BY <2>1, <2>2
<1>4. DOMAIN s.blk[b] = Entries
  BY <1>1, SoundIs, DataBlockIs
<1>5. U \in Nat \ {0} /\ p \in Nat /\ s.scale \in Scales
  BY SoundIs, MfsFileAssumption DEF Within
<1> DEFINE q == p \div U
           o == p % U
<1>6. q \in Nat /\ o \in 0..(U - 1) /\ p = (U * q) + o
  BY <1>5, DivMod
<1>7. \A e \in Entries : c[e] = IF e \in o..(o + n - 1) THEN v ELSE s.blk[b][e]
  BY <1>4
<1> HIDE DEF t, c
<1>8. ASSUME NEW g \in Files, NEW i \in Units(s)
      PROVE  Value(t, g, i) = IF g = f /\ i \in p..(p + n - 1) THEN v ELSE Value(s, g, i)
  <2> DEFINE k == i \div U
             e == i % U
  <2>1. Value(t, g, i) = IF g = f /\ k = q THEN c[e] ELSE Value(s, g, i)
    BY <1>2, <1>3, BlockWritten
  <2>2. k \in Nat /\ e \in Entries /\ i = (U * k) + e /\ i \in Nat
    BY <1>5, UnitIs
  <2>3. g = f /\ k = q => Value(s, g, i) = s.blk[b][e]
    <3>1. k = q => read_map(s, f, i) = b
      BY SameBlock
    <3> QED
      BY <3>1 DEF Value
  <2>4. o + n =< U
    OBVIOUS
  <2> HIDE DEF q, o, k, e
  <2>5. CASE k = q
    <3>1. i \in p..(p + n - 1) <=> e \in o..(o + n - 1)
      BY <1>5, <1>6, <2>2, <2>5 DEF Entries
    <3> QED
      BY <1>7, <2>1, <2>2, <2>3, <2>5, <3>1
  <2>6. CASE k # q
    <3>1. i \notin p..(p + n - 1)
      <4>1. ASSUME i \in p..(p + n - 1) PROVE FALSE
        <5>1. i = (U * q) + (i - (U * q)) /\ i - (U * q) \in 0..(U - 1)
          <6>1. U * q \in Int
            BY <1>5, <1>6
          <6> HIDE DEF Entries
          <6> QED
            BY <1>5, <1>6, <2>2, <2>4, <4>1, <6>1
        <5>2. i \div U = q
          BY <1>5, <1>6, <2>2, <5>1, Quotient
        <5> QED
          BY <2>6, <5>2 DEF k
      <4> QED
        BY <4>1
    <3> QED
      BY <2>1, <2>6, <3>1
  <2> QED
    BY <2>5, <2>6
<1> QED
  BY <1>8 DEF Filled, t

\* The blocks from that of index i of zone z on to the end of the zone.
LEMMA InRest ==
    ASSUME NEW y \in Nat, NEW z \in Nat, NEW B \in Nat \ {0}, NEW i \in 0..(B - 1), NEW j \in 0..(B - 1)
    PROVE  y * B + j \in (z * B + i)..((((z * B + i) \div B) + 1) * B - 1) <=> y = z /\ j >= i
<1> DEFINE hi == (((z * B + i) \div B) + 1) * B - 1
           lo == z * B + i
           b == y * B + j
<1>1. z * B \in Nat /\ y * B \in Nat /\ lo \in Nat /\ b \in Nat /\ (z + 1) * B = z * B + B
      /\ lo = B * z + i
  BY Times
<1>2. lo \div B = z
  BY <1>1, Quotient
<1>3. hi = z * B + B - 1
  BY <1>1, <1>2
<1>4. ASSUME b \in lo..hi PROVE y = z /\ j >= i
  <2>1. b - z * B \in 0..(B - 1) /\ b = z * B + (b - z * B)
    BY <1>1, <1>3, <1>4
  <2>2. y = z
    <3> DEFINE c == b - z * B
    <3>1. c \in 0..(B - 1) /\ y * B + j = z * B + c
      BY <2>1
    <3> HIDE DEF c
    <3> QED
      BY <3>1, Apart
  <2>3. y * B = z * B
    BY <2>2
  <2> HIDE DEF hi
  <2>4. y * B + j >= z * B + i
    BY <1>1, <1>4
  <2> QED
    BY <1>1, <2>2, <2>3, <2>4
<1>5. ASSUME y = z, j >= i PROVE b \in lo..hi
  <2>1. y * B = z * B
    BY <1>5
  <2> QED
    BY <1>1, <1>3, <1>5, <2>1
<1> QED
  BY <1>4, <1>5

LEMMA SameOrder ==
    ASSUME NEW p \in Nat, NEW q \in Nat, NEW B \in Nat \ {0}, p \div B = q \div B
    PROVE  p % B >= q % B <=> p >= q
<1>1. p = (B * (p \div B)) + (p % B) /\ q = (B * (q \div B)) + (q % B)
      /\ p \div B \in Nat /\ p % B \in Nat /\ q % B \in Nat
  BY DivMod
<1> DEFINE x == B * (p \div B)
           a == p % B
           b == q % B
<1>2. p = x + a /\ q = x + b /\ x \in Nat /\ a \in Nat /\ b \in Nat
  BY <1>1, Times
<1> HIDE DEF x, a, b
<1>3. a >= b <=> p >= q
  BY <1>2
<1> QED
  BY <1>3 DEF a, b

\* The units of the zone of a position that clear_zone zeroes.
Rest(s, next) == {i \in Units(s) : Zone(s, i) = Zone(s, next) /\ i \div U >= next \div U}
ClearFrom(s, pos, whole) == IF whole THEN (pos \div ZoneSize(s)) * ZoneSize(s) ELSE pos

LEMMA ClearFromIs ==
    ASSUME NEW s, NEW X, Sound(s, X), NEW pos, Within(s, pos), NEW whole \in BOOLEAN
    PROVE  /\ ClearFrom(s, pos, whole) \in Nat /\ ClearFrom(s, pos, whole) + U - 1 \in Nat
           /\ Zone(s, ClearFrom(s, pos, whole)) = Zone(s, pos)
           /\ whole => /\ Zone(s, ClearFrom(s, pos, whole) + U - 1) = Zone(s, pos)
                       /\ (ClearFrom(s, pos, whole) + U - 1) \div U = Zone(s, pos) * ZoneBlocks(s)
<1> DEFINE zs == ZoneSize(s)
           B == ZoneBlocks(s)
           q == pos \div zs
           p == ClearFrom(s, pos, whole)
<1>1. zs \in Nat \ {0} /\ B \in Nat \ {0} /\ U \in Nat \ {0} /\ pos \in Nat /\ zs = U * B
      /\ \A x \in Nat : Zone(s, x) = x \div zs
  BY SoundIs, ZoneIs, BlocksPositive, MfsFileAssumption DEF Within
<1>2. p = IF whole THEN q * zs ELSE pos
  BY DEF ClearFrom
<1> HIDE DEF zs, B, p
<1>3. q \in Nat /\ q * zs \in Nat /\ Zone(s, pos) = q
  BY <1>1, DivMod, Times
<1>4. pos \div zs = q
  OBVIOUS
<1> HIDE DEF q
<1>5. q * zs = zs * q + 0 /\ 0 \in 0..(zs - 1)
  BY <1>1, <1>3
<1>6. (q * zs) \div zs = q
  BY <1>1, <1>3, <1>5, Quotient
<1>7. p \in Nat /\ p + U - 1 \in Nat /\ p \div zs = q
  <2>1. CASE whole
    BY <1>1, <1>2, <1>3, <1>6, <2>1
  <2>2. CASE ~whole
    BY <1>4, <1>1, <1>2, <2>2
  <2> QED
    BY <2>1, <2>2
<1>8. ASSUME whole
      PROVE  Zone(s, p + U - 1) = q /\ (p + U - 1) \div U = q * B
  <2>1. U =< zs
    <3>1. U = 1 * U /\ zs = B * U /\ 1 =< B
      BY <1>1
    <3> QED
      BY <1>1, <3>1, Larger
  <2>2. p + U - 1 = zs * q + (U - 1) /\ U - 1 \in 0..(zs - 1)
    BY <1>1, <1>2, <1>3, <1>5, <1>8, <2>1
  <2>3. (p + U - 1) \div zs = q
    BY <1>1, <1>3, <1>7, <2>2, Quotient
  <2>4. q * B \in Nat /\ zs * q = U * (q * B)
    BY <1>1, <1>3, Times
  <2>5. (p + U - 1) \div U = q * B
    <3>1. p + U - 1 = U * (q * B) + (U - 1) /\ U - 1 \in 0..(U - 1)
      BY <1>1, <2>2, <2>4
    <3> QED
      BY <1>1, <1>7, <2>4, <3>1, Quotient
  <2> QED
    BY <1>1, <1>7, <2>3, <2>5
<1> QED
  BY <1>1, <1>3, <1>7, <1>8 DEF p, B

LEMMA ClearNone ==
    ASSUME NEW s, NEW X, Sound(s, X), NEW f \in Files, NEW pos, Within(s, pos), NEW whole \in BOOLEAN,
           \/ s.scale = 0
           \/ Zone(s, ClearFrom(s, pos, whole) + U - 1) # Zone(s, pos)
           \/ PlaceZone(s, f, Zone(s, pos)) = NO_ZONE
    PROVE  clear_zone(s, f, pos, whole) = s
<1> DEFINE zs == ZoneSize(s)
           p == ClearFrom(s, pos, whole)
           next == p + U - 1
           blo == read_map(s, f, next)
<1>1. s.scale = 0 \/ next \div zs # p \div zs \/ blo = NO_BLOCK => clear_zone(s, f, pos, whole) = s
  BY DEF clear_zone, ClearFrom
<1>2. /\ p \in Nat /\ next \in Nat /\ Zone(s, p) = Zone(s, pos)
      /\ Zone(s, p) = p \div zs /\ Zone(s, next) = next \div zs
  BY SoundIs, ClearFromIs, ZoneIs
<1> HIDE DEF p
<1>3. CASE Zone(s, next) # Zone(s, pos)
  BY <1>1, <1>2, <1>3
<1>4. CASE Zone(s, next) = Zone(s, pos) /\ PlaceZone(s, f, Zone(s, pos)) = NO_ZONE
  <2>1. zone_at(s, f, next) = NO_ZONE
    BY <1>4, PlaceIs
  <2>2. blo = NO_BLOCK
    BY <2>1 DEF read_map
  <2> QED
    BY <1>1, <2>2
<1> QED
  BY <1>1, <1>3, <1>4 DEF p

LEMMA ClearFills ==
    ASSUME NEW s, NEW X, Sound(s, X), NEW f \in Files, NEW pos, Within(s, pos), NEW whole \in BOOLEAN,
           s.scale # 0, PlaceZone(s, f, Zone(s, pos)) # NO_ZONE,
           NEW next, next = ClearFrom(s, pos, whole) + U - 1, Zone(s, next) = Zone(s, pos)
    PROVE  Filled(s, clear_zone(s, f, pos, whole), f, Rest(s, next), 0)
<1> DEFINE zs == ZoneSize(s)
           B == ZoneBlocks(s)
           p == ClearFrom(s, pos, whole)
           blo == read_map(s, f, next)
           bhi == ((blo \div B) + 1) * B - 1
           blk == [b \in DOMAIN s.blk |-> IF b \in blo..bhi THEN Zeros ELSE s.blk[b]]
           t == clear_zone(s, f, pos, whole)
           z == PlaceZone(s, f, Zone(s, pos))
           i0 == (next \div U) % B
<1>1. /\ p \in Nat /\ next \in Nat /\ Zone(s, p) = Zone(s, pos) /\ Within(s, next)
      /\ Zone(s, p) = p \div zs /\ Zone(s, next) = next \div zs
  BY SoundIs, ClearFromIs, ZoneIs DEF Within
<1>2. read_map(s, f, next) = z * B + i0 /\ i0 \in 0..(B - 1) /\ z \in DataZones /\ blo # NO_BLOCK
  BY <1>1, ValueIs
<1>3. t = [s EXCEPT !.blk = blk]
  <2>1. t = IF s.scale = 0 \/ next \div zs # p \div zs \/ blo = NO_BLOCK THEN s
            ELSE [s EXCEPT !.blk = blk]
    BY DEF clear_zone, ClearFrom
  <2>2. next \div zs = p \div zs
    BY <1>1
  <2> HIDE DEF t, blk, blo
  <2> QED
    BY <1>2, <2>1, <2>2
<1>4. t.blk = blk
  <2>1. s = [scale |-> s.scale, bits |-> s.bits, zsearch |-> s.zsearch, blk |-> s.blk,
             ino |-> s.ino, panic |-> s.panic]
    BY SoundIs DEF Volume
  <2> HIDE DEF blk, t
  <2> QED
    BY <1>3, <2>1
<1>5. Rewritten(s, t)
  BY ClearZoneSound
<1>6. B \in Nat \ {0} /\ U \in Nat \ {0} /\ z \in Nat /\ s.scale \in Scales
  BY <1>2, SoundIs, BlocksPositive, MfsFileAssumption DEF DataZones
<1> HIDE DEF t, p, zs
<1>7. ASSUME NEW g \in Files, NEW i \in Units(s)
      PROVE  Value(t, g, i) = IF g = f /\ i \in Rest(s, next) THEN 0 ELSE Value(s, g, i)
  <2> DEFINE y == PlaceZone(s, g, Zone(s, i))
             j == (i \div U) % B
             b == read_map(s, g, i)
  <2>1. Within(s, i) /\ Zone(s, i) \in 0..(MaxZone - 1) /\ i % U \in Entries /\ i \div U \in Nat /\ i \in Nat
    BY <1>6, UnitIs
  <2>2. read_map(t, g, i) = b
    BY <1>5, <2>1, RewrittenMap
  <2>3. CASE y = NO_ZONE
    <3>1. b = NO_BLOCK /\ Value(s, g, i) = 0
      BY <2>1, <2>3, ValueIs
    <3> QED
      BY <2>2, <3>1 DEF Value
  <2>4. CASE y # NO_ZONE
    <3>1. /\ b = y * B + j /\ j \in 0..(B - 1) /\ y \in DataZones /\ b # NO_BLOCK /\ DataBlock(s, b)
          /\ Value(s, g, i) = s.blk[b][i % U]
      BY <2>1, <2>4, ValueIs
    <3>2. b \in DOMAIN s.blk
      <4>1. b \in 0..(Zones * ZoneBlocks(s) - 1)
        BY <3>1, SoundIs, DataBlockIs
      <4> QED
        BY <4>1, SoundIs, VolumeIs
    <3>3. y \in Nat
      BY <3>1, MfsFileAssumption DEF DataZones
    <3>4. b \in blo..bhi <=> y = z /\ j >= i0
      <4> HIDE DEF y, j, B, z, i0
      <4>1. y * B + j \in (z * B + i0)..((((z * B + i0) \div B) + 1) * B - 1) <=> y = z /\ j >= i0
        BY <1>2, <1>6, <3>1, <3>3, InRest
      <4> QED
        BY <1>2, <3>1, <4>1
    <3>5. y = z /\ j >= i0 <=> g = f /\ i \in Rest(s, next)
      <4>1. y = z <=> g = f /\ Zone(s, i) = Zone(s, pos)
        BY <2>1, <2>4, PlaceOnce DEF Within
      <4>2. ASSUME Zone(s, i) = Zone(s, next) PROVE j >= i0 <=> i \div U >= next \div U
        <5>1. (i \div U) \div B = (next \div U) \div B
          BY <4>2 DEF Zone
        <5>2. next \div U \in Nat
          BY <1>1, <1>6, DivMod
        <5> QED
          BY <1>6, <2>1, <5>1, <5>2, SameOrder
      <4> HIDE DEF y, z, j, i0
      <4> QED
        BY <4>1, <4>2 DEF Rest
    <3>6. t.blk[b] = IF b \in blo..bhi THEN Zeros ELSE s.blk[b]
      BY <1>4, <3>2
    <3>7. Zeros[i % U] = 0
      BY <2>1 DEF Zeros, Entries
    <3>8. Value(t, g, i) = t.blk[b][i % U]
      BY <2>2, <3>1 DEF Value
    <3> HIDE DEF blo, bhi, b, blk, y, z, j, i0
    <3> QED
      BY <3>1, <3>4, <3>5, <3>6, <3>7, <3>8
  <2> QED
    BY <2>3, <2>4
<1> QED
  BY <1>7 DEF Filled, t

LEMMA RangeFills ==
    ASSUME NEW s, NEW X, Sound(s, X), NEW f \in Files, NEW pos, Within(s, pos), NEW len \in Nat,
           \A k \in 0..(len - 1) : Zone(s, pos + k) = Zone(s, pos)
    PROVE  Filled(s, zerozone_range(s, f, pos, len), f, pos..(pos + len - 1), 0)
<1> DEFINE b == read_map(s, f, pos)
           B == ZoneBlocks(s)
           blk == [c \in DOMAIN s.blk |-> [i \in 0..(U - 1) |->
                     IF \E k \in 0..(len - 1) : range_block(b, pos, k) = c /\ (pos + k) % U = i THEN 0
                     ELSE s.blk[c][i]]]
           t == zerozone_range(s, f, pos, len)
<1>1. t = IF len = 0 \/ b = NO_BLOCK THEN s ELSE [s EXCEPT !.blk = blk]
  BY DEF zerozone_range
<1>2. pos \in Nat /\ U \in Nat \ {0} /\ B \in Nat \ {0} /\ s.scale \in Scales
  BY SoundIs, BlocksPositive, MfsFileAssumption DEF Within
<1>3. ASSUME NEW i \in Units(s)
      PROVE  i \in pos..(pos + len - 1) <=> \E k \in 0..(len - 1) : pos + k = i
  <2>1. i \in Nat
    BY <1>2, UnitIs
  <2>2. ASSUME i \in pos..(pos + len - 1) PROVE i - pos \in 0..(len - 1) /\ pos + (i - pos) = i
    BY <1>2, <2>1, <2>2
  <2>3. ASSUME NEW k \in 0..(len - 1), pos + k = i PROVE i \in pos..(pos + len - 1)
    BY <1>2, <2>1, <2>3
  <2> QED
    BY <2>2, <2>3
<1>4. CASE len = 0 \/ b = NO_BLOCK
  <2>1. t = s
    BY <1>1, <1>4
  <2> HIDE DEF t
  <2>2. ASSUME NEW i \in Units(s), i \in pos..(pos + len - 1) PROVE Value(s, f, i) = 0
    <3>1. PICK k \in 0..(len - 1) : pos + k = i
      BY <1>3, <2>2
    <3>2. Zone(s, i) = Zone(s, pos) /\ len # 0
      BY <3>1
    <3>3. PlaceZone(s, f, Zone(s, pos)) = NO_ZONE
      BY <1>4, <3>2, ValueIs
    <3>4. Within(s, i)
      BY <1>2, UnitIs
    <3> QED
      BY <3>2, <3>3, <3>4, ValueIs
  <2> QED
    BY <2>1, <2>2 DEF Filled, t
<1>5. CASE ~(len = 0 \/ b = NO_BLOCK)
  <2> DEFINE z == PlaceZone(s, f, Zone(s, pos))
  <2>1. b = z * B + ((pos \div U) % B) /\ z \in DataZones /\ z # NO_ZONE
    BY <1>5, ValueIs
  <2>2. z \in Nat
    BY <2>1, MfsFileAssumption DEF DataZones
  <2>3. t.blk = blk
    <3>1. s = [scale |-> s.scale, bits |-> s.bits, zsearch |-> s.zsearch, blk |-> s.blk,
               ino |-> s.ino, panic |-> s.panic]
      BY SoundIs DEF Volume
    <3> HIDE DEF blk, t
    <3> QED
      BY <1>1, <1>5, <3>1
  <2>4. Rewritten(s, t)
    BY RangeSound
  <2>5. ASSUME NEW k \in 0..(len - 1)
        PROVE  /\ Within(s, pos + k) /\ range_block(b, pos, k) = read_map(s, f, pos + k)
               /\ read_map(s, f, pos + k) # NO_BLOCK
    <3> DEFINE p == pos \div U
               q == (pos + k) \div U
    <3>1. pos + k \in Nat /\ p \in Nat /\ q \in Nat
      <4>1. k \in Nat /\ pos + k \in Nat
        BY <1>2
      <4> QED
        BY <1>2, <4>1, DivMod
    <3>2. Within(s, pos + k) /\ Zone(s, pos + k) = Zone(s, pos)
      BY <3>1 DEF Within
    <3>3. p \div B = q \div B
      BY <3>2 DEF Zone
    <3>4. range_block(b, pos, k) = b + q - p
      BY DEF range_block
    <3>5. read_map(s, f, pos + k) = z * B + (q % B) /\ read_map(s, f, pos + k) # NO_BLOCK
      BY <2>1, <3>2, ValueIs
    <3> HIDE DEF B, p, q, z, b
    <3>6. (z * B + (p % B)) + q - p = z * B + (q % B)
      BY <1>2, <2>2, <3>1, <3>3, RangeBlock
    <3>7. b = z * B + (p % B)
      BY <2>1 DEF p
    <3> QED
      BY <3>2, <3>4, <3>5, <3>6, <3>7
  <2> HIDE DEF t, b, z, B
  <2>6. ASSUME NEW g \in Files, NEW i \in Units(s)
        PROVE  Value(t, g, i) = IF g = f /\ i \in pos..(pos + len - 1) THEN 0 ELSE Value(s, g, i)
    <3> DEFINE c == read_map(s, g, i)
    <3>1. /\ Within(s, i) /\ i % U \in Entries /\ i \div U \in Nat /\ i \in Nat
          /\ i = (U * (i \div U)) + (i % U)
      BY <1>2, UnitIs
    <3>2. read_map(t, g, i) = c
      BY <2>4, <3>1, RewrittenMap
    <3>3. CASE c = NO_BLOCK
      <4>1. Value(t, g, i) = 0 /\ Value(s, g, i) = 0
        BY <3>2, <3>3 DEF Value
      <4> QED
        BY <4>1
    <3>4. CASE c # NO_BLOCK
      <4>1. DataBlock(s, c)
        BY <3>1, <3>4, ValueIs
      <4>2. c \in DOMAIN s.blk
        <5>1. c \in 0..(Zones * ZoneBlocks(s) - 1)
          BY <4>1, SoundIs, DataBlockIs
        <5> QED
          BY <5>1, SoundIs, VolumeIs
      <4> DEFINE Hit == \E k \in 0..(len - 1) : range_block(b, pos, k) = c /\ (pos + k) % U = i % U
      <4>3. t.blk[c][i % U] = IF Hit THEN 0 ELSE s.blk[c][i % U]
        BY <2>3, <3>1, <4>2 DEF Entries
      <4>4. ASSUME NEW k \in 0..(len - 1), range_block(b, pos, k) = c, (pos + k) % U = i % U
            PROVE  g = f /\ pos + k = i
        <5>1. Within(s, pos + k) /\ read_map(s, f, pos + k) = c
          BY <2>5, <4>4
        <5>2. g = f /\ (pos + k) \div U = i \div U
          BY <3>1, <3>4, <5>1, BlockOnce
        <5>3. pos + k \in Nat
          BY <1>2
        <5>4. pos + k = (U * ((pos + k) \div U)) + ((pos + k) % U)
          BY <1>2, <5>3, DivMod
        <5> QED
          BY <3>1, <4>4, <5>2, <5>4
      <4>5. ASSUME g = f, NEW k \in 0..(len - 1), pos + k = i
            PROVE  range_block(b, pos, k) = c /\ (pos + k) % U = i % U
        BY <2>5, <4>5
      <4>6. Hit <=> g = f /\ i \in pos..(pos + len - 1)
        BY <1>3, <4>4, <4>5
      <4> HIDE DEF Hit, c
      <4>7. Value(t, g, i) = t.blk[c][i % U] /\ Value(s, g, i) = s.blk[c][i % U]
        BY <3>2, <3>4 DEF Value, c
      <4> QED
        BY <4>3, <4>6, <4>7
    <3> QED
      BY <3>3, <3>4
  <2> QED
    BY <2>6 DEF Filled, t
<1> QED
  BY <1>4, <1>5

-----------------------------------------------------------------------------
(* What a new block shows. *)

\* The units that show zero once a block is made for a position: those of its
\* block and, when the zone is cleared, those of the zone.
NewUnit(s, f, pos, i) ==
    Zone(s, i) = Zone(s, pos) /\ (pos # s.ino[f].size \/ s.scale = 0 \/ i \div U = pos \div U)

\* The zones of a file are those of s, but for that of a position, which has
\* one; the units of that zone that are not cleared may hold anything.
Added(s, t, f, pos) ==
    /\ zone_at(t, f, pos) # NO_ZONE
    /\ \A g \in Files, k \in 0..(MaxZone - 1) :
         g # f \/ k # Zone(s, pos) => (PlaceZone(t, g, k) = NO_ZONE <=> PlaceZone(s, g, k) = NO_ZONE)
    /\ \A g \in Files, i \in Units(s) :
         \/ Value(t, g, i) = Value(s, g, i)
         \/ g = f /\ Zone(s, i) = Zone(s, pos) /\ ~NewUnit(s, f, pos, i)

LEMMA OneBlock ==
    ASSUME NEW s, s.scale = 0, NEW i, NEW j, i \in Nat, j \in Nat, Zone(s, i) = Zone(s, j)
    PROVE  i \div U = j \div U
<1>1. ZoneBlocks(s) = 1
  BY DEF ZoneBlocks
<1>2. U \in Nat \ {0}
  BY MfsFileAssumption
<1>3. i \div U \in Nat /\ j \div U \in Nat
  BY <1>2, DivMod
<1> DEFINE a == i \div U
           b == j \div U
<1>4. a \div 1 = b \div 1
  BY <1>1 DEF Zone
<1> HIDE DEF a, b
<1>5. a = b
  BY <1>3, <1>4 DEF a, b
<1> QED
  BY <1>5 DEF a, b

\* All the blocks of a zone come after the first.
LEMMA WholeRest ==
    ASSUME NEW s, NEW X, Sound(s, X), NEW pos, Within(s, pos), NEW i \in Units(s),
           Zone(s, i) = Zone(s, pos), NEW next, next = ClearFrom(s, pos, TRUE) + U - 1
    PROVE  i \in Rest(s, next)
<1> DEFINE B == ZoneBlocks(s)
           q == i \div U
<1>1. Zone(s, next) = Zone(s, pos) /\ next \div U = Zone(s, pos) * B
  BY ClearFromIs
<1>2. q \in Nat /\ B \in Nat \ {0}
  BY SoundIs, UnitIs, BlocksPositive
<1>3. q \div B = Zone(s, i)
  BY DEF Zone
<1> HIDE DEF q, B
<1>4. q = (B * (q \div B)) + (q % B) /\ q \div B \in Nat /\ q % B \in Nat
  BY <1>2, DivMod
<1> DEFINE y == q \div B
<1>5. y * B \in Nat /\ y * B = B * y
  BY <1>2, <1>4
<1>6. q >= y * B
  BY <1>4, <1>5
<1>7. y = Zone(s, pos)
  BY <1>3
<1>8. i \div U >= Zone(s, pos) * ZoneBlocks(s)
  BY <1>6, <1>7 DEF q, B
<1> QED
  BY <1>1, <1>8 DEF Rest, B

LEMMA FilledSame ==
    ASSUME NEW s, NEW f PROVE Filled(s, s, f, {}, 0)
BY DEF Filled

ZoneUnits(s, pos) == {i \in Units(s) : Zone(s, i) = Zone(s, pos)}

LEMMA ClearedZone ==
    ASSUME NEW s, NEW X, Sound(s, X), NEW f \in Files, NEW pos, Within(s, pos),
           zone_at(s, f, pos) # NO_ZONE, s.scale # 0
    PROVE  Filled(s, clear_zone(s, f, pos, TRUE), f, ZoneUnits(s, pos), 0)
<1> DEFINE next == ClearFrom(s, pos, TRUE) + U - 1
           t == clear_zone(s, f, pos, TRUE)
<1>1. Zone(s, next) = Zone(s, pos)
  BY ClearFromIs
<1>2. PlaceZone(s, f, Zone(s, pos)) # NO_ZONE
  BY PlaceIs
<1> HIDE DEF next
<1>3. Filled(s, t, f, Rest(s, next), 0)
  BY <1>1, <1>2, ClearFills DEF next
<1> HIDE DEF t
<1>4. ASSUME NEW i \in Units(s) PROVE i \in Rest(s, next) <=> i \in ZoneUnits(s, pos)
  <2>1. Zone(s, i) = Zone(s, pos) => i \in Rest(s, next)
    BY WholeRest DEF next
  <2> QED
    BY <1>1, <2>1 DEF Rest, ZoneUnits
<1> QED
  BY <1>3, <1>4 DEF Filled, t

\* Of the zone of a position, the new units show zero; the others show what
\* they did.
ShowsFresh(s, t, f, pos) ==
    \A g \in Files, i \in Units(s) :
        /\ g # f \/ Zone(s, i) # Zone(s, pos) => Value(t, g, i) = Value(s, g, i)
        /\ g = f /\ NewUnit(s, f, pos, i) => Value(t, g, i) = 0

LEMMA FreshValue ==
    ASSUME NEW s, Sound(s, lost), NEW f \in Files, NEW pos, Within(s, pos), zone_at(s, f, pos) # NO_ZONE
    PROVE  LET n == fresh_block(IF pos # s.ino[f].size THEN clear_zone(s, f, pos, TRUE) ELSE s, f, pos)
           IN /\ Sound(n.s, lost) /\ Rewritten(s, n.s) /\ n.r = "OK" /\ n.b = read_map(n.s, f, pos)
              /\ ShowsFresh(s, n.s, f, pos)
<1> DEFINE clear == pos # s.ino[f].size
           c == IF clear THEN clear_zone(s, f, pos, TRUE) ELSE s
           b == read_map(c, f, pos)
           t == zero_block(c, b)
           n == fresh_block(c, f, pos)
<1>1. n.s = t /\ n.b = b /\ n.r = "OK"
  <2>1. n = [s |-> t, b |-> b, r |-> "OK"]
    BY DEF fresh_block
  <2> HIDE DEF n, t, b
  <2> QED
    BY <2>1
<1> HIDE DEF n
<1>2. Sound(c, lost) /\ Rewritten(s, c)
  <2>1. Sound(clear_zone(s, f, pos, TRUE), lost) /\ Rewritten(s, clear_zone(s, f, pos, TRUE))
    BY ClearZoneSound
  <2>2. Rewritten(s, s)
    BY DEF Rewritten, Frame
  <2> QED
    BY <2>1, <2>2
<1>3. ASSUME NEW g \in Files, NEW i \in Units(s)
      PROVE  /\ g # f \/ Zone(s, i) # Zone(s, pos) => Value(c, g, i) = Value(s, g, i)
             /\ clear /\ s.scale # 0 /\ Zone(s, i) = Zone(s, pos) => Value(c, f, i) = 0
  <2>1. CASE clear /\ s.scale # 0
    <3>1. c = clear_zone(s, f, pos, TRUE)
      BY <2>1
    <3>2. s.scale # 0
      BY <2>1
    <3> HIDE DEF c, clear
    <3>3. Filled(s, c, f, ZoneUnits(s, pos), 0)
      BY <3>1, <3>2, ClearedZone
    <3> QED
      BY <3>3 DEF Filled, ZoneUnits
  <2>2. CASE clear /\ s.scale = 0
    <3>1. c = clear_zone(s, f, pos, TRUE)
      BY <2>2
    <3>2. c = s
      BY <2>2, <3>1, ClearNone
    <3> HIDE DEF c
    <3> QED
      BY <2>2, <3>2
  <2>3. CASE ~clear
    <3>1. c = s
      BY <2>3
    <3> HIDE DEF c
    <3> QED
      BY <2>3, <3>1
  <2> QED
    BY <2>1, <2>2, <2>3
<1> HIDE DEF c
<1>4. zone_at(c, f, pos) = zone_at(s, f, pos) /\ Within(c, pos)
  BY <1>2, RewrittenZone
<1>5. b # NO_BLOCK /\ DataBlock(c, b)
  BY <1>2, <1>4, BlockIs
<1>6. Sound(t, lost) /\ Rewritten(c, t)
  BY <1>2, <1>5, ZeroSound
<1>7. Filled(c, t, f, BlockUnits(c, pos), 0)
  BY <1>2, <1>4, <1>5, ZeroFills
<1>8. read_map(t, f, pos) = b
  BY <1>4, <1>6, RewrittenMap
<1>9. Rewritten(s, t)
  BY <1>2, <1>6, RewrittenAlong
<1>10. Units(c) = Units(s)
  BY <1>2 DEF Units, MaxSize, ZoneSize, ZoneBlocks, Rewritten, Frame
<1> HIDE DEF t, b
<1>11. ASSUME NEW g \in Files, NEW i \in Units(s)
       PROVE  Value(t, g, i) = IF g = f /\ i \div U = pos \div U THEN 0 ELSE Value(c, g, i)
  BY <1>7, <1>10 DEF Filled, BlockUnits
<1>12. ASSUME NEW g \in Files, NEW i \in Units(s), g # f \/ Zone(s, i) # Zone(s, pos)
       PROVE  Value(t, g, i) = Value(s, g, i)
  <2>1. ~(g = f /\ i \div U = pos \div U)
    BY <1>12, SameBlock
  <2> QED
    BY <1>3, <1>11, <1>12, <2>1
<1>13. ASSUME NEW i \in Units(s), NewUnit(s, f, pos, i)
       PROVE  Value(t, f, i) = 0
  <2>1. i \in Nat /\ pos \in Nat
    BY SoundIs, UnitIs DEF Within
  <2>2. Zone(s, i) = Zone(s, pos) /\ (clear \/ s.scale = 0 \/ i \div U = pos \div U)
    BY <1>13 DEF NewUnit
  <2>3. CASE i \div U = pos \div U
    BY <1>11, <2>3
  <2>4. CASE s.scale = 0
    <3>1. i \div U = pos \div U
      BY <2>1, <2>2, <2>4, OneBlock
    <3> QED
      BY <1>11, <3>1
  <2>5. CASE clear /\ s.scale # 0
    BY <1>3, <1>11, <2>2, <2>5
  <2> QED
    BY <2>2, <2>3, <2>4, <2>5
<1> QED
  BY <1>1, <1>6, <1>8, <1>9, <1>12, <1>13 DEF ShowsFresh, n, c

\* A new block of a file, or none.
LEMMA NewBlockValue ==
    ASSUME NEW s, Sound(s, lost), NEW f \in Files, NEW pos, Within(s, pos), zone_at(s, f, pos) = NO_ZONE
    PROVE  LET n == new_block(s, f, pos)
           IN /\ Sound(n.s, lost) /\ Frame(s, n.s)
              /\ n.r = "OK" => /\ DataBlock(n.s, n.b) /\ n.b = read_map(n.s, f, pos)
                               /\ Added(s, n.s, f, pos)
              /\ n.r # "OK" => Like(s, n.s)
<1> DEFINE near == IF s.ino[f].zsearch # NO_ZONE THEN s.ino[f].zsearch
                   ELSE IF s.ino[f].zone[0] # NO_ZONE THEN s.ino[f].zone[0]
                   ELSE FirstZone
           a == alloc_zone(s, near)
           z == a.z
           v == a.s
           u == [v EXCEPT !.ino[f].zsearch = z]
           w == write_map(u, f, pos, z)
           n == new_block(s, f, pos)
<1>1. Sound(n.s, lost) /\ Frame(s, n.s) /\ (n.r = "OK" => DataBlock(n.s, n.b))
  BY NewBlockSound
<1>2. n = IF z = NO_ZONE THEN [s |-> v, b |-> NO_BLOCK, r |-> "ENOSPC"]
          ELSE new_zone_block(w, f, pos, z)
  BY DEF new_block
<1>3. \/ z = NO_ZONE /\ v = s
      \/ /\ z \in DataZones \ lost /\ z # NO_ZONE
         /\ Sound(v, lost \cup {z}) /\ v.scale = s.scale /\ v.ino = s.ino /\ v.blk = s.blk
  BY AllocSound
<1> HIDE DEF a, n
<1> HIDE DEF z, v
<1>4. CASE z = NO_ZONE
  <2>1. n.s = s /\ n.r = "ENOSPC"
    BY <1>2, <1>3, <1>4
  <2>2. Like(s, n.s)
    BY <2>1, LikeSelf
  <2> QED
    BY <1>1, <2>1, <2>2 DEF n
<1>5. CASE z # NO_ZONE
  <2>1. (lost \cup {z}) \ {z} = lost /\ z \in lost \cup {z}
    BY <1>3, <1>5
  <2>2. z \in DataZones /\ Sound(v, lost \cup {z}) /\ v.scale = s.scale /\ v.ino = s.ino /\ v.blk = s.blk
    BY <1>3, <1>5, <2>1
  <2>3. z \in Int
    BY <2>2, MfsFileAssumption DEF DataZones
  <2>4. /\ Sound(u, lost \cup {z}) /\ Frame(v, u) /\ Like(v, u)
        /\ \A zone : PlaceZone(u, f, zone) = PlaceZone(v, f, zone)
    BY <2>2, <2>3, SearchPutSound
  <2> HIDE DEF u
  <2>5. Frame(s, u) /\ u.scale = s.scale
    BY <2>2, <2>4 DEF Frame
  <2>6. Within(u, pos) /\ Zone(u, pos) = Zone(s, pos) /\ pos \in Nat
    BY <2>5, WithinFrame DEF Frame, Within
  <2>7. zone_at(u, f, pos) = NO_ZONE
    <3>1. PlaceZone(v, f, Zone(s, pos)) = PlaceZone(s, f, Zone(s, pos))
      BY <2>2 DEF PlaceZone, IndirectOf, rd_indir, ZoneBlocks
    <3> QED
      BY <2>4, <2>6, <3>1, PlaceIs
  <2>8. Like(s, u)
    <3>1. Like(s, v)
      BY <2>2, LikeWhen
    <3> QED
      BY <2>2, <2>4, <3>1, LikeAlong
  <2>9. /\ w.r \in {"OK", "ENOSPC"} /\ Frame(u, w.s)
        /\ w.r = "OK" => /\ Sound(w.s, (lost \cup {z}) \ {z}) /\ zone_at(w.s, f, pos) = z
                          /\ LikeBut(u, w.s, f, Zone(u, pos))
        /\ w.r # "OK" => Sound(w.s, lost \cup {z}) /\ Like(u, w.s)
    BY <2>1, <2>4, <2>6, <2>7, WriteMapSound DEF Within
  <2>10. n = new_zone_block(w, f, pos, z)
    BY <1>2, <1>5
  <2> HIDE DEF w
  <2>11. Frame(s, w.s) /\ w.s.scale = s.scale
    <3>1. Frame(s, w.s)
      BY <2>5, <2>9, FrameAlong
    <3> QED
      BY <3>1 DEF Frame
  <2>12. CASE w.r # "OK"
    <3> DEFINE t == free_zone(w.s, z)
    <3>1. n = [s |-> t, b |-> NO_BLOCK, r |-> w.r]
      BY <2>10, <2>12 DEF new_zone_block
    <3>2. t.scale = w.s.scale /\ t.ino = w.s.ino /\ t.blk = w.s.blk
      BY <2>1, <2>9, <2>12, GiveBackSound
    <3> HIDE DEF t
    <3>3. n.s = t /\ n.r = w.r
      BY <3>1
    <3>4. Like(w.s, t)
      BY <3>2, LikeWhen
    <3>5. Like(s, w.s)
      BY <2>5, <2>8, <2>9, <2>12, LikeAlong
    <3>6. Like(s, t)
      BY <2>11, <3>4, <3>5, LikeAlong
    <3> QED
      BY <1>1, <2>12, <3>3, <3>6 DEF n
  <2>13. CASE w.r = "OK"
    <3> DEFINE x == w.s
               t == fresh_block(IF pos # x.ino[f].size THEN clear_zone(x, f, pos, TRUE) ELSE x, f, pos)
    <3>1. n = t
      BY <2>10, <2>13 DEF new_zone_block
    <3>2. Sound(x, lost) /\ zone_at(x, f, pos) = z
      BY <2>1, <2>9, <2>13
    <3>3. Within(x, pos) /\ Zone(x, pos) = Zone(s, pos)
      BY <2>6, <2>11, WithinFrame DEF Frame
    <3>4. /\ Sound(t.s, lost) /\ Rewritten(x, t.s) /\ t.r = "OK" /\ t.b = read_map(t.s, f, pos)
          /\ ShowsFresh(x, t.s, f, pos)
      BY <1>5, <3>2, <3>3, FreshValue
    <3> HIDE DEF t
    <3>5. LikeBut(s, x, f, Zone(s, pos))
      BY <2>5, <2>6, <2>8, <2>9, <2>13, LikeButAlong
    <3>6. Units(x) = Units(s) /\ x.scale = s.scale /\ x.ino[f].size = s.ino[f].size
      BY <2>11 DEF Units, MaxSize, ZoneSize, ZoneBlocks, Frame
    <3> HIDE DEF x
    <3>7. ASSUME NEW g \in Files, NEW k \in 0..(MaxZone - 1), g # f \/ k # Zone(s, pos)
          PROVE  PlaceZone(t.s, g, k) = NO_ZONE <=> PlaceZone(s, g, k) = NO_ZONE
      <4>1. LikeAt(s, x, g, k)
        BY <3>5, <3>7 DEF LikeBut
      <4>2. PlaceZone(t.s, g, k) = PlaceZone(x, g, k)
        BY <3>4 DEF Rewritten
      <4> QED
        BY <4>1, <4>2 DEF LikeAt
    <3>8. zone_at(t.s, f, pos) # NO_ZONE
      BY <1>5, <3>2, <3>3, <3>4, RewrittenZone
    <3>9. ASSUME NEW g \in Files, NEW i \in Units(s)
          PROVE  \/ Value(t.s, g, i) = Value(s, g, i)
                 \/ g = f /\ Zone(s, i) = Zone(s, pos) /\ ~NewUnit(s, f, pos, i)
      <4>1. /\ g # f \/ Zone(x, i) # Zone(x, pos) => Value(t.s, g, i) = Value(x, g, i)
            /\ g = f /\ NewUnit(x, f, pos, i) => Value(t.s, g, i) = 0
        BY <3>4, <3>6 DEF ShowsFresh
      <4>2. Within(s, i) /\ Zone(s, i) \in 0..(MaxZone - 1)
        BY SoundIs, UnitIs
      <4>3. Zone(x, i) = Zone(s, i)
        BY <3>6 DEF Zone, ZoneBlocks
      <4>4. NewUnit(x, f, pos, i) <=> NewUnit(s, f, pos, i)
        BY <3>3, <3>6, <4>3 DEF NewUnit
      <4>5. CASE g # f \/ Zone(s, i) # Zone(s, pos)
        <5>1. LikeAt(s, x, g, Zone(s, i))
          BY <3>5, <4>2, <4>5 DEF LikeBut
        <5>2. Value(x, g, i) = Value(s, g, i)
          BY <3>2, <3>6, <4>2, <5>1, LikeValue
        <5> QED
          BY <3>3, <4>1, <4>3, <4>5, <5>2
      <4>6. CASE g = f /\ Zone(s, i) = Zone(s, pos)
        <5>1. PlaceZone(s, f, Zone(s, i)) = NO_ZONE
          BY <4>6, PlaceIs
        <5>2. Value(s, g, i) = 0
          BY <4>2, <4>6, <5>1, ValueIs
        <5> QED
          BY <4>1, <4>4, <4>6, <5>2
      <4> QED
        BY <4>5, <4>6
    <3>10. Added(s, t.s, f, pos)
      BY <3>7, <3>8, <3>9 DEF Added
    <3> QED
      BY <1>1, <3>1, <3>4, <3>10 DEF n
  <2> QED
    BY <2>12, <2>13
<1> QED
  BY <1>4, <1>5

-----------------------------------------------------------------------------
(* What a chunk leaves. *)

\* Units p to p + n - 1 of the file show v; when they are not all of a block
\* that is past the end, the others of it show zero.
ShowsCopy(s, t, f, p, n, v, past) ==
    \A g \in Files, i \in Units(s) :
        Value(t, g, i) = IF g = f /\ i \in p..(p + n - 1) THEN v
                         ELSE IF g = f /\ n # U /\ past /\ i \div U = p \div U THEN 0
                         ELSE Value(s, g, i)

LEMMA CopyValue ==
    ASSUME NEW s, Sound(s, lost), NEW f \in Files, NEW p, Within(s, p),
           NEW b, b = read_map(s, f, p), b # NO_BLOCK, NEW n \in Nat, (p % U) + n =< U, NEW v \in Int,
           NEW past \in BOOLEAN
    PROVE  LET t == copied(IF n # U /\ past THEN zero_block(s, b) ELSE s, b, p % U, n, v)
           IN Rewritten(s, t) /\ ShowsCopy(s, t, f, p, n, v, past)
<1> DEFINE zeroed == n # U /\ past
           x == IF zeroed THEN zero_block(s, b) ELSE s
           t == copied(x, b, p % U, n, v)
<1>1. DataBlock(s, b)
  BY BlockIs
<1>2. Sound(x, lost) /\ Rewritten(s, x)
  <2>1. Sound(zero_block(s, b), lost) /\ Rewritten(s, zero_block(s, b))
    BY <1>1, ZeroSound
  <2>2. Rewritten(s, s)
    BY DEF Rewritten, Frame
  <2> QED
    BY <2>1, <2>2
<1>3. Filled(s, x, f, IF zeroed THEN BlockUnits(s, p) ELSE {}, 0)
  <2>1. CASE zeroed
    <3>1. Filled(s, zero_block(s, b), f, BlockUnits(s, p), 0)
      BY ZeroFills
    <3> QED
      BY <2>1, <3>1
  <2>2. CASE ~zeroed
    <3>1. Filled(s, s, f, {}, 0)
      BY FilledSame
    <3> QED
      BY <2>2, <3>1
  <2> QED
    BY <2>1, <2>2
<1> HIDE DEF x
<1>4. read_map(x, f, p) = b /\ Within(x, p)
  BY <1>2, RewrittenMap
<1>5. Filled(x, t, f, p..(p + n - 1), v)
  BY <1>2, <1>4, CopyFills
<1>6. DataBlock(x, b)
  BY <1>1, <1>2 DEF Rewritten
<1>7. Rewritten(x, t)
  BY <1>2, <1>6, CopiedSound
<1> HIDE DEF t
<1>8. Rewritten(s, t)
  BY <1>2, <1>7, RewrittenAlong
<1>9. Units(x) = Units(s)
  BY <1>2 DEF Units, MaxSize, ZoneSize, ZoneBlocks, Rewritten, Frame
<1>10. ASSUME NEW g \in Files, NEW i \in Units(s)
       PROVE  Value(t, g, i) = IF g = f /\ i \in p..(p + n - 1) THEN v
                               ELSE IF g = f /\ n # U /\ past /\ i \div U = p \div U THEN 0
                               ELSE Value(s, g, i)
  <2>1. Value(t, g, i) = IF g = f /\ i \in p..(p + n - 1) THEN v ELSE Value(x, g, i)
    BY <1>5, <1>9 DEF Filled
  <2>2. Value(x, g, i) = IF g = f /\ zeroed /\ i \div U = p \div U THEN 0 ELSE Value(s, g, i)
    <3> DEFINE I == IF zeroed THEN BlockUnits(s, p) ELSE {}
    <3>1. Value(x, g, i) = IF g = f /\ i \in I THEN 0 ELSE Value(s, g, i)
      BY <1>3 DEF Filled
    <3>2. i \in I <=> zeroed /\ i \div U = p \div U
      BY DEF BlockUnits
    <3> HIDE DEF I
    <3> QED
      BY <3>1, <3>2
  <2> QED
    BY <2>1, <2>2
<1> QED
  BY <1>8, <1>10 DEF ShowsCopy, t, x

\* n units from p on were written.  A block that is new leaves the rest of its
\* zone as it was when it comes right at the end of the file.
Wrote(s, t, f, p, n, v) ==
    /\ zone_at(t, f, p) # NO_ZONE
    /\ \A g \in Files, k \in 0..(MaxZone - 1) :
         g # f \/ k # Zone(s, p) => (PlaceZone(t, g, k) = NO_ZONE <=> PlaceZone(s, g, k) = NO_ZONE)
    /\ \A g \in Files, i \in Units(s) :
         IF g = f /\ i \in p..(p + n - 1) THEN Value(t, g, i) = v
         ELSE \/ Value(t, g, i) = Value(s, g, i)
              \/ /\ g = f /\ zone_at(s, f, p) = NO_ZONE /\ p = s.ino[f].size
                 /\ Zone(s, i) = Zone(s, p) /\ i \div U # p \div U
              \/ /\ g = f /\ n # U /\ p >= s.ino[f].size /\ p % U = 0 /\ i \div U = p \div U
                 /\ Value(t, g, i) = 0
    /\ \A i \in Units(s) :
         /\ n # U /\ p >= s.ino[f].size /\ p % U = 0 /\ i \div U = p \div U /\ i \notin p..(p + n - 1)
         => Value(t, f, i) = 0

LEMMA ChunkValue ==
    ASSUME NEW s, Sound(s, lost), NEW f \in Files, NEW p, Within(s, p),
           NEW n \in Nat, (p % U) + n =< U, NEW v \in Int
    PROVE  LET w == rw_chunk(s, f, p, n, v, FALSE)
           IN /\ w.r = "OK" => Wrote(s, w.s, f, p, n, v)
              /\ w.r # "OK" => Like(s, w.s)
<1> DEFINE off == p % U
           past == p >= s.ino[f].size /\ off = 0
           old == read_map(s, f, p)
           unread == old # NO_BLOCK /\ (n = U \/ past)
           m == IF old = NO_BLOCK THEN new_block(s, f, p) ELSE [s |-> s, b |-> old, r |-> "OK"]
           w == rw_chunk(s, f, p, n, v, FALSE)
           x == IF n # U /\ past THEN zero_block(m.s, m.b) ELSE m.s
           t == copied(x, m.b, off, n, v)
<1>1. w = copy_chunk(m, off, n, v, past, unread, FALSE)
  BY DEF rw_chunk
<1>2. w = IF m.r # "OK" THEN [s |-> m.s, r |-> m.r] ELSE [s |-> t, r |-> "OK"]
  <2> HIDE DEF m, w, off, past, unread
  <2> QED
    BY <1>1 DEF copy_chunk
<1>3. /\ m.r # "OK" => Like(s, m.s)
      /\ m.r = "OK" => /\ Sound(m.s, lost) /\ Frame(s, m.s)
                       /\ m.b = read_map(m.s, f, p) /\ m.b # NO_BLOCK
                       /\ (old # NO_BLOCK /\ m.s = s) \/ (old = NO_BLOCK /\ Added(s, m.s, f, p))
  <2>1. CASE old = NO_BLOCK
    <3>1. zone_at(s, f, p) = NO_ZONE
      BY <2>1, BlockIs
    <3>2. m = new_block(s, f, p)
      BY <2>1
    <3> HIDE DEF m, old
    <3>3. /\ Sound(m.s, lost) /\ Frame(s, m.s)
          /\ m.r = "OK" => /\ DataBlock(m.s, m.b) /\ m.b = read_map(m.s, f, p)
                           /\ Added(s, m.s, f, p)
          /\ m.r # "OK" => Like(s, m.s)
      BY <3>1, <3>2, NewBlockValue
    <3>4. ASSUME m.r = "OK" PROVE m.b # NO_BLOCK
      <4>1. zone_at(m.s, f, p) # NO_ZONE
        BY <3>3, <3>4 DEF Added
      <4>2. Within(m.s, p)
        BY <3>3, WithinFrame DEF Frame
      <4> QED
        BY <3>3, <3>4, <4>1, <4>2, BlockIs
    <3> QED
      BY <2>1, <3>3, <3>4
  <2>2. CASE old # NO_BLOCK
    <3>1. m.s = s /\ m.b = old /\ m.r = "OK"
      BY <2>2
    <3> HIDE DEF m
    <3> QED
      BY <2>2, <3>1 DEF Frame
  <2> QED
    BY <2>1, <2>2
<1>4. off = p % U /\ past \in BOOLEAN /\ (past <=> p >= s.ino[f].size /\ p % U = 0)
  OBVIOUS
<1>5. old # NO_BLOCK <=> zone_at(s, f, p) # NO_ZONE
  BY BlockIs
<1> HIDE DEF m, past, old
<1>6. CASE m.r # "OK"
  <2> HIDE DEF w
  <2>1. w.s = m.s /\ w.r = m.r
    BY <1>2, <1>6
  <2> QED
    BY <1>3, <1>6, <2>1 DEF w
<1>7. CASE m.r = "OK"
  <2> DEFINE y == m.s
  <2>1. Within(y, p) /\ Zone(y, p) = Zone(s, p)
    BY <1>3, <1>7, WithinFrame DEF Frame
  <2>2. Rewritten(y, t) /\ ShowsCopy(y, t, f, p, n, v, past)
    BY <1>3, <1>4, <1>7, <2>1, CopyValue
  <2>3. w.s = t /\ w.r = "OK"
    <3> HIDE DEF w, t
    <3> QED
      BY <1>2, <1>7
  <2> HIDE DEF w, t, x
  <2>4. Units(y) = Units(s)
    BY <1>3, <1>7 DEF Units, MaxSize, ZoneSize, ZoneBlocks, Frame
  <2> DEFINE I == p..(p + n - 1)
  <2>5. ASSUME NEW g \in Files, NEW i \in Units(s)
        PROVE  Value(t, g, i) = IF g = f /\ i \in I THEN v
                                ELSE IF g = f /\ n # U /\ past /\ i \div U = p \div U THEN 0
                                ELSE Value(y, g, i)
    BY <2>2, <2>4 DEF ShowsCopy
  <2> HIDE DEF I
  <2>6. ASSUME NEW g \in Files, NEW i \in Units(s)
        PROVE  \/ Value(y, g, i) = Value(s, g, i)
               \/ /\ g = f /\ old = NO_BLOCK /\ p = s.ino[f].size
                  /\ Zone(s, i) = Zone(s, p) /\ i \div U # p \div U
    <3>1. CASE y = s
      BY <3>1
    <3>2. CASE old = NO_BLOCK /\ Added(s, y, f, p)
      <4>1. \/ Value(y, g, i) = Value(s, g, i)
            \/ g = f /\ Zone(s, i) = Zone(s, p) /\ ~NewUnit(s, f, p, i)
        BY <3>2 DEF Added
      <4> QED
        BY <3>2, <4>1 DEF NewUnit
    <3> QED
      BY <1>3, <1>7, <3>1, <3>2
  <2>7. ASSUME NEW g \in Files, NEW k \in 0..(MaxZone - 1), g # f \/ k # Zone(s, p)
        PROVE  PlaceZone(t, g, k) = NO_ZONE <=> PlaceZone(s, g, k) = NO_ZONE
    <3>1. PlaceZone(t, g, k) = PlaceZone(y, g, k)
      BY <2>2 DEF Rewritten
    <3>2. PlaceZone(y, g, k) = NO_ZONE <=> PlaceZone(s, g, k) = NO_ZONE
      <4>1. CASE y = s
        BY <4>1
      <4>2. CASE Added(s, y, f, p)
        BY <2>7, <4>2 DEF Added
      <4> QED
        BY <1>3, <1>7, <4>1, <4>2
    <3> QED
      BY <3>1, <3>2
  <2>8. zone_at(t, f, p) # NO_ZONE
    <3>1. zone_at(y, f, p) # NO_ZONE
      BY <1>3, <1>7, <2>1, BlockIs
    <3> QED
      BY <2>1, <2>2, <3>1, RewrittenZone
  <2>9. ASSUME NEW g \in Files, NEW i \in Units(s)
        PROVE  IF g = f /\ i \in I THEN Value(t, g, i) = v
               ELSE \/ Value(t, g, i) = Value(s, g, i)
                    \/ /\ g = f /\ zone_at(s, f, p) = NO_ZONE /\ p = s.ino[f].size
                       /\ Zone(s, i) = Zone(s, p) /\ i \div U # p \div U
                    \/ /\ g = f /\ n # U /\ p >= s.ino[f].size /\ p % U = 0 /\ i \div U = p \div U
                       /\ Value(t, g, i) = 0
    BY <1>4, <1>5, <2>5, <2>6
  <2>10. ASSUME NEW i \in Units(s), n # U, p >= s.ino[f].size, p % U = 0, i \div U = p \div U,
                i \notin I
         PROVE  Value(t, f, i) = 0
    BY <1>4, <2>5, <2>10
  <2>11. Wrote(s, t, f, p, n, v)
    BY <2>7, <2>8, <2>9, <2>10 DEF Wrote, I
  <2> QED
    BY <2>3, <2>11 DEF w
<1> QED
  BY <1>6, <1>7

-----------------------------------------------------------------------------
(* The end of a file. *)

\* Nothing is after unit n - 1: no zone, and in its block no data.
Ends(s, f, n) ==
    /\ \A k \in 0..(MaxZone - 1) : k * ZoneSize(s) >= n => PlaceZone(s, f, k) = NO_ZONE
    /\ \A i \in Units(s) : i >= n /\ i \div U = n \div U /\ n % U # 0 => Value(s, f, i) = 0

\* No file has anything past its end.
Tidy(s) == \A f \in Files : Ends(s, f, s.ino[f].size)

LEMMA SameEnds ==
    ASSUME NEW s, NEW t, t.scale = s.scale, NEW g, SameFile(s, t, g), NEW n, Ends(s, g, n)
    PROVE  Ends(t, g, n)
<1>1. Units(t) = Units(s) /\ ZoneSize(t) = ZoneSize(s)
  BY DEF Units, MaxSize, ZoneSize, ZoneBlocks
<1> QED
  BY <1>1 DEF Ends, SameFile

\* The chunk at the end of a file that has no zone there begins the zone.
Ready(s, f, p) ==
    Within(s, p) /\ p = s.ino[f].size /\ zone_at(s, f, p) = NO_ZONE => (p \div U) % ZoneBlocks(s) = 0

Reached(s, f, p) == IF p >= s.ino[f].size THEN p ELSE s.ino[f].size

\* Units pos to p - 1 of the file are written; the rest is as it was.
Shows(base, s, f, pos, p, v, i) ==
    Value(s, f, i) = IF i \in pos..(p - 1) THEN v ELSE Value(base, f, i)
After(base, s, f, pos, p, v) ==
    /\ \A g \in Files : g # f => SameFile(base, s, g)
    /\ \A i \in Units(base) :
         i < Reached(base, f, p) => Shows(base, s, f, pos, p, v, i)
    /\ Ends(s, f, Reached(base, f, p))
    /\ Ready(s, f, p)

\* Numbers of blocks and zones.
LEMMA BlockStart ==
    ASSUME NEW i \in Nat, NEW p \in Nat, p % U = 0, i \div U = p \div U
    PROVE  i >= p
<1>1. U \in Nat \ {0}
  BY MfsFileAssumption
<1>2. i = (U * (i \div U)) + (i % U) /\ p = (U * (p \div U)) + (p % U) /\ i % U \in Nat
      /\ p \div U \in Nat
  BY <1>1, DivMod
<1> DEFINE x == U * (p \div U)
           a == i % U
<1>3. i = x + a /\ p = x /\ a \in Nat
  <2>1. x \in Nat
    BY <1>1, <1>2, Times
  <2> QED
    BY <1>2, <2>1
<1> HIDE DEF x, a
<1> QED
  BY <1>3

LEMMA FirstOfZone ==
    ASSUME NEW x \in Nat, NEW y \in Nat, NEW B \in Nat \ {0}, x \div B = y \div B, y % B = 0, x =< y
    PROVE  x = y
<1>1. x = (B * (x \div B)) + (x % B) /\ y = (B * (y \div B)) + (y % B) /\ x % B \in Nat /\ y \div B \in Nat
  BY DivMod
<1> DEFINE z == B * (y \div B)
           a == x % B
<1>2. x = z + a /\ y = z + 0 /\ a \in Nat /\ z \in Nat
  BY <1>1, Times
<1> HIDE DEF z, a
<1> QED
  BY <1>2

LEMMA NextInBlock ==
    ASSUME NEW p \in Nat, NEW n \in Nat, (p % U) + n =< U
    PROVE  \/ (p + n) \div U = p \div U /\ (p + n) % U = (p % U) + n /\ (p % U) + n < U
           \/ (p + n) \div U = p \div U + 1 /\ (p + n) % U = 0 /\ (p % U) + n = U
<1> DEFINE q == p \div U
           o == p % U
<1>1. U \in Nat \ {0}
  BY MfsFileAssumption
<1>2. q \in Nat /\ o \in 0..(U - 1) /\ p = (U * q) + o
  BY <1>1, DivMod
<1>3. o + n =< U
  OBVIOUS
<1> HIDE DEF q, o
<1>4. U * q \in Nat /\ U * (q + 1) = (U * q) + U
  BY <1>1, <1>2, Times
<1>5. CASE o + n < U
  <2>1. p + n = U * q + (o + n) /\ o + n \in 0..(U - 1) /\ p + n \in Nat
    BY <1>1, <1>2, <1>4, <1>5
  <2>2. (p + n) \div U = q /\ (p + n) % U = o + n
    BY <1>1, <1>2, <2>1, Quotient
  <2> QED
    BY <1>5, <2>2 DEF q, o
<1>6. CASE o + n = U
  <2>1. p + n = U * (q + 1) + 0 /\ 0 \in 0..(U - 1) /\ p + n \in Nat /\ q + 1 \in Nat
    BY <1>1, <1>2, <1>4, <1>6
  <2>2. (p + n) \div U = q + 1 /\ (p + n) % U = 0
    BY <1>1, <2>1, Quotient
  <2> QED
    BY <1>6, <2>2 DEF q, o
<1> QED
  BY <1>1, <1>2, <1>3, <1>5, <1>6

LEMMA NextZone ==
    ASSUME NEW x \in Nat, NEW B \in Nat \ {0}, (x + 1) \div B # x \div B
    PROVE  (x + 1) % B = 0
<1> DEFINE q == x \div B
           o == x % B
<1>1. q \in Nat /\ o \in 0..(B - 1) /\ x = (B * q) + o
  BY DivMod
<1>2. (x + 1) \div B # q
  OBVIOUS
<1> HIDE DEF q, o
<1>3. B * q \in Nat /\ B * (q + 1) = (B * q) + B
  BY <1>1, Times
<1>4. CASE o + 1 < B
  <2>1. x + 1 = B * q + (o + 1) /\ o + 1 \in 0..(B - 1) /\ x + 1 \in Nat
    BY <1>1, <1>3, <1>4
  <2>2. (x + 1) \div B = q
    BY <1>1, <2>1, Quotient
  <2> QED
    BY <1>2, <2>2
<1>5. CASE o + 1 = B
  <2>1. x + 1 = B * (q + 1) + 0 /\ 0 \in 0..(B - 1) /\ x + 1 \in Nat /\ q + 1 \in Nat
    BY <1>1, <1>3, <1>5
  <2> QED
    BY <2>1, Quotient
<1> QED
  BY <1>1, <1>4, <1>5

\* The zone of a position starts at it or before.
LEMMA ZoneBefore ==
    ASSUME NEW s, s.scale \in Scales, NEW p \in Nat
    PROVE  Zone(s, p) * ZoneSize(s) =< p /\ p < (Zone(s, p) + 1) * ZoneSize(s) /\ Zone(s, p) \in Nat
<1> DEFINE d == ZoneSize(s)
           q == p \div d
           o == p % d
<1>1. d \in Nat \ {0} /\ Zone(s, p) = q
  BY ZoneIs
<1> HIDE DEF d
<1>2. q \in Nat /\ o \in 0..(d - 1) /\ p = (d * q) + o
  BY <1>1, DivMod
<1> HIDE DEF q, o
<1>3. d * q \in Nat /\ q * d = d * q /\ (q + 1) * d = (d * q) + d
  BY <1>1, <1>2, Times
<1>4. q * d =< p /\ p < (q + 1) * d
  BY <1>1, <1>2, <1>3
<1> QED
  BY <1>1, <1>2, <1>4 DEF d

\* Of what was there, a chunk changes nothing.
LEMMA ChunkKeeps ==
    ASSUME NEW s, Sound(s, lost), NEW t, NEW f \in Files, NEW p, Within(s, p), NEW n \in Nat \ {0},
           (p % U) + n =< U, NEW v, Wrote(s, t, f, p, n, v), Ready(s, f, p),
           NEW i \in Units(s), i < Reached(s, f, p), i \notin p..(p + n - 1)
    PROVE  Value(t, f, i) = Value(s, f, i)
<1> DEFINE S == s.ino[f].size
<1>1. i \in Nat /\ p \in Nat /\ S \in Nat /\ U \in Nat \ {0}
  BY SoundIs, UnitIs, SizeIs, MfsFileAssumption DEF Within
<1>2. \/ Value(t, f, i) = Value(s, f, i)
      \/ /\ zone_at(s, f, p) = NO_ZONE /\ p = S
         /\ Zone(s, i) = Zone(s, p) /\ i \div U # p \div U
      \/ n # U /\ p >= S /\ p % U = 0 /\ i \div U = p \div U
  BY DEF Wrote
<1>3. p >= S => i < p
  BY DEF Reached
<1> HIDE DEF S
<1>4. ASSUME zone_at(s, f, p) = NO_ZONE, p = S, Zone(s, i) = Zone(s, p), i \div U # p \div U
      PROVE  FALSE
  <2> DEFINE B == ZoneBlocks(s)
             x == i \div U
             y == p \div U
  <2>1. B \in Nat \ {0} /\ x \in Nat /\ y \in Nat
    BY <1>1, SoundIs, BlocksPositive, DivMod
  <2>2. y % B = 0
    BY <1>4 DEF Ready, S
  <2>3. x \div B = y \div B
    BY <1>4 DEF Zone
  <2>4. x =< y
    BY <1>1, <1>3, <1>4
  <2> HIDE DEF x, y, B
  <2>5. x = y
    BY <2>1, <2>2, <2>3, <2>4, FirstOfZone
  <2> QED
    BY <1>4, <2>5 DEF x, y
<1>5. ASSUME p >= S, p % U = 0, i \div U = p \div U PROVE FALSE
  <2>1. i >= p
    BY <1>1, <1>5, BlockStart
  <2> QED
    BY <1>1, <1>3, <1>5, <2>1
<1> QED
  BY <1>2, <1>4, <1>5

\* After a chunk nothing is past the end, which may have moved.
LEMMA ChunkEnds ==
    ASSUME NEW s, Sound(s, lost), NEW t, t.scale = s.scale, NEW f \in Files, NEW p, Within(s, p),
           NEW n \in Nat \ {0}, (p % U) + n =< U, NEW v, Wrote(s, t, f, p, n, v),
           Ends(s, f, Reached(s, f, p))
    PROVE  Ends(t, f, Reached(s, f, p + n))
<1> DEFINE S == s.ino[f].size
           M == Reached(s, f, p)
           N == Reached(s, f, p + n)
<1>1. p \in Nat /\ S \in Nat /\ U \in Nat \ {0} /\ s.scale \in Scales /\ Zone(s, p) \in 0..(MaxZone - 1)
  BY SoundIs, SizeIs, MfsFileAssumption DEF Within
<1>2. M = (IF p >= S THEN p ELSE S) /\ N = IF p + n >= S THEN p + n ELSE S
  BY DEF Reached
<1>3. ZoneSize(t) = ZoneSize(s) /\ Units(t) = Units(s)
  BY DEF Units, MaxSize, ZoneSize, ZoneBlocks
<1> HIDE DEF S, M, N
<1>4. ASSUME NEW k \in 0..(MaxZone - 1), k * ZoneSize(t) >= N PROVE PlaceZone(t, f, k) = NO_ZONE
  <2> DEFINE x == k * ZoneSize(s)
  <2>1. x \in Nat /\ MaxZone \in Nat
    BY <1>1, SizesIs, ZoneIs, Times
  <2>2. x >= N /\ x = k * ZoneSize(s)
    BY <1>3, <1>4
  <2> HIDE DEF x
  <2>3. x >= M /\ x > p
    BY <1>1, <1>2, <2>1, <2>2
  <2>4. k # Zone(s, p)
    BY <1>1, <2>1, <2>2, <2>3, ZoneBefore
  <2>5. PlaceZone(s, f, k) = NO_ZONE
    BY <2>2, <2>3 DEF Ends, M
  <2> QED
    BY <2>4, <2>5 DEF Wrote
<1>5. ASSUME NEW i \in Units(s), i >= N, i \div U = N \div U, N % U # 0 PROVE Value(t, f, i) = 0
  <2>1. i \in Nat
    BY <1>1, UnitIs
  <2>2. i \notin p..(p + n - 1)
    BY <1>1, <1>2, <1>5, <2>1
  <2>3. /\ \/ Value(t, f, i) = Value(s, f, i)
           \/ p = S /\ i \div U # p \div U
           \/ n # U /\ p >= S /\ p % U = 0 /\ i \div U = p \div U /\ Value(t, f, i) = 0
        /\ n # U /\ p >= S /\ p % U = 0 /\ i \div U = p \div U => Value(t, f, i) = 0
    BY <2>2 DEF Wrote, S
  <2>4. \A j \in Units(s) : j >= M /\ j \div U = M \div U /\ M % U # 0 => Value(s, f, j) = 0
    BY DEF Ends, M
  <2>5. CASE p + n =< S
    <3>1. N = S /\ M = S /\ p < S
      BY <1>1, <1>2, <2>5
    <3>2. Value(s, f, i) = 0
      BY <1>5, <2>4, <3>1
    <3> QED
      BY <1>1, <2>3, <3>1, <3>2
  <2>6. CASE p + n > S
    <3> DEFINE o == p % U
               q == p \div U
    <3>1. N = p + n
      BY <1>1, <1>2, <2>6
    <3>2. o \in 0..(U - 1) /\ q \in Nat /\ p = (U * q) + o
      BY <1>1, DivMod
    <3>3. i \div U = q /\ o + n < U
      BY <1>1, <1>5, <3>1, NextInBlock
    <3> HIDE DEF o, q
    <3>4. n # U
      BY <1>1, <3>2, <3>3
    <3>5. CASE p >= S /\ o = 0
      BY <2>3, <3>3, <3>4, <3>5 DEF o, q
    <3>6. CASE p >= S /\ o # 0
      <4>1. M = p /\ i >= p
        BY <1>1, <1>2, <1>5, <2>1, <3>1, <3>6
      <4>2. Value(s, f, i) = 0
        BY <2>4, <3>3, <3>6, <4>1 DEF o, q
      <4> QED
        BY <2>3, <3>3, <3>6, <4>2 DEF o, q
    <3>7. CASE p < S
      <4>1. M = S /\ i >= S
        BY <1>1, <1>2, <1>5, <2>1, <2>6, <3>1, <3>7
      <4> DEFINE m == S - p
      <4>2. m \in Nat \ {0} /\ m < n /\ S = p + m
        BY <1>1, <2>6, <3>7
      <4> HIDE DEF m
      <4>3. o + m < U
        BY <1>1, <3>2, <3>3, <4>2
      <4>4. S \div U = q /\ S % U = o + m
        <5>1. (p % U) + m =< U /\ (p % U) + m < U
          BY <1>1, <3>2, <4>2, <4>3 DEF o
        <5>2. \/ (p + m) \div U = p \div U /\ (p + m) % U = (p % U) + m
              \/ (p % U) + m = U
          BY <1>1, <4>2, <5>1, NextInBlock
        <5>3. (p % U) + m # U
          BY <1>1, <4>3, <4>2, <3>2 DEF o
        <5> QED
          BY <4>2, <5>2, <5>3 DEF o, q
      <4>5. S % U # 0
        BY <3>2, <4>2, <4>4
      <4>6. Value(s, f, i) = 0
        BY <2>4, <3>3, <4>1, <4>4, <4>5
      <4> QED
        BY <1>1, <2>3, <3>7, <4>6
    <3> QED
      BY <1>1, <3>5, <3>6, <3>7
  <2> QED
    BY <1>1, <2>5, <2>6
<1> QED
  BY <1>3, <1>4, <1>5 DEF Ends, N

LEMMA ChunkReady ==
    ASSUME NEW s, Sound(s, lost), NEW t, Frame(s, t), NEW f \in Files, NEW p, Within(s, p),
           NEW n \in Nat \ {0}, (p % U) + n =< U, zone_at(t, f, p) # NO_ZONE
    PROVE  Ready(t, f, p + n)
<1> SUFFICES ASSUME Within(t, p + n), zone_at(t, f, p + n) = NO_ZONE
             PROVE  ((p + n) \div U) % ZoneBlocks(t) = 0
  BY DEF Ready
<1> DEFINE B == ZoneBlocks(t)
           x == p \div U
           y == (p + n) \div U
<1>1. p \in Nat /\ B \in Nat \ {0} /\ U \in Nat \ {0} /\ x \in Nat
  BY SoundIs, BlocksPositive, DivMod, MfsFileAssumption DEF Within, Frame, ZoneBlocks
<1>2. Zone(t, p + n) # Zone(t, p)
  BY PlaceIs
<1>3. y \div B # x \div B
  BY <1>2 DEF Zone
<1>4. y = x \/ y = x + 1
  BY <1>1, NextInBlock
<1> HIDE DEF x, y, B
<1>5. y = x + 1
  BY <1>3, <1>4
<1>6. y % B = 0
  BY <1>1, <1>3, <1>5, NextZone
<1> QED
  BY <1>6 DEF y, B

LEMMA ChunkAfter ==
    ASSUME NEW base, NEW s, Sound(s, lost), Frame(base, s), NEW t, Frame(s, t), NEW f \in Files,
           NEW pos \in Nat, NEW p, Within(s, p), pos =< p, NEW n \in Nat \ {0}, (p % U) + n =< U, NEW v,
           Wrote(s, t, f, p, n, v), After(base, s, f, pos, p, v)
    PROVE  After(base, t, f, pos, p + n, v)
<1>1. /\ s.ino[f].size = base.ino[f].size /\ s.scale = base.scale /\ t.scale = s.scale
      /\ Units(s) = Units(base) /\ \A m : Reached(s, f, m) = Reached(base, f, m)
  BY DEF Frame, Units, MaxSize, ZoneSize, ZoneBlocks, Reached
<1>2. p \in Nat /\ base.ino[f].size \in Nat /\ s.scale \in Scales
  BY <1>1, SoundIs, SizeIs DEF Within
<1>3. ASSUME NEW g \in Files, g # f PROVE SameFile(base, t, g)
  <2>1. SameFile(base, s, g)
    BY <1>3 DEF After
  <2>2. SameFile(s, t, g)
    BY <1>3 DEF Wrote, SameFile
  <2> QED
    BY <1>1, <2>1, <2>2, SameFileAlong
<1>4. ASSUME NEW i \in Units(base), i < Reached(base, f, p + n)
      PROVE  Shows(base, t, f, pos, p + n, v, i)
  <2>1. i \in Nat
    BY <1>1, <1>2, UnitIs
  <2>2. CASE i \in p..(p + n - 1)
    <3>1. Value(t, f, i) = v
      BY <1>1, <2>2 DEF Wrote
    <3>2. i \in pos..((p + n) - 1)
      BY <1>2, <2>1, <2>2
    <3> QED
      BY <3>1, <3>2 DEF Shows
  <2>3. CASE i \notin p..(p + n - 1)
    <3>1. i < Reached(base, f, p)
      BY <1>2, <1>4, <2>1, <2>3 DEF Reached
    <3>2. Value(s, f, i) = IF i \in pos..(p - 1) THEN v ELSE Value(base, f, i)
      BY <3>1 DEF After, Shows
    <3>3. i \in pos..(p - 1) <=> i \in pos..((p + n) - 1)
      BY <1>2, <2>1, <2>3
    <3>4. Ready(s, f, p)
      BY DEF After
    <3>5. Value(t, f, i) = Value(s, f, i)
      BY <1>1, <2>3, <3>1, <3>4, ChunkKeeps
    <3> QED
      BY <3>2, <3>3, <3>5 DEF Shows
  <2> QED
    BY <2>2, <2>3
<1>5. Ends(t, f, Reached(base, f, p + n))
  <2>1. Ends(s, f, Reached(s, f, p))
    BY <1>1 DEF After
  <2>2. Ends(t, f, Reached(s, f, p + n))
    BY <1>1, <2>1, ChunkEnds
  <2> QED
    BY <1>1, <2>2
<1>6. Ready(t, f, p + n)
  <2>1. zone_at(t, f, p) # NO_ZONE
    BY DEF Wrote
  <2> QED
    BY <2>1, ChunkReady
<1> QED
  BY <1>3, <1>4, <1>5, <1>6 DEF After

-----------------------------------------------------------------------------
(* What a write leaves. *)

\* A chunk that finds no room changes nothing.
LEMMA FailedAfter ==
    ASSUME NEW base, NEW s, Sound(s, lost), Frame(base, s), NEW t, Sound(t, lost), Frame(s, t), Like(s, t),
           NEW f \in Files, NEW pos, NEW p, NEW v, After(base, s, f, pos, p, v)
    PROVE  After(base, t, f, pos, p, v)
<1>1. /\ s.scale = base.scale /\ t.scale = s.scale /\ Units(s) = Units(base)
      /\ t.ino[f].size = s.ino[f].size
  BY DEF Frame, Units, MaxSize, ZoneSize, ZoneBlocks
<1>2. ASSUME NEW g \in Files PROVE SameFile(s, t, g)
  BY <1>1, LikeFile DEF Like
<1>3. ASSUME NEW g \in Files, g # f PROVE SameFile(base, t, g)
  <2>1. SameFile(base, s, g)
    BY <1>3 DEF After
  <2> QED
    BY <1>1, <1>2, <2>1, SameFileAlong
<1>4. ASSUME NEW i \in Units(base), i < Reached(base, f, p) PROVE Shows(base, t, f, pos, p, v, i)
  <2>1. Shows(base, s, f, pos, p, v, i)
    BY <1>4 DEF After
  <2>2. Value(t, f, i) = Value(s, f, i)
    BY <1>1, <1>2 DEF SameFile
  <2> QED
    BY <2>1, <2>2 DEF Shows
<1>5. Ends(t, f, Reached(base, f, p))
  <2>1. Ends(s, f, Reached(base, f, p))
    BY DEF After
  <2> QED
    BY <1>1, <1>2, <2>1, SameEnds
<1>6. Ready(t, f, p)
  <2> SUFFICES ASSUME Within(t, p), p = t.ino[f].size, zone_at(t, f, p) = NO_ZONE
               PROVE  (p \div U) % ZoneBlocks(t) = 0
    BY DEF Ready
  <2>1. Within(s, p) /\ Zone(s, p) = Zone(t, p)
    BY <1>1, WithinFrame
  <2>2. PlaceZone(t, f, Zone(t, p)) = PlaceZone(s, f, Zone(s, p))
    BY <2>1 DEF Like, LikeAt, Within
  <2>3. zone_at(s, f, p) = NO_ZONE
    BY <2>2, PlaceIs
  <2>4. Ready(s, f, p)
    BY DEF After
  <2>5. (p \div U) % ZoneBlocks(s) = 0
    BY <1>1, <2>1, <2>3, <2>4 DEF Ready
  <2>6. ZoneBlocks(t) = ZoneBlocks(s)
    BY <1>1 DEF ZoneBlocks
  <2> QED
    BY <2>5, <2>6
<1> QED
  BY <1>3, <1>4, <1>5, <1>6 DEF After

\* A chunk lies in one block.
LEMMA ChunkInBlock ==
    ASSUME NEW pos \in Nat, NEW len \in Nat \ {0},
           NEW k \in 0..(((pos + len - 1) \div U) - (pos \div U))
    PROVE  /\ pos =< chunk_from(pos, k) /\ chunk_from(pos, k) < chunk_to(pos, len, k)
           /\ (chunk_from(pos, k) % U) + (chunk_to(pos, len, k) - chunk_from(pos, k)) =< U
<1> DEFINE P == pos \div U
           o == pos % U
           E == (pos + len - 1) \div U
           from == chunk_from(pos, k)
           to == chunk_to(pos, len, k)
<1>1. U \in Nat \ {0} /\ pos + len - 1 \in Nat
  BY MfsFileAssumption
<1>2. P \in Nat /\ E \in Nat /\ o \in 0..(U - 1) /\ pos = (U * P) + o
  BY <1>1, DivMod
<1>3. from = IF k = 0 THEN pos ELSE (P + k) * U
  BY DEF chunk_from
<1>4. to = Min({pos + len, (P + k + 1) * U})
  BY DEF chunk_to
<1>5. from \in Nat /\ from < pos + len
  BY ChunkBounds
<1>6. k \in 0..(E - P)
  OBVIOUS
<1> HIDE DEF E, from, to
<1>7. k \in Nat
  BY <1>2, <1>6
<1>8. pos \div U = P /\ pos % U = o
  OBVIOUS
<1> HIDE DEF P, o
<1> DEFINE a == (P + k) * U
           b == (P + k + 1) * U
<1>9. a \in Nat /\ b \in Nat /\ b = a + U /\ a = U * (P + k)
  BY <1>1, <1>2, <1>7, Times
<1>10. U * P =< a /\ U * P \in Nat
  <2>1. P * U =< (P + k) * U
    BY <1>1, <1>2, <1>7, Larger
  <2> QED
    BY <1>1, <1>2, <2>1, Times
<1>11. k # 0 => pos < a
  <2>1. k # 0 => (P + 1) * U =< (P + k) * U
    BY <1>1, <1>2, <1>7, Larger
  <2>2. (P + 1) * U = U * P + U
    BY <1>1, <1>2
  <2> QED
    BY <1>1, <1>2, <1>9, <1>10, <2>1, <2>2
<1>12. k = 0 => a = U * P
  BY <1>1, <1>2
<1>13. k # 0 => from % U = 0
  <2>1. a = U * (P + k) + 0 /\ P + k \in Nat /\ 0 \in 0..(U - 1)
    BY <1>1, <1>2, <1>7, <1>9
  <2>2. a % U = 0
    BY <1>1, <1>9, <2>1, Quotient
  <2> QED
    BY <1>3, <2>2
<1>14. to = IF pos + len =< b THEN pos + len ELSE b
  <2>1. to = Min({pos + len, b})
    BY <1>4
  <2> HIDE DEF b
  <2> QED
    BY <1>9, <2>1, MinOfTwo
<1>15. from = IF k = 0 THEN pos ELSE a
  BY <1>3
<1> HIDE DEF a, b
<1>16. pos =< from
  BY <1>9, <1>11, <1>15
<1>17. from < to
  <2>1. from < b
    BY <1>1, <1>2, <1>9, <1>12, <1>15
  <2> QED
    BY <1>5, <1>9, <1>14, <2>1
<1>18. to =< b /\ to \in Nat
  BY <1>9, <1>14
<1>19. (from % U) + (to - from) =< U
  <2>1. CASE k = 0
    <3>1. from = a + o /\ from % U = o
      BY <1>2, <1>8, <1>12, <1>15, <2>1
    <3> QED
      BY <1>1, <1>2, <1>5, <1>9, <1>18, <3>1
  <2>2. CASE k # 0
    <3>1. from = a /\ from % U = 0
      BY <1>13, <1>15, <2>2
    <3> QED
      BY <1>1, <1>5, <1>9, <1>18, <3>1
  <2> QED
    BY <2>1, <2>2
<1> QED
  BY <1>16, <1>17, <1>19 DEF from, to

\* After k chunks of request r, of which no copy fails.
ContentAfter(r, chunks, c, base, k, acc) ==
    /\ WriteAfter(r, chunks, c, base, k, acc)
    /\ r.pos =< acc.pos
    /\ After(base.s, acc.s, r.f, r.pos, acc.pos, r.v)
ContentFold == INSTANCE FoldInduction WITH Step <- WriteStep, Holds <- ContentAfter

LEMMA ContentStepHolds ==
    ASSUME NEW r, r.f \in Files, r.v \in Int, r.pos \in Nat, r.len \in Nat \ {0}, r.fault = 0, NEW base,
           Sound(base.s, lost), r.pos + r.len =< MaxSize(base.s),
           NEW n, n = ((r.pos + r.len - 1) \div U) - (r.pos \div U) + 1,
           NEW chunks, chunks = Chunks(r.pos, r.len),
           NEW k \in 1..n, NEW acc, ContentAfter(r, chunks, 0, base, k - 1, acc)
    PROVE  ContentAfter(r, chunks, 0, base, k, WriteStep(r, chunks, 0, acc, k))
<1> DEFINE c == chunks[k]
           w == rw_chunk(acc.s, r.f, c.pos, c.n, r.v, k = r.fault)
           new == WriteStep(r, chunks, 0, acc, k)
<1>1. new = IF acc.r # "OK" THEN acc ELSE written(acc, c.n, w)
  BY DEF WriteStep, WriteChunk
<1>2. /\ Sound(acc.s, lost) /\ Frame(base.s, acc.s) /\ r.pos =< acc.pos
      /\ acc.pos \in Nat /\ acc.pos =< r.pos + r.len
      /\ acc.r = "OK" => acc.pos = IF k - 1 = 0 THEN r.pos ELSE chunk_to(r.pos, r.len, (k - 1) - 1)
      /\ After(base.s, acc.s, r.f, r.pos, acc.pos, r.v)
      /\ WriteAfter(r, chunks, 0, base, k - 1, acc)
  BY DEF WriteAfter, ContentAfter
<1>3. WriteAfter(r, chunks, 0, base, k, new)
  BY <1>2, WriteStepHolds
<1> HIDE DEF new
<1>4. CASE acc.r # "OK"
  <2>1. new = acc
    BY <1>1, <1>4
  <2> QED
    BY <1>2, <1>3, <2>1 DEF ContentAfter, new
<1>5. CASE acc.r = "OK"
  <2> DEFINE from == chunk_from(r.pos, k - 1)
             to == chunk_to(r.pos, r.len, k - 1)
             D == ((r.pos + r.len - 1) \div U) - (r.pos \div U)
  <2>1. k - 1 \in 0..D /\ k \in Nat \ {0}
    <3>1. (r.pos + r.len - 1) \div U \in Nat /\ r.pos \div U \in Nat
      <4>1. r.pos + r.len - 1 \in Nat /\ U \in Nat \ {0}
        BY MfsFileAssumption
      <4> QED
        BY <4>1, DivMod
    <3>2. D \in Int /\ n = D + 1
      BY <3>1
    <3> HIDE DEF D
    <3> QED
      BY <3>2
  <2>2. /\ from \in Nat /\ from < r.pos + r.len /\ to \in Nat /\ to =< r.pos + r.len
        /\ k - 1 # 0 => chunk_to(r.pos, r.len, (k - 1) - 1) = from
    BY <2>1, ChunkBounds
  <2>3. r.pos =< from /\ from < to /\ (from % U) + (to - from) =< U
    BY <2>1, ChunkInBlock
  <2> HIDE DEF D
  <2>4. k - 1 = 0 => from = r.pos
    BY DEF chunk_from
  <2>5. acc.pos = from
    BY <1>2, <1>5, <2>2, <2>4
  <2>6. c.pos = from /\ c.n = to - from
    BY ChunksAre
  <2>7. w = rw_chunk(acc.s, r.f, from, to - from, r.v, FALSE)
    <3>1. ~(k = r.fault)
      BY <2>1
    <3>2. (k = r.fault) = FALSE
      BY <3>1
    <3> HIDE DEF c, from, to
    <3> QED
      BY <2>6, <3>2
  <2> HIDE DEF c, from, to, w
  <2>8. Within(acc.s, from)
    <3>1. MaxSize(base.s) \in Nat /\ base.s.scale \in Scales
      BY SoundIs, SizesIs
    <3>2. Within(base.s, from)
      BY <2>2, <3>1, WithinBelow
    <3> QED
      BY <1>2, <3>2, WithinFrame DEF Frame
  <2> DEFINE m == to - from
  <2>9. m \in Nat \ {0} /\ (from % U) + m =< U /\ from + m = to
    BY <2>2, <2>3
  <2>10. w = rw_chunk(acc.s, r.f, from, m, r.v, FALSE) /\ c.n = m
    BY <2>6, <2>7
  <2> HIDE DEF m
  <2>11. Sound(w.s, lost) /\ Frame(acc.s, w.s)
    BY <1>2, <2>8, <2>10, ChunkSound
  <2>12. /\ w.r = "OK" => Wrote(acc.s, w.s, r.f, from, m, r.v)
         /\ w.r # "OK" => Like(acc.s, w.s)
    BY <1>2, <2>8, <2>9, <2>10, ChunkValue
  <2>13. new.s = w.s /\ new.r = w.r /\ new.pos = IF w.r = "OK" THEN from + m ELSE from
    <3>1. new = [s |-> w.s, r |-> w.r, pos |-> IF w.r = "OK" THEN acc.pos + c.n ELSE acc.pos]
      BY <1>1, <1>5 DEF written
    <3> QED
      BY <2>5, <2>10, <3>1
  <2>14. After(base.s, acc.s, r.f, r.pos, from, r.v)
    BY <1>2, <2>5
  <2>15. CASE w.r = "OK"
    <3>1. After(base.s, w.s, r.f, r.pos, from + m, r.v)
      BY <1>2, <2>2, <2>3, <2>8, <2>9, <2>11, <2>12, <2>14, <2>15, ChunkAfter
    <3>2. r.pos =< new.pos
      BY <2>2, <2>3, <2>9, <2>13, <2>15
    <3> QED
      BY <1>3, <2>13, <2>15, <3>1, <3>2 DEF ContentAfter, new
  <2>16. CASE w.r # "OK"
    <3>1. After(base.s, w.s, r.f, r.pos, from, r.v)
      BY <1>2, <2>11, <2>12, <2>14, <2>16, FailedAfter
    <3>2. r.pos =< new.pos
      BY <2>3, <2>13, <2>16
    <3> QED
      BY <1>3, <2>13, <2>16, <3>1, <3>2 DEF ContentAfter, new
  <2> QED
    BY <2>15, <2>16
<1> QED
  BY <1>4, <1>5

LEMMA RequestContent ==
    ASSUME NEW r, r.f \in Files, r.v \in Int, r.pos \in Nat, r.len \in Nat \ {0}, r.fault = 0,
           NEW s, Sound(s, lost), r.pos + r.len =< MaxSize(s), After(s, s, r.f, r.pos, r.pos, r.v)
    PROVE  LET w == WriteChunks(s, r.f, r.pos, r.len, r.v, r.fault)
           IN /\ Sound(w.s, lost) /\ Frame(s, w.s) /\ w.pos \in Nat /\ w.pos =< r.pos + r.len
              /\ r.pos =< w.pos /\ After(s, w.s, r.f, r.pos, w.pos, r.v)
<1> DEFINE chunks == Chunks(r.pos, r.len)
           n == ((r.pos + r.len - 1) \div U) - (r.pos \div U) + 1
           base == [s |-> s, r |-> "OK", pos |-> r.pos]
           seq == [j \in DOMAIN chunks |-> j]
           t == ContentFold!Fold(r, chunks, 0, base, seq, n)
           w == FoldLeft(LAMBDA acc, j : WriteChunk(r.f, chunks[j], r.v, j = r.fault, acc), base, seq)
<1>1. n \in Nat
  <2>1. r.pos + r.len - 1 \in Nat /\ U \in Nat \ {0} /\ r.pos =< r.pos + r.len - 1
    BY MfsFileAssumption
  <2>2. r.pos \div U =< (r.pos + r.len - 1) \div U
    BY <2>1
  <2>3. (r.pos + r.len - 1) \div U \in Nat /\ r.pos \div U \in Nat
    BY <2>1, DivMod
  <2> QED
    BY <2>2, <2>3
<1>2. DOMAIN chunks = 1..n
  BY ChunksAre
<1>3. chunks = Chunks(r.pos, r.len) /\ n = ((r.pos + r.len - 1) \div U) - (r.pos \div U) + 1
  OBVIOUS
<1>4. WriteChunks(s, r.f, r.pos, r.len, r.v, r.fault) = t
  <2>1. WriteChunks(s, r.f, r.pos, r.len, r.v, r.fault) = w
    BY Zenon DEF WriteChunks
  <2> HIDE DEF n, chunks
  <2>2. DOMAIN seq = 1..n
    BY <1>2
  <2>3. w = t
    <3> HIDE DEF seq, base
    <3> QED
      BY <2>2 DEF FoldLeft, MapThenFoldSet, Max, ContentFold!Fold, WriteStep
  <2> HIDE DEF w, t
  <2> QED
    BY <2>1, <2>3
<1> HIDE DEF w
<1> HIDE DEF n, chunks
<1>5. \A k \in 1..n : seq[k] = k
  BY <1>2
<1> HIDE DEF seq
<1>6. base.s = s /\ base.pos = r.pos
  OBVIOUS
<1> HIDE DEF base
<1>7. ContentAfter(r, chunks, 0, base, 0, base)
  <2>1. WriteAfter(r, chunks, 0, base, 0, base)
    BY <1>6 DEF WriteAfter, Frame
  <2> QED
    BY <1>6, <2>1 DEF ContentAfter
<1>8. ASSUME NEW k \in 1..n, NEW acc, ContentAfter(r, chunks, 0, base, k - 1, acc)
      PROVE  ContentAfter(r, chunks, 0, base, k, WriteStep(r, chunks, 0, acc, seq[k]))
  <2>1. ContentAfter(r, chunks, 0, base, k, WriteStep(r, chunks, 0, acc, k))
    BY <1>3, <1>6, <1>8, ContentStepHolds
  <2> QED
    BY <1>5, <2>1
<1>9. ContentAfter(r, chunks, 0, base, n, t)
  BY <1>1, <1>7, <1>8, ContentFold!FoldHolds
<1> HIDE DEF t
<1> QED
  BY <1>4, <1>6, <1>9 DEF ContentAfter, WriteAfter

LEMMA WriteContent ==
    ASSUME NEW s, Sound(s, lost), NEW f \in Files, NEW pos \in Nat, NEW len \in Nat \ {0}, NEW v \in Int,
           pos + len =< MaxSize(s), After(s, s, f, pos, pos, v)
    PROVE  LET w == WriteChunks(s, f, pos, len, v, 0)
           IN /\ Sound(w.s, lost) /\ Frame(s, w.s) /\ w.pos \in Nat /\ w.pos =< pos + len
              /\ pos =< w.pos /\ After(s, w.s, f, pos, w.pos, v)
<1> DEFINE r == [f |-> f, pos |-> pos, len |-> len, v |-> v, fault |-> 0]
<1>1. r.f = f /\ r.pos = pos /\ r.len = len /\ r.v = v /\ r.fault = 0
  OBVIOUS
<1> HIDE DEF r
<1> DEFINE w == WriteChunks(s, r.f, r.pos, r.len, r.v, r.fault)
<1>2. /\ Sound(w.s, lost) /\ Frame(s, w.s) /\ w.pos \in Nat /\ w.pos =< r.pos + r.len
      /\ r.pos =< w.pos /\ After(s, w.s, r.f, r.pos, w.pos, r.v)
  BY <1>1, RequestContent
<1> QED
  BY <1>1, <1>2

-----------------------------------------------------------------------------
(* A file that grows. *)

\* The blocks from the first that starts at n or after it.
LEMMA RoundUp ==
    ASSUME NEW i \in Nat, NEW n \in Nat
    PROVE  i \div U >= (n + U - 1) \div U <=> i >= n /\ (i \div U # n \div U \/ n % U = 0)
<1> DEFINE j == i \div U
           e == i % U
           k == n \div U
           o == n % U
           q == (n + U - 1) \div U
<1>1. U \in Nat \ {0}
  BY MfsFileAssumption
<1>2. j \in Nat /\ e \in 0..(U - 1) /\ i = (U * j) + e /\ k \in Nat /\ o \in 0..(U - 1) /\ n = (U * k) + o
  BY <1>1, DivMod
<1>3. q = (n + U - 1) \div U /\ n + U - 1 \in Nat
  BY <1>1
<1> HIDE DEF j, e, k, o, q
<1>4. U * j \in Nat /\ U * k \in Nat /\ U * (k + 1) = (U * k) + U /\ U * (j + 1) = (U * j) + U
  BY <1>1, <1>2, Times
<1>5. (j < k => U * j + U =< U * k) /\ (k < j => U * k + U =< U * j)
  <2>1. j < k => (j + 1) * U =< k * U
    BY <1>1, <1>2, Larger
  <2>2. k < j => (k + 1) * U =< j * U
    BY <1>1, <1>2, Larger
  <2>3. (j + 1) * U = U * j + U /\ k * U = U * k /\ (k + 1) * U = U * k + U /\ j * U = U * j
    BY <1>1, <1>2
  <2> QED
    BY <2>1, <2>2, <2>3
<1>6. CASE o = 0
  <2>1. n + U - 1 = U * k + (U - 1) /\ U - 1 \in 0..(U - 1)
    BY <1>1, <1>2, <1>4, <1>6
  <2>2. q = k
    BY <1>1, <1>2, <1>3, <2>1, Quotient
  <2>3. j >= k <=> i >= n
    BY <1>1, <1>2, <1>4, <1>5, <1>6
  <2> QED
    BY <1>6, <2>2, <2>3 DEF j, k, o, q
<1>7. CASE o # 0
  <2>1. n + U - 1 = U * (k + 1) + (o - 1) /\ o - 1 \in 0..(U - 1) /\ k + 1 \in Nat
    BY <1>1, <1>2, <1>4, <1>7
  <2>2. q = k + 1
    BY <1>1, <1>2, <1>3, <2>1, Quotient
  <2>3. j >= k + 1 <=> i >= n /\ j # k
    BY <1>1, <1>2, <1>4, <1>5, <1>7
  <2> QED
    BY <1>7, <2>2, <2>3 DEF j, k, o, q
<1> QED
  BY <1>6, <1>7

\* From n on the file shows zero; nothing else changes.
Grown(s, t, f, n) ==
    \A g \in Files, i \in Units(s) :
        Value(t, g, i) = IF g = f /\ i >= n THEN 0 ELSE Value(s, g, i)

\* Past the zone of its end, or without a zone there, a file shows zero.
LEMMA PastEnd ==
    ASSUME NEW s, Sound(s, lost), NEW f \in Files, NEW n, Within(s, n), Ends(s, f, n),
           NEW i \in Units(s), i >= n,
           \/ Zone(s, i) # Zone(s, n)
           \/ PlaceZone(s, f, Zone(s, n)) = NO_ZONE
           \/ s.scale = 0
           \/ i \div U < (n + U - 1) \div U
    PROVE  Value(s, f, i) = 0
<1>1. /\ s.scale \in Scales /\ n \in Nat /\ i \in Nat /\ U \in Nat \ {0} /\ Within(s, i)
      /\ Zone(s, n) \in 0..(MaxZone - 1) /\ Zone(s, i) \in 0..(MaxZone - 1)
  BY SoundIs, UnitIs, MfsFileAssumption DEF Within
<1>2. CASE PlaceZone(s, f, Zone(s, i)) = NO_ZONE
  BY <1>1, <1>2, ValueIs
<1>3. CASE i \div U = n \div U /\ n % U # 0
  BY <1>3 DEF Ends
<1>4. CASE Zone(s, i) # Zone(s, n)
  <2> DEFINE d == ZoneSize(s)
             k == Zone(s, i)
             l == Zone(s, n)
  <2>1. d \in Nat \ {0} /\ k \in Nat /\ l \in Nat /\ k = i \div d /\ l = n \div d /\ n < (l + 1) * d
    BY <1>1, ZoneIs, ZoneBefore
  <2>2. k # l
    BY <1>4
  <2> HIDE DEF k, l, d
  <2>3. i \div d >= n \div d
    BY <1>1, <2>1
  <2>4. k >= l + 1
    BY <2>1, <2>2, <2>3
  <2>5. (l + 1) * d =< k * d /\ (l + 1) * d \in Nat /\ k * d \in Nat
    BY <2>1, <2>4, Larger, Times
  <2>6. k * d >= n
    BY <1>1, <2>1, <2>5
  <2>7. PlaceZone(s, f, Zone(s, i)) = NO_ZONE
    BY <1>1, <2>6 DEF Ends, k, d
  <2> QED
    BY <1>2, <2>7
<1>5. CASE Zone(s, i) = Zone(s, n) /\ s.scale = 0
  <2>1. i \div U = n \div U
    BY <1>1, <1>5, OneBlock
  <2>2. CASE n % U = 0
    <3>1. ZoneSize(s) = U
      <4>1. ZoneBlocks(s) = 1
        BY <1>5 DEF ZoneBlocks
      <4> QED
        BY <1>1, <4>1 DEF ZoneSize
    <3>2. Zone(s, n) = n \div U
      BY <1>1, <3>1, ZoneIs
    <3>3. n = (U * (n \div U)) + (n % U) /\ n \div U \in Nat
      BY <1>1, DivMod
    <3> DEFINE q == n \div U
    <3>4. n = (U * q) + 0 /\ q \in Nat
      BY <2>2, <3>3
    <3> HIDE DEF q
    <3>5. q * U >= n
      BY <1>1, <3>4
    <3>6. Zone(s, n) * ZoneSize(s) >= n
      BY <3>1, <3>2, <3>5 DEF q
    <3>7. PlaceZone(s, f, Zone(s, n)) = NO_ZONE
      BY <1>1, <3>6 DEF Ends
    <3> QED
      BY <1>2, <1>5, <3>7
  <2> QED
    BY <1>3, <2>1, <2>2
<1>6. CASE i \div U < (n + U - 1) \div U
  <2>1. i \div U \in Nat /\ (n + U - 1) \div U \in Nat
    <3>1. n + U - 1 \in Nat
      BY <1>1
    <3> QED
      BY <1>1, <3>1, DivMod
  <2>2. i \div U >= (n + U - 1) \div U <=> i >= n /\ (i \div U # n \div U \/ n % U = 0)
    BY <1>1, RoundUp
  <2>3. ~(i \div U >= (n + U - 1) \div U)
    <3> DEFINE a == i \div U
               b == (n + U - 1) \div U
    <3>1. a \in Nat /\ b \in Nat /\ a < b
      BY <1>6, <2>1
    <3> HIDE DEF a, b
    <3>2. ~(a >= b)
      BY <3>1
    <3> QED
      BY <3>2 DEF a, b
  <2>4. i \div U = n \div U /\ n % U # 0
    BY <2>2, <2>3, Zenon
  <2> QED
    BY <1>3, <2>4
<1> QED
  BY <1>2, <1>4, <1>5, <1>6

LEMMA GrowClear ==
    ASSUME NEW s, Sound(s, lost), NEW f \in Files, NEW n, Within(s, n), Ends(s, f, n)
    PROVE  LET t == clear_zone(s, f, n, FALSE)
           IN Sound(t, lost) /\ Rewritten(s, t) /\ Grown(s, t, f, n)
<1> DEFINE t == clear_zone(s, f, n, FALSE)
           next == n + U - 1
<1>1. Sound(t, lost) /\ Rewritten(s, t)
  BY ClearZoneSound
<1>2. n \in Nat /\ U \in Nat \ {0} /\ s.scale \in Scales /\ next \in Nat
  BY SoundIs, MfsFileAssumption DEF Within
<1>3. ClearFrom(s, n, FALSE) = n
  BY DEF ClearFrom
<1>4. CASE s.scale = 0 \/ Zone(s, next) # Zone(s, n) \/ PlaceZone(s, f, Zone(s, n)) = NO_ZONE
  <2>1. t = s
    BY <1>3, <1>4, ClearNone
  <2>2. ASSUME NEW i \in Units(s), i >= n PROVE Value(s, f, i) = 0
    <3>1. CASE s.scale = 0 \/ PlaceZone(s, f, Zone(s, n)) = NO_ZONE \/ Zone(s, i) # Zone(s, n)
      BY <2>2, <3>1, PastEnd
    <3>2. CASE Zone(s, next) # Zone(s, n) /\ Zone(s, i) = Zone(s, n)
      <4> DEFINE B == ZoneBlocks(s)
                 x == i \div U
                 y == next \div U
                 l == n \div U
      <4>1. B \in Nat \ {0} /\ i \in Nat /\ x \in Nat /\ y \in Nat /\ l \in Nat
        BY <1>2, BlocksPositive, UnitIs, DivMod
      <4>2. x \div B = l \div B /\ y \div B # l \div B
        BY <3>2 DEF Zone
      <4>3. l =< y
        BY <1>2
      <4> HIDE DEF x, y, B, l
      <4>4. x < y
        <5>1. ASSUME y =< x PROVE FALSE
          <6>1. l \div B =< y \div B /\ y \div B =< x \div B
            BY <4>1, <4>3, <5>1
          <6>2. l \div B \in Int /\ y \div B \in Int /\ x \div B \in Int
            BY <4>1, DivMod
          <6> QED
            BY <4>2, <6>1, <6>2
        <5> QED
          BY <4>1, <5>1
      <4>5. i \div U < (n + U - 1) \div U
        BY <4>4 DEF x, y
      <4> QED
        BY <2>2, <4>5, PastEnd
    <3> QED
      BY <1>4, <3>1, <3>2
  <2> HIDE DEF t
  <2>3. Grown(s, t, f, n)
    BY <2>1, <2>2 DEF Grown
  <2> QED
    BY <1>1, <2>3 DEF t
<1>5. CASE s.scale # 0 /\ Zone(s, next) = Zone(s, n) /\ PlaceZone(s, f, Zone(s, n)) # NO_ZONE
  <2>1. next = ClearFrom(s, n, FALSE) + U - 1
    BY <1>3
  <2>2. Filled(s, t, f, Rest(s, next), 0)
    <3> HIDE DEF t, next
    <3> QED
      BY <1>5, <2>1, ClearFills DEF t
  <2> HIDE DEF t
  <2>3. ASSUME NEW g \in Files, NEW i \in Units(s)
        PROVE  Value(t, g, i) = IF g = f /\ i >= n THEN 0 ELSE Value(s, g, i)
    <3>1. Value(t, g, i) = IF g = f /\ i \in Rest(s, next) THEN 0 ELSE Value(s, g, i)
      BY <2>2 DEF Filled
    <3>2. i \in Nat /\ i \div U \in Nat
      BY <1>2, UnitIs
    <3>3. next \div U \in Nat
      BY <1>2, DivMod
    <3>4. i \in Rest(s, next) => i >= n
      BY <1>2, <3>2, RoundUp DEF Rest
    <3>5. i >= n /\ i \notin Rest(s, next) => Value(s, f, i) = 0
      <4>1. ASSUME i >= n, i \notin Rest(s, next)
            PROVE  Zone(s, i) # Zone(s, n) \/ i \div U < (n + U - 1) \div U
        BY <1>5, <3>2, <3>3, <4>1 DEF Rest
      <4> QED
        BY <4>1, PastEnd
    <3> QED
      BY <3>1, <3>4, <3>5
  <2> QED
    BY <1>1, <2>3 DEF Grown, t
<1> QED
  BY <1>4, <1>5

-----------------------------------------------------------------------------
(* A write, from one end of the file to the other. *)

\* Only file f changes.
Kept(s, t, f) ==
    \A g \in Files : g # f => SameFile(s, t, g) /\ t.ino[g].size = s.ino[g].size

LEMMA TidyAfter ==
    ASSUME NEW s, NEW t, t.scale = s.scale, Tidy(s), NEW f \in Files, Kept(s, t, f),
           Ends(t, f, t.ino[f].size)
    PROVE  Tidy(t)
<1>1. ASSUME NEW g \in Files PROVE Ends(t, g, t.ino[g].size)
  <2>1. CASE g = f
    BY <2>1
  <2>2. CASE g # f
    <3>1. Ends(s, g, s.ino[g].size) /\ SameFile(s, t, g) /\ t.ino[g].size = s.ino[g].size
      BY <2>2 DEF Tidy, Kept
    <3> QED
      BY <3>1, SameEnds
  <2> QED
    BY <2>1, <2>2
<1> QED
  BY <1>1 DEF Tidy

LEMMA KeptAlong ==
    ASSUME NEW s, NEW t, NEW u, NEW f, t.scale = s.scale, Kept(s, t, f), Kept(t, u, f)
    PROVE  Kept(s, u, f)
<1>1. ASSUME NEW g \in Files, g # f PROVE SameFile(s, u, g) /\ u.ino[g].size = s.ino[g].size
  <2>1. SameFile(s, t, g) /\ SameFile(t, u, g) /\ u.ino[g].size = s.ino[g].size
    BY <1>1 DEF Kept
  <2> QED
    BY <2>1, SameFileAlong
<1> QED
  BY <1>1 DEF Kept

LEMMA KeptSelf == ASSUME NEW s, NEW f PROVE Kept(s, s, f)
BY DEF Kept, SameFile

\* What grows in f touches no other file.
LEMMA GrownKept ==
    ASSUME NEW s, NEW t, NEW f, NEW n, Rewritten(s, t), Grown(s, t, f, n)
    PROVE  Kept(s, t, f)
<1>1. ASSUME NEW g \in Files, g # f PROVE SameFile(s, t, g) /\ t.ino[g].size = s.ino[g].size
  <2>1. \A i \in Units(s) : Value(t, g, i) = Value(s, g, i)
    BY <1>1 DEF Grown
  <2> QED
    BY <1>1, <2>1 DEF SameFile, Rewritten, Frame
<1> QED
  BY <1>1 DEF Kept

\* The end may be put anywhere after what is cleared.
LEMMA GrownEnds ==
    ASSUME NEW s, s.scale \in Scales, NEW t, NEW f \in Files, NEW n \in Nat, NEW m \in Nat, n =< m,
           Rewritten(s, t), Ends(s, f, n), Grown(s, t, f, n)
    PROVE  Ends(t, f, m)
<1>1. Units(t) = Units(s) /\ ZoneSize(t) = ZoneSize(s) /\ ZoneSize(s) \in Nat
  BY ZoneIs DEF Units, MaxSize, ZoneSize, ZoneBlocks, Rewritten, Frame
<1>2. ASSUME NEW k \in 0..(MaxZone - 1), k * ZoneSize(t) >= m PROVE PlaceZone(t, f, k) = NO_ZONE
  <2> DEFINE x == k * ZoneSize(s)
  <2>1. MaxZone \in Nat
    BY SizesIs
  <2>2. x \in Nat /\ x >= m
    BY <1>1, <1>2, <2>1, Times
  <2> HIDE DEF x
  <2>3. x >= n
    BY <2>2
  <2>4. PlaceZone(s, f, k) = NO_ZONE
    BY <2>3 DEF Ends, x
  <2> QED
    BY <2>4 DEF Rewritten
<1>3. ASSUME NEW i \in Units(t), i >= m PROVE Value(t, f, i) = 0
  <2>1. i \in Nat /\ i \in Units(s)
    BY <1>1, UnitIs
  <2>2. i >= n
    BY <1>3, <2>1
  <2> QED
    BY <2>1, <2>2 DEF Grown
<1> QED
  BY <1>2, <1>3 DEF Ends

\* How a write starts: between the end and its position there are zeros.
Began(s, t, f, pos) ==
    \A i \in Units(s) :
        /\ i < s.ino[f].size => Value(t, f, i) = Value(s, f, i)
        /\ i >= s.ino[f].size /\ i < pos => Value(t, f, i) = 0

WriteStart(s, f, pos) == IF pos > s.ino[f].size THEN clear_zone(s, f, s.ino[f].size, FALSE) ELSE s

LEMMA StartAfter ==
    ASSUME NEW s, Sound(s, lost), NEW f \in Files, Ends(s, f, s.ino[f].size),
           NEW pos \in Nat, pos < MaxSize(s), NEW v,
           ~(pos = s.ino[f].size /\ read_map(s, f, pos) = NO_BLOCK /\ (pos \div U) % ZoneBlocks(s) # 0)
    PROVE  LET t == WriteStart(s, f, pos)
           IN /\ Sound(t, lost) /\ Frame(s, t) /\ Kept(s, t, f) /\ Began(s, t, f, pos)
              /\ After(t, t, f, pos, pos, v)
<1> DEFINE t == WriteStart(s, f, pos)
           S == s.ino[f].size
<1>1. S \in Nat /\ S =< MaxSize(s) /\ MaxSize(s) \in Nat /\ s.scale \in Scales
  BY SoundIs, SizeIs, SizesIs
<1>2. t = IF pos > S THEN clear_zone(s, f, S, FALSE) ELSE s
  BY DEF WriteStart
<1>3. Ends(s, f, S)
  OBVIOUS
<1> HIDE DEF t
<1>4. ASSUME NEW u, Ends(u, f, Reached(u, f, pos)), Ready(u, f, pos) PROVE After(u, u, f, pos, pos, v)
  <2>1. \A g \in Files : SameFile(u, u, g)
    BY DEF SameFile
  <2>2. ASSUME NEW i \in Units(u) PROVE Shows(u, u, f, pos, pos, v, i)
    <3>1. i \notin pos..(pos - 1)
      OBVIOUS
    <3> QED
      BY <3>1 DEF Shows
  <2> QED
    BY <1>4, <2>1, <2>2 DEF After
<1>5. CASE pos > S
  <2>1. t = clear_zone(s, f, S, FALSE)
    BY <1>2, <1>5
  <2>2. Within(s, S)
    BY <1>1, <1>5, WithinBelow
  <2>3. Sound(t, lost) /\ Rewritten(s, t) /\ Grown(s, t, f, S)
    BY <1>3, <2>1, <2>2, GrowClear
  <2>4. Frame(s, t) /\ t.ino[f].size = S
    BY <2>3 DEF Rewritten, Frame
  <2>5. Kept(s, t, f)
    BY <2>3, GrownKept
  <2>6. Began(s, t, f, pos)
    <3>1. ASSUME NEW i \in Units(s)
          PROVE  /\ i < S => Value(t, f, i) = Value(s, f, i)
                 /\ i >= S => Value(t, f, i) = 0
      <4>1. i \in Nat
        BY <1>1, UnitIs
      <4>2. Value(t, f, i) = IF i >= S THEN 0 ELSE Value(s, f, i)
        BY <2>3 DEF Grown
      <4> HIDE DEF S
      <4> QED
        BY <1>1, <4>1, <4>2
    <3> QED
      BY <3>1 DEF Began
  <2>7. Reached(t, f, pos) = pos
    BY <1>1, <1>5, <2>4 DEF Reached
  <2>8. Ends(t, f, pos)
    BY <1>1, <1>3, <1>5, <2>3, GrownEnds
  <2>9. Ready(t, f, pos)
    BY <1>1, <1>5, <2>4 DEF Ready
  <2>10. After(t, t, f, pos, pos, v)
    BY <1>4, <2>7, <2>8, <2>9
  <2> QED
    BY <2>3, <2>4, <2>5, <2>6, <2>10 DEF t
<1>6. CASE ~(pos > S)
  <2>1. t = s
    BY <1>2, <1>6
  <2>2. Reached(s, f, pos) = S
    BY <1>1, <1>6 DEF Reached
  <2>3. Ready(s, f, pos)
    <3> SUFFICES ASSUME Within(s, pos), pos = S, zone_at(s, f, pos) = NO_ZONE
                 PROVE  (pos \div U) % ZoneBlocks(s) = 0
      BY DEF Ready
    <3>1. read_map(s, f, pos) = NO_BLOCK
      BY DEF read_map
    <3> QED
      BY <3>1
  <2>4. After(s, s, f, pos, pos, v)
    BY <1>3, <1>4, <2>2, <2>3
  <2>5. Began(s, s, f, pos)
    <3>1. ASSUME NEW i \in Units(s), i >= S, i < pos PROVE FALSE
      <4>1. i \in Nat
        BY <1>1, UnitIs
      <4> HIDE DEF S
      <4> QED
        BY <1>1, <1>6, <3>1, <4>1
    <3> QED
      BY <3>1 DEF Began
  <2>6. Kept(s, s, f) /\ Frame(s, s)
    BY KeptSelf DEF Frame
  <2> QED
    BY <2>1, <2>4, <2>5, <2>6 DEF t
<1> QED
  BY <1>5, <1>6

\* What a write makes of the file: units pos to last - 1 hold v, the others
\* what they held, or zero past the old end.
Extended(s, t, f, pos, last, v) ==
    \A i \in Units(s) :
        i < t.ino[f].size =>
            Value(t, f, i) = IF i \in pos..(last - 1) THEN v
                             ELSE IF i < s.ino[f].size THEN Value(s, f, i) ELSE 0

LEMMA AfterKept ==
    ASSUME NEW s, NEW t, Frame(s, t), NEW f, NEW pos, NEW p, NEW v, After(s, t, f, pos, p, v)
    PROVE  Kept(s, t, f)
BY DEF After, Kept, Frame

\* The new size of a file changes nothing else.
LEMMA SizePutKept ==
    ASSUME NEW s, Sound(s, lost), NEW f \in Files, NEW n \in 0..MaxSize(s)
    PROVE  LET t == [s EXCEPT !.ino[f].size = n]
           IN /\ Sound(t, lost) /\ t.scale = s.scale /\ t.ino[f].size = n /\ Kept(s, t, f)
              /\ SameFile(s, t, f)
<1> DEFINE t == [s EXCEPT !.ino[f].size = n]
<1>1. /\ Sound(t, lost) /\ Like(s, t) /\ t.scale = s.scale
      /\ t.ino[f].size = n /\ (\A g \in Files : g # f => t.ino[g].size = s.ino[g].size)
  BY SizePutSound
<1> HIDE DEF t
<1>2. \A g \in Files : SameFile(s, t, g)
  BY <1>1, LikeFile DEF Like
<1> QED
  BY <1>1, <1>2 DEF Kept, t

LEMMA WriteOutcome ==
    ASSUME NEW s, Sound(s, lost), Tidy(s), NEW f \in Files,
           NEW pos \in Nat, NEW len \in Nat \ {0}, pos + len =< MaxSize(s), NEW v \in Int,
           ~(pos = s.ino[f].size /\ read_map(s, f, pos) = NO_BLOCK /\ (pos \div U) % ZoneBlocks(s) # 0)
    PROVE  LET w == WriteChunks(WriteStart(s, f, pos), f, pos, len, v, 0)
               t == [w.s EXCEPT !.ino[f].size = Max({w.pos, s.ino[f].size})]
           IN /\ Sound(t, lost) /\ t.scale = s.scale /\ Tidy(t) /\ Kept(s, t, f)
              /\ w.pos \in Nat /\ pos =< w.pos /\ t.ino[f].size = Max({w.pos, s.ino[f].size})
              /\ Extended(s, t, f, pos, w.pos, v)
<1> DEFINE S == s.ino[f].size
           start == WriteStart(s, f, pos)
           w == WriteChunks(start, f, pos, len, v, 0)
           n == Max({w.pos, S})
           t == [w.s EXCEPT !.ino[f].size = n]
<1>1. S \in Nat /\ S =< MaxSize(s) /\ MaxSize(s) \in Nat /\ s.scale \in Scales /\ pos < MaxSize(s)
  BY SoundIs, SizeIs, SizesIs
<1>2. /\ Sound(start, lost) /\ Frame(s, start) /\ Kept(s, start, f) /\ Began(s, start, f, pos)
      /\ After(start, start, f, pos, pos, v)
  <2>1. Ends(s, f, s.ino[f].size)
    BY DEF Tidy
  <2> QED
    BY <1>1, <2>1, StartAfter
<1> HIDE DEF start
<1>3. /\ MaxSize(start) = MaxSize(s) /\ start.ino[f].size = S /\ Units(start) = Units(s)
      /\ start.scale = s.scale
  BY <1>2 DEF Frame, Units, MaxSize, ZoneSize, ZoneBlocks
<1>4. /\ Sound(w.s, lost) /\ Frame(start, w.s) /\ w.pos \in Nat /\ w.pos =< pos + len
      /\ pos =< w.pos /\ After(start, w.s, f, pos, w.pos, v)
  <2>1. pos + len =< MaxSize(start)
    BY <1>3
  <2> QED
    BY <1>2, <2>1, WriteContent
<1> HIDE DEF w
<1>5. MaxSize(w.s) = MaxSize(s) /\ w.s.scale = s.scale /\ Units(w.s) = Units(s)
  BY <1>3, <1>4 DEF Frame, Units, MaxSize, ZoneSize, ZoneBlocks
<1>6. n = Reached(start, f, w.pos) /\ n = (IF w.pos >= S THEN w.pos ELSE S)
  <2>1. n = IF w.pos >= S THEN w.pos ELSE S
    BY <1>1, <1>4, MaxOfTwo
  <2> QED
    BY <1>3, <2>1 DEF Reached
<1> HIDE DEF n
<1>7. n \in 0..MaxSize(w.s)
  BY <1>1, <1>4, <1>5, <1>6
<1>8. /\ Sound(t, lost) /\ t.scale = w.s.scale /\ t.ino[f].size = n /\ Kept(w.s, t, f)
      /\ SameFile(w.s, t, f)
  BY <1>4, <1>7, SizePutKept
<1> HIDE DEF t
<1>9. Kept(s, t, f)
  <2>1. Kept(start, w.s, f)
    BY <1>4, AfterKept
  <2>2. Kept(s, w.s, f)
    BY <1>2, <1>3, <2>1, KeptAlong
  <2> QED
    BY <1>5, <1>8, <2>2, KeptAlong
<1>10. Ends(t, f, n)
  <2>1. Ends(w.s, f, n)
    BY <1>4, <1>6 DEF After
  <2> QED
    BY <1>8, <2>1, SameEnds
<1>11. Tidy(t)
  BY <1>5, <1>8, <1>9, <1>10, TidyAfter
<1>12. ASSUME NEW i \in Units(s), i < n
       PROVE  Value(t, f, i) = IF i \in pos..(w.pos - 1) THEN v
                               ELSE IF i < S THEN Value(s, f, i) ELSE 0
  <2>1. i \in Nat
    BY <1>1, UnitIs
  <2>2. Value(t, f, i) = Value(w.s, f, i)
    BY <1>5, <1>8 DEF SameFile
  <2>3. Shows(start, w.s, f, pos, w.pos, v, i)
    BY <1>3, <1>4, <1>6, <1>12 DEF After
  <2>4. Value(w.s, f, i) = IF i \in pos..(w.pos - 1) THEN v ELSE Value(start, f, i)
    BY <2>3 DEF Shows
  <2>5. CASE i \in pos..(w.pos - 1)
    BY <2>2, <2>4, <2>5
  <2>6. CASE i \notin pos..(w.pos - 1)
    <3>1. i < S \/ (i >= S /\ i < pos)
      BY <1>1, <1>4, <1>6, <1>12, <2>1, <2>6
    <3>2. /\ i < S => Value(start, f, i) = Value(s, f, i)
          /\ i >= S /\ i < pos => Value(start, f, i) = 0
      BY <1>2 DEF Began
    <3>3. i < S => ~(i >= S)
      BY <1>1, <2>1
    <3> HIDE DEF S
    <3> QED
      BY <2>2, <2>4, <2>6, <3>1, <3>2, <3>3
  <2> QED
    BY <2>5, <2>6
<1>13. Extended(s, t, f, pos, w.pos, v)
  BY <1>8, <1>12 DEF Extended
<1> QED
  BY <1>4, <1>5, <1>8, <1>9, <1>11, <1>13 DEF t, n, w, start

-----------------------------------------------------------------------------
(* Space that is freed. *)

\* A quotient that is rounded up.
Upward(n, d) == (n + d - 1) \div d

LEMMA Ceiling ==
    ASSUME NEW d \in Nat \ {0}, NEW n \in Nat
    PROVE  (n + d - 1) \div d = IF n % d = 0 THEN n \div d ELSE n \div d + 1
<1> DEFINE q == n \div d
           o == n % d
           r == (n + d - 1) \div d
<1>1. q \in Nat /\ o \in 0..(d - 1) /\ n = (d * q) + o
  BY DivMod
<1>2. r = (n + d - 1) \div d /\ n + d - 1 \in Nat
  OBVIOUS
<1> HIDE DEF q, o, r
<1>3. d * q \in Nat /\ d * (q + 1) = (d * q) + d
  BY <1>1, Times
<1>4. CASE o = 0
  <2>1. n + d - 1 = d * q + (d - 1) /\ d - 1 \in 0..(d - 1)
    BY <1>1, <1>3, <1>4
  <2>2. r = q
    BY <1>1, <1>2, <2>1, Quotient
  <2> QED
    BY <1>4, <2>2 DEF q, o, r
<1>5. CASE o # 0
  <2>1. n + d - 1 = d * (q + 1) + (o - 1) /\ o - 1 \in 0..(d - 1) /\ q + 1 \in Nat
    BY <1>1, <1>3, <1>5
  <2>2. r = q + 1
    BY <1>1, <1>2, <2>1, Quotient
  <2> QED
    BY <1>5, <2>2 DEF q, o, r
<1> QED
  BY <1>4, <1>5

\* The order of positions and that of their zones.
LEMMA ZoneOrder ==
    ASSUME NEW d \in Nat \ {0}, NEW i \in Nat, NEW x \in Nat
    PROVE  /\ i \div d < x \div d => i < x
           /\ i \div d >= x \div d /\ x % d = 0 => i >= x
           /\ i >= x => i \div d >= x \div d
<1> DEFINE q == i \div d
           j == i % d
           k == x \div d
           o == x % d
<1>1. q \in Nat /\ j \in 0..(d - 1) /\ i = (d * q) + j /\ k \in Nat /\ o \in 0..(d - 1) /\ x = (d * k) + o
  BY DivMod
<1> HIDE DEF q, j, k, o
<1>2. d * q \in Nat /\ d * k \in Nat
  BY <1>1, Times
<1>3. q < k => d * q + d =< d * k
  <2>1. q < k => (q + 1) * d =< k * d
    BY <1>1, Larger
  <2>2. (q + 1) * d = d * q + d /\ k * d = d * k
    BY <1>1
  <2> QED
    BY <2>1, <2>2
<1>4. k =< q => d * k =< d * q
  <2>1. k =< q => k * d =< q * d
    BY <1>1, Larger
  <2>2. q * d = d * q /\ k * d = d * k
    BY <1>1
  <2> QED
    BY <2>1, <2>2
<1>5. /\ q < k => i < x
      /\ q >= k /\ o = 0 => i >= x
      /\ i >= x => q >= k
  BY <1>1, <1>2, <1>3, <1>4
<1> QED
  BY <1>5 DEF q, k, o

\* Zones p to e - 1 lie in the range up to the end; what else lies in it is in
\* a zone that it begins or ends in.
HoleUnit(d, start, end, c, p, e, i) ==
    /\ i \div d \in p..(e - 1) => i >= start /\ (c = 0 => i < end)
    /\ i \div d \notin p..(e - 1) /\ i >= start /\ i < end =>
         \/ start % d # 0 /\ i \div d = start \div d
         \/ c = 0 /\ end % d # 0 /\ i \div d = end \div d

\* Which zones a range frees, and which it leaves to be zeroed in part.
LEMMA HoleZones ==
    ASSUME NEW d \in Nat \ {0}, NEW start \in Nat, NEW end \in Nat, NEW c \in {0, 1},
           c = 1 => end % d # 0, NEW i \in Nat,
           NEW p, p = Upward(start, d), NEW e, e = end \div d + c
    PROVE  p \in Nat /\ e \in Nat /\ HoleUnit(d, start, end, c, p, e, i)
<1> DEFINE k == i \div d
           a == start \div d
           b == end \div d
<1>1. k \in Nat /\ a \in Nat /\ b \in Nat
  BY DivMod
<1>2. p = (IF start % d = 0 THEN a ELSE a + 1) /\ e = b + c
  BY Ceiling DEF Upward
<1>3. /\ k < a => i < start
      /\ a < k => start < i
      /\ k >= a /\ start % d = 0 => i >= start
      /\ k < b => i < end
      /\ b < k => end < i
      /\ k >= b /\ end % d = 0 => i >= end
  BY ZoneOrder
<1> HIDE DEF k, a, b
<1>4. /\ p \in Nat /\ e \in Nat
      /\ k \in p..(e - 1) => i >= start /\ (c = 0 => i < end)
  BY <1>1, <1>2, <1>3
<1>5. k \notin p..(e - 1) /\ i >= start /\ i < end =>
        \/ start % d # 0 /\ k = a
        \/ c = 0 /\ end % d # 0 /\ k = b
  <2> SUFFICES ASSUME k \notin p..(e - 1), i >= start, i < end
               PROVE  \/ start % d # 0 /\ k = a
                      \/ c = 0 /\ end % d # 0 /\ k = b
    OBVIOUS
  <2>1. a =< k /\ k =< b
    BY <1>1, <1>3
  <2>2. k < p \/ k >= e
    BY <1>1, <1>4
  <2>3. k < p => start % d # 0 /\ k = a
    BY <1>1, <1>2, <2>1
  <2>4. k >= e => k = b /\ c = 0 /\ end % d # 0
    BY <1>1, <1>2, <1>3, <2>1
  <2> QED
    BY <2>2, <2>3, <2>4
<1> QED
  BY <1>4, <1>5 DEF k, a, b, HoleUnit

\* The parts of zones lie in the range.
LEMMA HoleHalves ==
    ASSUME NEW d \in Nat \ {0}, NEW start \in Nat, NEW end \in Nat, start < end,
           start \div d # (end - 1) \div d, NEW i \in Nat
    PROVE  /\ i \div d = start \div d => i < end
           /\ i \div d = end \div d /\ end % d # 0 => i >= start
<1> DEFINE last == end - 1
<1>1. last \in Nat /\ start =< last /\ end = last + 1
  OBVIOUS
<1>2. start \div d < last \div d
  <2>1. start \div d =< last \div d
    BY <1>1, ZoneOrder
  <2>2. start \div d \in Nat /\ last \div d \in Nat
    BY <1>1, DivMod
  <2> QED
    BY <2>1, <2>2
<1>3. i \div d < last \div d => i < last
  BY <1>1, ZoneOrder
<1>4. end % d # 0 => end \div d = last \div d
  <2> DEFINE q == end \div d
             o == end % d
  <2>1. q \in Nat /\ o \in 0..(d - 1) /\ end = (d * q) + o /\ d * q \in Nat
    BY DivMod, Times
  <2> HIDE DEF q, o
  <2>2. ASSUME o # 0 PROVE last \div d = q
    <3>1. last = (d * q) + (o - 1) /\ o - 1 \in 0..(d - 1)
      BY <1>1, <2>1, <2>2
    <3> QED
      BY <1>1, <2>1, <3>1, Quotient
  <2> QED
    BY <2>2 DEF q, o
<1>5. start \div d < i \div d => start < i
  BY ZoneOrder
<1> QED
  BY <1>1, <1>2, <1>3, <1>4, <1>5

\* The zones from the start of a range to the end of a file.
LEMMA HoleEnd ==
    ASSUME NEW d \in Nat \ {0}, NEW start \in Nat, NEW end \in Nat, NEW k \in Nat,
           NEW p, p = Upward(start, d), NEW e, e = Upward(end, d)
    PROVE  (k * d >= start => k >= p) /\ (k >= e => k * d >= end)
<1> DEFINE x == k * d
<1>1. x \in Nat /\ x \div d = k
  BY Times
<1>2. ASSUME NEW n \in Nat PROVE (x >= n <=> k >= (n + d - 1) \div d)
  <2> DEFINE q == n \div d
             o == n % d
             r == (n + d - 1) \div d
  <2>1. q \in Nat /\ o \in 0..(d - 1) /\ n = (d * q) + o
    BY DivMod
  <2>2. r = IF o = 0 THEN q ELSE q + 1
    BY Ceiling
  <2> HIDE DEF r, q, o
  <2>3. d * q \in Nat /\ k * d = d * k
    BY <2>1, Times
  <2>4. (k < q => d * k + d =< d * q) /\ (q < k => d * q + d =< d * k)
    <3>1. (k < q => (k + 1) * d =< q * d) /\ (q < k => (q + 1) * d =< k * d)
      BY <2>1, Larger
    <3>2. (k + 1) * d = d * k + d /\ q * d = d * q /\ (q + 1) * d = d * q + d /\ k * d = d * k
      BY <2>1
    <3> QED
      BY <3>1, <3>2
  <2>5. x = d * k
    BY <2>3
  <2> HIDE DEF x
  <2>6. k = q => x = d * q
    BY <2>5
  <2>7. x >= n <=> k >= r
    BY <1>1, <2>1, <2>2, <2>3, <2>4, <2>5, <2>6
  <2> QED
    BY <2>7 DEF r
<1> QED
  BY <1>2 DEF Upward

LastUnits(s, pos) == {i \in Units(s) : Zone(s, i) = Zone(s, pos) /\ i >= pos}
FirstUnits(s, pos) == {i \in Units(s) : Zone(s, i) = Zone(s, pos) /\ i < pos}

LEMMA FilledAs ==
    ASSUME NEW s, NEW t, NEW f, NEW I, NEW J, NEW v, Filled(s, t, f, I, v),
           \A i \in Units(s) : i \in I <=> i \in J
    PROVE  Filled(s, t, f, J, v)
BY DEF Filled

LEMMA HalfFills ==
    ASSUME NEW s, Sound(s, lost), NEW f \in Files, NEW pos, Within(s, pos)
    PROVE  /\ Filled(s, zerozone_half(s, f, pos, "LAST_HALF"), f, LastUnits(s, pos), 0)
           /\ Filled(s, zerozone_half(s, f, pos, "FIRST_HALF"), f, FirstUnits(s, pos), 0)
<1> DEFINE zs == ZoneSize(s)
           o == pos % zs
           q == pos \div zs
           last == zerozone_half(s, f, pos, "LAST_HALF")
           first == zerozone_half(s, f, pos, "FIRST_HALF")
<1>1. /\ last = zerozone_range(s, f, pos, zs - o)
      /\ first = zerozone_range(s, f, pos - o, o)
  BY DEF zerozone_half
<1>2. zs \in Nat \ {0} /\ pos \in Nat /\ \A x \in Nat : Zone(s, x) = x \div zs
  BY SoundIs, ZoneIs DEF Within
<1>3. s.scale \in Scales
  BY SoundIs
<1> HIDE DEF zs, last, first
<1>4. q \in Nat /\ o \in 0..(zs - 1) /\ pos = (zs * q) + o /\ zs * q \in Nat
  BY <1>2, DivMod, Times
<1>5. Zone(s, pos) = q /\ q \in 0..(MaxZone - 1)
  BY <1>2 DEF Within
<1> HIDE DEF o, q
<1>6. ASSUME NEW x \in Nat, NEW j \in 0..(zs - 1), x = (zs * q) + j PROVE Zone(s, x) = q
  BY <1>2, <1>4, <1>6, Quotient
<1>7. ASSUME NEW i \in Units(s)
      PROVE  /\ i \in Nat
             /\ Zone(s, i) = q => \E j \in 0..(zs - 1) : i = (zs * q) + j
  <2>1. i \in Nat
    BY <1>3, UnitIs
  <2>2. i = (zs * (i \div zs)) + (i % zs) /\ i % zs \in 0..(zs - 1) /\ Zone(s, i) = i \div zs
    BY <1>2, <2>1, DivMod
  <2> QED
    BY <2>1, <2>2
<1>8. Filled(s, last, f, LastUnits(s, pos), 0)
  <2>1. zs - o \in Nat
    BY <1>2, <1>4
  <2>2. ASSUME NEW k \in 0..(zs - o - 1) PROVE Zone(s, pos + k) = Zone(s, pos)
    <3>1. pos + k \in Nat /\ o + k \in 0..(zs - 1) /\ pos + k = (zs * q) + (o + k)
      BY <1>2, <1>4
    <3> QED
      BY <1>5, <1>6, <3>1
  <2> DEFINE len == zs - o
  <2>3. len \in Nat /\ \A k \in 0..(len - 1) : Zone(s, pos + k) = Zone(s, pos)
    BY <2>1, <2>2
  <2>4. last = zerozone_range(s, f, pos, len) /\ len = zs - o
    BY <1>1
  <2> HIDE DEF len
  <2>5. Filled(s, last, f, pos..(pos + len - 1), 0)
    BY <2>3, <2>4, RangeFills
  <2>6. ASSUME NEW i \in Units(s) PROVE i \in pos..(pos + len - 1) <=> i \in LastUnits(s, pos)
    <3>1. i \in Nat /\ (Zone(s, i) = q => \E j \in 0..(zs - 1) : i = (zs * q) + j)
      BY <1>7
    <3>2. ASSUME Zone(s, i) = q PROVE i =< pos + len - 1
      <4>1. PICK j \in 0..(zs - 1) : i = (zs * q) + j
        BY <3>1, <3>2
      <4> QED
        BY <1>2, <1>4, <2>4, <4>1
    <3>3. ASSUME i \in pos..(pos + len - 1) PROVE Zone(s, i) = q
      <4>1. i = (zs * q) + (i - (zs * q)) /\ i - (zs * q) \in 0..(zs - 1)
        BY <1>2, <1>4, <2>4, <3>1, <3>3
      <4> QED
        BY <1>6, <3>1, <4>1
    <3>4. pos + len - 1 \in Int
      BY <1>2, <2>3
    <3> QED
      BY <1>2, <1>5, <3>1, <3>2, <3>3, <3>4 DEF LastUnits
  <2> QED
    BY <2>5, <2>6, FilledAs
<1>9. Filled(s, first, f, FirstUnits(s, pos), 0)
  <2> DEFINE x == pos - o
  <2>1. x = zs * q /\ x \in Nat /\ o \in Nat /\ 0 \in 0..(zs - 1) /\ x + o = pos
    BY <1>2, <1>4
  <2>2. first = zerozone_range(s, f, x, o)
    BY <1>1
  <2> HIDE DEF x
  <2>3. Zone(s, x) = q
    <3>1. x = (zs * q) + 0
      BY <2>1
    <3> QED
      BY <1>6, <2>1, <3>1
  <2>4. Within(s, x)
    BY <1>5, <2>1, <2>3 DEF Within
  <2>5. ASSUME NEW k \in 0..(o - 1) PROVE Zone(s, x + k) = Zone(s, x)
    <3>1. x + k \in Nat /\ k \in 0..(zs - 1) /\ x + k = (zs * q) + k
      BY <1>2, <1>4, <2>1
    <3> QED
      BY <1>6, <2>3, <3>1
  <2>6. Filled(s, first, f, x..(x + o - 1), 0)
    BY <2>1, <2>2, <2>4, <2>5, RangeFills
  <2>7. ASSUME NEW i \in Units(s) PROVE i \in x..(x + o - 1) <=> i \in FirstUnits(s, pos)
    <3>1. i \in Nat /\ (Zone(s, i) = q => \E j \in 0..(zs - 1) : i = (zs * q) + j)
      BY <1>7
    <3>2. ASSUME Zone(s, i) = q PROVE i >= x
      <4>1. PICK j \in 0..(zs - 1) : i = (zs * q) + j
        BY <3>1, <3>2
      <4> QED
        BY <1>2, <1>4, <2>1, <4>1
    <3>3. ASSUME i \in x..(x + o - 1) PROVE Zone(s, i) = q
      <4>1. i = (zs * q) + (i - (zs * q)) /\ i - (zs * q) \in 0..(zs - 1)
        BY <1>2, <1>4, <2>1, <3>1, <3>3
      <4> QED
        BY <1>6, <3>1, <4>1
    <3> QED
      BY <1>2, <1>5, <2>1, <3>1, <3>2, <3>3 DEF FirstUnits
  <2> QED
    BY <2>6, <2>7, FilledAs
<1> QED
  BY <1>8, <1>9 DEF last, first

\* A file loses zones, gains none.
FewerZones(s, t, f) ==
    \A k \in 0..(MaxZone - 1) : PlaceZone(s, f, k) = NO_ZONE => PlaceZone(t, f, k) = NO_ZONE

\* Units start to end - 1 show zero; what shows differently besides is past
\* the end, and shows zero.
Hole(s, t, f, start, end) ==
    \A i \in Units(s) :
        /\ i \in start..(end - 1) => Value(t, f, i) = 0
        /\ i \notin start..(end - 1) =>
             Value(t, f, i) = Value(s, f, i) \/ (i >= s.ino[f].size /\ Value(t, f, i) = 0)

\* Data are zeroed, in the range only.
Zeroed(s, t, f, I) == Rewritten(s, t) /\ Filled(s, t, f, I, 0)

LEMMA ZeroedAlong ==
    ASSUME NEW s, NEW t, NEW u, NEW f, NEW I, NEW J, Zeroed(s, t, f, I), Zeroed(t, u, f, J)
    PROVE  Zeroed(s, u, f, I \cup J)
<1>1. Rewritten(s, u)
  BY RewrittenAlong DEF Zeroed
<1>2. Units(t) = Units(s)
  BY DEF Units, MaxSize, ZoneSize, ZoneBlocks, Zeroed, Rewritten, Frame
<1>3. ASSUME NEW g \in Files, NEW i \in Units(s)
      PROVE  Value(u, g, i) = IF g = f /\ i \in I \cup J THEN 0 ELSE Value(s, g, i)
  <2>1. Value(t, g, i) = IF g = f /\ i \in I THEN 0 ELSE Value(s, g, i)
    BY DEF Zeroed, Filled
  <2>2. Value(u, g, i) = IF g = f /\ i \in J THEN 0 ELSE Value(t, g, i)
    BY <1>2 DEF Zeroed, Filled
  <2> QED
    BY <2>1, <2>2
<1> QED
  BY <1>1, <1>3 DEF Zeroed, Filled

LEMMA ZeroedKept ==
    ASSUME NEW s, NEW t, NEW f, NEW I, Zeroed(s, t, f, I)
    PROVE  Kept(s, t, f)
<1>1. ASSUME NEW g \in Files, g # f PROVE SameFile(s, t, g) /\ t.ino[g].size = s.ino[g].size
  <2>1. \A i \in Units(s) : Value(t, g, i) = Value(s, g, i)
    BY <1>1 DEF Zeroed, Filled
  <2> QED
    BY <1>1, <2>1 DEF SameFile, Zeroed, Rewritten, Frame
<1> QED
  BY <1>1 DEF Kept

NoneFrom(s, f, n) ==
    \A k \in 0..(MaxZone - 1) : k * ZoneSize(s) >= n => PlaceZone(s, f, k) = NO_ZONE

LEMMA ZeroedFewer ==
    ASSUME NEW s, NEW t, NEW f \in Files, NEW I, Zeroed(s, t, f, I)
    PROVE  FewerZones(s, t, f)
BY DEF Zeroed, Rewritten, FewerZones

\* A range of one zone.
LEMMA RangeHole ==
    ASSUME NEW s, Sound(s, lost), NEW f \in Files, NEW start \in Nat, NEW end \in Nat, start < end,
           end =< s.ino[f].size, start \div ZoneSize(s) = (end - 1) \div ZoneSize(s)
    PROVE  LET t == zerozone_range(s, f, start, end - start)
           IN /\ Sound(t, lost) /\ Frame(s, t) /\ Kept(s, t, f) /\ FewerZones(s, t, f)
              /\ Hole(s, t, f, start, end)
              /\ start % ZoneSize(s) # 0 /\ NoneFrom(s, f, end) => NoneFrom(t, f, start)
<1> DEFINE zs == ZoneSize(s)
           n == end - start
           t == zerozone_range(s, f, start, n)
<1>1. zs \in Nat \ {0} /\ (\A x \in Nat : Zone(s, x) = x \div zs) /\ s.scale \in Scales
  BY SoundIs, ZoneIs
<1>2. n \in Nat /\ start + n = end /\ s.ino[f].size \in Nat /\ s.ino[f].size =< MaxSize(s)
      /\ MaxSize(s) \in Nat /\ MaxZone \in Nat
  BY <1>1, SizeIs, SizesIs
<1>3. start \div zs = (end - 1) \div zs
  OBVIOUS
<1> HIDE DEF zs, n
<1>4. ASSUME NEW k \in 0..(n - 1) PROVE Zone(s, start + k) = Zone(s, start)
  <2>1. start + k \in Nat /\ start + k =< end - 1 /\ start =< start + k /\ end - 1 \in Nat
    BY <1>2
  <2>2. (start + k) \div zs = start \div zs
    <3>1. start \div zs =< (start + k) \div zs /\ (start + k) \div zs =< (end - 1) \div zs
      BY <1>1, <2>1, ZoneOrder
    <3>2. start \div zs \in Int /\ (start + k) \div zs \in Int
      BY <1>1, <2>1, DivMod
    <3> QED
      BY <1>3, <3>1, <3>2
  <2> QED
    BY <1>1, <2>1, <2>2
<1>5. Within(s, start)
  BY <1>1, <1>2, WithinBelow
<1>6. Sound(t, lost) /\ Rewritten(s, t)
  BY <1>2, <1>4, <1>5, RangeSound
<1>7. Filled(s, t, f, start..(start + n - 1), 0)
  BY <1>2, <1>4, <1>5, RangeFills
<1> HIDE DEF t
<1>8. start + n - 1 = end - 1
  BY <1>2
<1>9. Zeroed(s, t, f, start..(end - 1))
  BY <1>6, <1>7, <1>8 DEF Zeroed
<1>10. Frame(s, t) /\ Kept(s, t, f) /\ FewerZones(s, t, f)
  BY <1>6, <1>9, ZeroedKept, ZeroedFewer DEF Rewritten
<1>11. Hole(s, t, f, start, end)
  BY <1>9 DEF Zeroed, Filled, Hole
<1>12. ASSUME start % zs # 0, NoneFrom(s, f, end) PROVE NoneFrom(t, f, start)
  <2> SUFFICES ASSUME NEW k \in 0..(MaxZone - 1), k * ZoneSize(t) >= start
               PROVE  PlaceZone(t, f, k) = NO_ZONE
    BY DEF NoneFrom
  <2>1. ZoneSize(t) = zs /\ k \in Nat
    BY <1>2, <1>10 DEF zs, ZoneSize, ZoneBlocks, Frame
  <2> DEFINE x == k * zs
             a == start \div zs
             b == (end - 1) \div zs
  <2>2. x \in Nat /\ x \div zs = k /\ x >= start
    BY <1>1, <2>1, Times
  <2>3. a \in Nat /\ start % zs \in Nat /\ start = (zs * a) + (start % zs) /\ a = b
    <3>1. a = b
      BY <1>3
    <3> HIDE DEF b
    <3>2. a \in Nat /\ start % zs \in 0..(zs - 1) /\ start = (zs * a) + (start % zs)
      BY <1>1, DivMod
    <3> HIDE DEF a
    <3> QED
      BY <1>1, <3>1, <3>2
  <2>4. k >= a
    <3> HIDE DEF x
    <3>1. x \div zs >= start \div zs
      BY <1>1, <2>2, ZoneOrder
    <3> HIDE DEF a
    <3>2. x \div zs >= a
      BY <3>1 DEF a
    <3> QED
      BY <2>2, <3>2
  <2>5. k # a
    <3>1. ASSUME k = a PROVE FALSE
      <4> DEFINE o == start % zs
                 y == zs * a
      <4>1. start = y + o /\ o \in Nat /\ o # 0 /\ x = y /\ y \in Nat
        BY <1>1, <1>12, <2>1, <2>3, <3>1, Times
      <4> HIDE DEF o, y, x, a
      <4> QED
        BY <2>2, <4>1
    <3> QED
      BY <3>1
  <2> HIDE DEF x, a, b
  <2>6. b < x \div zs /\ end - 1 \in Nat
    BY <1>2, <2>1, <2>2, <2>3, <2>4, <2>5
  <2>7. end - 1 < x
    BY <1>1, <2>2, <2>6, ZoneOrder DEF b
  <2>8. k * ZoneSize(s) >= end
    BY <2>2, <2>7 DEF x, zs
  <2>9. PlaceZone(s, f, k) = NO_ZONE
    BY <1>12, <2>8 DEF NoneFrom
  <2> QED
    BY <1>6, <2>9 DEF Rewritten
<1> QED
  BY <1>6, <1>10, <1>11, <1>12 DEF t, n, zs

\* Zones of the range are freed, when the parts of others are zeroed.
LEMMA ZonesHole ==
    ASSUME NEW s, Sound(s, lost), NEW u, Sound(u, lost), NEW f \in Files, NEW I, Zeroed(s, u, f, I),
           NEW start \in Nat, NEW end \in Nat, NEW c \in {0, 1},
           c = 1 => end % ZoneSize(s) # 0 /\ end = s.ino[f].size, end =< s.ino[f].size,
           NEW p, p = Upward(start, ZoneSize(s)),
           NEW e, e = end \div ZoneSize(s) + c, e =< MaxZone,
           \A i \in Units(s) : i \in I => i \in start..(end - 1),
           \A i \in Units(s) :
              /\ start % ZoneSize(s) # 0 /\ Zone(s, i) = start \div ZoneSize(s) /\ i >= start => i \in I
              /\ c = 0 /\ end % ZoneSize(s) # 0 /\ Zone(s, i) = end \div ZoneSize(s) /\ i < end => i \in I
    PROVE  LET t == free_zones(u, f, p, e)
           IN /\ Sound(t, lost) /\ Frame(s, t) /\ Kept(s, t, f) /\ FewerZones(s, t, f)
              /\ Hole(s, t, f, start, end)
              /\ \A k \in 0..(MaxZone - 1) : k \in p..(e - 1) => PlaceZone(t, f, k) = NO_ZONE
<1> DEFINE zs == ZoneSize(s)
           t == free_zones(u, f, p, e)
<1>1. /\ zs \in Nat \ {0} /\ (\A x \in Nat : Zone(s, x) = x \div zs) /\ s.scale \in Scales
      /\ u.scale = s.scale /\ MaxZone \in Nat /\ s.ino[f].size \in Nat
  BY SoundIs, ZoneIs, SizesIs, SizeIs DEF Zeroed, Rewritten, Frame
<1> HIDE DEF zs
<1>2. /\ c = 1 => end % zs # 0 /\ end = s.ino[f].size
      /\ p = Upward(start, zs) /\ e = end \div zs + c
      /\ \A i \in Units(s) :
           /\ start % zs # 0 /\ Zone(s, i) = start \div zs /\ i >= start => i \in I
           /\ c = 0 /\ end % zs # 0 /\ Zone(s, i) = end \div zs /\ i < end => i \in I
  BY DEF zs
<1>3. ASSUME NEW i \in Nat
      PROVE  p \in Nat /\ e \in Nat /\ HoleUnit(zs, start, end, c, p, e, i)
  <2>1. zs \in Nat \ {0} /\ (c = 1 => end % zs # 0) /\ p = Upward(start, zs) /\ e = end \div zs + c
    BY <1>1, <1>2
  <2> QED
    BY <2>1, HoleZones
<1>4. /\ Sound(t, lost) /\ Frame(u, t)
      /\ \A g \in Files, z \in 0..(MaxZone - 1) :
           IF g = f /\ z \in p..(e - 1) THEN PlaceZone(t, g, z) = NO_ZONE ELSE LikeAt(u, t, g, z)
  <2>1. p \in Nat /\ e \in Int
    BY <1>3
  <2> QED
    BY <2>1, FreeZonesSound
<1> HIDE DEF t
<1>5. Frame(s, u) /\ Frame(s, t) /\ t.scale = u.scale /\ Units(u) = Units(s)
  BY <1>4, FrameAlong DEF Zeroed, Rewritten, Frame, Units, MaxSize, ZoneSize, ZoneBlocks
<1>6. Kept(s, t, f)
  <2>1. ASSUME NEW g \in Files, g # f PROVE SameFile(u, t, g) /\ t.ino[g].size = u.ino[g].size
    <3>1. \A k \in 0..(MaxZone - 1) : LikeAt(u, t, g, k)
      BY <1>4, <2>1
    <3> QED
      BY <1>4, <1>5, <3>1, LikeFile DEF Frame
  <2>2. Kept(u, t, f)
    BY <2>1 DEF Kept
  <2>3. Kept(s, u, f)
    BY ZeroedKept
  <2> QED
    BY <1>1, <2>2, <2>3, KeptAlong
<1>7. FewerZones(s, t, f)
  <2>1. FewerZones(s, u, f)
    BY ZeroedFewer
  <2>2. ASSUME NEW k \in 0..(MaxZone - 1), PlaceZone(u, f, k) = NO_ZONE PROVE PlaceZone(t, f, k) = NO_ZONE
    BY <1>4, <2>2 DEF LikeAt
  <2> QED
    BY <2>1, <2>2 DEF FewerZones
<1>8. ASSUME NEW i \in Units(s)
      PROVE  /\ i \in start..(end - 1) => Value(t, f, i) = 0
             /\ i \notin start..(end - 1) =>
                  Value(t, f, i) = Value(s, f, i) \/ (i >= s.ino[f].size /\ Value(t, f, i) = 0)
  <2> DEFINE k == i \div zs
  <2>1. i \in Nat /\ Within(s, i) /\ Zone(s, i) = k
    BY <1>1, UnitIs
  <2>2. k \in 0..(MaxZone - 1) /\ Within(t, i) /\ Zone(t, i) = k /\ Within(u, i) /\ Zone(u, i) = k
    BY <1>1, <1>5, <2>1, WithinFrame DEF Within
  <2>3. /\ k \in p..(e - 1) => i >= start /\ (c = 0 => i < end)
        /\ k \notin p..(e - 1) /\ i >= start /\ i < end =>
             \/ start % zs # 0 /\ k = start \div zs
             \/ c = 0 /\ end % zs # 0 /\ k = end \div zs
    BY <1>3, <2>1 DEF HoleUnit
  <2> HIDE DEF k
  <2>4. CASE k \in p..(e - 1)
    <3>1. PlaceZone(t, f, k) = NO_ZONE
      BY <1>4, <2>2, <2>4
    <3>2. Value(t, f, i) = 0
      BY <1>4, <2>2, <3>1, ValueIs
    <3>3. i \notin start..(end - 1) => i >= s.ino[f].size
      BY <1>1, <1>2, <2>1, <2>3, <2>4
    <3> QED
      BY <3>2, <3>3
  <2>5. CASE k \notin p..(e - 1)
    <3>1. LikeAt(u, t, f, Zone(u, i))
      BY <1>4, <2>2, <2>5
    <3>2. Value(t, f, i) = Value(u, f, i)
      BY <1>4, <1>5, <2>2, <3>1, LikeValue
    <3>3. Value(u, f, i) = IF i \in I THEN 0 ELSE Value(s, f, i)
      BY DEF Zeroed, Filled
    <3>4. i \in start..(end - 1) <=> i \in I
      <4>1. ASSUME i \in start..(end - 1) PROVE i \in I
        <5>1. i >= start /\ i < end
          BY <4>1, <2>1
        <5> QED
          BY <1>2, <2>1, <2>3, <2>5, <5>1
      <4> QED
        BY <4>1
    <3> QED
      BY <3>2, <3>3, <3>4
  <2> QED
    BY <2>4, <2>5
<1>9. Hole(s, t, f, start, end)
  BY <1>8 DEF Hole
<1> QED
  BY <1>4, <1>5, <1>6, <1>7, <1>9 DEF t

\* What freesp_inode does to the file.
FreedFile(s, r, f, start, end) ==
    /\ Kept(s, r.s, f) /\ FewerZones(s, r.s, f)
    /\ end =< start => r.s = s /\ r.r = "EINVAL"
    /\ start < end => r.r = "OK" /\ Hole(s, r.s, f, start, end)
    /\ start < end /\ end = s.ino[f].size /\ NoneFrom(s, f, end) => NoneFrom(r.s, f, start)

LEMMA FreespContent ==
    ASSUME NEW s, Sound(s, lost), NEW f \in Files, NEW start \in Nat, NEW end0 \in Nat
    PROVE  FreedFile(s, freesp_inode(s, f, start, end0), f, start, Min({end0, s.ino[f].size}))
<1> DEFINE zs == ZoneSize(s)
           size == s.ino[f].size
           end == Min({end0, size})
           last == start % zs # 0
           first == end % zs # 0 /\ end < size
           t == IF last THEN zerozone_half(s, f, start, "LAST_HALF") ELSE s
           u == IF first THEN zerozone_half(t, f, end, "FIRST_HALF") ELSE t
           c == IF end = size /\ end % zs # 0 THEN 1 ELSE 0
           e == (end \div zs) + c
           p == nextblock(s, start) \div zs
           r == freesp_inode(s, f, start, end0)
<1>1. r = IF end <= start THEN [s |-> s, r |-> "EINVAL"]
          ELSE IF start \div zs = (end - 1) \div zs /\ (last \/ first)
          THEN [s |-> zerozone_range(s, f, start, end - start), r |-> "OK"]
          ELSE [s |-> free_zones(u, f, p, e), r |-> "OK"]
  BY Zenon DEF freesp_inode
<1>2. zs \in Nat \ {0} /\ (\A x \in Nat : Zone(s, x) = x \div zs) /\ zs = ZoneSize(s)
  BY SoundIs, ZoneIs
<1>3. MaxZone \in Nat /\ MaxSize(s) \in Nat /\ MaxSize(s) = MaxZone * zs /\ s.scale \in Scales
  BY SoundIs, SizesIs
<1>4. size \in Nat /\ size =< MaxSize(s) /\ size = s.ino[f].size
  BY SizeIs
<1> HIDE DEF size
<1>5. end \in Nat /\ end =< size
  BY <1>4, MinOfTwo
<1>6. p = ((((start + zs - 1) \div zs) * zs) \div zs)
  BY DEF nextblock
<1> SUFFICES FreedFile(s, r, f, start, end)
  BY DEF size
<1> HIDE DEF r, p, zs
<1> HIDE DEF end
<1>7. p = Upward(start, zs) /\ p \in Nat
  <2> DEFINE x == (start + zs - 1) \div zs
  <2>1. start + zs - 1 \in Nat
    BY <1>2
  <2>2. x \in Nat
    BY <1>2, <2>1, DivMod
  <2>3. p = (x * zs) \div zs
    BY <1>6
  <2> HIDE DEF x
  <2>4. p = x
    BY <1>2, <2>2, <2>3, Times
  <2> QED
    BY <2>2, <2>4 DEF x, Upward
<1>8. CASE end <= start
  <2>1. r.s = s /\ r.r = "EINVAL"
    BY <1>1, <1>8
  <2>2. ~(start < end)
    BY <1>5, <1>8
  <2>3. Kept(s, s, f) /\ FewerZones(s, s, f)
    BY KeptSelf DEF FewerZones
  <2> QED
    BY <2>1, <2>2, <2>3 DEF FreedFile
<1>9. CASE ~(end <= start) /\ start \div zs = (end - 1) \div zs /\ (last \/ first)
  <2> DEFINE w == zerozone_range(s, f, start, end - start)
  <2>1. r.s = w /\ r.r = "OK" /\ start < end
    BY <1>1, <1>5, <1>9
  <2>2. /\ Kept(s, w, f) /\ FewerZones(s, w, f) /\ Hole(s, w, f, start, end)
        /\ start % zs # 0 /\ NoneFrom(s, f, end) => NoneFrom(w, f, start)
    BY <1>2, <1>4, <1>5, <1>9, <2>1, RangeHole
  <2> HIDE DEF w
  <2>3. end = size => start % zs # 0
    BY <1>4, <1>9
  <2>4. ~(end =< start)
    BY <1>9
  <2> QED
    BY <1>4, <2>1, <2>2, <2>3, <2>4 DEF FreedFile
<1>10. CASE ~(end <= start) /\ ~(start \div zs = (end - 1) \div zs /\ (last \/ first))
  <2> DEFINE w == free_zones(u, f, p, e)
             I == IF last THEN LastUnits(s, start) ELSE {}
             J == IF first THEN FirstUnits(s, end) ELSE {}
  <2>1. r.s = w /\ r.r = "OK" /\ start < end
    BY <1>1, <1>5, <1>10
  <2>2. Zeroed(s, s, f, {})
    BY FilledSame DEF Zeroed, Rewritten, Frame
  <2>3. Sound(t, lost) /\ Zeroed(s, t, f, I)
    <3>1. Within(s, start)
      BY <1>3, <1>4, <1>5, <2>1, WithinBelow
    <3>2. Sound(zerozone_half(s, f, start, "LAST_HALF"), lost)
          /\ Zeroed(s, zerozone_half(s, f, start, "LAST_HALF"), f, LastUnits(s, start))
      BY <3>1, HalfSound, HalfFills DEF Zeroed
    <3> QED
      BY <2>2, <3>2
  <2> HIDE DEF t
  <2>4. t.scale = s.scale /\ \A x : Zone(t, x) = Zone(s, x)
    BY <2>3 DEF Zeroed, Rewritten, Frame, Zone, ZoneBlocks
  <2>5. FirstUnits(t, end) = FirstUnits(s, end)
    <3>1. Units(t) = Units(s)
      BY <2>4 DEF Units, MaxSize, ZoneSize, ZoneBlocks
    <3> QED
      BY <2>4, <3>1 DEF FirstUnits
  <2>6. Sound(u, lost) /\ Zeroed(s, u, f, I \cup J)
    <3>1. CASE first
      <4>1. Within(s, end)
        BY <1>3, <1>4, <1>5, <3>1, WithinBelow
      <4>2. Within(t, end)
        BY <2>4, <4>1, WithinFrame
      <4>3. Sound(zerozone_half(t, f, end, "FIRST_HALF"), lost)
            /\ Zeroed(t, zerozone_half(t, f, end, "FIRST_HALF"), f, FirstUnits(s, end))
        BY <2>3, <2>5, <4>2, HalfSound, HalfFills DEF Zeroed
      <4>4. u = zerozone_half(t, f, end, "FIRST_HALF") /\ J = FirstUnits(s, end)
        BY <3>1
      <4> HIDE DEF I, J
      <4> QED
        BY <2>3, <4>3, <4>4, ZeroedAlong
    <3>2. CASE ~first
      <4>1. u = t /\ I \cup J = I
        BY <3>2
      <4> QED
        BY <2>3, <4>1
    <3> QED
      BY <3>1, <3>2
  <2> HIDE DEF u
  <2>7. c \in {0, 1} /\ (c = 1 => end % zs # 0 /\ end = size) /\ (c = 0 /\ end = size => end % zs = 0)
        /\ (c = 0 /\ end % zs # 0 => first)
    BY <1>4, <1>5
  <2> HIDE DEF c
  <2>8. e \in Int /\ e =< MaxZone
    <3>1. end =< MaxZone * zs
      BY <1>3, <1>4, <1>5
    <3> QED
      BY <1>2, <1>3, <1>5, <2>7, <3>1, ZonesOfRange
  <2>9. e = end \div zs + c
    OBVIOUS
  <2> HIDE DEF e
  <2>10. ASSUME NEW i \in Units(s)
         PROVE  /\ i \in I \cup J => i \in start..(end - 1)
                /\ start % zs # 0 /\ Zone(s, i) = start \div zs /\ i >= start => i \in I \cup J
                /\ c = 0 /\ end % zs # 0 /\ Zone(s, i) = end \div zs /\ i < end => i \in I \cup J
    <3>1. i \in Nat /\ Zone(s, i) = i \div zs /\ Zone(s, start) = start \div zs /\ Zone(s, end) = end \div zs
      BY <1>2, <1>3, <1>5, UnitIs
    <3>2. ASSUME i \in I PROVE i \in start..(end - 1)
      <4>1. last /\ Zone(s, i) = Zone(s, start) /\ i >= start
        BY <3>2 DEF LastUnits
      <4>2. start \div zs # (end - 1) \div zs
        BY <1>10, <4>1
      <4>3. i < end
        BY <1>2, <1>5, <2>1, <3>1, <4>1, <4>2, HoleHalves
      <4> QED
        BY <1>5, <3>1, <4>1, <4>3
    <3>3. ASSUME i \in J PROVE i \in start..(end - 1)
      <4>1. first /\ Zone(s, i) = Zone(s, end) /\ i < end
        BY <3>3 DEF FirstUnits
      <4>2. start \div zs # (end - 1) \div zs
        BY <1>10, <4>1
      <4>3. i >= start
        BY <1>2, <1>5, <2>1, <3>1, <4>1, <4>2, HoleHalves
      <4> QED
        BY <1>5, <3>1, <4>1, <4>3
    <3>4. start % zs # 0 /\ Zone(s, i) = start \div zs /\ i >= start => i \in I
      BY <3>1 DEF LastUnits
    <3>5. c = 0 /\ end % zs # 0 /\ Zone(s, i) = end \div zs /\ i < end => i \in J
      BY <2>7, <3>1 DEF FirstUnits
    <3> QED
      BY <3>2, <3>3, <3>4, <3>5
  <2> DEFINE K == I \cup J
  <2>11. /\ Zeroed(s, u, f, K)
         /\ \A i \in Units(s) : i \in K => i \in start..(end - 1)
         /\ \A i \in Units(s) :
              /\ start % ZoneSize(s) # 0 /\ Zone(s, i) = start \div ZoneSize(s) /\ i >= start => i \in K
              /\ c = 0 /\ end % ZoneSize(s) # 0 /\ Zone(s, i) = end \div ZoneSize(s) /\ i < end => i \in K
    BY <1>2, <2>6, <2>10
  <2> HIDE DEF K
  <2>12. /\ p = Upward(start, ZoneSize(s)) /\ e = end \div ZoneSize(s) + c
         /\ c = 1 => end % ZoneSize(s) # 0 /\ end = s.ino[f].size
         /\ end =< s.ino[f].size
    BY <1>2, <1>4, <1>5, <1>7, <2>7, <2>9
  <2>13. /\ Frame(s, w) /\ Kept(s, w, f) /\ FewerZones(s, w, f) /\ Hole(s, w, f, start, end)
         /\ \A k \in 0..(MaxZone - 1) : k \in p..(e - 1) => PlaceZone(w, f, k) = NO_ZONE
    BY <1>5, <2>6, <2>7, <2>8, <2>11, <2>12, ZonesHole
  <2> HIDE DEF w
  <2>14. ASSUME end = size, NoneFrom(s, f, end) PROVE NoneFrom(w, f, start)
    <3> SUFFICES ASSUME NEW k \in 0..(MaxZone - 1), k * ZoneSize(w) >= start
                 PROVE  PlaceZone(w, f, k) = NO_ZONE
      BY DEF NoneFrom
    <3>1. ZoneSize(w) = zs /\ k \in Nat
      BY <1>2, <1>3, <2>13 DEF ZoneSize, ZoneBlocks, Frame
    <3>2. e = Upward(end, zs)
      <4>1. Upward(end, zs) = IF end % zs = 0 THEN end \div zs ELSE end \div zs + 1
        BY <1>2, <1>5, Ceiling DEF Upward
      <4>2. end \div zs \in Nat
        BY <1>2, <1>5, DivMod
      <4> QED
        BY <2>7, <2>9, <2>14, <4>1, <4>2
    <3>3. k >= p /\ (k >= e => k * zs >= end)
      <4>1. zs \in Nat \ {0} /\ p = Upward(start, zs) /\ k \in Nat /\ end \in Nat
        BY <1>2, <1>5, <1>7, <3>1
      <4>2. (k * zs >= start => k >= p) /\ (k >= e => k * zs >= end)
        BY <3>2, <4>1, HoleEnd
      <4>3. k * zs >= start
        BY <3>1
      <4> QED
        BY <4>2, <4>3
    <3>4. CASE k >= e
      <4>1. PlaceZone(s, f, k) = NO_ZONE
        BY <1>2, <2>14, <3>3, <3>4 DEF NoneFrom
      <4> QED
        BY <2>13, <4>1 DEF FewerZones
    <3>5. CASE ~(k >= e)
      <4>1. k \in p..(e - 1)
        BY <1>7, <2>8, <3>1, <3>3, <3>5
      <4> QED
        BY <2>13, <4>1
    <3> QED
      BY <3>4, <3>5
  <2>15. ~(end =< start)
    BY <1>10
  <2> QED
    BY <1>4, <2>1, <2>13, <2>14, <2>15 DEF FreedFile
<1> QED
  BY <1>8, <1>9, <1>10

\* What is left of a file that is cut has nothing past its end.
LEMMA CutEnds ==
    ASSUME NEW s, s.scale \in Scales, NEW t, t.scale = s.scale, NEW f \in Files, NEW n \in Nat,
           NEW size \in Nat, size = s.ino[f].size, n < size, Ends(s, f, size), Hole(s, t, f, n, size),
           NoneFrom(t, f, n)
    PROVE  Ends(t, f, n)
<1>1. Units(t) = Units(s) /\ U \in Nat \ {0}
  BY MfsFileAssumption DEF Units, MaxSize, ZoneSize, ZoneBlocks
<1>2. ASSUME NEW i \in Units(s), i >= n, i \div U = n \div U, n % U # 0
      PROVE  Value(t, f, i) = 0
  <2>1. i \in Nat
    BY UnitIs
  <2>2. CASE i < size
    <3>1. i \in n..(size - 1)
      BY <1>2, <2>1, <2>2
    <3> QED
      BY <3>1 DEF Hole
  <2>3. CASE i >= size
    <3>1. n \div U =< size \div U /\ size \div U =< i \div U
      BY <1>1, <2>1, <2>3, ZoneOrder
    <3>2. n \div U \in Nat /\ size \div U \in Nat
      BY <1>1, DivMod
    <3>3. size \div U = n \div U
      <4> DEFINE a == n \div U
                 b == size \div U
                 c == i \div U
      <4>1. a =< b /\ b =< c /\ c = a /\ a \in Nat /\ b \in Nat
        BY <1>2, <3>1, <3>2
      <4> HIDE DEF a, b, c
      <4>2. b = a
        BY <4>1
      <4> QED
        BY <4>2 DEF a, b
    <3>4. size % U # 0
      <4>1. ASSUME size % U = 0 PROVE FALSE
        <5>1. n >= size
          BY <3>3, <4>1, BlockStart
        <5> QED
          BY <5>1
      <4> QED
        BY <4>1
    <3>5. Value(s, f, i) = 0
      BY <1>2, <2>3, <3>3, <3>4 DEF Ends
    <3>6. i \notin n..(size - 1)
      BY <2>1, <2>3
    <3>7. Value(t, f, i) = Value(s, f, i) \/ Value(t, f, i) = 0
      BY <3>6 DEF Hole
    <3> QED
      BY <3>5, <3>7
  <2> QED
    BY <2>1, <2>2, <2>3
<1> QED
  BY <1>1, <1>2 DEF Ends, NoneFrom

\* A hole leaves the end of a file as it was.
LEMMA HoleEnds ==
    ASSUME NEW s, s.scale \in Scales, NEW t, t.scale = s.scale, NEW f \in Files, NEW start,
           NEW end \in Nat, NEW size \in Nat, size = s.ino[f].size, end =< size, Ends(s, f, size),
           Hole(s, t, f, start, end), FewerZones(s, t, f)
    PROVE  Ends(t, f, size)
<1>1. Units(t) = Units(s) /\ ZoneSize(t) = ZoneSize(s)
  BY DEF Units, MaxSize, ZoneSize, ZoneBlocks
<1>2. ASSUME NEW i \in Units(s), i >= size, i \div U = size \div U, size % U # 0
      PROVE  Value(t, f, i) = 0
  <2>1. i \in Nat
    BY UnitIs
  <2>2. i \notin start..(end - 1)
    BY <1>2, <2>1
  <2>3. Value(t, f, i) = Value(s, f, i) \/ Value(t, f, i) = 0
    BY <2>2 DEF Hole
  <2>4. Value(s, f, i) = 0
    BY <1>2 DEF Ends
  <2> QED
    BY <2>3, <2>4
<1>3. ASSUME NEW k \in 0..(MaxZone - 1), k * ZoneSize(t) >= size PROVE PlaceZone(t, f, k) = NO_ZONE
  BY <1>1, <1>3 DEF Ends, FewerZones
<1> QED
  BY <1>1, <1>2, <1>3 DEF Ends

\* What truncate_inode makes of the file.
Resized(s, t, f) ==
    \A i \in Units(s) :
        i < t.ino[f].size => Value(t, f, i) = IF i < s.ino[f].size THEN Value(s, f, i) ELSE 0

LEMMA TruncateContent ==
    ASSUME NEW s, Sound(s, lost), Tidy(s), NEW f \in Files, NEW newsize \in Nat
    PROVE  LET r == truncate_inode(s, f, newsize)
           IN /\ newsize > MaxSize(s) => r.s = s /\ r.r = "EFBIG"
              /\ newsize =< MaxSize(s) =>
                   /\ r.r = "OK" /\ Sound(r.s, lost) /\ r.s.scale = s.scale /\ Tidy(r.s)
                   /\ Kept(s, r.s, f) /\ r.s.ino[f].size = newsize /\ Resized(s, r.s, f)
<1> DEFINE size == s.ino[f].size
           cut == IF newsize < size THEN freesp_inode(s, f, newsize, size).s ELSE s
           t == IF newsize > size THEN clear_zone(cut, f, size, FALSE) ELSE cut
           r == truncate_inode(s, f, newsize)
<1>1. r = IF newsize > MaxSize(s) THEN [s |-> s, r |-> "EFBIG"]
          ELSE [s |-> [t EXCEPT !.ino[f].size = newsize], r |-> "OK"]
  BY Zenon DEF truncate_inode
<1>2. /\ MaxSize(s) \in Nat /\ size \in Nat /\ size =< MaxSize(s) /\ s.scale \in Scales
      /\ size = s.ino[f].size
  BY SoundIs, SizeIs, SizesIs
<1>3. Ends(s, f, size)
  BY DEF Tidy
<1>4. /\ cut = IF newsize < size THEN freesp_inode(s, f, newsize, size).s ELSE s
      /\ t = IF newsize > size THEN clear_zone(cut, f, size, FALSE) ELSE cut
  BY Zenon
<1> HIDE DEF r, size, t, cut
<1>5. CASE newsize > MaxSize(s)
  <2>1. r.s = s /\ r.r = "EFBIG" /\ ~(newsize =< MaxSize(s))
    BY <1>1, <1>2, <1>5
  <2> QED
    BY <2>1 DEF r
<1>6. CASE newsize =< MaxSize(s)
  <2>1. /\ Sound(t, lost) /\ t.scale = s.scale /\ Kept(s, t, f) /\ Ends(t, f, newsize)
        /\ \A i \in Units(s) :
             i < newsize => Value(t, f, i) = IF i < size THEN Value(s, f, i) ELSE 0
    <3>1. CASE newsize < size
      <4> DEFINE u == freesp_inode(s, f, newsize, size)
      <4>1. t = u.s
        <5>1. newsize < size /\ ~(newsize > size)
          BY <1>2, <3>1
        <5> QED
          BY <1>4, <5>1, Zenon
      <4>2. FreedFile(s, u, f, newsize, Min({size, s.ino[f].size}))
        BY <1>2, FreespContent
      <4>3. Sound(u.s, lost) /\ Frame(s, u.s)
        BY <1>2, FreespSound
      <4> HIDE DEF u
      <4>4. Min({size, s.ino[f].size}) = size
        BY <1>2, MinOfTwo
      <4>5. FreedFile(s, u, f, newsize, size)
        BY <4>2, <4>4
      <4>6. NoneFrom(s, f, size)
        BY <1>3 DEF Ends, NoneFrom
      <4>7. Kept(s, t, f) /\ Hole(s, t, f, newsize, size) /\ NoneFrom(t, f, newsize)
        BY <1>2, <3>1, <4>1, <4>5, <4>6 DEF FreedFile
      <4>8. Sound(t, lost) /\ t.scale = s.scale
        BY <4>1, <4>3 DEF Frame
      <4>9. Ends(t, f, newsize)
        BY <1>2, <1>3, <3>1, <4>7, <4>8, CutEnds
      <4>10. ASSUME NEW i \in Units(s), i < newsize
             PROVE  Value(t, f, i) = IF i < size THEN Value(s, f, i) ELSE 0
        <5>1. i \in Nat
          BY <1>2, UnitIs
        <5>2. i \notin newsize..(size - 1) /\ ~(i >= size) /\ i < size
          BY <1>2, <3>1, <4>10, <5>1
        <5>3. Value(t, f, i) = Value(s, f, i)
          BY <1>2, <4>7, <5>2 DEF Hole
        <5> QED
          BY <5>2, <5>3
      <4> QED
        BY <4>7, <4>8, <4>9, <4>10
    <3>2. CASE newsize > size
      <4>1. t = clear_zone(s, f, size, FALSE)
        <5>1. newsize > size /\ ~(newsize < size)
          BY <1>2, <3>2
        <5> QED
          BY <1>4, <5>1, Zenon
      <4>2. Within(s, size)
        BY <1>2, <1>6, <3>2, WithinBelow
      <4>3. Sound(t, lost) /\ Rewritten(s, t) /\ Grown(s, t, f, size)
        BY <1>3, <4>1, <4>2, GrowClear
      <4>4. Kept(s, t, f) /\ t.scale = s.scale
        BY <4>3, GrownKept DEF Rewritten, Frame
      <4>5. Ends(t, f, newsize)
        BY <1>2, <1>3, <3>2, <4>3, GrownEnds
      <4>6. ASSUME NEW i \in Units(s)
            PROVE  Value(t, f, i) = IF i < size THEN Value(s, f, i) ELSE 0
        <5>1. i \in Nat
          BY <1>2, UnitIs
        <5>2. Value(t, f, i) = IF i >= size THEN 0 ELSE Value(s, f, i)
          BY <4>3 DEF Grown
        <5>3. i >= size <=> ~(i < size)
          BY <1>2, <5>1
        <5> QED
          BY <5>2, <5>3
      <4> QED
        BY <4>3, <4>4, <4>5, <4>6
    <3>3. CASE newsize = size
      <4>1. t = s
        <5>1. ~(newsize < size) /\ ~(newsize > size)
          BY <1>2, <3>3
        <5> QED
          BY <1>4, <5>1, Zenon
      <4>2. Kept(s, s, f)
        BY KeptSelf
      <4>3. ASSUME NEW i \in Units(s), i < newsize
            PROVE  Value(s, f, i) = IF i < size THEN Value(s, f, i) ELSE 0
        BY <3>3, <4>3
      <4> QED
        BY <1>3, <3>3, <4>1, <4>2, <4>3
    <3> QED
      BY <1>2, <3>1, <3>2, <3>3
  <2> DEFINE u == [t EXCEPT !.ino[f].size = newsize]
  <2>2. r.s = u /\ r.r = "OK" /\ ~(newsize > MaxSize(s))
    BY <1>1, <1>2, <1>6
  <2>3. newsize \in 0..MaxSize(t)
    BY <1>2, <1>6, <2>1 DEF MaxSize, ZoneSize, ZoneBlocks
  <2>4. /\ Sound(u, lost) /\ u.scale = t.scale /\ u.ino[f].size = newsize /\ Kept(t, u, f)
        /\ SameFile(t, u, f)
    BY <2>1, <2>3, SizePutKept
  <2> HIDE DEF u
  <2>5. Kept(s, u, f) /\ u.scale = s.scale
    BY <2>1, <2>4, KeptAlong
  <2>6. Ends(u, f, u.ino[f].size)
    BY <2>1, <2>4, SameEnds
  <2>7. Tidy(u)
    BY <2>5, <2>6, TidyAfter
  <2>8. Resized(s, u, f)
    <3>1. Units(t) = Units(s)
      BY <2>1 DEF Units, MaxSize, ZoneSize, ZoneBlocks
    <3>2. ASSUME NEW i \in Units(s) PROVE Value(u, f, i) = Value(t, f, i)
      BY <2>4, <3>1 DEF SameFile
    <3> QED
      BY <1>2, <2>1, <2>4, <3>2 DEF Resized
  <2> QED
    BY <2>2, <2>4, <2>5, <2>7, <2>8 DEF r
<1> QED
  BY <1>2, <1>5, <1>6

-----------------------------------------------------------------------------
(* The contents of files are those of sparse files. *)

Contents(s, f) == [i \in 1..s.ino[f].size |-> Value(s, f, i - 1)]

LEMMA ContentIs == \A f : Content(f) = Contents(fs, f)
BY DEF Content, Contents, Value

LEMMA ContentNext == \A f : Content(f)' = Contents(fs', f)
BY DEF Content, Contents, Value, read_map, zone_at, IndirectOf, rd_indir, Zone, ZoneBlocks

LEMMA ContentsAre ==
    ASSUME NEW s, Sound(s, lost), NEW f \in Files
    PROVE  /\ s.ino[f].size \in Nat /\ DOMAIN Contents(s, f) = 1..s.ino[f].size
           /\ Len(Contents(s, f)) = s.ino[f].size
           /\ \A i \in 0..(s.ino[f].size - 1) :
                i \in Units(s) /\ Contents(s, f)[i + 1] = Value(s, f, i)
<1> DEFINE n == s.ino[f].size
           c == Contents(s, f)
<1>1. n \in Nat /\ n =< MaxSize(s) /\ MaxSize(s) \in Nat
  BY SoundIs, SizesIs, SizeIs
<1>2. c = [i \in 1..n |-> Value(s, f, i - 1)]
  BY DEF Contents
<1> HIDE DEF n, c
<1>3. DOMAIN c = 1..n /\ Len(c) = n
  BY <1>1, <1>2
<1>4. ASSUME NEW i \in 0..(n - 1) PROVE i \in Units(s) /\ c[i + 1] = Value(s, f, i)
  <2>1. i + 1 \in 1..n /\ (i + 1) - 1 = i
    BY <1>1
  <2>2. i \in Units(s)
    BY <1>1 DEF Units
  <2> QED
    BY <1>2, <2>1, <2>2
<1> QED
  BY <1>1, <1>3, <1>4 DEF n, c

\* A file that is the same has the same contents.
LEMMA SameContents ==
    ASSUME NEW s, Sound(s, lost), NEW t, NEW g \in Files, SameFile(s, t, g),
           t.ino[g].size = s.ino[g].size
    PROVE  Contents(t, g) = Contents(s, g)
<1>1. s.ino[g].size \in Nat /\ s.ino[g].size =< MaxSize(s) /\ MaxSize(s) \in Nat
  BY SoundIs, SizesIs, SizeIs
<1>2. \A i \in 1..s.ino[g].size : i - 1 \in Units(s)
  BY <1>1 DEF Units
<1>3. \A i \in 1..s.ino[g].size : Value(t, g, i - 1) = Value(s, g, i - 1)
  BY <1>2 DEF SameFile
<1> QED
  BY <1>3 DEF Contents

LEMMA OthersSame ==
    ASSUME Sound(fs, lost), NEW f \in Files, Kept(fs, fs', f)
    PROVE  \A g \in Files \ {f} : Content(g)' = Content(g)
<1>1. ASSUME NEW g \in Files \ {f} PROVE Contents(fs', g) = Contents(fs, g)
  BY SameContents DEF Kept
<1> QED
  BY <1>1, ContentIs, ContentNext

LEMMA WriteRefined ==
    ASSUME Sound(fs, lost), Sound(fs', lost), fs'.scale = fs.scale, NEW f \in Files, Kept(fs, fs', f),
           NEW pos \in Nat, NEW last \in Nat, pos =< last,
           NEW v, Extended(fs, fs', f, pos, last, v),
           fs'.ino[f].size = Max({last, fs.ino[f].size}), NEW n, n = last - pos, NEW r
    PROVE  Sparse!Write(f, pos, v, n, r)
<1> DEFINE old == Contents(fs, f)
           new == Contents(fs', f)
           S == fs.ino[f].size
           T == fs'.ino[f].size
<1>1. /\ S \in Nat /\ Len(old) = S
      /\ \A i \in 0..(S - 1) : i \in Units(fs) /\ old[i + 1] = Value(fs, f, i)
  BY ContentsAre
<1>2. /\ T \in Nat /\ Len(new) = T
      /\ \A i \in 0..(T - 1) : i \in Units(fs') /\ new[i + 1] = Value(fs', f, i)
  BY ContentsAre
<1>3. Units(fs') = Units(fs)
  BY DEF Units, MaxSize, ZoneSize, ZoneBlocks
<1>4. T = Max({S, pos + n}) /\ pos + n = last
  <2>1. pos + n = last
    OBVIOUS
  <2>2. {S, last} = {last, S}
    OBVIOUS
  <2>3. T = Max({last, S})
    OBVIOUS
  <2> HIDE DEF S, T
  <2> QED
    BY <2>1, <2>2, <2>3
<1>5. ASSUME NEW i \in 0..(T - 1)
      PROVE  new[i + 1] = IF i \in pos..(last - 1) THEN v
                          ELSE IF i < S THEN Value(fs, f, i) ELSE 0
  <2>1. i \in Units(fs) /\ new[i + 1] = Value(fs', f, i) /\ T \in Nat
    BY <1>2, <1>3
  <2>2. T = fs'.ino[f].size
    OBVIOUS
  <2>3. i < T
    <3> HIDE DEF T
    <3> QED
      BY <2>1
  <2> HIDE DEF T, new
  <2>4. Value(fs', f, i) = IF i \in pos..(last - 1) THEN v
                          ELSE IF i < S THEN Value(fs, f, i) ELSE 0
    BY <2>1, <2>2, <2>3 DEF Extended
  <2> QED
    BY <2>1, <2>4
<1> HIDE DEF S, T, old, new
<1>6. ASSUME NEW i \in 0..(T - 1)
      PROVE  new[i + 1] = IF pos <= i /\ i < pos + n THEN v ELSE Sparse!Unit(old, i)
  <2>1. i \in Nat /\ (i \in pos..(last - 1) <=> pos <= i /\ i < pos + n)
    BY <1>2, <1>4
  <2>2. Sparse!Unit(old, i) = IF i < S THEN Value(fs, f, i) ELSE 0
    <3>1. Sparse!Unit(old, i) = IF i < S THEN old[i + 1] ELSE 0
      BY <1>1 DEF Sparse!Unit
    <3>2. i < S => old[i + 1] = Value(fs, f, i)
      BY <1>1, <2>1
    <3> QED
      BY <3>1, <3>2
  <2> QED
    BY <1>5, <2>1, <2>2
<1>7. Content(f) = old /\ Content(f)' = new
  BY ContentIs, ContentNext DEF old, new
<1>8. \A g \in Files \ {f} : Content(g)' = Content(g)
  BY OthersSame
<1> DEFINE files == [g \in Files |-> Content(g)]
<1>9. /\ files[f] = old /\ files'[f] = new
      /\ \A g \in Files \ {f} : files'[g] = files[g]
  BY <1>7, <1>8
<1>10. Sparse!Max({Len(old), pos + n}) = T
  BY <1>1, <1>4 DEF Max, Sparse!Max
<1> HIDE DEF files
<1>11. /\ \A g \in Files \ {f} : files'[g] = files[g]
       /\ Len(files'[f]) = Sparse!Max({Len(files[f]), pos + n})
       /\ \A i \in 0..(Len(files'[f]) - 1) :
            files'[f][i + 1] = IF pos <= i /\ i < pos + n THEN v ELSE Sparse!Unit(files[f], i)
  BY <1>2, <1>6, <1>9, <1>10
<1> QED
  BY <1>11, Zenon DEF Sparse!Write, Sparse!OnlyFile, files

LEMMA TruncateRefined ==
    ASSUME Sound(fs, lost), Sound(fs', lost), fs'.scale = fs.scale, NEW f \in Files, Kept(fs, fs', f),
           NEW n \in Nat, fs'.ino[f].size = n, Resized(fs, fs', f)
    PROVE  Sparse!Truncate(f, n)
<1> DEFINE old == Contents(fs, f)
           new == Contents(fs', f)
           S == fs.ino[f].size
<1>1. /\ S \in Nat /\ Len(old) = S
      /\ \A i \in 0..(S - 1) : i \in Units(fs) /\ old[i + 1] = Value(fs, f, i)
  BY ContentsAre
<1>2. /\ new = [i \in 1..n |-> Value(fs', f, i - 1)]
      /\ \A i \in 0..(n - 1) : i \in Units(fs')
  BY ContentsAre DEF Contents
<1>3. Units(fs') = Units(fs)
  BY DEF Units, MaxSize, ZoneSize, ZoneBlocks
<1>4. ASSUME NEW i \in 0..(n - 1)
      PROVE  Value(fs', f, i) = IF i < S THEN Value(fs, f, i) ELSE 0
  <2>1. i \in Units(fs) /\ i < n
    BY <1>2, <1>3
  <2> QED
    BY <2>1 DEF Resized
<1> HIDE DEF S, old, new
<1>5. ASSUME NEW i \in 1..n PROVE Value(fs', f, i - 1) = Sparse!Unit(old, i - 1)
  <2> DEFINE j == i - 1
  <2>1. j \in 0..(n - 1) /\ j \in Nat
    OBVIOUS
  <2> HIDE DEF j
  <2>2. Sparse!Unit(old, j) = IF j < S THEN old[j + 1] ELSE 0
    BY <1>1 DEF Sparse!Unit
  <2>3. j < S => old[j + 1] = Value(fs, f, j)
    BY <1>1, <2>1
  <2>4. Value(fs', f, j) = Sparse!Unit(old, j)
    BY <1>4, <2>1, <2>2, <2>3
  <2> QED
    BY <2>4 DEF j
<1>6. new = Sparse!Resized(old, n)
  BY <1>2, <1>5 DEF Sparse!Resized
<1>7. Content(f) = old /\ Content(f)' = new
  BY ContentIs, ContentNext DEF old, new
<1>8. \A g \in Files \ {f} : Content(g)' = Content(g)
  BY OthersSame
<1> QED
  BY <1>6, <1>7, <1>8 DEF Sparse!Truncate

LEMMA FreeRefined ==
    ASSUME Sound(fs, lost), Sound(fs', lost), fs'.scale = fs.scale, NEW f \in Files, Kept(fs, fs', f),
           NEW start \in Nat, NEW end0 \in Nat, fs'.ino[f].size = fs.ino[f].size,
           Hole(fs, fs', f, start, Min({end0, fs.ino[f].size}))
    PROVE  Sparse!FreeSpace(f, start, end0)
<1> DEFINE old == Contents(fs, f)
           new == Contents(fs', f)
           S == fs.ino[f].size
           end == Min({end0, S})
<1>1. /\ S \in Nat /\ DOMAIN old = 1..S
      /\ \A i \in 0..(S - 1) : i \in Units(fs) /\ old[i + 1] = Value(fs, f, i)
  BY ContentsAre
<1>2. new = [i \in 1..S |-> Value(fs', f, i - 1)] /\ old = [i \in 1..S |-> Value(fs, f, i - 1)]
  BY DEF Contents
<1>3. /\ Hole(fs, fs', f, start, end) /\ S = fs.ino[f].size
      /\ end = IF end0 <= S THEN end0 ELSE S
  BY <1>1, MinOfTwo
<1> HIDE DEF S, old, new, end
<1>4. ASSUME NEW i \in 1..S
      PROVE  Value(fs', f, i - 1) = IF start < i /\ i <= end0 THEN 0 ELSE Value(fs, f, i - 1)
  <2> DEFINE j == i - 1
  <2>1. j \in Units(fs) /\ ~(j >= S) /\ j \in Nat /\ j < S /\ i = j + 1
    BY <1>1
  <2> HIDE DEF j
  <2>2. j \in start..(end - 1) <=> start < i /\ i <= end0
    <3>1. end \in Nat /\ (end = end0 \/ end = S) /\ end <= end0 /\ end <= S
      BY <1>1, <1>3
    <3> QED
      BY <1>1, <2>1, <3>1
  <2>3. /\ j \in start..(end - 1) => Value(fs', f, j) = 0
        /\ j \notin start..(end - 1) => Value(fs', f, j) = Value(fs, f, j)
    BY <1>3, <2>1 DEF Hole
  <2>4. Value(fs', f, j) = IF start < i /\ i <= end0 THEN 0 ELSE Value(fs, f, j)
    BY <2>2, <2>3
  <2> QED
    BY <2>4 DEF j
<1>5. new = [i \in DOMAIN old |-> IF start < i /\ i <= end0 THEN 0 ELSE old[i]]
  BY <1>1, <1>2, <1>4
<1>6. Content(f) = old /\ Content(f)' = new
  BY ContentIs, ContentNext DEF old, new
<1>7. \A g \in Files \ {f} : Content(g)' = Content(g)
  BY OthersSame
<1> QED
  BY <1>5, <1>6, <1>7 DEF Sparse!FreeSpace

LEMMA RemoveRefined ==
    ASSUME Sound(fs, lost), NEW f \in Files, Kept(fs, fs', f), fs'.ino[f].size = 0
    PROVE  Sparse!Remove(f)
<1>1. Contents(fs', f) = <<>>
  BY DEF Contents
<1>2. Content(f)' = <<>>
  BY <1>1, ContentNext
<1>3. \A g \in Files \ {f} : Content(g)' = Content(g)
  BY OthersSame
<1> QED
  BY <1>2, <1>3 DEF Sparse!Remove

LEMMA SameRefined ==
    ASSUME Sound(fs, lost), \A g \in Files : SameFile(fs, fs', g) /\ fs'.ino[g].size = fs.ino[g].size
    PROVE  [f \in Files |-> Content(f)]' = [f \in Files |-> Content(f)]
<1>1. \A g \in Files : Contents(fs', g) = Contents(fs, g)
  BY SameContents
<1> QED
  BY <1>1, ContentIs, ContentNext

-----------------------------------------------------------------------------
(* The requests do what their answers say. *)

Asked(op) == reply'.op = op

LEMMA SparseNext ==
    /\ Asked("write") /\ Sparse!Write(reply'.f, reply'.pos, reply'.v, reply'.n, reply'.r) => Sparse!Next
    /\ Asked("read") /\ Sparse!Read(reply'.f, reply'.pos, reply'.len, reply'.data) => Sparse!Next
    /\ Asked("trunc") /\ Sparse!Truncate(reply'.f, reply'.pos) => Sparse!Next
    /\ Asked("free") /\ Sparse!FreeSpace(reply'.f, reply'.pos, reply'.end) => Sparse!Next
    /\ Asked("remove") /\ Sparse!Remove(reply'.f) => Sparse!Next
    /\ (Asked("none") \/ Asked("refused")) /\ (UNCHANGED [f \in Files |-> Content(f)]) => Sparse!Next
BY DEF Asked, Sparse!Next

LEMMA UnchangedRefined ==
    ASSUME fs' = fs PROVE UNCHANGED [f \in Files |-> Content(f)]
<1>1. \A g : Content(g)' = Content(g)
  BY ContentIs, ContentNext
<1> QED
  BY <1>1

LEMMA WriteRefines ==
    ASSUME FInv, FInv', Tidy(fs), Careful, ~CopyFaults, NEW f \in Files, NEW pos \in Positions,
           NEW len \in Lengths, Write(f, pos, len)
    PROVE  Tidy(fs') /\ Sparse!Next
<1> DEFINE size == fs.ino[f].size
           v == calls + 1
           start == IF pos > size THEN clear_zone(fs, f, size, FALSE) ELSE fs
<1>1. Sound(fs, lost) /\ Sound(fs', lost) /\ calls \in Nat
  <2>1. lost' = lost
    BY Zenon DEF Write
  <2> QED
    BY <2>1 DEF FInv
<1>2. /\ ~UnclearedZone(f, pos)
      /\ \/ /\ pos > MaxSize(fs) - len /\ fs' = fs
            /\ reply' = [op |-> "write", r |-> "EFBIG", f |-> f, pos |-> 0, v |-> v, n |-> 0]
         \/ /\ pos <= MaxSize(fs) - len
            /\ \E w \in {WriteChunks(start, f, pos, len, v, 0)} :
                  /\ fs' = [w.s EXCEPT !.ino[f].size = Max({w.pos, size})]
                  /\ reply' = [op |-> "write", r |-> w.r, f |-> f, pos |-> pos, v |-> v, n |-> w.pos - pos]
  BY Zenon DEF Write
<1>3. v \in Int /\ pos \in Nat /\ len \in Nat \ {0}
  BY <1>1, RequestIs
<1>4. size \in Nat /\ size =< MaxSize(fs) /\ MaxSize(fs) \in Nat /\ fs.scale \in Scales
  BY <1>1, SizeIs, SoundIs, SizesIs
<1>5. start = WriteStart(fs, f, pos)
  BY DEF WriteStart
<1>6. size = fs.ino[f].size
  OBVIOUS
<1> HIDE DEF v, start, size
<1>7. CASE /\ fs' = fs
           /\ reply' = [op |-> "write", r |-> "EFBIG", f |-> f, pos |-> 0, v |-> v, n |-> 0]
  <2>1. Kept(fs, fs', f)
    BY <1>7, KeptSelf
  <2>2. Extended(fs, fs', f, 0, 0, v)
    <3>1. ASSUME NEW i \in Units(fs), i < fs'.ino[f].size
          PROVE  Value(fs', f, i) = IF i \in 0..(0 - 1) THEN v
                                    ELSE IF i < fs.ino[f].size THEN Value(fs, f, i) ELSE 0
      BY <1>7, <3>1
    <3> QED
      BY <3>1 DEF Extended
  <2>3. fs'.ino[f].size = Max({0, fs.ino[f].size})
    BY <1>4, <1>6, <1>7, MaxOfTwo
  <2>4. 0 \in Nat /\ 0 =< 0 /\ 0 = 0 - 0 /\ fs'.scale = fs.scale
    BY <1>7
  <2>5. \A r : Sparse!Write(f, 0, v, 0, r)
    BY <1>1, <2>1, <2>2, <2>3, <2>4, WriteRefined
  <2>6. /\ reply'.op = "write" /\ reply'.f = f /\ reply'.pos = 0 /\ reply'.v = v /\ reply'.n = 0
    BY <1>7
  <2> QED
    BY <1>7, <2>5, <2>6, SparseNext DEF Asked
<1>8. CASE /\ pos <= MaxSize(fs) - len
           /\ \E w \in {WriteChunks(start, f, pos, len, v, 0)} :
                 /\ fs' = [w.s EXCEPT !.ino[f].size = Max({w.pos, size})]
                 /\ reply' = [op |-> "write", r |-> w.r, f |-> f, pos |-> pos, v |-> v, n |-> w.pos - pos]
  <2> DEFINE w == WriteChunks(WriteStart(fs, f, pos), f, pos, len, v, 0)
             t == [w.s EXCEPT !.ino[f].size = Max({w.pos, fs.ino[f].size})]
             n == w.pos - pos
  <2>1. /\ fs' = t
        /\ reply' = [op |-> "write", r |-> w.r, f |-> f, pos |-> pos, v |-> v, n |-> w.pos - pos]
    BY <1>5, <1>6, <1>8
  <2>2. pos + len =< MaxSize(fs)
    BY <1>3, <1>4, <1>8
  <2>3. ~(pos = fs.ino[f].size /\ read_map(fs, f, pos) = NO_BLOCK /\ (pos \div U) % ZoneBlocks(fs) # 0)
    BY <1>2 DEF UnclearedZone
  <2>4. /\ Sound(t, lost) /\ t.scale = fs.scale /\ Tidy(t) /\ Kept(fs, t, f)
        /\ w.pos \in Nat /\ pos =< w.pos /\ t.ino[f].size = Max({w.pos, fs.ino[f].size})
        /\ Extended(fs, t, f, pos, w.pos, v)
    BY <1>1, <1>3, <2>2, <2>3, WriteOutcome
  <2> HIDE DEF t, w
  <2>5. /\ fs'.scale = fs.scale /\ Tidy(fs') /\ Kept(fs, fs', f)
        /\ fs'.ino[f].size = Max({w.pos, fs.ino[f].size})
        /\ Extended(fs, fs', f, pos, w.pos, v)
    BY <2>1, <2>4
  <2>6. \A r : Sparse!Write(f, pos, v, n, r)
    BY <1>1, <1>3, <2>4, <2>5, WriteRefined
  <2> HIDE DEF n
  <2>7. reply'.op = "write" /\ reply'.f = f /\ reply'.pos = pos /\ reply'.v = v /\ reply'.n = n
    BY <2>1 DEF n
  <2> QED
    BY <2>5, <2>6, <2>7, SparseNext DEF Asked
<1> QED
  BY <1>2, <1>7, <1>8

LEMMA TruncRefines ==
    ASSUME FInv, FInv', Tidy(fs), NEW f \in Files, NEW start \in Positions, NEW end \in Positions,
           fs_ftrunc(f, start, end)
    PROVE  Tidy(fs') /\ Sparse!Next
<1> DEFINE t == IF end = 0 THEN truncate_inode(fs, f, start) ELSE freesp_inode(fs, f, start, end)
<1>1. Sound(fs, lost) /\ Sound(fs', lost)
  <2>1. lost' = lost
    BY Zenon DEF fs_ftrunc
  <2> QED
    BY <2>1 DEF FInv
<1>2. /\ fs' = t.s
      /\ reply' = IF t.r # "OK" THEN [op |-> "refused", r |-> t.r]
                  ELSE IF end = 0 THEN [op |-> "trunc", f |-> f, pos |-> start]
                  ELSE [op |-> "free", f |-> f, pos |-> start, end |-> end]
  BY Zenon DEF fs_ftrunc
<1>3. start \in Nat /\ end \in Nat
  BY RequestIs
<1>4. /\ fs.ino[f].size \in Nat /\ fs.ino[f].size =< MaxSize(fs) /\ MaxSize(fs) \in Nat
      /\ fs.scale \in Scales
  BY <1>1, SizeIs, SoundIs, SizesIs
<1>5. CASE end = 0
  <2> DEFINE r == truncate_inode(fs, f, start)
  <2>1. /\ fs' = r.s
        /\ reply' = IF r.r # "OK" THEN [op |-> "refused", r |-> r.r]
                    ELSE [op |-> "trunc", f |-> f, pos |-> start]
    BY <1>2, <1>5
  <2>2. /\ start > MaxSize(fs) => r.s = fs /\ r.r = "EFBIG"
        /\ start =< MaxSize(fs) =>
             /\ r.r = "OK" /\ Sound(r.s, lost) /\ r.s.scale = fs.scale /\ Tidy(r.s)
             /\ Kept(fs, r.s, f) /\ r.s.ino[f].size = start /\ Resized(fs, r.s, f)
    BY <1>1, <1>3, TruncateContent
  <2> HIDE DEF r
  <2>3. CASE start > MaxSize(fs)
    <3>1. fs' = fs /\ reply'.op = "refused"
      BY <2>1, <2>2, <2>3
    <3>2. UNCHANGED [g \in Files |-> Content(g)]
      BY <3>1, UnchangedRefined
    <3> QED
      BY <3>1, <3>2, SparseNext DEF Asked
  <2>4. CASE start =< MaxSize(fs)
    <3>1. Tidy(fs') /\ reply'.op = "trunc" /\ reply'.f = f /\ reply'.pos = start
      BY <2>1, <2>2, <2>4
    <3>2. Sparse!Truncate(f, start)
      BY <1>1, <1>3, <2>1, <2>2, <2>4, TruncateRefined
    <3> QED
      BY <3>1, <3>2, SparseNext DEF Asked
  <2> QED
    BY <1>3, <1>4, <2>3, <2>4
<1>6. CASE end # 0
  <2> DEFINE r == freesp_inode(fs, f, start, end)
             last == Min({end, fs.ino[f].size})
  <2>1. /\ fs' = r.s
        /\ reply' = IF r.r # "OK" THEN [op |-> "refused", r |-> r.r]
                    ELSE [op |-> "free", f |-> f, pos |-> start, end |-> end]
    BY <1>2, <1>6
  <2>2. FreedFile(fs, r, f, start, last)
    BY <1>1, <1>3, FreespContent
  <2>3. Frame(fs, r.s)
    BY <1>1, <1>3, FreespSound
  <2> HIDE DEF r
  <2>4. last \in Nat /\ last =< fs.ino[f].size
    BY <1>3, <1>4, MinOfTwo
  <2>5. Kept(fs, fs', f) /\ fs'.scale = fs.scale /\ fs'.ino[f].size = fs.ino[f].size
        /\ FewerZones(fs, fs', f)
    BY <2>1, <2>2, <2>3 DEF FreedFile, Frame
  <2>6. CASE last =< start
    <3>1. fs' = fs /\ reply'.op = "refused"
      <4>1. r.s = fs /\ r.r = "EINVAL"
        BY <2>2, <2>6 DEF FreedFile
      <4> QED
        BY <2>1, <4>1
    <3>2. UNCHANGED [g \in Files |-> Content(g)]
      BY <3>1, UnchangedRefined
    <3> QED
      BY <3>1, <3>2, SparseNext DEF Asked
  <2>7. CASE start < last
    <3>1. Hole(fs, fs', f, start, last) /\ r.r = "OK"
      BY <2>1, <2>2, <2>7 DEF FreedFile
    <3>2. reply'.op = "free" /\ reply'.f = f /\ reply'.pos = start /\ reply'.end = end
      BY <2>1, <3>1
    <3>3. Sparse!FreeSpace(f, start, end)
      BY <1>1, <1>3, <2>5, <3>1, FreeRefined
    <3>4. Tidy(fs')
      <4> DEFINE size == fs.ino[f].size
      <4>1. Ends(fs, f, size) /\ size \in Nat /\ last =< size /\ size = fs.ino[f].size
        BY <1>4, <2>4 DEF Tidy
      <4> HIDE DEF size, last
      <4>2. Ends(fs', f, size)
        BY <1>4, <2>4, <2>5, <3>1, <4>1, HoleEnds
      <4> QED
        BY <2>5, <4>1, <4>2, TidyAfter
    <3> QED
      BY <3>2, <3>3, <3>4, SparseNext DEF Asked
  <2> QED
    BY <1>3, <2>4, <2>6, <2>7
<1> QED
  BY <1>5, <1>6

\* A file whose inode has no zones has no data.
LEMMA NoPlaces ==
    ASSUME NEW s, NEW f, \A i \in Tops : s.ino[f].zone[i] = NO_ZONE, NEW k \in 0..(MaxZone - 1)
    PROVE  PlaceZone(s, f, k) = NO_ZONE
<1>1. CASE IsDirect(k)
  <2>1. k \in Tops
    BY <1>1, MfsFileAssumption DEF IsDirect, Tops, MaxZone
  <2> QED
    BY <1>1, <2>1 DEF PlaceZone
<1>2. CASE ~IsDirect(k)
  <2>1. IndirectOf(s, f, k) = NO_ZONE
    BY TopIndices DEF IndirectOf
  <2> QED
    BY <1>2, <2>1 DEF PlaceZone
<1> QED
  BY <1>1, <1>2

LEMMA RemoveRefines ==
    ASSUME FInv, FInv', Tidy(fs), NEW f \in Files, RemoveFile(f)
    PROVE  Tidy(fs') /\ Sparse!Next
<1> DEFINE t == truncate_inode(fs, f, 0).s
<1>1. Sound(fs, lost) /\ Sound(fs', lost')
  BY DEF FInv
<1>2. fs' = [t EXCEPT !.ino[f] = NewInode] /\ reply' = [op |-> "remove", f |-> f]
  BY Zenon DEF RemoveFile
<1>3. Sound(t, lost) /\ t.scale = fs.scale /\ Tidy(t) /\ Kept(fs, t, f)
  <2>1. 0 \in Nat /\ 0 =< MaxSize(fs)
    BY <1>1, SoundIs, SizesIs
  <2> QED
    BY <1>1, <2>1, TruncateContent
<1> HIDE DEF t
<1>4. /\ NewInode \in Inode(t) /\ NewInode.size = 0
      /\ NewInode.zone = [i \in Tops |-> NO_ZONE]
  BY <1>3, SoundIs, NewInodeIs DEF NewInode
<1> DEFINE inode == NewInode
           u == [t EXCEPT !.ino[f] = inode]
<1>5. /\ inode \in Inode(t) /\ inode.size = 0 /\ fs' = u
      /\ \A i \in Tops : inode.zone[i] = NO_ZONE
  BY <1>2, <1>4
<1> HIDE DEF inode
<1>6. /\ u.ino[f] = inode /\ \A g \in Files : g # f => u.ino[g] = t.ino[g]
      /\ u.scale = t.scale /\ u.blk = t.blk
  BY <1>3, <1>5, SoundIs, InoPut
<1>7. fs' = u
  BY <1>5
<1> HIDE DEF u
<1>8. Kept(t, u, f)
  <2> SUFFICES ASSUME NEW g \in Files, g # f
               PROVE  SameFile(t, u, g) /\ u.ino[g].size = t.ino[g].size
    BY DEF Kept
  <2>1. u.ino[g] = t.ino[g]
    BY <1>6
  <2>2. \A z, i : rd_indir(u, z, i) = rd_indir(t, z, i)
    BY <1>6 DEF rd_indir, ZoneBlocks
  <2>3. ASSUME NEW k \in 0..(MaxZone - 1) PROVE LikeAt(t, u, g, k)
    <3>1. PlaceZone(u, g, k) = PlaceZone(t, g, k)
      BY <2>1, <2>2 DEF PlaceZone, IndirectOf
    <3> QED
      BY <1>6, <3>1 DEF LikeAt, SameZone
  <2>4. SameFile(t, u, g)
    BY <1>1, <1>3, <1>6, <1>7, <2>3, LikeFile
  <2> QED
    BY <2>1, <2>4
<1>9. u.ino[f].size = 0 /\ \A i \in Tops : u.ino[f].zone[i] = NO_ZONE
  BY <1>5, <1>6
<1>10. Kept(fs, u, f)
  BY <1>3, <1>8, KeptAlong
<1>11. Tidy(u)
  <2>1. \A k \in 0..(MaxZone - 1) : PlaceZone(u, f, k) = NO_ZONE
    BY <1>9, NoPlaces
  <2>2. u.scale \in Scales
    BY <1>1, <1>7, SoundIs
  <2>3. \A i \in Units(u) : Value(u, f, i) = 0
    BY <1>1, <1>7, <2>1, <2>2, UnitIs, ValueIs
  <2>4. Ends(u, f, 0)
    BY <2>1, <2>3 DEF Ends
  <2> QED
    BY <1>3, <1>6, <1>8, <1>9, <2>4, TidyAfter
<1>12. Sparse!Remove(f)
  BY <1>1, <1>7, <1>9, <1>10, RemoveRefined
<1>13. reply'.op = "remove" /\ reply'.f = f
  BY <1>2
<1> QED
  BY <1>7, <1>11, <1>12, <1>13, SparseNext DEF Asked

LEMMA ReloadRefines ==
    ASSUME FInv, Tidy(fs), NEW f \in Files, Reload(f)
    PROVE  Tidy(fs') /\ Sparse!Next
<1>1. Sound(fs, lost)
  BY DEF FInv
<1>2. fs' = [fs EXCEPT !.ino[f].zsearch = NO_ZONE] /\ reply' = [op |-> "none"]
  BY DEF Reload
<1>3. Sound(fs', lost) /\ Frame(fs, fs') /\ Like(fs, fs')
  BY <1>1, <1>2, SearchPutSound DEF NO_ZONE
<1>4. \A g \in Files : SameFile(fs, fs', g) /\ fs'.ino[g].size = fs.ino[g].size
  BY <1>1, <1>3, LikeFile DEF Like, Frame
<1>5. Tidy(fs')
  <2>1. Kept(fs, fs', f) /\ Ends(fs', f, fs'.ino[f].size)
    BY <1>3, <1>4, SameEnds DEF Kept, Tidy, Frame
  <2> QED
    BY <1>3, <2>1, TidyAfter DEF Frame
<1>6. [g \in Files |-> Content(g)]' = [g \in Files |-> Content(g)]
  BY <1>1, <1>4, SameRefined
<1>7. reply'.op = "none"
  BY <1>2
<1> QED
  BY <1>5, <1>6, <1>7, SparseNext DEF Asked

-----------------------------------------------------------------------------
(* Sequences put together. *)

\* The first n of the data, the next m, and both together.
Data(D, n) == [k \in 1..n |-> D[k]]
NextData(D, n, m) == [k \in 1..m |-> D[n + k]]

LEMMA Joined ==
    ASSUME NEW D, NEW a \in Nat, NEW b \in Nat, a =< b
    PROVE  Data(D, a) \o NextData(D, a, b - a) = Data(D, b)
<1> DEFINE S == {D[k] : k \in 1..b}
           x == Data(D, a)
           y == NextData(D, a, b - a)
           z == Data(D, b)
<1>1. b - a \in Nat
  OBVIOUS
<1>2. x \in Seq(S) /\ Len(x) = a /\ \A k \in 1..a : x[k] = D[k]
  BY DEF Data
<1>3. y \in Seq(S) /\ Len(y) = b - a /\ \A k \in 1..(b - a) : y[k] = D[a + k]
  <2>1. \A k \in 1..(b - a) : a + k \in 1..b
    OBVIOUS
  <2>2. \A k \in 1..(b - a) : D[a + k] \in S
    BY <2>1
  <2> QED
    BY <1>1, <2>2 DEF NextData
<1>4. z \in Seq(S) /\ Len(z) = b /\ \A k \in 1..b : z[k] = D[k]
  BY DEF Data
<1> HIDE DEF S, x, y, z
<1>5. /\ x \o y \in Seq(S) /\ Len(x \o y) = b
      /\ \A k \in 1..b : (x \o y)[k] = IF k <= a THEN x[k] ELSE y[k - a]
  BY <1>1, <1>2, <1>3, ConcatProperties
<1> DEFINE w == x \o y
<1>6. /\ w \in Seq(S) /\ Len(w) = b
      /\ \A k \in 1..b : w[k] = IF k <= a THEN x[k] ELSE y[k - a]
  BY <1>5
<1> HIDE DEF w
<1>7. ASSUME NEW k \in 1..b PROVE w[k] = z[k]
  <2>1. CASE k <= a
    <3>1. k \in 1..a
      BY <2>1
    <3>2. w[k] = x[k]
      BY <1>6, <2>1
    <3> QED
      BY <1>2, <1>4, <3>1, <3>2
  <2>2. CASE ~(k <= a)
    <3>1. k - a \in 1..(b - a) /\ a + (k - a) = k
      BY <2>2
    <3>2. w[k] = y[k - a]
      BY <1>6, <2>2
    <3> QED
      BY <1>3, <1>4, <3>1, <3>2
  <2> QED
    BY <2>1, <2>2
<1>8. w = z
  BY <1>4, <1>6, <1>7, SeqEqual
<1> QED
  BY <1>8 DEF w, x, y, z

\* What FlattenSeq of the community modules makes of n sequences.
Flattens(seqs, n, g) ==
    g = [i \in 1..n |-> IF i = 1 THEN seqs[i] ELSE g[i - 1] \o seqs[i]]

\* The i-th sequence holds the data from to[i - 1] up to to[i].
Piece(seqs, D, to, i) ==
    /\ to[i - 1] \in Nat /\ to[i] \in Nat /\ to[i - 1] =< to[i]
    /\ seqs[i] = NextData(D, to[i - 1], to[i] - to[i - 1])

LEMMA FlattenIs ==
    ASSUME NEW seqs, NEW n \in Nat \ {0}, Len(seqs) = n, NEW D, NEW to, to[0] = 0,
           \A i \in 1..n : Piece(seqs, D, to, i)
    PROVE  FlattenSeq(seqs) = Data(D, to[n])
<1> DEFINE h == CHOOSE g : Flattens(seqs, n, g)
<1>1. FlattenSeq(seqs) = h[n]
  BY DEF FlattenSeq, Flattens
<1>2. seqs[1] = Data(D, to[1])
  <2>1. 1 \in 1..n /\ 1 - 1 = 0
    OBVIOUS
  <2>2. to[1] \in Nat /\ seqs[1] = NextData(D, 0, to[1] - 0)
    BY <2>1 DEF Piece
  <2> QED
    BY <2>2 DEF NextData, Data
<1>3. ASSUME NEW i \in 1..n, i # 1
      PROVE  i - 1 \in 1..n /\ Data(D, to[i - 1]) \o seqs[i] = Data(D, to[i])
  <2>1. i - 1 \in 1..n
    BY <1>3
  <2> DEFINE a == to[i - 1]
             b == to[i]
  <2>2. a \in Nat /\ b \in Nat /\ a =< b /\ seqs[i] = NextData(D, a, b - a)
    BY DEF Piece
  <2> HIDE DEF a, b
  <2>3. Data(D, a) \o NextData(D, a, b - a) = Data(D, b)
    BY <2>2, Joined
  <2>4. Data(D, a) \o seqs[i] = Data(D, b)
    BY <2>2, <2>3, Zenon
  <2> QED
    BY <2>1, <2>4 DEF a, b
<1>4. \E g : Flattens(seqs, n, g)
  <2> DEFINE g == [i \in 1..n |-> Data(D, to[i])]
  <2>1. ASSUME NEW i \in 1..n
        PROVE  Data(D, to[i]) = IF i = 1 THEN seqs[i] ELSE g[i - 1] \o seqs[i]
    <3>1. CASE i = 1
      BY <1>2, <3>1
    <3>2. CASE i # 1
      <4>1. g[i - 1] = Data(D, to[i - 1])
        BY <1>3, <3>2
      <4> HIDE DEF g
      <4> QED
        BY <1>3, <3>2, <4>1
    <3> QED
      BY <3>1, <3>2
  <2>2. g = [i \in 1..n |-> Data(D, to[i])]
    OBVIOUS
  <2> HIDE DEF g
  <2>3. Flattens(seqs, n, g)
    BY <2>1, <2>2 DEF Flattens
  <2> QED
    BY <2>3
<1>5. Flattens(seqs, n, h)
  BY <1>4
<1> HIDE DEF h
<1> DEFINE Is == {m \in Nat : m \in 1..n => h[m] = Data(D, to[m])}
<1>6. 0 \in Is
  OBVIOUS
<1>7. ASSUME NEW m \in Nat, m \in Is PROVE m + 1 \in Is
  <2> SUFFICES ASSUME m + 1 \in 1..n PROVE h[m + 1] = Data(D, to[m + 1])
    OBVIOUS
  <2>1. h[m + 1] = IF m + 1 = 1 THEN seqs[m + 1] ELSE h[(m + 1) - 1] \o seqs[m + 1]
    BY <1>5 DEF Flattens
  <2>2. (m + 1) - 1 = m
    OBVIOUS
  <2>3. CASE m + 1 = 1
    BY <1>2, <2>1, <2>3
  <2>4. CASE m + 1 # 1
    <3>1. m \in 1..n
      BY <2>4
    <3>2. h[m] = Data(D, to[m])
      BY <1>7, <3>1
    <3>3. Data(D, to[m]) \o seqs[m + 1] = Data(D, to[m + 1])
      BY <1>3, <2>2, <2>4
    <3> QED
      BY <2>1, <2>2, <2>4, <3>2, <3>3
  <2> QED
    BY <2>3, <2>4
<1> HIDE DEF Is
<1>8. n \in Is
  BY <1>6, <1>7, FreeFold!SetInduction
<1>9. h[n] = Data(D, to[n])
  BY <1>8 DEF Is
<1> QED
  BY <1>1, <1>9

\* A part of a sequence.
LEMMA Excerpt ==
    ASSUME NEW V, NEW s \in Seq(V), NEW p \in Nat, NEW n \in Nat, p + n =< Len(s)
    PROVE  SubSeq(s, p + 1, p + n) = [k \in 1..n |-> s[(p + (k - 1)) + 1]]
<1> DEFINE a == p + 1
           b == p + n
           sub == SubSeq(s, a, b)
           t == [k \in 1..n |-> s[(p + (k - 1)) + 1]]
<1>1. Len(s) \in Nat /\ s \in [1..Len(s) -> V]
  BY LenProperties
<1> DEFINE l == Len(s)
<1>2. l \in Nat /\ s \in [1..l -> V] /\ p + n =< l
  BY <1>1
<1> HIDE DEF l
<1>3. a \in Int /\ b \in Int /\ (a <= b <=> n # 0) /\ (b - a) + 1 = n
  OBVIOUS
<1>4. \A i \in a..b : i \in 1..l
  BY <1>2
<1>5. \A i \in a..b : s[i] \in V
  BY <1>2, <1>4
<1>6. ASSUME NEW k \in 1..n
      PROVE  a + (k - 1) = (p + (k - 1)) + 1 /\ (p + (k - 1)) + 1 \in a..b
  OBVIOUS
<1>7. n = (IF a <= b THEN (b - a) + 1 ELSE 0)
  BY <1>3
<1> HIDE DEF a, b
<1>8. /\ sub \in Seq(V) /\ Len(sub) = IF a <= b THEN (b - a) + 1 ELSE 0
      /\ \A i \in 1..((b - a) + 1) : sub[i] = s[a + (i - 1)]
  BY <1>3, <1>5, SubSeqProperties
<1>9. Len(sub) = n /\ \A i \in 1..n : sub[i] = s[a + (i - 1)]
  BY <1>3, <1>7, <1>8
<1>10. t \in Seq(V) /\ Len(t) = n /\ \A i \in 1..n : t[i] = s[(p + (i - 1)) + 1]
  <2>1. t \in [1..n -> V]
    BY <1>5, <1>6
  <2> QED
    BY <2>1
<1> HIDE DEF sub, t
<1>11. \A i \in 1..n : sub[i] = t[i]
  BY <1>6, <1>9, <1>10
<1>12. sub = t
  BY <1>8, <1>9, <1>10, <1>11, SeqEqual
<1> QED
  BY <1>12 DEF sub, t, a, b

-----------------------------------------------------------------------------
(* Reading. *)

\* How many chunks a request has, and how much of it the first j cover.
ChunkCount(pos, len) == ((pos + len - 1) \div U) - (pos \div U) + 1
Covered(pos, len) == [j \in 0..ChunkCount(pos, len) |-> IF j = 0 THEN 0 ELSE chunk_to(pos, len, j - 1) - pos]

\* The chunks cover the request.
LEMMA ChunksFollow ==
    ASSUME NEW pos \in Nat, NEW len \in Nat \ {0}, NEW n, n = ChunkCount(pos, len),
           NEW to, to = Covered(pos, len)
    PROVE  /\ n \in Nat \ {0} /\ to[0] = 0 /\ to[n] = len
           /\ \A i \in 1..n : /\ to[i - 1] = chunk_from(pos, i - 1) - pos
                              /\ to[i] = chunk_to(pos, len, i - 1) - pos
<1> DEFINE P == pos \div U
           E == (pos + len - 1) \div U
<1>1. U \in Nat \ {0} /\ pos + len - 1 \in Nat
  BY MfsFileAssumption
<1>2. P \in Nat /\ E \in Nat /\ pos = (U * P) + (pos % U) /\ pos % U \in 0..(U - 1)
  BY <1>1, DivMod
<1>3. (pos + len - 1) = (U * E) + ((pos + len - 1) % U) /\ (pos + len - 1) % U \in 0..(U - 1)
  BY <1>1, DivMod
<1>4. n = E - P + 1
  BY DEF ChunkCount
<1>5. \A k \in 0..(E - P) :
         /\ chunk_from(pos, k) \in Nat /\ chunk_to(pos, len, k) \in Nat
         /\ k # 0 => chunk_to(pos, len, k - 1) = chunk_from(pos, k)
  BY ChunkBounds
<1>6. chunk_from(pos, 0) = pos
  BY DEF chunk_from
<1>7. \A k : chunk_to(pos, len, k) = Min({pos + len, (P + k + 1) * U})
  BY DEF chunk_to
<1>8. P =< E
  <2>1. pos =< pos + len - 1 /\ pos \in Int /\ pos + len - 1 \in Int
    OBVIOUS
  <2> DEFINE last == pos + len - 1
             a == pos % U
             b == last % U
  <2>2. pos = (U * P) + a /\ a \in 0..(U - 1) /\ last = (U * E) + b /\ b \in 0..(U - 1) /\ pos =< last
    BY <1>2, <1>3, <2>1
  <2> HIDE DEF P, E, last, a, b
  <2>3. SUFFICES ASSUME E + 1 =< P PROVE FALSE
    BY <1>2
  <2>4. (E + 1) * U =< P * U
    BY <1>1, <1>2, <2>3, Larger
  <2>5. (E + 1) * U = (U * E) + U /\ P * U = U * P /\ U * E \in Nat /\ U * P \in Nat
    BY <1>1, <1>2, Times
  <2> DEFINE x == U * E
             y == U * P
  <2>6. x + U =< y /\ pos = y + a /\ last = x + b /\ x \in Nat /\ y \in Nat
    BY <2>2, <2>4, <2>5
  <2> HIDE DEF x, y
  <2> QED
    BY <1>1, <2>2, <2>6
<1>9. to = [j \in 0..n |-> IF j = 0 THEN 0 ELSE chunk_to(pos, len, j - 1) - pos]
  BY DEF Covered
<1> DEFINE last == pos + len - 1
           b == last % U
<1>10. last = (U * E) + b /\ b \in 0..(U - 1)
  BY <1>3
<1>11. last + 1 = pos + len
  OBVIOUS
<1> HIDE DEF P, E, last, b
<1>12. n \in Nat \ {0} /\ n - 1 = E - P
  BY <1>2, <1>4, <1>8
<1>13. to[0] = 0
  BY <1>9, <1>12
<1>14. to[n] = len
  <2>1. chunk_to(pos, len, n - 1) = Min({pos + len, (P + (n - 1) + 1) * U})
    BY <1>7
  <2>2. P + (n - 1) + 1 = E + 1
    BY <1>2, <1>12
  <2>3. (E + 1) * U = (U * E) + U /\ U * E \in Nat
    BY <1>1, <1>2, Times
  <2> DEFINE x == U * E
             e == (E + 1) * U
  <2>4. e = x + U /\ x \in Nat /\ last = x + b /\ chunk_to(pos, len, n - 1) = Min({pos + len, e})
    BY <1>10, <2>1, <2>2, <2>3
  <2> HIDE DEF x, e
  <2>5. pos + len =< e /\ e \in Int
    BY <1>1, <1>10, <1>11, <2>4
  <2>6. chunk_to(pos, len, n - 1) = pos + len
    BY <2>4, <2>5, MinOfTwo
  <2>7. to[n] = chunk_to(pos, len, n - 1) - pos
    BY <1>9, <1>12
  <2> QED
    BY <2>6, <2>7
<1>15. ASSUME NEW i \in 1..n
       PROVE  /\ to[i - 1] = chunk_from(pos, i - 1) - pos
              /\ to[i] = chunk_to(pos, len, i - 1) - pos
  <2>1. i - 1 \in 0..(E - P) /\ i \in 0..n /\ i - 1 \in 0..n /\ i # 0
    BY <1>12
  <2>2. to[i] = chunk_to(pos, len, i - 1) - pos
    BY <1>9, <2>1
  <2>3. CASE i - 1 = 0
    BY <1>6, <1>13, <2>2, <2>3
  <2>4. CASE i - 1 # 0
    <3>1. to[i - 1] = chunk_to(pos, len, (i - 1) - 1) - pos
      BY <1>9, <2>1, <2>4
    <3>2. chunk_to(pos, len, (i - 1) - 1) = chunk_from(pos, i - 1)
      BY <1>5, <2>1, <2>4
    <3> QED
      BY <2>2, <3>1, <3>2
  <2> QED
    BY <2>3, <2>4
<1> QED
  BY <1>12, <1>13, <1>14, <1>15

\* A chunk is in one block, and what is read of it are the units.
LEMMA ChunkRead ==
    ASSUME NEW s, NEW f, NEW from \in Nat, NEW n \in Nat, (from % U) + n =< U, NEW k \in 1..n
    PROVE  (IF read_map(s, f, from) = NO_BLOCK THEN 0
            ELSE s.blk[read_map(s, f, from)][(from % U) + k - 1]) = Value(s, f, from + (k - 1))
<1> DEFINE i == from + (k - 1)
<1>1. U \in Nat \ {0}
  BY MfsFileAssumption
<1>2. from % U \in 0..(U - 1)
  BY <1>1, DivMod
<1>3. k - 1 \in Nat /\ (from % U) + (k - 1) < U /\ (from % U) + (k - 1) =< U
  <2> DEFINE o == from % U
  <2>1. o \in Int /\ o + n =< U
    BY <1>2
  <2> HIDE DEF o
  <2>2. k - 1 \in Nat /\ o + (k - 1) < U /\ o + (k - 1) =< U
    BY <1>1, <2>1
  <2> QED
    BY <2>2 DEF o
<1>4. /\ (from + (k - 1)) \div U = from \div U
      /\ (from + (k - 1)) % U = (from % U) + (k - 1)
  <2> DEFINE m == k - 1
  <2>1. m \in Nat /\ (from % U) + m < U /\ (from % U) + m =< U
    BY <1>3
  <2> HIDE DEF m
  <2>2. \/ (from + m) \div U = from \div U /\ (from + m) % U = (from % U) + m /\ (from % U) + m < U
        \/ (from + m) \div U = from \div U + 1 /\ (from + m) % U = 0 /\ (from % U) + m = U
    BY <2>1, NextInBlock
  <2> DEFINE o == from % U
  <2>3. o \in Int /\ o + m < U
    BY <1>2, <2>1
  <2>4. ~((from % U) + m = U)
    <3> HIDE DEF o
    <3>1. ~(o + m = U)
      BY <1>1, <2>1, <2>3
    <3> QED
      BY <3>1 DEF o
  <2>5. (from + m) \div U = from \div U /\ (from + m) % U = (from % U) + m
    BY <2>2, <2>4, Zenon
  <2> QED
    BY <2>5 DEF m
<1>5. i \div U = from \div U /\ i % U = (from % U) + k - 1
  BY <1>4
<1>6. read_map(s, f, i) = read_map(s, f, from)
  BY <1>5, SameBlock
<1>7. Value(s, f, i) = IF read_map(s, f, i) = NO_BLOCK THEN 0 ELSE s.blk[read_map(s, f, i)][i % U]
  BY DEF Value
<1> HIDE DEF i
<1>8. Value(s, f, i) = IF read_map(s, f, from) = NO_BLOCK THEN 0
                       ELSE s.blk[read_map(s, f, from)][(from % U) + k - 1]
  BY <1>5, <1>6, <1>7
<1> QED
  BY <1>8 DEF i

\* What a read puts together.
ReadOf(s, f, c) ==
    [k \in 1..c.n |-> IF read_map(s, f, c.pos) = NO_BLOCK THEN 0
                      ELSE s.blk[read_map(s, f, c.pos)][(c.pos % U) + k - 1]]
DataFrom(s, f, pos, len) == [k \in 1..len |-> Value(s, f, pos + (k - 1))]

LEMMA ReadData ==
    ASSUME NEW s, NEW f, NEW pos \in Nat, NEW len \in Nat \ {0}
    PROVE  FlattenSeq([j \in DOMAIN Chunks(pos, len) |-> ReadOf(s, f, Chunks(pos, len)[j])])
             = DataFrom(s, f, pos, len)
<1> DEFINE n == ChunkCount(pos, len)
           to == Covered(pos, len)
           D == DataFrom(s, f, pos, len)
           chunks == Chunks(pos, len)
           seqs == [j \in DOMAIN chunks |-> ReadOf(s, f, chunks[j])]
<1>1. /\ n \in Nat \ {0} /\ to[0] = 0 /\ to[n] = len
      /\ \A i \in 1..n : /\ to[i - 1] = chunk_from(pos, i - 1) - pos
                         /\ to[i] = chunk_to(pos, len, i - 1) - pos
  BY ChunksFollow
<1>2. n = ((pos + len - 1) \div U) - (pos \div U) + 1
  BY DEF ChunkCount
<1>3. /\ DOMAIN chunks = 1..n
      /\ \A j \in 1..n : /\ chunks[j].pos = chunk_from(pos, j - 1)
                         /\ chunks[j].n = chunk_to(pos, len, j - 1) - chunk_from(pos, j - 1)
  <2> HIDE DEF n
  <2> QED
    BY <1>2, ChunksAre
<1>4. \A k \in 0..(n - 1) :
         /\ chunk_from(pos, k) \in Nat /\ chunk_to(pos, len, k) \in Nat
         /\ chunk_to(pos, len, k) =< pos + len
         /\ pos =< chunk_from(pos, k) /\ chunk_from(pos, k) < chunk_to(pos, len, k)
         /\ (chunk_from(pos, k) % U) + (chunk_to(pos, len, k) - chunk_from(pos, k)) =< U
  <2> DEFINE m == ((pos + len - 1) \div U) - (pos \div U)
  <2>1. \A k \in 0..m :
         /\ chunk_from(pos, k) \in Nat /\ chunk_to(pos, len, k) \in Nat
         /\ chunk_to(pos, len, k) =< pos + len
         /\ pos =< chunk_from(pos, k) /\ chunk_from(pos, k) < chunk_to(pos, len, k)
         /\ (chunk_from(pos, k) % U) + (chunk_to(pos, len, k) - chunk_from(pos, k)) =< U
    BY ChunkBounds, ChunkInBlock
  <2>2. m \in Int /\ n = m + 1
    <3>1. U \in Nat \ {0} /\ pos + len - 1 \in Nat
      BY MfsFileAssumption
    <3>2. (pos + len - 1) \div U \in Nat /\ pos \div U \in Nat
      BY <3>1, DivMod
    <3> HIDE DEF n
    <3> QED
      BY <1>2, <3>2
  <2> HIDE DEF m, n
  <2>3. n - 1 = m
    BY <2>2
  <2> QED
    BY <2>1, <2>3
<1>5. Len(seqs) = n /\ \A i \in 1..n : seqs[i] = ReadOf(s, f, chunks[i])
  <2> HIDE DEF n, chunks
  <2> QED
    BY <1>1, <1>3
<1>6. D = [k \in 1..len |-> Value(s, f, pos + (k - 1))]
  BY DEF DataFrom
<1> HIDE DEF n, to, D, chunks, seqs
<1>7. ASSUME NEW i \in 1..n PROVE Piece(seqs, D, to, i)
  <2> DEFINE from == chunk_from(pos, i - 1)
             last == chunk_to(pos, len, i - 1)
             c == chunks[i]
  <2>1. i - 1 \in 0..(n - 1)
    BY <1>1
  <2>2. /\ from \in Nat /\ last \in Nat /\ last =< pos + len /\ pos =< from /\ from < last
        /\ (from % U) + (last - from) =< U
    BY <1>4, <2>1
  <2>3. to[i - 1] = from - pos /\ to[i] = last - pos /\ c.pos = from /\ c.n = last - from
    BY <1>1, <1>3
  <2>4. seqs[i] = ReadOf(s, f, c)
    BY <1>5
  <2> HIDE DEF from, last, c
  <2>5. to[i - 1] \in Nat /\ to[i] \in Nat /\ to[i - 1] =< to[i] /\ to[i] - to[i - 1] = c.n /\ c.n \in Nat
    BY <2>2, <2>3
  <2>6. ASSUME NEW k \in 1..c.n
        PROVE  (IF read_map(s, f, c.pos) = NO_BLOCK THEN 0
                ELSE s.blk[read_map(s, f, c.pos)][(c.pos % U) + k - 1]) = D[to[i - 1] + k]
    <3>1. to[i - 1] + k \in 1..len /\ pos + ((to[i - 1] + k) - 1) = from + (k - 1)
      BY <2>2, <2>3
    <3>2. D[to[i - 1] + k] = Value(s, f, from + (k - 1))
      BY <1>6, <3>1
    <3>3. c.pos \in Nat /\ (c.pos % U) + c.n =< U
      BY <2>2, <2>3
    <3> DEFINE p == c.pos
               m == c.n
    <3>4. p = from
      BY <2>3
    <3>5. (IF read_map(s, f, p) = NO_BLOCK THEN 0
           ELSE s.blk[read_map(s, f, p)][(p % U) + k - 1]) = Value(s, f, p + (k - 1))
      <4>1. k \in 1..m /\ p \in Nat /\ m \in Nat /\ (p % U) + m =< U
        BY <2>5, <3>3
      <4> HIDE DEF p, m
      <4> QED
        BY <4>1, ChunkRead
    <3> QED
      BY <3>2, <3>4, <3>5
  <2>7. ReadOf(s, f, c) = [k \in 1..c.n |-> D[to[i - 1] + k]]
    BY <2>6 DEF ReadOf
  <2>8. seqs[i] = NextData(D, to[i - 1], to[i] - to[i - 1])
    BY <2>4, <2>5, <2>7 DEF NextData
  <2> QED
    BY <2>5, <2>8 DEF Piece
<1>8. FlattenSeq(seqs) = Data(D, to[n])
  BY <1>1, <1>5, <1>7, FlattenIs
<1>9. Data(D, len) = D
  BY <1>6 DEF Data
<1>10. FlattenSeq(seqs) = D
  BY <1>1, <1>8, <1>9
<1> QED
  BY <1>10 DEF seqs, chunks, D

LEMMA ReadRefined ==
    ASSUME Sound(fs, lost), fs' = fs, NEW f \in Files, NEW pos \in Nat, NEW len \in Nat \ {0},
           NEW last, last = Min({pos + len, fs.ino[f].size}),
           NEW data, pos >= fs.ino[f].size => data = <<>>,
           pos < fs.ino[f].size => data = DataFrom(fs, f, pos, last - pos)
    PROVE  Sparse!Read(f, pos, len, data)
<1> DEFINE old == Contents(fs, f)
           S == fs.ino[f].size
<1>1. /\ S \in Nat /\ Len(old) = S
      /\ \A i \in 0..(S - 1) : i \in Units(fs) /\ old[i + 1] = Value(fs, f, i)
  BY ContentsAre
<1>2. last = Min({pos + len, Len(old)})
  BY <1>1
<1>3. /\ pos >= S => data = <<>>
      /\ pos < S => data = DataFrom(fs, f, pos, last - pos)
  OBVIOUS
<1>4. last = IF pos + len <= S THEN pos + len ELSE S
  BY <1>1, MinOfTwo
<1>5. Content(f) = old
  BY ContentIs
<1>6. old = [i \in 1..S |-> Value(fs, f, i - 1)]
  BY DEF Contents
<1> HIDE DEF old, S
<1>7. S \in Nat
  BY <1>1
<1>8. data = SubSeq(old, pos + 1, last)
  <2>1. CASE pos >= S
    <3>1. pos + 1 \in Int /\ last \in Int /\ last < pos + 1
      BY <1>1, <1>4, <2>1
    <3> QED
      BY <1>3, <2>1, <3>1, SubSeqEmpty
  <2>2. CASE pos < S
    <3> DEFINE n == last - pos
               V == {old[i] : i \in 1..S}
    <3>1. n \in Nat /\ last = pos + n /\ last <= S
      BY <1>4, <1>7, <2>2
    <3>2. data = [k \in 1..n |-> Value(fs, f, pos + (k - 1))]
      BY <1>3, <2>2 DEF DataFrom
    <3> HIDE DEF n
    <3>3. old \in Seq(V)
      <4>1. \A i \in 1..S : old[i] \in V
        OBVIOUS
      <4> HIDE DEF V
      <4>2. old \in [1..S -> V]
        BY <1>6, <4>1
      <4> QED
        BY <1>7, <4>2
    <3> HIDE DEF V
    <3>4. SubSeq(old, pos + 1, pos + n) = [k \in 1..n |-> old[(pos + (k - 1)) + 1]]
      BY <1>1, <3>1, <3>3, Excerpt
    <3>5. ASSUME NEW k \in 1..n
          PROVE  old[(pos + (k - 1)) + 1] = Value(fs, f, pos + (k - 1))
      <4> DEFINE j == pos + (k - 1)
      <4>1. j \in 0..(S - 1)
        BY <1>1, <3>1
      <4> HIDE DEF j
      <4>2. old[j + 1] = Value(fs, f, j)
        BY <1>1, <4>1
      <4> QED
        BY <4>2 DEF j
    <3>6. SubSeq(old, pos + 1, pos + n) = data
      BY <3>2, <3>4, <3>5
    <3> QED
      BY <3>1, <3>6
  <2>3. pos >= S \/ pos < S
    BY <1>7
  <2> QED
    BY <2>1, <2>2, <2>3, Zenon
<1>9. UNCHANGED [g \in Files |-> Content(g)]
  BY UnchangedRefined
<1>10. data = SubSeq(Content(f), pos + 1, Min({pos + len, Len(Content(f))}))
  BY <1>2, <1>5, <1>8
<1> QED
  BY <1>9, <1>10, Zenon DEF Sparse!Read, Min, Sparse!Min

LEMMA ReadRefines ==
    ASSUME FInv, Tidy(fs), NEW f \in Files, NEW pos \in Positions, NEW len \in Lengths,
           Read(f, pos, len)
    PROVE  Tidy(fs') /\ Sparse!Next
<1> DEFINE S == fs.ino[f].size
           last == Min({pos + len, S})
           data == reply'.data
           chunks == Chunks(pos, last - pos)
<1>1. Sound(fs, lost) /\ pos \in Nat /\ len \in Nat \ {0}
  BY RequestIs DEF FInv
<1>2. /\ fs' = fs
      /\ reply' = [op |-> "read", f |-> f, pos |-> pos, len |-> len,
                   data |-> IF pos >= S THEN <<>>
                            ELSE FlattenSeq([j \in DOMAIN chunks |-> ReadOf(fs, f, chunks[j])])]
  BY Zenon DEF Read, ReadOf
<1> DEFINE flat == FlattenSeq([j \in DOMAIN chunks |-> ReadOf(fs, f, chunks[j])])
<1>3. /\ reply'.op = "read" /\ reply'.f = f /\ reply'.pos = pos /\ reply'.len = len
      /\ data = IF pos >= S THEN <<>> ELSE flat
  BY <1>2
<1>4. S \in Nat
  BY <1>1, SoundIs, SizeIs
<1>5. pos < S => last - pos \in Nat \ {0}
  <2> HIDE DEF S
  <2> QED
    BY <1>1, <1>4, MinOfTwo
<1>6. pos < S => flat = DataFrom(fs, f, pos, last - pos)
  <2> DEFINE n == last - pos
  <2>1. n \in Nat \ {0} => flat = DataFrom(fs, f, pos, n)
    <3>1. flat = FlattenSeq([j \in DOMAIN Chunks(pos, n) |-> ReadOf(fs, f, Chunks(pos, n)[j])])
      OBVIOUS
    <3> HIDE DEF flat, n
    <3> QED
      BY <1>1, <3>1, ReadData
  <2> QED
    BY <1>5, <2>1
<1>7. /\ pos >= fs.ino[f].size => data = <<>>
      /\ pos < fs.ino[f].size => data = DataFrom(fs, f, pos, last - pos)
      /\ last = Min({pos + len, fs.ino[f].size})
  <2>1. pos < S => ~(pos >= S)
    <3> HIDE DEF S
    <3> QED
      BY <1>1, <1>4
  <2> HIDE DEF data, flat
  <2> QED
    BY <1>3, <1>6, <2>1
<1> HIDE DEF last
<1>8. Sparse!Read(f, pos, len, data)
  <2> HIDE DEF data
  <2> QED
    BY <1>1, <1>2, <1>7, ReadRefined
<1>9. Sparse!Next
  BY <1>3, <1>8, SparseNext DEF Asked
<1> QED
  BY <1>2, <1>9

-----------------------------------------------------------------------------

LEMMA InitRefines ==
    ASSUME Init PROVE Tidy(fs) /\ Sparse!Init
<1>1. Sound(fs, lost) /\ fs.scale \in Scales
  BY InitSound, SoundIs DEF FInv
<1>2. PICK scale \in Scales :
        fs = [scale |-> scale, bits |-> {0}, zsearch |-> 0,
              blk |-> [b \in 0..(Zones * 2 ^ scale - 1) |-> Zeros],
              ino |-> [f \in Files |-> NewInode], panic |-> FALSE]
  BY Zenon DEF Init
<1>3. fs.ino = [f \in Files |-> NewInode]
  BY <1>2
<1>4. \A f \in Files : fs.ino[f].size = 0 /\ \A i \in Tops : fs.ino[f].zone[i] = NO_ZONE
  <2>1. NewInode.size = 0 /\ NewInode.zone = [i \in Tops |-> NO_ZONE]
    BY DEF NewInode, Tops
  <2> QED
    BY <1>3, <2>1
<1>5. ASSUME NEW f \in Files, NEW k \in 0..(MaxZone - 1) PROVE PlaceZone(fs, f, k) = NO_ZONE
  BY <1>4, NoPlaces
<1>6. ASSUME NEW f \in Files, NEW i \in Units(fs) PROVE Value(fs, f, i) = 0
  BY <1>1, <1>5, UnitIs, ValueIs
<1>7. Tidy(fs)
  BY <1>5, <1>6 DEF Tidy, Ends
<1>8. \A f \in Files : Contents(fs, f) = <<>>
  BY <1>4 DEF Contents
<1>9. [f \in Files |-> Content(f)] = [f \in Files |-> <<>>]
  BY <1>8, ContentIs
<1>10. reply = [op |-> "none"]
  BY DEF Init
<1> QED
  BY <1>7, <1>9, <1>10 DEF Sparse!Init

LEMMA StepRefines ==
    ASSUME FInv, FInv', Tidy(fs), Careful, ~CopyFaults, [Next]_vars
    PROVE  Tidy(fs)' /\ [Sparse!Next]_(Sparse!vars)
<1>1. ASSUME NEW f \in Files, NEW pos \in Positions, NEW len \in Lengths, Write(f, pos, len)
      PROVE  Tidy(fs') /\ Sparse!Next
  BY <1>1, WriteRefines
<1>2. ASSUME NEW f \in Files, NEW pos \in Positions, NEW len \in Lengths, Read(f, pos, len)
      PROVE  Tidy(fs') /\ Sparse!Next
  BY <1>2, ReadRefines
<1>3. ASSUME NEW f \in Files, NEW start \in Positions, NEW end \in Positions, fs_ftrunc(f, start, end)
      PROVE  Tidy(fs') /\ Sparse!Next
  BY <1>3, TruncRefines
<1>4. ASSUME NEW f \in Files, RemoveFile(f) PROVE Tidy(fs') /\ Sparse!Next
  BY <1>4, RemoveRefines
<1>5. ASSUME NEW f \in Files, Reload(f) PROVE Tidy(fs') /\ Sparse!Next
  BY <1>5, ReloadRefines
<1>6. Next => Tidy(fs') /\ Sparse!Next
  <2>1. ASSUME Next PROVE Tidy(fs') /\ Sparse!Next
    BY <1>1, <1>2, <1>3, <1>4, <1>5, <2>1, Zenon DEF Next
  <2> QED
    BY <2>1
<1>7. UNCHANGED vars => Tidy(fs') /\ UNCHANGED Sparse!vars
  <2> SUFFICES ASSUME UNCHANGED vars PROVE Tidy(fs') /\ UNCHANGED Sparse!vars
    OBVIOUS
  <2>1. fs' = fs /\ reply' = reply
    BY DEF vars
  <2>2. UNCHANGED [f \in Files |-> Content(f)]
    BY <2>1, UnchangedRefined
  <2> QED
    BY <2>1, <2>2 DEF Sparse!vars
<1>8. Tidy(fs') => Tidy(fs)'
  BY DEF Tidy, Ends, Units, Value, PlaceZone, IndirectOf, rd_indir, read_map, zone_at, Zone, ZoneBlocks,
         ZoneSize, MaxSize
<1> QED
  BY <1>6, <1>7, <1>8

\* No position past the end of a file has a zone, and the block of its end has
\* no data past it, so what a file grows over is zero, for callers that do not
\* append inside a zone the file does not have and copies that do not fail
\* (write.c, clear_zone and zero_block; link.c, zerozone_half).  An empty
\* indirect zone past the end, which a full disk leaves, does no harm here.
THEOREM MfsFileTidy == ASSUME Careful, ~CopyFaults PROVE Spec => []Tidy(fs)
<1>1. Init => Tidy(fs)
  BY InitRefines
<1>2. FInv /\ FInv' /\ Tidy(fs) /\ [Next]_vars => Tidy(fs)'
  BY StepRefines
<1>3. Spec => []FInv
  BY MfsFileSound
<1> QED
  BY <1>1, <1>2, <1>3, PTL DEF Spec

\* Through all the levels of the map, with zones of any size, the requests of
\* careful callers do to the contents of the files what they do to plain sparse
\* files: a read gives what was last written or zero, growth, holes and freed
\* space read as zero, and no request touches another file (read.c:29-356,
\* write.c:26-336, link.c:486-697).
THEOREM MfsFileImplements == ASSUME Careful, ~CopyFaults PROVE Spec => ImplementsSparseFile
<1>1. Init => Sparse!Init
  BY InitRefines
<1>2. FInv /\ FInv' /\ Tidy(fs) /\ [Next]_vars => [Sparse!Next]_(Sparse!vars)
  BY StepRefines
<1>3. Spec => []FInv
  BY MfsFileSound
<1>4. Spec => []Tidy(fs)
  BY MfsFileTidy
<1> QED
  BY <1>1, <1>2, <1>3, <1>4, PTL DEF Spec, ImplementsSparseFile, Sparse!Spec
=============================================================================
