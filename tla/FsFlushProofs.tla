---------------------------- MODULE FsFlushProofs ----------------------------
(* What every flush keeps, for any volume and any number of groups: first    *)
(* where a flush puts what it writes, and where ext2fs_open looks for it,     *)
(* then the invariant.                                                       *)
EXTENDS FsFlush, TLAPS

-----------------------------------------------------------------------------
\* Where a flush puts the copies of the descriptors.
OldLoc(g, k)     == GroupBlock(g) + 1 + k
PrimaryLoc(i)    == DescLoc(geo.first, i)

\* Is b where a flush puts a copy of descriptor block k?
OldCopy(b, g, k) == WritesOld(g) /\ k \in OldDescs /\ b = OldLoc(g, k)
NewCopy(b, g, k) == HasNew(g) /\ k = g \div DescPerBlock /\ b = NewDesc(g)
IsCopy(b, k)     == \E g \in Groups : OldCopy(b, g, k) \/ NewCopy(b, g, k)

-----------------------------------------------------------------------------
\* Arithmetic.

LEMMA MultMonotone ==
    ASSUME NEW a \in Int, NEW b \in Int, NEW c \in Nat, a <= b
    PROVE  c * a <= c * b
  OBVIOUS

LEMMA Division ==
    ASSUME NEW x \in Nat, NEW d \in Nat \ {0}
    PROVE  /\ x \div d \in Nat /\ x % d \in 0..(d - 1)
           /\ x = d * (x \div d) + (x % d)
  OBVIOUS

LEMMA Quotient ==
    ASSUME NEW d \in Nat \ {0}, NEW q \in Nat, NEW r \in 0..(d - 1)
    PROVE  (d * q + r) \div d = q /\ (d * q + r) % d = r
  OBVIOUS

LEMMA Exact ==
    ASSUME NEW d \in Nat \ {0}, NEW q \in Nat
    PROVE  (d * q) \div d = q /\ (d * q) % d = 0
  OBVIOUS

\* A quotient rounded up.
LEMMA RoundedUp ==
    ASSUME NEW n \in Nat \ {0}, NEW d \in Nat \ {0},
           NEW q, q = (n + d - 1) \div d
    PROVE  /\ q \in Nat
           /\ \A x \in 0..(n - 1) : x \div d \in 0..(q - 1)
           /\ \A i \in 0..(q - 1) : d * i \in 0..(n - 1) /\ i <= d * i
  <1>1. n + d - 1 \in Nat OBVIOUS
  <1>2. q \in Nat BY <1>1, Division
  <1>3. d * q <= n + d - 1 /\ n + d - 1 < d * q + d BY <1>1, <1>2, Division
  <1>4. ASSUME NEW x \in 0..(n - 1) PROVE x \div d \in 0..(q - 1)
    <2>1. PICK k \in Nat : k = x \div d BY Division
    <2>2. d * k <= x BY <2>1, Division
    <2>3. SUFFICES ASSUME k >= q PROVE FALSE BY <2>1
    <2>4. d * q <= d * k BY <2>3, MultMonotone
    <2>5. x < d * q BY <1>3
    <2> QED BY <2>2, <2>4, <2>5
  <1>5. ASSUME NEW i \in 0..(q - 1) PROVE d * i \in 0..(n - 1) /\ i <= d * i
    <2>1. d * (i + 1) <= d * q BY MultMonotone
    <2>2. d * (i + 1) = d * i + d OBVIOUS
    <2>3. d * i \in Nat /\ i <= d * i OBVIOUS
    <2> QED BY <2>1, <2>2, <2>3, <1>3
  <1> QED BY <1>2, <1>4, <1>5

LEMMA Sizes ==
    /\ NGroups \in Nat \ {0} /\ DescPerBlock \in Nat \ {0} /\ DescPerBlock > 1
    /\ BlocksPerGroup \in Nat /\ BlocksPerGroup > NGroups + 2
    /\ 0 \in Groups /\ \A g \in Groups : g \in Nat /\ g < NGroups
  <1>1. /\ NGroups \in Nat \ {0} /\ DescPerBlock \in Nat \ {0} /\ DescPerBlock > 1
        /\ BlocksPerGroup \in Nat /\ BlocksPerGroup > NGroups + 2
    BY SizesAssumption
  <1> QED BY <1>1 DEF Groups

\* Every group has a descriptor block, and every block a first group.
LEMMA BlockOfGroup ==
    ASSUME NEW g \in Groups
    PROVE  g \div DescPerBlock \in DescBlocks
  BY Sizes, RoundedUp DEF Groups, DescBlocks

LEMMA GroupOfBlock ==
    ASSUME NEW i \in DescBlocks
    PROVE  /\ i \in Nat /\ i < NGroups
           /\ DescPerBlock * i \in Groups
           /\ (DescPerBlock * i) \div DescPerBlock = i
           /\ (DescPerBlock * i) % DescPerBlock = 0
  <1>1. PICK q : q = (NGroups + DescPerBlock - 1) \div DescPerBlock
    OBVIOUS
  <1>2. i \in 0..(q - 1) BY <1>1 DEF DescBlocks
  <1>3. DescPerBlock * i \in 0..(NGroups - 1) /\ i <= DescPerBlock * i /\ i \in Nat
    BY <1>1, <1>2, RoundedUp, Sizes
  <1>4. (DescPerBlock * i) \div DescPerBlock = i /\ (DescPerBlock * i) % DescPerBlock = 0
    BY <1>3, Exact, Sizes
  <1>5. DescPerBlock * i \in Groups BY <1>3 DEF Groups
  <1>6. i < NGroups BY <1>3, <1>5, Sizes
  <1> QED BY <1>3, <1>4, <1>5, <1>6

-----------------------------------------------------------------------------
\* Where things are.

LEMMA GeoFacts ==
    ASSUME geo \in Geometries
    PROVE  /\ geo.first \in {0, 1} /\ geo.first_meta_bg \in Nat
           /\ geo.meta_bg \in BOOLEAN /\ geo.master_only \in BOOLEAN
           /\ geo.valid \in BOOLEAN /\ geo.recovery \in BOOLEAN
           /\ \A g \in Groups : Adjust(g) \in {0, 1} /\ (HasSuper(g) <=> Adjust(g) = 1)
           /\ HasSuper(0)
           /\ \A k \in OldDescs : k \in DescBlocks /\ k \in Nat /\ k < NGroups
  <1>1. geo \in [first : {0, 1}, meta_bg : BOOLEAN, first_meta_bg : Nat,
                 supers : {"all", "sparse", "sparse2"}, backup_bgs : SUBSET Groups,
                 master_only : BOOLEAN, valid : BOOLEAN, recovery : BOOLEAN]
    BY GeometriesAssumption
  <1>2. HasSuper(0) BY DEF HasSuper
  <1>3. \A k \in OldDescs : k \in DescBlocks BY DEF OldDescs
  <1>4. \A k \in OldDescs : k \in Nat /\ k < NGroups
    BY <1>3, GroupOfBlock
  <1>5. \A g \in Groups : Adjust(g) \in {0, 1} /\ (HasSuper(g) <=> Adjust(g) = 1)
    BY DEF Adjust
  <1> QED BY <1>1, <1>2, <1>3, <1>4, <1>5

\* A block is at one offset of one group.
LEMMA OneOffset ==
    ASSUME geo \in Geometries, NEW g \in Groups, NEW h \in Groups,
           NEW a \in 0..(BlocksPerGroup - 1), NEW b \in 0..(BlocksPerGroup - 1),
           GroupBlock(g) + a = GroupBlock(h) + b
    PROVE  g = h /\ a = b
  <1>1. g * BlocksPerGroup + a = h * BlocksPerGroup + b
    BY GeoFacts, Sizes DEF GroupBlock
  <1>2. PICK n \in Nat : n = BlocksPerGroup BY Sizes
  <1>3. g \in Nat /\ h \in Nat BY Sizes
  <1>4. ASSUME NEW x \in Nat, NEW y \in Nat, x < y PROVE x * n + n <= y * n
    <2>1. n * (x + 1) <= n * y BY <1>4, MultMonotone
    <2> QED BY <2>1
  <1>5. ~(g < h) /\ ~(h < g) BY <1>1, <1>2, <1>3, <1>4
  <1> QED BY <1>1, <1>2, <1>3, <1>5

LEMMA InVolume ==
    ASSUME geo \in Geometries, NEW g \in Groups, NEW a \in 0..(BlocksPerGroup - 1)
    PROVE  /\ GroupBlock(g) \in Nat
           /\ GroupBlock(g) + a \in Blocks
  <1>1. PICK n \in Nat : n = BlocksPerGroup BY Sizes
  <1>2. g \in Nat /\ g + 1 <= NGroups /\ NGroups \in Nat BY Sizes
  <1>3. n * (g + 1) <= n * NGroups BY <1>1, <1>2, MultMonotone
  <1>4. g * n + n <= NGroups * n /\ g * n \in Nat /\ NGroups * n \in Nat BY <1>1, <1>2, <1>3
  <1>5. geo.first \in {0, 1} BY GeoFacts
  <1> QED BY <1>1, <1>4, <1>5 DEF GroupBlock, Blocks

\* The offsets of the things in a group.
LEMMA Offsets ==
    ASSUME geo \in Geometries, NEW g \in Groups
    PROVE  /\ MapBlock(g) = GroupBlock(g) + (BlocksPerGroup - 1)
           /\ GroupBlock(g) = GroupBlock(g) + 0
           /\ \A k \in OldDescs : OldLoc(g, k) = GroupBlock(g) + (1 + k)
           /\ NewDesc(g) = GroupBlock(g) + Adjust(g)
           /\ {0, 1, BlocksPerGroup - 1, Adjust(g)} \subseteq 0..(BlocksPerGroup - 1)
           /\ \A k \in OldDescs : 1 + k \in 1..(BlocksPerGroup - 3)
           /\ Adjust(g) \in 0..(BlocksPerGroup - 3)
           /\ BlocksPerGroup - 1 > BlocksPerGroup - 3
  <1>1. GroupBlock(g) \in Nat BY InVolume, Sizes
  <1>2. Adjust(g) \in {0, 1} /\ \A k \in OldDescs : k \in Nat /\ k < NGroups BY GeoFacts
  <1>3. MapBlock(g) = GroupBlock(g) + (BlocksPerGroup - 1) /\ GroupBlock(g) = GroupBlock(g) + 0
    BY <1>1, Sizes DEF MapBlock
  <1>4. \A k \in OldDescs : OldLoc(g, k) = GroupBlock(g) + (1 + k)
    BY <1>1, <1>2 DEF OldLoc
  <1>5. /\ {0, 1, BlocksPerGroup - 1, Adjust(g)} \subseteq 0..(BlocksPerGroup - 1)
        /\ Adjust(g) \in 0..(BlocksPerGroup - 3)
        /\ BlocksPerGroup - 1 > BlocksPerGroup - 3
    BY <1>2, Sizes
  <1>6. \A k \in OldDescs : 1 + k \in 1..(BlocksPerGroup - 3)
    BY <1>2, Sizes
  <1> QED BY <1>3, <1>4, <1>5, <1>6 DEF NewDesc

\* Bitmaps, copies of descriptors and superblocks are in different blocks.
LEMMA MapsApart ==
    ASSUME geo \in Geometries, NEW g \in Groups, NEW h \in Groups
    PROVE  /\ MapBlock(g) \in Blocks
           /\ MapBlock(g) = MapBlock(h) => g = h
           /\ MapBlock(g) # GroupBlock(h)
           /\ \A k \in OldDescs : MapBlock(g) # OldLoc(h, k)
           /\ MapBlock(g) # NewDesc(h)
  <1>1. MapBlock(g) \in Blocks BY Offsets, InVolume
  <1>2. MapBlock(g) = MapBlock(h) => g = h BY Offsets, OneOffset
  <1>3. MapBlock(g) # GroupBlock(h)
    BY Offsets, OneOffset, Sizes
  <1>4. ASSUME NEW k \in OldDescs PROVE MapBlock(g) # OldLoc(h, k)
    <2>1. 1 + k \in 0..(BlocksPerGroup - 1) /\ 1 + k # BlocksPerGroup - 1
      BY Offsets, Sizes
    <2> QED BY <2>1, Offsets, OneOffset
  <1>5. MapBlock(g) # NewDesc(h)
    <2>1. Adjust(h) \in 0..(BlocksPerGroup - 1) /\ Adjust(h) # BlocksPerGroup - 1
      BY Offsets, Sizes
    <2> QED BY <2>1, Offsets, OneOffset
  <1> QED BY <1>1, <1>2, <1>3, <1>4, <1>5

LEMMA CopiesApart ==
    ASSUME geo \in Geometries, NEW g \in Groups, NEW h \in Groups
    PROVE  /\ GroupBlock(g) \in Blocks /\ NewDesc(g) \in Blocks
           /\ \A k \in OldDescs : OldLoc(g, k) \in Blocks
           /\ \A j, k \in OldDescs : OldLoc(g, j) = OldLoc(h, k) => g = h /\ j = k
           /\ NewDesc(g) = NewDesc(h) => g = h
           /\ \A k \in OldDescs : HasOld(g) /\ HasNew(h) => OldLoc(g, k) # NewDesc(h)
           /\ HasSuper(g) => GroupBlock(g) # NewDesc(h)
           /\ HasSuper(g) => \A k \in OldDescs : GroupBlock(g) # OldLoc(h, k)
  <1>1. \A k \in OldDescs : 1 + k \in 0..(BlocksPerGroup - 1) /\ 1 + k # 0 /\ k \in Nat
    BY Offsets, Sizes, GeoFacts
  <1>2. GroupBlock(g) \in Blocks /\ NewDesc(g) \in Blocks
    BY Offsets, InVolume
  <1>3. \A k \in OldDescs : OldLoc(g, k) \in Blocks
    BY <1>1, Offsets, InVolume
  <1>4. ASSUME NEW j \in OldDescs, NEW k \in OldDescs, OldLoc(g, j) = OldLoc(h, k)
        PROVE  g = h /\ j = k
    <2>1. g = h /\ 1 + j = 1 + k BY <1>1, <1>4, Offsets, OneOffset
    <2> QED BY <2>1, <1>1
  <1>5. NewDesc(g) = NewDesc(h) => g = h BY Offsets, OneOffset
  <1>6. ASSUME NEW k \in OldDescs, HasOld(g), HasNew(h) PROVE OldLoc(g, k) # NewDesc(h)
    <2>1. g # h BY <1>6 DEF HasOld, HasNew
    <2> QED BY <2>1, <1>1, Offsets, OneOffset
  <1>7. ASSUME HasSuper(g) PROVE GroupBlock(g) # NewDesc(h)
    <2>1. Adjust(g) # 0 BY <1>7, GeoFacts
    <2> QED BY <2>1, Offsets, OneOffset
  <1>8. ASSUME NEW k \in OldDescs PROVE GroupBlock(g) # OldLoc(h, k)
    BY <1>1, Offsets, OneOffset
  <1> QED BY <1>2, <1>3, <1>4, <1>5, <1>6, <1>7, <1>8

\* A block has a copy of at most one descriptor block, and nothing else.
LEMMA CopyHolds ==
    ASSUME geo \in Geometries, NEW b, NEW k, IsCopy(b, k)
    PROVE  /\ b \in Blocks /\ k \in DescBlocks
           /\ \A j : IsCopy(b, j) => j = k
           /\ \A g \in Groups : /\ MapBlock(g) # b
                                /\ HasSuper(g) => GroupBlock(g) # b
  <1>1. PICK g \in Groups : OldCopy(b, g, k) \/ NewCopy(b, g, k) BY DEF IsCopy
  <1>2. b \in Blocks /\ k \in DescBlocks
    BY <1>1, CopiesApart, BlockOfGroup, GeoFacts DEF OldCopy, NewCopy
  <1>3. ASSUME NEW j, IsCopy(b, j) PROVE j = k
    <2>1. PICK h \in Groups : OldCopy(b, h, j) \/ NewCopy(b, h, j) BY <1>3 DEF IsCopy
    <2>2. CASE OldCopy(b, g, k) /\ OldCopy(b, h, j)
      <3>1. k \in OldDescs /\ j \in OldDescs /\ OldLoc(g, k) = OldLoc(h, j)
        BY <2>2 DEF OldCopy
      <3> QED BY <3>1, CopiesApart
    <2>3. CASE NewCopy(b, g, k) /\ NewCopy(b, h, j)
      BY <2>3, CopiesApart DEF NewCopy
    <2>4. CASE OldCopy(b, g, k) /\ NewCopy(b, h, j)
      <3>1. k \in OldDescs /\ HasOld(g) /\ HasNew(h) /\ OldLoc(g, k) = NewDesc(h)
        BY <2>4 DEF OldCopy, NewCopy, WritesOld
      <3> QED BY <3>1, CopiesApart
    <2>5. CASE NewCopy(b, g, k) /\ OldCopy(b, h, j)
      <3>1. j \in OldDescs /\ HasOld(h) /\ HasNew(g) /\ OldLoc(h, j) = NewDesc(g)
        BY <2>5 DEF OldCopy, NewCopy, WritesOld
      <3> QED BY <3>1, CopiesApart
    <2> QED BY <1>1, <2>1, <2>2, <2>3, <2>4, <2>5
  <1>4. ASSUME NEW h \in Groups PROVE MapBlock(h) # b
    BY <1>1, MapsApart DEF OldCopy, NewCopy
  <1>5. ASSUME NEW h \in Groups, HasSuper(h) PROVE GroupBlock(h) # b
    BY <1>1, <1>5, CopiesApart DEF OldCopy, NewCopy
  <1> QED BY <1>2, <1>3, <1>4, <1>5

\* ext2fs_open finds, from the primary superblock, a copy a flush has written.
LEMMA PrimaryIsCopy ==
    ASSUME geo \in Geometries, NEW i \in DescBlocks
    PROVE  IsCopy(PrimaryLoc(i), i)
  <1>1. CASE ~geo.meta_bg \/ i < geo.first_meta_bg
    <2>1. i \in OldDescs BY <1>1 DEF OldDescs
    <2>2. ~InMeta(0)
      <3>1. 0 \div DescPerBlock = 0 BY Sizes
      <3> QED BY <1>1, <3>1, GeoFacts, GroupOfBlock DEF InMeta
    <2>3. WritesOld(0) BY <2>2, GeoFacts DEF WritesOld, HasOld
    <2>4. OldLoc(0, i) = geo.first + i + 1 /\ PrimaryLoc(i) = geo.first + i + 1
      BY <1>1, GroupOfBlock, GeoFacts, Sizes DEF OldLoc, PrimaryLoc, DescLoc, GroupBlock
    <2> QED BY <2>1, <2>3, <2>4, Sizes DEF IsCopy, OldCopy
  <1>2. CASE geo.meta_bg /\ ~(i < geo.first_meta_bg)
    <2> DEFINE g == DescPerBlock * i
    <2>1. g \in Groups /\ g \div DescPerBlock = i /\ g % DescPerBlock = 0 BY GroupOfBlock
    <2>2. HasNew(g)
      BY <1>2, <2>1, GroupOfBlock, GeoFacts DEF HasNew, InMeta
    <2>3. PrimaryLoc(i) = NewDesc(g) BY <1>2 DEF PrimaryLoc, DescLoc, NewDesc
    <2> HIDE DEF g
    <2> QED BY <2>1, <2>2, <2>3 DEF IsCopy, NewCopy
  <1> QED BY <1>1, <1>2

\* And from a backup superblock, when the group has all that comes before.
LEMMA BackupIsCopy ==
    ASSUME geo \in Geometries, NEW g \in Groups \ {0}, NEW i \in DescBlocks,
           HasSuper(g), ~geo.master_only, HasOld(g) \/ OldDescs = {}
    PROVE  IsCopy(DescLoc(GroupBlock(g), i), i)
  <1>1. CASE ~geo.meta_bg \/ i < geo.first_meta_bg
    <2>1. i \in OldDescs BY <1>1 DEF OldDescs
    <2>2. WritesOld(g) BY <2>1 DEF WritesOld
    <2>3. OldLoc(g, i) = DescLoc(GroupBlock(g), i)
      BY <1>1, GroupOfBlock, InVolume, Sizes DEF OldLoc, DescLoc
    <2> QED BY <2>1, <2>2, <2>3 DEF IsCopy, OldCopy
  <1>2. CASE geo.meta_bg /\ ~(i < geo.first_meta_bg)
    <2> DEFINE h == DescPerBlock * i
               alt == GroupBlock(h) + Adjust(h) + BlocksPerGroup
    <2>1. h \in Groups /\ h \div DescPerBlock = i /\ h % DescPerBlock = 0 BY GroupOfBlock
    <2>2. CASE GroupBlock(g) # geo.first /\ alt < BlocksCount
      <3>1. h \in Nat /\ geo.first \in Nat /\ Adjust(h) \in Nat
        BY <2>1, Sizes, GeoFacts
      <3>2. PICK n \in Nat : n = BlocksPerGroup BY Sizes
      <3>3. alt = geo.first + h * n + Adjust(h) + n /\ BlocksCount = geo.first + NGroups * n
        <4> HIDE DEF h
        <4> QED BY <3>2 DEF GroupBlock, BlocksCount
      <3>4. h + 1 < NGroups
        <4> HIDE DEF h, alt
        <4>1. SUFFICES ASSUME NGroups <= h + 1 PROVE FALSE BY <3>1, Sizes
        <4>2. n * NGroups <= n * (h + 1) BY <4>1, <3>1, <3>2, Sizes, MultMonotone
        <4>3. n * (h + 1) = h * n + n /\ n * NGroups = NGroups * n BY <3>1, <3>2, Sizes
        <4>4. h * n \in Nat /\ NGroups * n \in Nat BY <3>1, <3>2, Sizes
        <4> QED BY <2>2, <3>1, <3>2, <3>3, <4>2, <4>3, <4>4
      <3>5. h + 1 \in Groups BY <3>1, <3>4, Sizes DEF Groups
      <3>6. (h + 1) \div DescPerBlock = i /\ (h + 1) % DescPerBlock = 1
        <4>1. 1 \in 0..(DescPerBlock - 1) BY Sizes
        <4> QED BY <4>1, GroupOfBlock, Sizes, Quotient
      <3>7. HasNew(h + 1)
        <4> HIDE DEF h
        <4> QED BY <1>2, <3>6, GroupOfBlock, GeoFacts DEF HasNew, InMeta
      <3>8. GroupBlock(h + 1) = GroupBlock(h) + BlocksPerGroup
        <4> HIDE DEF h, alt
        <4>1. (h + 1) * n = h * n + n /\ h * n \in Nat BY <3>1, <3>2
        <4> QED BY <4>1, <3>1, <3>2 DEF GroupBlock
      <3>9. DescLoc(GroupBlock(g), i) = NewDesc(h + 1)
        BY <1>2, <2>2, <3>8 DEF DescLoc, NewDesc
      <3> HIDE DEF h
      <3> QED BY <3>5, <3>6, <3>7, <3>9 DEF IsCopy, NewCopy
    <2>3. CASE ~(GroupBlock(g) # geo.first /\ alt < BlocksCount)
      <3>1. HasNew(h)
        <4> HIDE DEF h
        <4> QED BY <1>2, <2>1, GroupOfBlock, GeoFacts DEF HasNew, InMeta
      <3>2. DescLoc(GroupBlock(g), i) = NewDesc(h)
        BY <1>2, <2>3 DEF DescLoc, NewDesc
      <3> HIDE DEF h
      <3> QED BY <2>1, <3>1, <3>2 DEF IsCopy, NewCopy
    <2> QED BY <2>2, <2>3
  <1> QED BY <1>1, <1>2

-----------------------------------------------------------------------------
\* The inductive invariant.


\* The bitmap of the group is in c as it is in memory, with its checksum.
MapIn(c, g)      == c[MapBlock(g)] = MapBits(g, maps[g]) /\ gd[g] = maps[g]
OldIn(c, g)      == WritesOld(g) => \A k \in OldDescs : c[OldLoc(g, k)] = Desc(k, gd)
NewIn(c, g)      == HasNew(g) => c[NewDesc(g)] = Desc(g \div DescPerBlock, gd)

\* Has the loop over the groups written this part of the group?
OldPassed(r, g)  == r.group > g \/ (r.group = g /\ r.part = "new")
NewPassed(r, g)  == r.group > g

BeforeLoop == {"idle", "premaps", "enter", "maps"}
AfterMaps  == {"loop", "flush1", "primary", "flush2"}
AfterLoop  == {"flush1", "primary", "flush2"}

\* A file system that is not open has no callers and nothing to write.
ClosedIsQuiet == ~open => Quiet /\ ~bb /\ ~dirty

\* Where a caller is in its flush.  Only an allocation makes a bitmap dirty,
\* and it waits for the callers.
CallersRight == \A t \in Threads :
    /\ At(t, "idle") => th[t] = Idle
    /\ th[t].pc \in BeforeLoop => th[t].part = "super"
    /\ th[t].pc \in AfterMaps => ~bb
    /\ th[t].pc \in AfterLoop => th[t].group = NGroups

\* The bitmaps a flush has passed are in the channel; all of them, once the
\* flag says so.
MapsKept == /\ open /\ ~bb => \A g \in Groups : MapIn(chan, g)
            /\ \A t \in Threads : InMaps(t) =>
                 \A g \in Groups : g < th[t].group => MapIn(chan, g)

\* The copies of the descriptors a flush has passed are in the channel.
DescsKept == \A t \in Threads : th[t].pc \in AfterMaps =>
    \A g \in Groups : /\ OldPassed(th[t], g) => OldIn(chan, g)
                      /\ NewPassed(th[t], g) => NewIn(chan, g)

\* A block that holds a bitmap, or a copy of the descriptors, never holds
\* anything else.
Shape(c) == /\ \A g \in Groups : c[MapBlock(g)] = MapBits(g, c[MapBlock(g)].data[g])
            /\ \A b \in Blocks, k \in DescBlocks : IsCopy(b, k) => c[b] = Desc(k, c[b].data)
Shapes   == Shape(chan) /\ Shape(disk)

\* The primary superblock counts no change that the channel, the device or the
\* client's memory does not have.
Covers(c, free) == \A g \in Groups :
    /\ free[g] <= c[MapBlock(g)].data[g]
    /\ \A b \in Blocks : IsCopy(b, g \div DescPerBlock) => free[g] <= c[b].data[g]
Counted == /\ Covers(chan, primary.free) /\ Covers(disk, primary.free)
           /\ open => \A g \in Groups : /\ super.free[g] <= maps[g]
                                        /\ primary.free[g] <= maps[g]
                                        /\ primary.free[g] <= gd[g]

FlushInv == /\ TypeOK /\ ClosedIsQuiet /\ CallersRight /\ MapsKept
            /\ DescsKept /\ Shapes /\ Counted

-----------------------------------------------------------------------------
\* One caller at a time: two flushes at once overwrite each other's fs->super,
\* and what follows is then false.
OneThread == \A s, t \in Threads : s = t

MapsIn(c)   == \A g \in Groups : MapIn(c, g)
DescsIn(c)  == \A b \in Blocks, k \in DescBlocks : IsCopy(b, k) => c[b] = Desc(k, gd)
\* What ext2fs_open reads, from the primary superblock.
AllIn(c)    == MapsIn(c) /\ \A i \in DescBlocks : c[PrimaryLoc(i)] = Desc(i, gd)

\* The call has flushed the channel, or had nothing to flush.
Finished(r) == r.pc = "flush2" \/ (r.pc = "ret" /\ r.ok)
Flushing(r) == r.pc \in {"primary", "flush2"} \/ (r.pc = "ret" /\ r.ok /\ r.group = NGroups)

\* What has been flushed stays on the device until something is changed.
DiskKept ==
    /\ ~open => disk = chan
    /\ open /\ ~dirty => AllIn(disk) /\ AllIn(chan)
    /\ \A t \in Threads : /\ Flushing(th[t]) => disk = chan /\ DescsIn(chan)
                          /\ Finished(th[t]) => AllIn(disk) /\ AllIn(chan)

\* Field by field, the primary superblock becomes what fs->super is.
FieldsKept(r) == \A j \in 1..6 :
    primary[Fields[j]] = IF j < r.field THEN super[Fields[j]] ELSE orig[Fields[j]]
PrimaryKept ==
    /\ \A t \in Threads :
         /\ th[t].pc \notin {"primary", "flush2", "ret"} => th[t].field = 1
         /\ ~th[t].ok => failed
         /\ At(t, "primary") /\ ~failed => FieldsKept(th[t])
         /\ Finished(th[t]) /\ ~failed => primary = super
    /\ open /\ ~failed /\ (\A t \in Threads : ~At(t, "primary")) => primary = orig
    /\ open /\ ~failed /\ ~dirty /\ Quiet => primary = super

\* The state that the flush hides from the backups is what it puts back.
Saved == {"maps", "loop", "flush1", "primary", "flush2"}
StateSaved ==
    /\ \A t \in Threads :
         /\ th[t].pc \in Saved => /\ th[t].valid = geo.valid
                                  /\ th[t].recovery = geo.recovery \/ failed
         /\ At(t, "loop") => ~super.valid /\ ~super.recovery
         /\ th[t].pc \in AfterLoop => super.csum = SuperCsum(super)
    /\ open => orig.csum = SuperCsum(orig)
    /\ open /\ (\A t \in Threads : ~At(t, "loop")) =>
         super.valid = geo.valid /\ (super.recovery = geo.recovery \/ failed)
    /\ primary.valid = geo.valid
    /\ primary.recovery = geo.recovery \/ failed

Hidden(c)     == \A b \in Blocks : c[b].what = "super" => ~c[b].valid
BackupsHidden == Hidden(chan) /\ Hidden(disk)

StoreInv == FlushInv /\ DiskKept /\ PrimaryKept /\ StateSaved /\ BackupsHidden

-----------------------------------------------------------------------------
\* Types.

\* The fields of the superblock, by their number.
LEMMA FieldCopied ==
    ASSUME NEW s \in Super, NEW p \in Super, NEW i \in 1..6,
           NEW q, q = [p EXCEPT ![Fields[i]] = s[Fields[i]]]
    PROVE  /\ q \in Super
           /\ q.free \in {p.free, s.free}
           /\ q.valid \in {p.valid, s.valid}
           /\ q.recovery \in {p.recovery, s.recovery}
           /\ \A j \in 1..6 : q[Fields[j]] = IF j = i THEN s[Fields[j]] ELSE p[Fields[j]]
  <1>1. /\ Fields[1] = "free" /\ Fields[2] = "wtime" /\ Fields[3] = "valid"
        /\ Fields[4] = "group" /\ Fields[5] = "recovery" /\ Fields[6] = "csum"
    BY DEF Fields
  <1>2. CASE i = 1 BY <1>1, <1>2 DEF Super
  <1>3. CASE i = 2 BY <1>1, <1>3 DEF Super
  <1>4. CASE i = 3 BY <1>1, <1>4 DEF Super
  <1>5. CASE i = 4 BY <1>1, <1>5 DEF Super
  <1>6. CASE i = 5 BY <1>1, <1>6 DEF Super
  <1>7. CASE i = 6 BY <1>1, <1>7 DEF Super
  <1> QED BY <1>2, <1>3, <1>4, <1>5, <1>6, <1>7

LEMMA ContentTypes ==
    /\ Zeros \in Versions /\ Empty \in Contents
    /\ \A g \in Groups, v \in 0..MaxChanges : MapBits(g, v) \in Contents
    /\ \A k \in DescBlocks, d \in Versions : Desc(k, d) \in Contents
    /\ \A s \in Super : Backup(s) \in Contents
  <1>1. 0 \in Groups /\ 0 \in 0..MaxChanges
    BY Sizes, SizesAssumption
  <1>2. Zeros \in Versions BY <1>1 DEF Zeros, Versions
  <1>3. Empty \in Contents BY <1>1, <1>2 DEF Empty, Content, Contents
  <1>4. \A g \in Groups, v \in 0..MaxChanges : MapBits(g, v) \in Contents
    BY <1>1 DEF Zeros, Versions, MapBits, Content, Contents
  <1>5. ASSUME NEW k \in DescBlocks, NEW d \in Versions PROVE Desc(k, d) \in Contents
    <2>1. k \in Groups BY GroupOfBlock, Sizes DEF Groups
    <2>2. [g \in Groups |-> IF g \div DescPerBlock = k THEN d[g] ELSE 0] \in Versions
      BY <1>1 DEF Versions
    <2> QED BY <2>1, <2>2 DEF Desc, Content, Contents
  <1>6. ASSUME NEW s \in Super PROVE Backup(s) \in Contents
    BY DEF Super, Backup, Content, Contents
  <1> QED BY <1>2, <1>3, <1>4, <1>5, <1>6

LEMMA SuperTypes ==
    ASSUME NEW s \in Super
    PROVE  /\ Checked(s) \in Super
           /\ \A g \in Groups, v \in 0..MaxChanges : [s EXCEPT !.free[g] = v] \in Super
           /\ \A w \in {0, 1} : [s EXCEPT !.wtime = w, !.group = 0] \in Super
           /\ \A g \in Groups : [s EXCEPT !.group = g] \in Super
           /\ \A v \in BOOLEAN : [s EXCEPT !.valid = v] \in Super
           /\ Invalid(s) \in Super
           /\ \A r \in Caller : Restored(s, r) \in Super
  <1>1. 0 \in Groups BY Sizes
  <1>2. \A x \in Super : Checked(x) \in Super BY DEF Checked, SuperCsum, Super
  <1>3. \A g \in Groups, v \in 0..MaxChanges : [s EXCEPT !.free[g] = v] \in Super
    BY DEF Super, Versions
  <1>4. \A w \in {0, 1} : [s EXCEPT !.wtime = w, !.group = 0] \in Super
    BY <1>1 DEF Super
  <1>5. \A g \in Groups : [s EXCEPT !.group = g] \in Super BY DEF Super
  <1>6. \A v \in BOOLEAN : [s EXCEPT !.valid = v] \in Super BY DEF Super
  <1>7. Invalid(s) \in Super BY DEF Super, Invalid
  <1>8. ASSUME NEW r \in Caller PROVE Restored(s, r) \in Super
    <2>1. r.valid \in BOOLEAN /\ r.recovery \in BOOLEAN BY DEF Caller
    <2>2. [s EXCEPT !.group = 0, !.valid = r.valid, !.recovery = r.recovery] \in Super
      BY <1>1, <2>1 DEF Super
    <2> QED BY <1>2, <2>2 DEF Restored
  <1> QED BY <1>2, <1>3, <1>4, <1>5, <1>6, <1>7, <1>8

-----------------------------------------------------------------------------
\* What mke2fs made.

LEMMA MadeHolds ==
    ASSUME geo \in Geometries, NEW b \in Blocks
    PROVE  /\ Made(b) \in Contents /\ Made(b).what # "super"
           /\ \A g \in Groups : b = MapBlock(g) => Made(b) = MapBits(g, 0)
           /\ \A k : IsCopy(b, k) => Made(b) = Desc(k, Zeros)
  <1> DEFINE ofMap == \E g \in Groups : b = MapBlock(g)
             ofOld == \E g \in Groups : HasOld(g) /\ b - GroupBlock(g) - 1 \in OldDescs
             ofNew == \E g \in Groups : HasNew(g) /\ b = NewDesc(g)
             theMap == CHOOSE g \in Groups : b = MapBlock(g)
             theOld == CHOOSE k \in OldDescs : \E g \in Groups : b = GroupBlock(g) + 1 + k
             theNew == CHOOSE k \in DescBlocks : \E g \in Groups : b = NewDesc(g) /\ k = g \div DescPerBlock
  <1>1. ASSUME ofOld
        PROVE  \E g \in Groups, k \in OldDescs : HasOld(g) /\ b = OldLoc(g, k)
    <2>1. PICK g \in Groups : HasOld(g) /\ b - GroupBlock(g) - 1 \in OldDescs BY <1>1
    <2>2. b \in Nat /\ GroupBlock(g) \in Nat
      <3>1. 0 \in 0..(BlocksPerGroup - 1) BY Sizes
      <3> QED BY <3>1, InVolume DEF Blocks
    <2>3. b = OldLoc(g, b - GroupBlock(g) - 1) BY <2>2 DEF OldLoc
    <2> QED BY <2>1, <2>3
  <1>2. ASSUME NEW k, IsCopy(b, k) PROVE ~ofMap /\ (ofOld \/ ofNew)
    <2>1. ~ofMap BY <1>2, CopyHolds
    <2>2. PICK g \in Groups : OldCopy(b, g, k) \/ NewCopy(b, g, k) BY <1>2 DEF IsCopy
    <2>3. CASE OldCopy(b, g, k)
      <3>1. HasOld(g) /\ k \in OldDescs /\ b = OldLoc(g, k)
        BY <2>3 DEF OldCopy, WritesOld
      <3>2. GroupBlock(g) \in Nat /\ k \in Nat
        <4>1. 0 \in 0..(BlocksPerGroup - 1) BY Sizes
        <4> QED BY <4>1, <3>1, InVolume, GeoFacts
      <3>3. b - GroupBlock(g) - 1 = k BY <3>1, <3>2 DEF OldLoc
      <3> QED BY <2>1, <3>1, <3>3
    <2>4. CASE NewCopy(b, g, k) BY <2>1, <2>4 DEF NewCopy
    <2> QED BY <2>2, <2>3, <2>4
  <1>3. ofOld => ~ofMap /\ ~ofNew
    BY <1>1, MapsApart, CopiesApart
  <1>4. ofNew => ~ofMap BY MapsApart
  <1>5. CASE ofMap
    <2>1. Made(b) = MapBits(theMap, 0) BY <1>5, <1>3, <1>4 DEF Made
    <2>2. theMap \in Groups /\ b = MapBlock(theMap) BY <1>5
    <2>3. \A g \in Groups : b = MapBlock(g) => g = theMap BY <2>2, MapsApart
    <2>4. 0 \in 0..MaxChanges BY SizesAssumption
    <2>5. MapBits(theMap, 0).what = "map" BY DEF MapBits, Content
    <2> HIDE DEF theMap, ofMap, ofOld, ofNew
    <2> QED BY <1>5, <2>1, <2>2, <2>3, <2>4, <2>5, <1>2, ContentTypes
  <1>6. CASE ofOld
    <2>1. Made(b) = Desc(theOld, Zeros)
      BY <1>6, <1>3, <1>4 DEF Made
    <2>2. PICK g \in Groups, k \in OldDescs : HasOld(g) /\ b = OldLoc(g, k) BY <1>1, <1>6
    <2>3. \E x \in OldDescs : \E h \in Groups : b = GroupBlock(h) + 1 + x
      BY <2>2 DEF OldLoc
    <2>4. theOld \in OldDescs /\ \E h \in Groups : b = OldLoc(h, theOld)
      <3> DEFINE P(x) == \E h \in Groups : b = GroupBlock(h) + 1 + x
      <3>1. theOld = CHOOSE x \in OldDescs : P(x) OBVIOUS
      <3>2. \E x \in OldDescs : P(x) BY <2>3
      <3> HIDE DEF P
      <3>3. theOld \in OldDescs /\ P(theOld) BY <3>1, <3>2
      <3> QED BY <3>3 DEF P, OldLoc
    <2>5. \A j \in OldDescs : (\E h \in Groups : b = OldLoc(h, j)) => j = theOld
      <3> HIDE DEF theOld
      <3> TAKE j \in OldDescs
      <3>1. PICK h \in Groups : b = OldLoc(h, theOld) BY <2>4
      <3>2. ASSUME NEW x \in Groups, b = OldLoc(x, j) PROVE j = theOld
        <4>1. OldLoc(x, j) = OldLoc(h, theOld) BY <3>1, <3>2
        <4> QED BY <4>1, <2>4, CopiesApart
      <3> QED BY <3>2
    <2>6. ASSUME NEW j, IsCopy(b, j) PROVE j = theOld
      <3>1. PICK h \in Groups : OldCopy(b, h, j) \/ NewCopy(b, h, j) BY <2>6 DEF IsCopy
      <3>2. ~NewCopy(b, h, j) BY <1>3, <1>6 DEF NewCopy
      <3> QED BY <3>1, <3>2, <2>5 DEF OldCopy
    <2>7. theOld \in DescBlocks BY <2>4, GeoFacts
    <2>8. Desc(theOld, Zeros).what = "desc" BY DEF Desc, Content
    <2> HIDE DEF theOld
    <2>9. Made(b) \in Contents /\ Made(b).what # "super" BY <2>1, <2>7, <2>8, ContentTypes
    <2>10. \A h \in Groups : b # MapBlock(h) BY <1>3, <1>6
    <2> QED BY <2>1, <2>6, <2>9, <2>10
  <1>7. CASE ofNew
    <2>1. Made(b) = Desc(theNew, Zeros)
      BY <1>7, <1>3, <1>4 DEF Made
    <2>2. PICK g \in Groups : HasNew(g) /\ b = NewDesc(g) BY <1>7
    <2>3. theNew = g \div DescPerBlock
      <3> DEFINE P(x) == \E h \in Groups : b = NewDesc(h) /\ x = h \div DescPerBlock
      <3>1. theNew = CHOOSE x \in DescBlocks : P(x) OBVIOUS
      <3>2. P(g \div DescPerBlock) /\ g \div DescPerBlock \in DescBlocks BY <2>2, BlockOfGroup
      <3>3. \A x : P(x) => x = g \div DescPerBlock BY <2>2, CopiesApart
      <3> HIDE DEF P
      <3> QED BY <3>1, <3>2, <3>3
    <2>4. ASSUME NEW j, IsCopy(b, j) PROVE j = g \div DescPerBlock
      <3>1. NewCopy(b, g, g \div DescPerBlock) BY <2>2 DEF NewCopy
      <3>2. IsCopy(b, g \div DescPerBlock) BY <3>1 DEF IsCopy
      <3> QED BY <2>4, <3>2, CopyHolds
    <2>5. theNew \in DescBlocks BY <2>3, BlockOfGroup
    <2>6. Desc(theNew, Zeros).what = "desc" BY DEF Desc, Content
    <2>7. \A h \in Groups : b # MapBlock(h) BY <1>4, <1>7
    <2> HIDE DEF theNew
    <2> QED BY <2>1, <2>3, <2>4, <2>5, <2>6, <2>7, ContentTypes
  <1>8. CASE ~ofMap /\ ~ofOld /\ ~ofNew
    <2>1. Made(b) = Empty BY <1>8 DEF Made
    <2>2. Empty.what = "empty" BY DEF Empty, Content
    <2> HIDE DEF ofMap, ofOld, ofNew
    <2>3. \A k : ~IsCopy(b, k) BY <1>2, <1>8
    <2>4. \A g \in Groups : b # MapBlock(g) BY <1>8 DEF ofMap
    <2> QED BY <2>1, <2>2, <2>3, <2>4, ContentTypes
  <1> QED BY <1>5, <1>6, <1>7, <1>8

-----------------------------------------------------------------------------
\* Type correctness.

LEMMA InitType == Init => TypeOK
  <1> SUFFICES ASSUME Init PROVE TypeOK OBVIOUS
  <1>1. geo \in Geometries /\ geo.valid \in BOOLEAN /\ geo.recovery \in BOOLEAN
    BY GeoFacts DEF Init
  <1>2. super \in Super
    <2>1. 0 \in Groups /\ Zeros \in Versions BY Sizes, ContentTypes
    <2> QED BY <1>1, <2>1 DEF Init, Checked, SuperCsum, Super
  <1>3. maps \in Versions /\ gd \in Versions BY ContentTypes DEF Init
  <1>4. chan \in [Blocks -> Contents]
    BY <1>1, MadeHolds DEF Init
  <1>5. th \in [Threads -> Caller]
    <2>1. 0 \in 0..NGroups BY Sizes
    <2> QED BY <2>1 DEF Init, Idle, Caller
  <1> QED BY <1>1, <1>2, <1>3, <1>4, <1>5 DEF Init, TypeOK

LEMMA IdleType == Idle \in Caller
  <1>1. 0 \in 0..NGroups BY Sizes
  <1> QED BY <1>1 DEF Idle, Caller

LEMMA ErroutType ==
    ASSUME TypeOK, NEW t \in Threads, Errout(t)
    PROVE  super' \in Super /\ th' \in [Threads -> Caller] /\ failed' \in BOOLEAN
  <1>1. super \in Super /\ th[t] \in Caller /\ th[t].valid \in BOOLEAN BY DEF TypeOK, Caller
  <1>2. super' \in Super BY <1>1, SuperTypes DEF Errout
  <1>3. [th[t] EXCEPT !.pc = "ret", !.ok = FALSE] \in Caller BY <1>1 DEF Caller
  <1> QED BY <1>2, <1>3 DEF Errout, TypeOK

LEMMA WrittenType ==
    ASSUME TypeOK, NEW w, Written(w), \A b \in DOMAIN w : w[b] \in Contents
    PROVE  chan' \in [Blocks -> Contents]
  BY DEF Written, TypeOK

LEMMA NextPartType ==
    ASSUME NEW r \in Caller, r.group < NGroups
    PROVE  NextPart(r) \in Caller
  <1>1. r.group + 1 \in 0..NGroups BY Sizes DEF Caller
  <1>2. CASE r.part = "super" BY <1>2 DEF NextPart, Caller
  <1>3. CASE r.part = "old" BY <1>3 DEF NextPart, Caller
  <1>4. CASE r.part = "new" BY <1>1, <1>4 DEF NextPart, Caller
  <1> QED BY <1>2, <1>3, <1>4 DEF Caller

LEMMA ThreadType ==
    ASSUME TypeOK, NEW t \in Threads
    PROVE  /\ th[t] \in Caller /\ th[t].group \in 0..NGroups /\ th[t].field \in 1..7
           /\ th[t].valid \in BOOLEAN /\ th[t].recovery \in BOOLEAN
           /\ th[t].group < NGroups => th[t].group \in Groups
  <1>1. th[t] \in Caller BY DEF TypeOK
  <1>2. /\ th[t].group \in 0..NGroups /\ th[t].field \in 1..7
        /\ th[t].valid \in BOOLEAN /\ th[t].recovery \in BOOLEAN
    BY <1>1 DEF Caller
  <1>3. th[t].group < NGroups => th[t].group \in Groups
    BY <1>2, Sizes DEF Groups
  <1> QED BY <1>1, <1>2, <1>3

\* Where the copies that ext2fs_open reads are.
LEMMA Locations ==
    ASSUME TypeOK
    PROVE  /\ geo \in Geometries
           /\ \A g \in Groups : MapBlock(g) \in Blocks
           /\ \A g \in Groups : PrimaryLoc(g \div DescPerBlock) \in Blocks
           /\ \A i \in DescBlocks : PrimaryLoc(i) \in Blocks /\ IsCopy(PrimaryLoc(i), i)
           /\ chan \in [Blocks -> Contents] /\ disk \in [Blocks -> Contents]
  <1>1. geo \in Geometries BY DEF TypeOK
  <1>2. \A g \in Groups : MapBlock(g) \in Blocks BY <1>1, MapsApart
  <1>3. \A i \in DescBlocks : PrimaryLoc(i) \in Blocks /\ IsCopy(PrimaryLoc(i), i)
    BY <1>1, PrimaryIsCopy, CopyHolds
  <1>4. \A g \in Groups : PrimaryLoc(g \div DescPerBlock) \in Blocks
    BY <1>3, BlockOfGroup
  <1> QED BY <1>1, <1>2, <1>3, <1>4 DEF TypeOK

LEMMA FlushType ==
    ASSUME TypeOK, NEW t \in Threads, Flush(t)
    PROVE  TypeOK'
  <1> USE ThreadType
  <1>0. /\ th \in [Threads -> Caller] /\ th[t] \in Caller
        /\ super \in Super /\ orig \in Super /\ primary \in Super
        /\ chan \in [Blocks -> Contents] /\ disk \in [Blocks -> Contents]
        /\ 0 \in 0..NGroups /\ NGroups \in 0..NGroups
    BY Sizes DEF TypeOK
  <1>1. CASE Enter(t)
    <2>1. super' \in Super BY <1>0, <1>1, SuperTypes DEF Enter
    <2>2. super.valid \in BOOLEAN /\ super.recovery \in BOOLEAN BY <1>0 DEF Super
    <2>3. th' \in [Threads -> Caller]
      BY <1>0, <1>1, <2>2, ZenonT(30) DEF Enter, Caller
    <2> QED BY <1>1, <2>1, <2>3 DEF Enter, TypeOK
  <1>2. CASE WriteMap(t)
    <2> DEFINE g == th[t].group
    <2>1. g \in Groups /\ g \in Nat /\ g + 1 \in 0..NGroups /\ maps[g] \in 0..MaxChanges
      BY <1>2, Sizes, SMTT(30) DEF WriteMap, TypeOK, Versions, Groups
    <2>2. gd' \in Versions BY <1>2, <2>1 DEF WriteMap, MapCsumSet, TypeOK, Versions
    <2>3. [th[t] EXCEPT !.group = g + 1] \in Caller BY <1>0, <2>1 DEF Caller
    <2>4. [th[t] EXCEPT !.pc = "ret", !.ok = FALSE] \in Caller BY <1>0 DEF Caller
    <2>5. CASE Written([b \in {MapBlock(g)} |-> MapBits(g, maps[g])]) /\ th' = [th EXCEPT ![t].group = g + 1]
                /\ UNCHANGED <<super, failed>>
      <3>1. chan' \in [Blocks -> Contents]
        BY <1>0, <2>1, <2>5, ContentTypes DEF Written
      <3>2. th' \in [Threads -> Caller] BY <1>0, <2>3, <2>5
      <3> QED BY <1>2, <2>2, <2>5, <3>1, <3>2 DEF WriteMap, TypeOK
    <2>6. CASE Errout(t) /\ UNCHANGED chan
      BY <1>2, <2>2, <2>6, ErroutType DEF WriteMap, TypeOK
    <2>7. CASE th' = [th EXCEPT ![t].pc = "ret", ![t].ok = FALSE] /\ failed' = TRUE
                /\ UNCHANGED <<super, chan>>
      <3>1. th' \in [Threads -> Caller] BY <1>0, <2>4, <2>7
      <3> QED BY <1>2, <2>2, <2>7, <3>1 DEF WriteMap, TypeOK
    <2> QED BY <1>2, <2>5, <2>6, <2>7 DEF WriteMap
  <1>3. CASE MapsDone(t)
    <2>1. super' \in Super BY <1>0, <1>3, SuperTypes DEF MapsDone
    <2>2. th' \in [Threads -> Caller] BY <1>0, <1>3, ZenonT(30) DEF MapsDone, Caller
    <2> QED BY <1>3, <2>1, <2>2 DEF MapsDone, TypeOK
  <1>4. CASE WriteBackup(t)
    <2> DEFINE g == th[t].group
               s == Checked([super EXCEPT !.group = g])
    <2>1. g \in Groups BY <1>4 DEF WriteBackup, InPart
    <2>2. s \in Super BY <1>0, <2>1, SuperTypes
    <2>3. Backup(s) \in Contents BY <2>2, ContentTypes
    <2>4. [s EXCEPT !.valid = th[t].valid] \in Super BY <2>2, SuperTypes
    <2>5. super' \in Super BY <1>0, <1>4, <2>2, <2>4 DEF WriteBackup
    <2>6. chan' \in [Blocks -> Contents]
      <3>1. CASE Written([b \in {GroupBlock(g)} |-> Backup(s)])
        BY <1>0, <2>3, <3>1 DEF Written
      <3>2. CASE UNCHANGED chan BY <1>0, <3>2
      <3> QED BY <1>4, <3>1, <3>2 DEF WriteBackup
    <2>7. NextPart(th[t]) \in Caller /\ [th[t] EXCEPT !.pc = "ret", !.ok = FALSE] \in Caller
      <3>1. NextPart(th[t]) \in Caller BY <1>0, <1>4, NextPartType DEF WriteBackup, InPart
      <3> QED BY <1>0, <3>1, ZenonT(30) DEF Caller
    <2>8. th' \in [Threads -> Caller] /\ failed' \in BOOLEAN
      BY <1>0, <1>4, <2>7 DEF WriteBackup, TypeOK
    <2> QED BY <1>4, <2>5, <2>6, <2>8 DEF WriteBackup, TypeOK
  <1>5. ASSUME NEW part, NEW w, WritePart(t, part, w), \A b \in DOMAIN w : w[b] \in Contents
        PROVE  TypeOK'
    <2>1. CASE Errout(t) /\ UNCHANGED chan
      BY <1>5, <2>1, ErroutType DEF WritePart, TypeOK
    <2>2. CASE Written(w) /\ th' = [th EXCEPT ![t] = NextPart(@)] /\ UNCHANGED <<super, failed>>
      <3>1. chan' \in [Blocks -> Contents] BY <1>5, <2>2, WrittenType
      <3>2. NextPart(th[t]) \in Caller BY <1>0, <1>5, NextPartType DEF WritePart, InPart
      <3>3. th' \in [Threads -> Caller] BY <1>0, <2>2, <3>2
      <3> QED BY <1>5, <2>2, <3>1, <3>3 DEF WritePart, TypeOK
    <2> QED BY <1>5, <2>1, <2>2 DEF WritePart
  <1>6. CASE WriteOld(t)
    <2> DEFINE g == th[t].group
               start == GroupBlock(g) + 1
               w == [b \in IF WritesOld(g) THEN {start + k : k \in OldDescs} ELSE {} |->
                       Desc(b - start, gd)]
    <2>1. WritePart(t, "old", w) BY <1>6 DEF WriteOld
    <2>2. g \in Groups BY <2>1 DEF WritePart, InPart
    <2>3. ASSUME NEW b \in DOMAIN w PROVE w[b] \in Contents
      <3>1. PICK k \in OldDescs : b = start + k OBVIOUS
      <3>2. 0 \in 0..(BlocksPerGroup - 1) BY Sizes
      <3>3. start \in Nat /\ k \in Nat /\ k \in DescBlocks
        BY <2>2, <3>2, InVolume, GeoFacts DEF TypeOK
      <3>4. b - start = k BY <3>1, <3>3
      <3>5. w[b] = Desc(k, gd) BY <3>4
      <3> HIDE DEF w
      <3> QED BY <3>3, <3>5, ContentTypes DEF TypeOK
    <2> HIDE DEF w
    <2> QED BY <2>1, <2>3, <1>5
  <1>7. CASE WriteNew(t)
    <2> DEFINE g == th[t].group
               w == [b \in IF HasNew(g) THEN {NewDesc(g)} ELSE {} |-> Desc(g \div DescPerBlock, gd)]
    <2>1. WritePart(t, "new", w) BY <1>7 DEF WriteNew
    <2>2. g \in Groups BY <2>1 DEF WritePart, InPart
    <2>3. Desc(g \div DescPerBlock, gd) \in Contents
      BY <2>2, BlockOfGroup, ContentTypes DEF TypeOK
    <2>4. \A b \in DOMAIN w : w[b] \in Contents BY <2>3
    <2> HIDE DEF w
    <2> QED BY <2>1, <2>4, <1>5
  <1>8. CASE Restore(t)
    <2>1. super' \in Super BY <1>0, <1>8, SuperTypes DEF Restore
    <2>2. th' \in [Threads -> Caller] BY <1>0, <1>8 DEF Restore, Caller
    <2> QED BY <1>8, <2>1, <2>2 DEF Restore, TypeOK
  <1>9. ASSUME NEW here, NEW there \in {"primary", "ret"}, FlushChannel(t, here, there)
        PROVE  TypeOK'
    <2>1. CASE Errout(t) /\ UNCHANGED disk
      BY <1>9, <2>1, ErroutType DEF FlushChannel, TypeOK
    <2>2. CASE disk' = chan /\ th' = [th EXCEPT ![t].pc = there] /\ UNCHANGED <<super, failed>>
      <3>1. th' \in [Threads -> Caller] BY <1>0, <2>2 DEF Caller
      <3> QED BY <1>0, <1>9, <2>2, <3>1 DEF FlushChannel, TypeOK
    <2> QED BY <1>9, <2>1, <2>2 DEF FlushChannel
  <1>10. CASE Flush1(t) BY <1>9, <1>10 DEF Flush1
  <1>11. CASE Flush2(t) BY <1>9, <1>11 DEF Flush2
  <1>12. CASE WriteField(t)
    <2>1. PICK i \in th[t].field..6 :
            \/ /\ disk' = chan
               /\ primary' = [primary EXCEPT ![Fields[i]] = super[Fields[i]]]
               /\ th' = [th EXCEPT ![t].field = i + 1]
               /\ UNCHANGED <<super, failed>>
            \/ /\ Errout(t)
               /\ disk' \in {disk, chan}
               /\ primary' \in {primary} \cup
                    (IF disk' = chan THEN {[primary EXCEPT ![Fields[i]] = super[Fields[i]]]} ELSE {})
      BY <1>12 DEF WriteField
    <2>2. i \in 1..6 /\ i + 1 \in 1..7 OBVIOUS
    <2>3. [primary EXCEPT ![Fields[i]] = super[Fields[i]]] \in Super
      BY <1>0, <2>2, FieldCopied
    <2>4. primary' \in Super /\ disk' \in [Blocks -> Contents]
      BY <1>0, <2>1, <2>3
    <2>5. [th[t] EXCEPT !.field = i + 1] \in Caller BY <1>0, <2>2 DEF Caller
    <2>6. super' \in Super /\ th' \in [Threads -> Caller] /\ failed' \in BOOLEAN
      <3>1. CASE Errout(t) BY <3>1, ErroutType
      <3>2. CASE th' = [th EXCEPT ![t].field = i + 1] /\ UNCHANGED <<super, failed>>
        BY <3>2, <1>0, <2>5 DEF TypeOK
      <3> QED BY <2>1, <3>1, <3>2
    <2> QED BY <1>12, <2>4, <2>6 DEF WriteField, TypeOK
  <1>13. CASE PrimaryDone(t)
    <2>1. th' \in [Threads -> Caller] BY <1>0, <1>13, SMTT(30) DEF PrimaryDone, Caller
    <2> QED BY <1>0, <1>13, <2>1 DEF PrimaryDone, TypeOK
  <1>14. CASE Return(t)
    <2>1. CASE Gone /\ disk' \in {chan, disk} /\ chan' = disk'
      BY <1>0, <1>14, <2>1, IdleType, ContentTypes DEF Return, Gone, TypeOK
    <2>2. CASE th' = [th EXCEPT ![t] = Idle] /\ UNCHANGED <<fs, chan, disk, open>>
      BY <1>0, <1>14, <2>2, IdleType DEF Return, TypeOK, fs
    <2> QED BY <1>14, <2>1, <2>2 DEF Return
  <1> QED BY <1>1, <1>2, <1>3, <1>4, <1>6, <1>7, <1>8, <1>10, <1>11, <1>12, <1>13, <1>14
          DEF Flush

\* The steps of the client and of the rest of the world.
World == \/ \E g \in Changing : Alloc(g)
         \/ MarkSuperDirty
         \/ \E t \in Threads : Sync(t) \/ Close(t)
         \/ \E b \in Blocks : WriteBack(b)
         \/ Crash
         \/ Open

LEMMA NextCases ==
    ASSUME Next
    PROVE  World \/ \E t \in Threads : Flush(t)
  BY DEF Next, World

LEMMA WorldType ==
    ASSUME TypeOK, World
    PROVE  TypeOK'
  <1>0. /\ th \in [Threads -> Caller] /\ maps \in Versions
        /\ super \in Super /\ orig \in Super /\ primary \in Super
        /\ chan \in [Blocks -> Contents] /\ disk \in [Blocks -> Contents]
    BY DEF TypeOK
  <1>1. ASSUME NEW g \in Changing, Alloc(g) PROVE TypeOK'
    <2>1. g \in Groups /\ maps[g] + 1 \in 0..MaxChanges
      BY <1>0, <1>1, SizesAssumption DEF Alloc, Versions
    <2>2. super' \in Super BY <1>0, <1>1, <2>1, SuperTypes DEF Alloc
    <2>3. maps' \in Versions BY <1>0, <1>1, <2>1 DEF Alloc, Versions
    <2> QED BY <1>1, <2>2, <2>3 DEF Alloc, TypeOK
  <1>2. CASE MarkSuperDirty BY <1>2 DEF MarkSuperDirty, TypeOK
  <1>3. ASSUME NEW t \in Threads, Sync(t) PROVE TypeOK'
    <2>1. th' \in [Threads -> Caller] BY <1>0, <1>3 DEF Sync, Caller
    <2> QED BY <1>3, <2>1 DEF Sync, TypeOK, fs
  <1>4. ASSUME NEW t \in Threads, Close(t) PROVE TypeOK'
    <2>1. \A here \in {"premaps", "enter", "ret"} :
            [th[t] EXCEPT !.kind = "close", !.pc = here] \in Caller
      <3>1. PICK c \in Caller : c = th[t] BY <1>0
      <3>2. ASSUME NEW here \in {"premaps", "enter", "ret"}
            PROVE  [c EXCEPT !.kind = "close", !.pc = here] \in Caller
        BY DEF Caller
      <3> QED BY <3>1, <3>2
    <2>2. PICK here \in {"premaps", "enter", "ret"} :
            th' = [th EXCEPT ![t] = [th[t] EXCEPT !.kind = "close", !.pc = here]]
      BY <1>0, <1>4 DEF Close
    <2>3. th' \in [Threads -> Caller] BY <1>0, <2>1, <2>2
    <2> QED BY <1>4, <2>3 DEF Close, TypeOK, fs
  <1>5. ASSUME NEW b \in Blocks, WriteBack(b) PROVE TypeOK'
    <2>1. disk' \in [Blocks -> Contents] BY <1>0, <1>5 DEF WriteBack
    <2> QED BY <1>5, <2>1 DEF WriteBack, TypeOK, fs
  <1>6. CASE Crash
    BY <1>0, <1>6, IdleType, ContentTypes DEF Crash, Gone, TypeOK
  <1>7. CASE Open
    <2>1. maps' \in Versions
      BY <1>0, <1>7, Locations DEF Open, Versions, Contents
    <2>2. gd' \in Versions BY <1>7, <2>1 DEF Open
    <2> QED BY <1>0, <1>7, <2>1, <2>2 DEF Open, TypeOK
  <1> QED BY <1>1, <1>2, <1>3, <1>4, <1>5, <1>6, <1>7 DEF World

LEMMA NextType ==
    ASSUME TypeOK, [Next]_vars
    PROVE  TypeOK'
  <1>1. CASE Next BY <1>1, NextCases, WorldType, FlushType
  <1>2. CASE UNCHANGED vars BY <1>2 DEF vars, fs, TypeOK
  <1> QED BY <1>1, <1>2

\* The types of the variables of FsFlush: every flush, failed flush, crash and
\* open leaves superblocks, descriptors and bitmaps of the form they have.
THEOREM TypeInvariant == Spec => []TypeOK
  BY InitType, NextType, PTL DEF Spec

-----------------------------------------------------------------------------
\* What a step may change.

LEMMA SameVolume ==
    ASSUME geo' = geo
    PROVE  /\ \A g : /\ MapBlock(g)' = MapBlock(g)
                     /\ WritesOld(g)' = WritesOld(g) /\ HasNew(g)' = HasNew(g)
                     /\ NewDesc(g)' = NewDesc(g)
                     /\ \A k : OldLoc(g, k)' = OldLoc(g, k)
           /\ OldDescs' = OldDescs
           /\ \A i : PrimaryLoc(i)' = PrimaryLoc(i)
           /\ \A b, k : IsCopy(b, k)' <=> IsCopy(b, k)
  <1>1. \A g : HasSuper(g)' = HasSuper(g) BY DEF HasSuper
  <1>2. \A g : GroupBlock(g)' = GroupBlock(g) BY DEF GroupBlock
  <1>3. \A g : Adjust(g)' = Adjust(g) BY <1>1 DEF Adjust
  <1>4. \A g : MapBlock(g)' = MapBlock(g) BY <1>2 DEF MapBlock
  <1>5. \A g : NewDesc(g)' = NewDesc(g) BY <1>2, <1>3 DEF NewDesc
  <1>6. \A g, k : OldLoc(g, k)' = OldLoc(g, k) BY <1>2 DEF OldLoc
  <1>7. \A g : InMeta(g)' = InMeta(g) BY DEF InMeta
  <1>8. \A g : HasNew(g)' = HasNew(g) BY <1>7 DEF HasNew
  <1>9. \A g : WritesOld(g)' = WritesOld(g) BY <1>1, <1>7 DEF WritesOld, HasOld
  <1>10. OldDescs' = OldDescs BY DEF OldDescs
  <1>11. BlocksCount' = BlocksCount BY DEF BlocksCount
  <1>12. \A i : PrimaryLoc(i)' = PrimaryLoc(i)
    BY <1>2, <1>3, <1>11 DEF PrimaryLoc, DescLoc
  <1>13. \A b, g, k : OldCopy(b, g, k)' <=> OldCopy(b, g, k)
    BY <1>6, <1>9, <1>10 DEF OldCopy
  <1>14. \A b, g, k : NewCopy(b, g, k)' <=> NewCopy(b, g, k)
    BY <1>5, <1>8 DEF NewCopy
  <1>15. \A b, k : IsCopy(b, k)' <=> IsCopy(b, k) BY <1>13, <1>14 DEF IsCopy
  <1> QED BY <1>4, <1>5, <1>6, <1>8, <1>9, <1>10, <1>12, <1>15

\* What the contents of a block say.
LEMMA Said ==
    /\ \A g \in Groups : \A v : MapBits(g, v).data[g] = v
    /\ \A g \in Groups : \A d : Desc(g \div DescPerBlock, d).data[g] = d[g]
    /\ \A k, d : Desc(k, Desc(k, d).data) = Desc(k, d)
  <1>1. \A g \in Groups : \A v : MapBits(g, v).data[g] = v
    BY DEF MapBits, Content, Zeros
  <1>2. \A g \in Groups : \A d : Desc(g \div DescPerBlock, d).data[g] = d[g]
    BY DEF Desc, Content
  <1>3. \A k, d : Desc(k, Desc(k, d).data) = Desc(k, d)
    <2> TAKE k, d
    <2> DEFINE e == [g \in Groups |-> IF g \div DescPerBlock = k THEN d[g] ELSE 0]
    <2>1. Desc(k, d).data = e BY DEF Desc, Content
    <2>2. [g \in Groups |-> IF g \div DescPerBlock = k THEN e[g] ELSE 0] = e OBVIOUS
    <2> HIDE DEF e
    <2>3. Desc(k, e) = Content("desc", k, e, FALSE) BY <2>2 DEF Desc
    <2>4. Desc(k, d) = Content("desc", k, e, FALSE) BY DEF Desc, e
    <2> QED BY <2>1, <2>3, <2>4
  <1> QED BY <1>1, <1>2, <1>3

\* A flush writes bitmaps where bitmaps are and descriptors where their copies
\* are; what is free is none of its business.
Writes(t) ==
    /\ geo' = geo /\ maps' = maps /\ open' = open
    /\ super'.free = super.free
    /\ \A s \in Threads : s # t => th'[s] = th[s]
    /\ \A g \in Groups : /\ chan'[MapBlock(g)] \in {chan[MapBlock(g)], MapBits(g, maps[g])}
                         /\ gd'[g] \in {gd[g], maps[g]}
    /\ \A b \in Blocks, k \in DescBlocks :
         IsCopy(b, k) => chan'[b] \in {chan[b], Desc(k, gd)}
    /\ disk' \in {disk, chan}

LEMMA WritesSome ==
    ASSUME TypeOK, NEW t \in Threads, Flush(t), ~Return(t)
    PROVE  Writes(t)
  <1>0. /\ th \in [Threads -> Caller] /\ th[t] \in Caller /\ super \in Super
        /\ chan \in [Blocks -> Contents] /\ geo \in Geometries /\ gd \in Versions
    BY DEF TypeOK
  <1>1. ASSUME Errout(t)
        PROVE  super'.free = super.free /\ \A s \in Threads : s # t => th'[s] = th[s]
    BY <1>0, <1>1 DEF Errout, Super
  <1> USE <1>0 DEF Writes
  <1>2. CASE Enter(t) BY <1>2 DEF Enter, Super
  <1>3. CASE WriteMap(t)
    <2> DEFINE g == th[t].group
    <2>1. g \in Groups BY <1>3, ThreadType DEF WriteMap
    <2>2. \A h \in Groups : gd'[h] \in {gd[h], maps[h]}
      BY <1>3, <2>1 DEF WriteMap, MapCsumSet, Versions
    <2>3. super'.free = super.free /\ \A s \in Threads : s # t => th'[s] = th[s]
      BY <1>1, <1>3 DEF WriteMap
    <2>4. CASE UNCHANGED chan BY <1>3, <2>2, <2>3, <2>4 DEF WriteMap
    <2>5. CASE Written([b \in {MapBlock(g)} |-> MapBits(g, maps[g])])
      <3>1. \A b \in Blocks : chan'[b] = IF b = MapBlock(g) THEN MapBits(g, maps[g]) ELSE chan[b]
        BY <2>5 DEF Written
      <3>2. \A h \in Groups : MapBlock(h) \in Blocks /\ (MapBlock(h) = MapBlock(g) => h = g)
        BY <2>1, MapsApart
      <3>3. \A h \in Groups : chan'[MapBlock(h)] \in {chan[MapBlock(h)], MapBits(h, maps[h])}
        BY <3>1, <3>2
      <3>4. \A b \in Blocks, k \in DescBlocks : IsCopy(b, k) => chan'[b] = chan[b]
        BY <2>1, <3>1, CopyHolds
      <3> QED BY <1>3, <2>2, <2>3, <3>3, <3>4 DEF WriteMap
    <2> QED BY <1>3, <2>4, <2>5 DEF WriteMap
  <1>4. CASE MapsDone(t) BY <1>4 DEF MapsDone, Invalid, Super
  <1>5. CASE WriteBackup(t)
    <2> DEFINE g == th[t].group
               s == Checked([super EXCEPT !.group = g])
    <2>1. g \in Groups BY <1>5, ThreadType DEF WriteBackup, InPart
    <2>2. s.free = super.free /\ [s EXCEPT !.valid = th[t].valid].free = super.free
      BY DEF Checked, Super
    <2>3. super'.free = super.free BY <1>5, <2>2 DEF WriteBackup
    <2>4. \A x \in Threads : x # t => th'[x] = th[x] BY <1>5 DEF WriteBackup
    <2>5. CASE UNCHANGED chan BY <1>5, <2>3, <2>4, <2>5 DEF WriteBackup
    <2>6. CASE Written([b \in {GroupBlock(g)} |-> Backup(s)]) /\ WritesSuper(g)
      <3>1. \A b \in Blocks : b # GroupBlock(g) => chan'[b] = chan[b]
        BY <2>6 DEF Written
      <3>2. \A h \in Groups : MapBlock(h) \in Blocks /\ MapBlock(h) # GroupBlock(g)
        BY <2>1, MapsApart
      <3>3. HasSuper(g) BY <2>6 DEF WritesSuper
      <3>4. \A b \in Blocks, k \in DescBlocks : IsCopy(b, k) => chan'[b] = chan[b]
        BY <2>1, <3>1, <3>3, CopyHolds
      <3> QED BY <1>5, <2>3, <2>4, <3>1, <3>2, <3>4 DEF WriteBackup
    <2> QED BY <1>5, <2>5, <2>6 DEF WriteBackup
  <1>6. ASSUME NEW part, NEW w, WritePart(t, part, w),
               \A b \in DOMAIN w : \E k \in DescBlocks : IsCopy(b, k) /\ w[b] = Desc(k, gd)
        PROVE  Writes(t)
    <2>1. super'.free = super.free /\ \A s \in Threads : s # t => th'[s] = th[s]
      BY <1>1, <1>6 DEF WritePart
    <2>2. CASE UNCHANGED chan BY <1>6, <2>1, <2>2 DEF WritePart
    <2>3. CASE Written(w)
      <3>1. \A b \in Blocks : chan'[b] = IF b \in DOMAIN w THEN w[b] ELSE chan[b]
        BY <2>3 DEF Written
      <3>2. ASSUME NEW g \in Groups PROVE chan'[MapBlock(g)] = chan[MapBlock(g)]
        <4>1. MapBlock(g) \in Blocks BY MapsApart
        <4>2. MapBlock(g) \notin DOMAIN w BY <1>6, CopyHolds
        <4> QED BY <3>1, <4>1, <4>2
      <3>3. ASSUME NEW b \in Blocks, NEW k \in DescBlocks, IsCopy(b, k)
            PROVE  chan'[b] \in {chan[b], Desc(k, gd)}
        <4>1. CASE b \in DOMAIN w
          <5>1. PICK j \in DescBlocks : IsCopy(b, j) /\ w[b] = Desc(j, gd) BY <1>6, <4>1
          <5>2. j = k BY <3>3, <5>1, CopyHolds
          <5> QED BY <3>1, <4>1, <5>1, <5>2
        <4>2. CASE b \notin DOMAIN w BY <3>1, <4>2
        <4> QED BY <4>1, <4>2
      <3> QED BY <1>6, <2>1, <3>2, <3>3 DEF WritePart
    <2> QED BY <1>6, <2>2, <2>3 DEF WritePart
  <1>7. CASE WriteOld(t)
    <2> DEFINE g == th[t].group
               start == GroupBlock(g) + 1
               w == [b \in IF WritesOld(g) THEN {start + k : k \in OldDescs} ELSE {} |->
                       Desc(b - start, gd)]
    <2>1. WritePart(t, "old", w) BY <1>7 DEF WriteOld
    <2>2. g \in Groups BY <2>1, ThreadType DEF WritePart, InPart
    <2>3. ASSUME NEW b \in DOMAIN w
          PROVE  \E k \in DescBlocks : IsCopy(b, k) /\ w[b] = Desc(k, gd)
      <3>1. PICK k \in OldDescs : b = start + k /\ WritesOld(g) OBVIOUS
      <3>2. 0 \in 0..(BlocksPerGroup - 1) BY Sizes
      <3>3. start \in Nat /\ k \in Nat /\ k \in DescBlocks
        BY <2>2, <3>2, InVolume, GeoFacts
      <3>4. b - start = k /\ b = OldLoc(g, k) BY <3>1, <3>3 DEF OldLoc
      <3>5. w[b] = Desc(k, gd) BY <3>4
      <3> HIDE DEF w
      <3> QED BY <2>2, <3>1, <3>3, <3>4, <3>5 DEF IsCopy, OldCopy
    <2> HIDE DEF w
    <2> QED BY <2>1, <2>3, <1>6
  <1>8. CASE WriteNew(t)
    <2> DEFINE g == th[t].group
               w == [b \in IF HasNew(g) THEN {NewDesc(g)} ELSE {} |-> Desc(g \div DescPerBlock, gd)]
    <2>1. WritePart(t, "new", w) BY <1>8 DEF WriteNew
    <2>2. g \in Groups BY <2>1, ThreadType DEF WritePart, InPart
    <2>3. ASSUME NEW b \in DOMAIN w
          PROVE  \E k \in DescBlocks : IsCopy(b, k) /\ w[b] = Desc(k, gd)
      BY <2>2, BlockOfGroup DEF IsCopy, NewCopy
    <2> HIDE DEF w
    <2> QED BY <2>1, <2>3, <1>6
  <1>9. CASE Restore(t) BY <1>9 DEF Restore, Restored, Checked, Super
  <1>10. CASE Flush1(t) BY <1>1, <1>10 DEF Flush1, FlushChannel
  <1>11. CASE Flush2(t) BY <1>1, <1>11 DEF Flush2, FlushChannel
  <1>12. CASE WriteField(t) BY <1>1, <1>12 DEF WriteField
  <1>13. CASE PrimaryDone(t) BY <1>13 DEF PrimaryDone
  <1> QED BY <1>2, <1>3, <1>4, <1>5, <1>7, <1>8, <1>9, <1>10, <1>11, <1>12, <1>13
          DEF Flush

LEMMA FlushOpen ==
    ASSUME ClosedIsQuiet, open \in BOOLEAN, NEW t \in Threads, Flush(t)
    PROVE  open /\ ~Quiet
  <1>1. ~At(t, "idle")
    BY DEF Flush, At, InMaps, InPart, Enter, WriteMap, MapsDone, WriteBackup, WriteOld,
           WriteNew, WritePart, Restore, Flush1, Flush2, FlushChannel, WriteField,
           PrimaryDone, Return
  <1> QED BY <1>1 DEF ClosedIsQuiet, Quiet

\* The end of a close or of a crash.
LEMMA GoneState ==
    ASSUME Gone
    PROVE  /\ ~open' /\ ~bb' /\ ~dirty' /\ super' = primary /\ orig' = primary
           /\ \A s \in Threads : th'[s] = Idle
           /\ Quiet'
  BY DEF Gone, Quiet, At, Idle

-----------------------------------------------------------------------------
\* Where the callers are.

LEMMA OneCaller ==
    ASSUME TypeOK, CallersRight, NEW t \in Threads, NEW r,
           th' = [th EXCEPT ![t] = r], bb' => bb,
           r.pc = "idle" => r = Idle,
           r.pc \in BeforeLoop => r.part = "super",
           r.pc \in AfterMaps => ~bb',
           r.pc \in AfterLoop => r.group = NGroups
    PROVE  CallersRight'
  <1>1. \A s \in Threads : th'[s] = IF s = t THEN r ELSE th[s] BY DEF TypeOK
  <1> QED BY <1>1 DEF CallersRight, At

LEMMA FailedCaller ==
    ASSUME TypeOK, CallersRight, NEW t \in Threads, bb' = bb,
           th' = [th EXCEPT ![t].pc = "ret", ![t].ok = FALSE]
    PROVE  CallersRight'
  <1> DEFINE r == [th[t] EXCEPT !.pc = "ret", !.ok = FALSE]
  <1>1. th' = [th EXCEPT ![t] = r] /\ r.pc = "ret" BY ZenonT(30) DEF TypeOK, Caller
  <1> HIDE DEF r
  <1> QED BY <1>1, OneCaller DEF BeforeLoop, AfterMaps, AfterLoop

LEMMA FlushCallers ==
    ASSUME TypeOK, ClosedIsQuiet, CallersRight, NEW t \in Threads, Flush(t)
    PROVE  ClosedIsQuiet' /\ CallersRight'
  <1>0. open /\ open \in BOOLEAN /\ th \in [Threads -> Caller] /\ th[t] \in Caller
    BY FlushOpen DEF TypeOK
  <1>1. CASE ~Return(t)
    <2>1. open' = open BY <1>1, WritesSome DEF Writes
    <2>2. ClosedIsQuiet' BY <1>0, <2>1 DEF ClosedIsQuiet
    <2> SUFFICES CallersRight' BY <2>2
    <2>3. CASE Enter(t)
      BY <2>3, <1>0 DEF Enter, CallersRight, At, BeforeLoop, AfterMaps, AfterLoop
    <2>4. CASE WriteMap(t)
      <3> DEFINE r == [th[t] EXCEPT !.group = th[t].group + 1]
      <3>1. CASE th' = [th EXCEPT ![t].group = th[t].group + 1]
        <4>1. /\ th' = [th EXCEPT ![t] = r] /\ r.pc \in {"premaps", "maps"} /\ r.part = "super"
          BY <1>0, <2>4, <3>1 DEF WriteMap, InMaps, Caller, CallersRight, BeforeLoop
        <4> HIDE DEF r
        <4> QED BY <2>4, <4>1, OneCaller DEF WriteMap, BeforeLoop, AfterMaps, AfterLoop
      <3>2. CASE th' = [th EXCEPT ![t].pc = "ret", ![t].ok = FALSE]
        BY <2>4, <3>2, FailedCaller DEF WriteMap
      <3> QED BY <2>4, <3>1, <3>2 DEF WriteMap, Errout
    <2>5. CASE MapsDone(t)
      BY <2>5, <1>0 DEF MapsDone, InMaps, CallersRight, At, BeforeLoop, AfterMaps, AfterLoop
    <2>6. ASSUME th' = [th EXCEPT ![t] = NextPart(@)], At(t, "loop"), bb' = bb
          PROVE  CallersRight'
      <3>1. NextPart(th[t]).pc = "loop"
        BY <1>0, <2>6 DEF NextPart, At, Caller
      <3>2. ~bb BY <2>6 DEF CallersRight, At, AfterMaps
      <3> QED BY <2>6, <3>1, <3>2, OneCaller DEF BeforeLoop, AfterLoop
    <2>7. CASE WriteBackup(t)
      BY <2>6, <2>7, FailedCaller DEF WriteBackup, InPart
    <2>8. ASSUME NEW part, NEW w, WritePart(t, part, w) PROVE CallersRight'
      BY <2>6, <2>8, FailedCaller DEF WritePart, InPart, Errout
    <2>9. CASE WriteOld(t) BY <2>8, <2>9 DEF WriteOld
    <2>10. CASE WriteNew(t) BY <2>8, <2>10 DEF WriteNew
    <2>11. CASE Restore(t)
      BY <2>11, <1>0 DEF Restore, CallersRight, At, BeforeLoop, AfterMaps, AfterLoop
    <2>12. ASSUME NEW here \in AfterLoop, NEW there \in {"primary", "ret"},
                  FlushChannel(t, here, there)
           PROVE  CallersRight'
      <3> DEFINE r == [th[t] EXCEPT !.pc = there]
      <3>1. CASE th' = [th EXCEPT ![t].pc = there]
        <4>1. th' = [th EXCEPT ![t] = r] /\ r.pc = there /\ r.group = th[t].group
          BY <1>0, <3>1 DEF Caller
        <4>2. ~bb /\ th[t].group = NGroups /\ bb' = bb
          BY <2>12 DEF FlushChannel, At, CallersRight, AfterMaps, AfterLoop
        <4> HIDE DEF r
        <4> QED BY <4>1, <4>2, OneCaller DEF BeforeLoop, AfterMaps, AfterLoop
      <3>2. CASE th' = [th EXCEPT ![t].pc = "ret", ![t].ok = FALSE]
        BY <2>12, <3>2, FailedCaller DEF FlushChannel
      <3> QED BY <2>12, <3>1, <3>2 DEF FlushChannel, Errout
    <2>13. CASE Flush1(t) BY <2>12, <2>13 DEF Flush1, AfterLoop
    <2>14. CASE Flush2(t) BY <2>12, <2>14 DEF Flush2, AfterLoop
    <2>15. CASE WriteField(t)
      <3>1. ASSUME NEW i, th' = [th EXCEPT ![t].field = i + 1] PROVE CallersRight'
        <4> DEFINE r == [th[t] EXCEPT !.field = i + 1]
        <4>1. th' = [th EXCEPT ![t] = r] /\ r.pc = "primary" /\ r.group = th[t].group
          BY <1>0, <2>15, <3>1 DEF WriteField, At, Caller
        <4>2. ~bb /\ th[t].group = NGroups /\ bb' = bb
          BY <2>15 DEF WriteField, At, CallersRight, AfterMaps, AfterLoop
        <4> HIDE DEF r
        <4> QED BY <4>1, <4>2, OneCaller DEF BeforeLoop
      <3>2. CASE th' = [th EXCEPT ![t].pc = "ret", ![t].ok = FALSE]
        BY <2>15, <3>2, FailedCaller DEF WriteField
      <3> QED BY <2>15, <3>1, <3>2 DEF WriteField, Errout
    <2>16. CASE PrimaryDone(t)
      BY <2>16, <1>0 DEF PrimaryDone, CallersRight, At, BeforeLoop, AfterMaps, AfterLoop
    <2> QED BY <1>1, <2>3, <2>4, <2>5, <2>7, <2>9, <2>10, <2>11, <2>13, <2>14, <2>15, <2>16
            DEF Flush
  <1>2. CASE Return(t)
    <2>1. CASE Gone
      BY <2>1, GoneState DEF ClosedIsQuiet, CallersRight, Idle, At, BeforeLoop, AfterMaps, AfterLoop
    <2>2. CASE th' = [th EXCEPT ![t] = Idle] /\ UNCHANGED <<fs, chan, disk, open>>
      BY <1>0, <2>2 DEF ClosedIsQuiet, CallersRight, Idle, At, fs, BeforeLoop, AfterMaps, AfterLoop
    <2> QED BY <1>2, <2>1, <2>2 DEF Return
  <1> QED BY <1>1, <1>2

LEMMA WorldCallers ==
    ASSUME TypeOK, ClosedIsQuiet, CallersRight, World
    PROVE  ClosedIsQuiet' /\ CallersRight'
  <1>0. open \in BOOLEAN /\ th \in [Threads -> Caller] BY DEF TypeOK
  <1> USE <1>0 DEF ClosedIsQuiet, CallersRight, At, BeforeLoop, AfterMaps, AfterLoop
  <1>1. ASSUME NEW g \in Changing, Alloc(g) PROVE ClosedIsQuiet' /\ CallersRight'
    BY <1>1 DEF Alloc, Quiet
  <1>2. CASE MarkSuperDirty BY <1>2 DEF MarkSuperDirty, Quiet
  <1>3. ASSUME NEW t \in Threads, Sync(t) PROVE ClosedIsQuiet' /\ CallersRight'
    BY <1>3 DEF Sync, Quiet, fs, Idle
  <1>4. ASSUME NEW t \in Threads, Close(t) PROVE ClosedIsQuiet' /\ CallersRight'
    BY <1>4 DEF Close, Quiet, fs, Idle
  <1>5. ASSUME NEW b \in Blocks, WriteBack(b) PROVE ClosedIsQuiet' /\ CallersRight'
    BY <1>5 DEF WriteBack, Quiet, fs
  <1>6. CASE Crash BY <1>6, GoneState DEF Crash, Idle, Quiet
  <1>7. CASE Open BY <1>7 DEF Open, Quiet
  <1> QED BY <1>1, <1>2, <1>3, <1>4, <1>5, <1>6, <1>7 DEF World

-----------------------------------------------------------------------------
\* The bitmaps.

LEMMA MapInKept ==
    ASSUME NEW t \in Threads, Writes(t), NEW g \in Groups, MapIn(chan, g)
    PROVE  MapIn(chan, g)'
  <1>1. MapBlock(g)' = MapBlock(g) BY SameVolume DEF Writes
  <1>2. chan'[MapBlock(g)] = MapBits(g, maps[g]) /\ gd'[g] = maps[g] /\ maps' = maps
    BY DEF Writes, MapIn
  <1> QED BY <1>1, <1>2 DEF MapIn

\* The flush is out of the loop over the bitmaps.
LEMMA PastMaps ==
    ASSUME TypeOK, NEW t \in Threads, Flush(t), ~Return(t), ~Enter(t), ~WriteMap(t)
    PROVE  ~InMaps(t)' /\ (bb' = bb \/ MapsDone(t))
  <1>0. th \in [Threads -> Caller] /\ th[t] \in Caller BY DEF TypeOK
  <1>1. CASE MapsDone(t) BY <1>0, <1>1 DEF MapsDone, InMaps
  <1>2. ASSUME Errout(t) PROVE ~InMaps(t)' BY <1>0, <1>2 DEF Errout, InMaps
  <1>3. ASSUME th' = [th EXCEPT ![t] = NextPart(@)], At(t, "loop") PROVE ~InMaps(t)'
    BY <1>0, <1>3 DEF NextPart, At, InMaps, Caller
  <1>4. CASE WriteBackup(t)
    <2>1. CASE th' = [th EXCEPT ![t].pc = "ret", ![t].ok = FALSE]
      BY <1>0, <2>1, <1>4 DEF WriteBackup, InMaps
    <2> QED BY <2>1, <1>3, <1>4 DEF WriteBackup, InPart
  <1>5. ASSUME NEW part, NEW w, WritePart(t, part, w) PROVE ~InMaps(t)' /\ bb' = bb
    BY <1>2, <1>3, <1>5 DEF WritePart, InPart
  <1>6. CASE WriteOld(t) BY <1>5, <1>6 DEF WriteOld
  <1>7. CASE WriteNew(t) BY <1>5, <1>7 DEF WriteNew
  <1>8. CASE Restore(t) BY <1>0, <1>8 DEF Restore, InMaps
  <1>9. ASSUME NEW here, NEW there \in {"primary", "ret"}, FlushChannel(t, here, there)
        PROVE  ~InMaps(t)' /\ bb' = bb
    <2>1. CASE th' = [th EXCEPT ![t].pc = there] BY <1>0, <1>9, <2>1 DEF FlushChannel, InMaps
    <2> QED BY <1>2, <1>9, <2>1 DEF FlushChannel
  <1>10. CASE Flush1(t) \/ Flush2(t) BY <1>9, <1>10 DEF Flush1, Flush2
  <1>11. CASE WriteField(t)
    <2>1. ASSUME NEW i, th' = [th EXCEPT ![t].field = i + 1] PROVE ~InMaps(t)'
      BY <1>0, <1>11, <2>1 DEF WriteField, At, InMaps
    <2> QED BY <1>2, <1>11, <2>1 DEF WriteField
  <1>12. CASE PrimaryDone(t) BY <1>0, <1>12 DEF PrimaryDone, InMaps
  <1> QED BY <1>1, <1>4, <1>6, <1>7, <1>8, <1>10, <1>11, <1>12 DEF Flush

LEMMA FlushMaps ==
    ASSUME TypeOK, ClosedIsQuiet, CallersRight, MapsKept, NEW t \in Threads, Flush(t)
    PROVE  MapsKept'
  <1>0. open /\ th \in [Threads -> Caller] /\ th[t] \in Caller BY FlushOpen DEF TypeOK
  <1>1. CASE Return(t)
    <2>1. CASE Gone BY <2>1, GoneState DEF MapsKept, InMaps, Idle
    <2>2. CASE th' = [th EXCEPT ![t] = Idle] /\ UNCHANGED <<fs, chan, disk, open>>
      <3>1. \A g \in Groups : MapIn(chan, g) => MapIn(chan, g)'
        <4>1. geo' = geo BY <1>1 DEF Return
        <4> QED BY <2>2, <4>1, SameVolume DEF MapIn, fs
      <3>2. \A s \in Threads : InMaps(s)' => th'[s] = th[s] /\ InMaps(s)
        BY <1>0, <2>2 DEF InMaps, Idle
      <3> QED BY <2>2, <3>1, <3>2 DEF MapsKept, fs
    <2> QED BY <1>1, <2>1, <2>2 DEF Return
  <1>2. CASE ~Return(t)
    <2>1. Writes(t) BY <1>2, WritesSome
    <2>2. \A g \in Groups : MapIn(chan, g) => MapIn(chan, g)' BY <2>1, MapInKept
    <2>3. ASSUME NEW s \in Threads, s # t, InMaps(s)', NEW g \in Groups, g < th'[s].group
          PROVE  MapIn(chan, g)'
      BY <2>1, <2>2, <2>3 DEF Writes, MapsKept, InMaps
    <2>4. CASE Enter(t)
      <3>1. bb' = bb /\ open' = open /\ th'[t].group = IF bb THEN 0 ELSE NGroups
        BY <1>0, <2>4 DEF Enter
      <3>2. ASSUME NEW g \in Groups, g < th'[t].group PROVE MapIn(chan, g)'
        <4>1. ~bb BY <3>1, <3>2, Sizes
        <4> QED BY <4>1, <1>0, <2>2 DEF MapsKept
      <3> QED BY <1>0, <2>2, <2>3, <3>1, <3>2 DEF MapsKept
    <2>5. CASE WriteMap(t)
      <3> DEFINE g == th[t].group
      <3>1. g \in Groups /\ bb' = bb /\ open' = open BY <2>5, ThreadType DEF WriteMap
      <3>2. ASSUME InMaps(t)', NEW h \in Groups, h < th'[t].group PROVE MapIn(chan, h)'
        <4>1. CASE Written([b \in {MapBlock(g)} |-> MapBits(g, maps[g])])
                   /\ th' = [th EXCEPT ![t].group = g + 1]
          <5>1. h < g \/ h = g BY <1>0, <3>1, <3>2, <4>1, Sizes
          <5>2. CASE h < g BY <2>2, <2>5, <5>2 DEF MapsKept, WriteMap
          <5>3. CASE h = g
            <6>1. MapBlock(h) \in Blocks BY <3>1, MapsApart DEF TypeOK
            <6>2. chan'[MapBlock(h)] = MapBits(h, maps[h]) BY <4>1, <5>3, <6>1 DEF Written
            <6>3. gd'[h] = maps[h] /\ maps' = maps
              BY <2>5, <3>1, <5>3 DEF WriteMap, MapCsumSet, TypeOK, Versions
            <6>4. MapBlock(h)' = MapBlock(h) BY <2>1, SameVolume DEF Writes
            <6> QED BY <6>2, <6>3, <6>4 DEF MapIn
          <5> QED BY <5>1, <5>2, <5>3
        <4>2. CASE th' = [th EXCEPT ![t].pc = "ret", ![t].ok = FALSE]
          BY <1>0, <3>2, <4>2 DEF InMaps
        <4> QED BY <2>5, <4>1, <4>2 DEF WriteMap, Errout
      <3> QED BY <2>2, <2>3, <3>1, <3>2 DEF MapsKept
    <2>6. CASE ~Enter(t) /\ ~WriteMap(t)
      <3>1. ~InMaps(t)' /\ (bb' = bb \/ MapsDone(t)) BY <1>2, <2>6, PastMaps
      <3>2. open' /\ ~bb' => \A g \in Groups : MapIn(chan, g)'
        <4>1. CASE MapsDone(t)
          <5>1. \A g \in Groups : g < th[t].group BY <4>1, Sizes DEF MapsDone
          <5> QED BY <4>1, <5>1, <2>2 DEF MapsDone, MapsKept
        <4>2. CASE bb' = bb BY <4>2, <1>0, <2>2 DEF MapsKept
        <4> QED BY <3>1, <4>1, <4>2
      <3> QED BY <2>3, <3>1, <3>2 DEF MapsKept
    <2> QED BY <2>4, <2>5, <2>6
  <1> QED BY <1>1, <1>2

LEMMA WorldMaps ==
    ASSUME TypeOK, ClosedIsQuiet, CallersRight, Shapes, MapsKept, World
    PROVE  MapsKept'
  <1>0. th \in [Threads -> Caller] BY DEF TypeOK
  <1>1. geo' = geo
    BY DEF World, Alloc, MarkSuperDirty, Sync, Close, WriteBack, Crash, Open
  <1>2. ASSUME chan' = chan, maps' = maps, gd' = gd, NEW g \in Groups, MapIn(chan, g)
        PROVE  MapIn(chan, g)'
    BY <1>1, <1>2, SameVolume DEF MapIn
  <1>3. ASSUME NEW g \in Changing, Alloc(g) PROVE MapsKept'
    BY <1>3 DEF Alloc, Quiet, At, MapsKept, InMaps
  <1>4. CASE MarkSuperDirty
    <2>1. \A s \in Threads : InMaps(s)' = InMaps(s) BY <1>4 DEF MarkSuperDirty, InMaps
    <2> QED BY <1>2, <1>4, <2>1 DEF MarkSuperDirty, MapsKept
  <1>5. ASSUME NEW t \in Threads, Sync(t) PROVE MapsKept'
    <2>1. \A s \in Threads : InMaps(s)' => InMaps(s) /\ th'[s] = th[s]
      BY <1>0, <1>5 DEF Sync, InMaps
    <2> QED BY <1>2, <1>5, <2>1 DEF Sync, MapsKept, fs
  <1>6. ASSUME NEW t \in Threads, Close(t) PROVE MapsKept'
    <2>1. \A s \in Threads : InMaps(s)' => th'[s].group = 0
      BY <1>0, <1>6 DEF Close, InMaps, Quiet, At, CallersRight, Idle
    <2>2. \A g \in Groups : ~(g < 0) BY Sizes
    <2> QED BY <1>2, <1>6, <2>1, <2>2 DEF Close, MapsKept, fs
  <1>7. ASSUME NEW b \in Blocks, WriteBack(b) PROVE MapsKept'
    <2>1. \A s \in Threads : InMaps(s)' = InMaps(s) BY <1>7 DEF WriteBack, InMaps
    <2> QED BY <1>2, <1>7, <2>1 DEF WriteBack, MapsKept, fs
  <1>8. CASE Crash BY <1>8, GoneState DEF Crash, MapsKept, InMaps, Idle
  <1>9. CASE Open
    <2>1. ASSUME NEW g \in Groups PROVE MapIn(chan, g)'
      <3>1. chan' = chan /\ maps'[g] = chan[MapBlock(g)].data[g] /\ gd' = maps'
        BY <1>9 DEF Open
      <3>2. chan[MapBlock(g)] = MapBits(g, maps'[g]) BY <3>1 DEF Shapes, Shape
      <3> QED BY <1>1, <3>1, <3>2, SameVolume DEF MapIn
    <2>2. \A s \in Threads : ~InMaps(s)'
      BY <1>9 DEF Open, InMaps, ClosedIsQuiet, Quiet, At
    <2> QED BY <2>1, <2>2 DEF MapsKept
  <1> QED BY <1>3, <1>4, <1>5, <1>6, <1>7, <1>8, <1>9 DEF World

-----------------------------------------------------------------------------
\* The descriptors.

LEMMA DescInKept ==
    ASSUME TypeOK, NEW t \in Threads, Writes(t), gd' = gd, NEW g \in Groups
    PROVE  /\ OldIn(chan, g) => OldIn(chan, g)'
           /\ NewIn(chan, g) => NewIn(chan, g)'
  <1>0. geo \in Geometries /\ geo' = geo BY DEF TypeOK, Writes
  <1>1. ASSUME OldIn(chan, g), WritesOld(g), NEW k \in OldDescs
        PROVE  chan'[OldLoc(g, k)] = Desc(k, gd)
    <2>1. IsCopy(OldLoc(g, k), k) BY <1>1 DEF IsCopy, OldCopy
    <2>2. OldLoc(g, k) \in Blocks /\ k \in DescBlocks BY <1>0, <2>1, CopyHolds
    <2> QED BY <1>1, <2>1, <2>2 DEF OldIn, Writes
  <1>2. ASSUME NewIn(chan, g), HasNew(g)
        PROVE  chan'[NewDesc(g)] = Desc(g \div DescPerBlock, gd)
    <2> DEFINE k == g \div DescPerBlock
    <2>1. IsCopy(NewDesc(g), k) BY <1>2 DEF IsCopy, NewCopy
    <2>2. NewDesc(g) \in Blocks /\ k \in DescBlocks BY <1>0, <2>1, CopyHolds
    <2> QED BY <1>2, <2>1, <2>2 DEF NewIn, Writes
  <1>3. OldIn(chan, g) => OldIn(chan, g)' BY <1>0, <1>1, SameVolume DEF OldIn
  <1>4. NewIn(chan, g) => NewIn(chan, g)' BY <1>0, <1>2, SameVolume DEF NewIn
  <1> QED BY <1>3, <1>4

\* Once the bitmaps are written, so are their checksums in the descriptors.
LEMMA DescsSettled ==
    ASSUME TypeOK, TypeOK', MapsKept, open, ~bb, NEW t \in Threads, Writes(t)
    PROVE  gd' = gd
  <1>1. \A g \in Groups : gd[g] = maps[g] BY DEF MapsKept, MapIn
  <1>2. \A g \in Groups : gd'[g] = gd[g] BY <1>1 DEF Writes
  <1> QED BY <1>2 DEF TypeOK, Versions

\* The parts that the loop has passed, and the part it passes with this step.
LEMMA Passing ==
    ASSUME NEW r \in Caller, NEW g \in Groups
    PROVE  /\ OldPassed(NextPart(r), g) => OldPassed(r, g) \/ (r.part = "old" /\ r.group = g)
           /\ NewPassed(NextPart(r), g) => NewPassed(r, g) \/ (r.part = "new" /\ r.group = g)
           /\ NextPart(r).pc = r.pc
  <1>1. r.group \in Nat /\ g \in Nat BY Sizes DEF Caller
  <1>2. CASE r.part = "super" BY <1>1, <1>2 DEF NextPart, OldPassed, NewPassed, Caller
  <1>3. CASE r.part = "old" BY <1>1, <1>3 DEF NextPart, OldPassed, NewPassed, Caller
  <1>4. CASE r.part = "new"
    <2>1. /\ NextPart(r).group = r.group + 1 /\ NextPart(r).part = "super"
          /\ NextPart(r).pc = r.pc
      BY <1>4 DEF NextPart, Caller
    <2> QED BY <1>1, <1>4, <2>1 DEF OldPassed, NewPassed
  <1> QED BY <1>2, <1>3, <1>4 DEF Caller

\* A step of a flush writes the copies it passes.
LEMMA PassedIsWritten ==
    ASSUME TypeOK, ClosedIsQuiet, CallersRight, MapsKept, DescsKept,
           NEW t \in Threads, Flush(t), ~Return(t), TypeOK', th'[t].pc \in AfterMaps
    PROVE  \A g \in Groups : /\ OldPassed(th'[t], g) => OldIn(chan, g)'
                             /\ NewPassed(th'[t], g) => NewIn(chan, g)'
  <1> DEFINE Goal == \A g \in Groups : /\ OldPassed(th'[t], g) => OldIn(chan, g)'
                                       /\ NewPassed(th'[t], g) => NewIn(chan, g)'
  <1>0. /\ th \in [Threads -> Caller] /\ th[t] \in Caller /\ open /\ Writes(t)
        /\ geo \in Geometries /\ chan \in [Blocks -> Contents]
    BY FlushOpen, WritesSome DEF TypeOK
  <1>1. CASE MapsDone(t)
    <2>1. th'[t].group = 0 /\ th'[t].part = "super"
      BY <1>0, <1>1 DEF MapsDone, InMaps, CallersRight, BeforeLoop
    <2>2. \A g \in Groups : ~OldPassed(th'[t], g) /\ ~NewPassed(th'[t], g)
      BY <2>1, Sizes DEF OldPassed, NewPassed
    <2> QED BY <2>2
  <1>2. ASSUME Errout(t) \/ th' = [th EXCEPT ![t].pc = "ret", ![t].ok = FALSE] PROVE FALSE
    <2>1. th' = [th EXCEPT ![t].pc = "ret", ![t].ok = FALSE] BY <1>2 DEF Errout
    <2>2. th'[t].pc = "ret" BY <1>0, <2>1 DEF Caller
    <2> QED BY <2>2 DEF AfterMaps
  <1>3. ASSUME th[t].pc \in AfterMaps
        PROVE  \A g \in Groups : /\ OldPassed(th[t], g) => OldIn(chan, g)'
                                 /\ NewPassed(th[t], g) => NewIn(chan, g)'
    <2>1. gd' = gd BY <1>0, <1>3, DescsSettled DEF CallersRight
    <2> QED BY <1>0, <1>3, <2>1, DescInKept DEF DescsKept
  <1>4. ASSUME th[t].pc \in AfterMaps, th'[t].group = th[t].group, th'[t].part = th[t].part
        PROVE  Goal
    BY <1>3, <1>4 DEF OldPassed, NewPassed
  <1>5. ASSUME NEW g \in Groups, th[t].group = g, th'[t] = NextPart(th[t]), At(t, "loop"),
               th[t].part = "old" => OldIn(chan, g)',
               th[t].part = "new" => NewIn(chan, g)'
        PROVE  Goal
    <2>1. th[t].pc \in AfterMaps BY <1>5 DEF At, AfterMaps
    <2> QED BY <1>0, <1>3, <1>5, <2>1, Passing
  <1>6. CASE Enter(t) \/ WriteMap(t)
    <2>1. CASE Enter(t)
      BY <1>0, <2>1 DEF Enter, AfterMaps, Caller
    <2>2. CASE WriteMap(t)
      <3>1. th' = [th EXCEPT ![t].group = th[t].group + 1] BY <1>2, <2>2 DEF WriteMap
      <3>2. th'[t].pc = th[t].pc BY <1>0, <3>1 DEF Caller
      <3> QED BY <2>2, <3>2 DEF WriteMap, InMaps, AfterMaps
    <2> QED BY <1>6, <2>1, <2>2
  <1>7. CASE WriteBackup(t)
    <2>1. th' = [th EXCEPT ![t] = NextPart(@)] BY <1>2, <1>7 DEF WriteBackup
    <2>2. th'[t] = NextPart(th[t]) /\ th[t].group \in Groups /\ At(t, "loop") /\ th[t].part = "super"
      BY <1>0, <1>7, <2>1, ThreadType DEF WriteBackup, InPart
    <2>3. PICK g \in Groups : g = th[t].group BY <2>2
    <2> QED BY <1>5, <2>2, <2>3
  <1>8. CASE WriteOld(t)
    <2>1. PICK g \in Groups : g = th[t].group
      BY <1>8, ThreadType DEF WriteOld, WritePart, InPart
    <2> DEFINE start == GroupBlock(g) + 1
               w == [b \in IF WritesOld(g) THEN {start + k : k \in OldDescs} ELSE {} |->
                       Desc(b - start, gd)]
    <2>2. /\ Written(w) /\ th' = [th EXCEPT ![t] = NextPart(@)] /\ gd' = gd
          /\ At(t, "loop") /\ th[t].part = "old"
      BY <1>2, <1>8, <2>1 DEF WriteOld, WritePart, InPart
    <2>3. ASSUME WritesOld(g), NEW k \in OldDescs PROVE chan'[OldLoc(g, k)] = Desc(k, gd)
      <3>1. 0 \in 0..(BlocksPerGroup - 1) BY Sizes
      <3>2. start \in Nat /\ k \in Nat BY <1>0, <3>1, InVolume, GeoFacts
      <3>3. OldLoc(g, k) = start + k /\ (start + k) - start = k BY <3>2 DEF OldLoc
      <3>4. OldLoc(g, k) \in Blocks BY <1>0, CopiesApart
      <3>5. OldLoc(g, k) \in DOMAIN w /\ w[OldLoc(g, k)] = Desc(k, gd) BY <2>3, <3>3
      <3> HIDE DEF w
      <3> QED BY <2>2, <3>4, <3>5 DEF Written
    <2>4. OldIn(chan, g)' BY <1>0, <2>2, <2>3, SameVolume DEF OldIn, Writes
    <2>5. th'[t] = NextPart(th[t]) BY <1>0, <2>2
    <2> QED BY <1>5, <2>1, <2>2, <2>4, <2>5
  <1>9. CASE WriteNew(t)
    <2>1. PICK g \in Groups : g = th[t].group
      BY <1>9, ThreadType DEF WriteNew, WritePart, InPart
    <2>2. /\ Written([b \in IF HasNew(g) THEN {NewDesc(g)} ELSE {} |-> Desc(g \div DescPerBlock, gd)])
          /\ th' = [th EXCEPT ![t] = NextPart(@)] /\ gd' = gd
          /\ At(t, "loop") /\ th[t].part = "new"
      BY <1>2, <1>9, <2>1 DEF WriteNew, WritePart, InPart
    <2>3. NewDesc(g) \in Blocks BY <1>0, CopiesApart
    <2>4. HasNew(g) => chan'[NewDesc(g)] = Desc(g \div DescPerBlock, gd)
      BY <2>2, <2>3 DEF Written
    <2>5. NewIn(chan, g)' BY <1>0, <2>2, <2>4, SameVolume DEF NewIn, Writes
    <2>6. th'[t] = NextPart(th[t]) BY <1>0, <2>2
    <2> QED BY <1>5, <2>1, <2>2, <2>5, <2>6
  <1>10. CASE Restore(t)
    <2>1. th'[t].group = th[t].group /\ th'[t].part = th[t].part /\ th[t].pc \in AfterMaps
      BY <1>0, <1>10 DEF Restore, At, AfterMaps, Caller
    <2> QED BY <1>4, <2>1
  <1>11. ASSUME NEW here \in AfterLoop, NEW there, FlushChannel(t, here, there) PROVE Goal
    <2>1. th' = [th EXCEPT ![t].pc = there] BY <1>2, <1>11 DEF FlushChannel
    <2>2. th'[t].group = th[t].group /\ th'[t].part = th[t].part /\ th[t].pc \in AfterMaps
      BY <1>0, <1>11, <2>1 DEF FlushChannel, At, AfterMaps, AfterLoop, Caller
    <2> QED BY <1>4, <2>2
  <1>12. CASE Flush1(t) \/ Flush2(t) BY <1>11, <1>12 DEF Flush1, Flush2, AfterLoop
  <1>13. CASE WriteField(t)
    <2>1. PICK i : th' = [th EXCEPT ![t].field = i] BY <1>2, <1>13 DEF WriteField
    <2>2. th'[t].group = th[t].group /\ th'[t].part = th[t].part /\ th[t].pc \in AfterMaps
      BY <1>0, <1>13, <2>1 DEF WriteField, At, AfterMaps, Caller
    <2> QED BY <1>4, <2>2
  <1>14. CASE PrimaryDone(t)
    <2>1. th'[t].group = th[t].group /\ th'[t].part = th[t].part /\ th[t].pc \in AfterMaps
      BY <1>0, <1>14 DEF PrimaryDone, At, AfterMaps, Caller
    <2> QED BY <1>4, <2>1
  <1> QED BY <1>1, <1>6, <1>7, <1>8, <1>9, <1>10, <1>12, <1>13, <1>14 DEF Flush

LEMMA FlushDescs ==
    ASSUME TypeOK, ClosedIsQuiet, CallersRight, MapsKept, DescsKept,
           NEW t \in Threads, Flush(t), TypeOK'
    PROVE  DescsKept'
  <1>0. th \in [Threads -> Caller] /\ open BY FlushOpen DEF TypeOK
  <1>1. CASE Return(t)
    <2>1. CASE Gone BY <2>1, GoneState DEF DescsKept, AfterMaps, Idle
    <2>2. CASE th' = [th EXCEPT ![t] = Idle] /\ UNCHANGED <<fs, chan, disk, open>>
      <3>1. geo' = geo /\ gd' = gd /\ chan' = chan BY <1>1, <2>2 DEF Return, fs
      <3>2. \A g \in Groups : /\ OldIn(chan, g) => OldIn(chan, g)'
                              /\ NewIn(chan, g) => NewIn(chan, g)'
        BY <3>1, SameVolume DEF OldIn, NewIn
      <3>3. \A s \in Threads : th'[s].pc \in AfterMaps => th'[s] = th[s]
        BY <1>0, <2>2 DEF Idle, AfterMaps
      <3> QED BY <3>2, <3>3 DEF DescsKept
    <2> QED BY <1>1, <2>1, <2>2 DEF Return
  <1>2. CASE ~Return(t)
    <2>1. Writes(t) BY <1>2, WritesSome
    <2>2. ASSUME NEW s \in Threads, s # t, th'[s].pc \in AfterMaps, NEW g \in Groups
          PROVE  /\ OldPassed(th'[s], g) => OldIn(chan, g)'
                 /\ NewPassed(th'[s], g) => NewIn(chan, g)'
      <3>1. th'[s] = th[s] BY <2>1, <2>2 DEF Writes
      <3>2. ~bb BY <2>2, <3>1 DEF CallersRight
      <3>3. gd' = gd BY <1>0, <2>1, <3>2, DescsSettled
      <3> QED BY <2>1, <2>2, <3>1, <3>3, DescInKept DEF DescsKept
    <2>3. th'[t].pc \in AfterMaps =>
            \A g \in Groups : /\ OldPassed(th'[t], g) => OldIn(chan, g)'
                              /\ NewPassed(th'[t], g) => NewIn(chan, g)'
      BY <1>2, PassedIsWritten
    <2>4. \A s \in Threads : th'[s].pc \in AfterMaps =>
            \A g \in Groups : /\ OldPassed(th'[s], g) => OldIn(chan, g)'
                              /\ NewPassed(th'[s], g) => NewIn(chan, g)'
      BY <2>2, <2>3
    <2> QED BY <2>4 DEF DescsKept, OldPassed, NewPassed
  <1> QED BY <1>1, <1>2

LEMMA WorldDescs ==
    ASSUME TypeOK, ClosedIsQuiet, CallersRight, DescsKept, World
    PROVE  DescsKept'
  <1>0. th \in [Threads -> Caller] BY DEF TypeOK
  <1>1. geo' = geo
    BY DEF World, Alloc, MarkSuperDirty, Sync, Close, WriteBack, Crash, Open
  <1>2. ASSUME chan' = chan, gd' = gd,
               \A s \in Threads : th'[s].pc \in AfterMaps => th'[s] = th[s]
        PROVE  DescsKept'
    <2>1. \A g \in Groups : /\ OldIn(chan, g) => OldIn(chan, g)'
                            /\ NewIn(chan, g) => NewIn(chan, g)'
      BY <1>1, <1>2, SameVolume DEF OldIn, NewIn
    <2> QED BY <1>2, <2>1 DEF DescsKept
  <1>3. ASSUME NEW g \in Changing, Alloc(g) PROVE DescsKept'
    BY <1>2, <1>3 DEF Alloc
  <1>4. CASE MarkSuperDirty BY <1>2, <1>4 DEF MarkSuperDirty
  <1>5. ASSUME NEW t \in Threads, Sync(t) PROVE DescsKept'
    BY <1>0, <1>2, <1>5 DEF Sync, AfterMaps, fs
  <1>6. ASSUME NEW t \in Threads, Close(t) PROVE DescsKept'
    BY <1>0, <1>2, <1>6 DEF Close, AfterMaps, fs
  <1>7. ASSUME NEW b \in Blocks, WriteBack(b) PROVE DescsKept'
    BY <1>2, <1>7 DEF WriteBack, fs
  <1>8. CASE Crash BY <1>8, GoneState DEF Crash, DescsKept, AfterMaps, Idle
  <1>9. CASE Open
    <2>1. \A s \in Threads : th'[s].pc = "idle" BY <1>9 DEF Open, ClosedIsQuiet, Quiet, At
    <2> QED BY <2>1 DEF DescsKept, AfterMaps
  <1> QED BY <1>3, <1>4, <1>5, <1>6, <1>7, <1>8, <1>9 DEF World

\* When the loop is done, every copy is written.
LEMMA LoopWroteAll ==
    ASSUME TypeOK, DescsKept, NEW t \in Threads, th[t].pc \in AfterMaps, th[t].group = NGroups
    PROVE  DescsIn(chan)
  <1>1. \A g \in Groups : OldPassed(th[t], g) /\ NewPassed(th[t], g)
    BY Sizes DEF OldPassed, NewPassed
  <1>2. \A g \in Groups : OldIn(chan, g) /\ NewIn(chan, g) BY <1>1 DEF DescsKept
  <1> QED BY <1>2 DEF DescsIn, IsCopy, OldCopy, NewCopy, OldIn, NewIn

-----------------------------------------------------------------------------
\* What the blocks hold.

LEMMA ShapeKept ==
    ASSUME geo' = geo, Shape(chan), Shape(disk), NEW c,
           \A g \in Groups : \/ c[MapBlock(g)] \in {chan[MapBlock(g)], disk[MapBlock(g)]}
                             \/ \E v : c[MapBlock(g)] = MapBits(g, v),
           \A b \in Blocks, k \in DescBlocks : IsCopy(b, k) =>
             c[b] \in {chan[b], disk[b]} \/ \E d : c[b] = Desc(k, d)
    PROVE  /\ \A g \in Groups : c[MapBlock(g)] = MapBits(g, c[MapBlock(g)].data[g])
           /\ \A b \in Blocks, k \in DescBlocks : IsCopy(b, k) => c[b] = Desc(k, c[b].data)
  <1>1. ASSUME NEW g \in Groups PROVE c[MapBlock(g)] = MapBits(g, c[MapBlock(g)].data[g])
    <2>1. CASE c[MapBlock(g)] \in {chan[MapBlock(g)], disk[MapBlock(g)]} BY <2>1 DEF Shape
    <2>2. ASSUME NEW v, c[MapBlock(g)] = MapBits(g, v)
          PROVE  c[MapBlock(g)] = MapBits(g, c[MapBlock(g)].data[g])
      BY <2>2, Said
    <2> QED BY <2>1, <2>2
  <1>2. ASSUME NEW b \in Blocks, NEW k \in DescBlocks, IsCopy(b, k)
        PROVE  c[b] = Desc(k, c[b].data)
    <2>1. CASE c[b] \in {chan[b], disk[b]} BY <1>2, <2>1 DEF Shape
    <2>2. ASSUME NEW d, c[b] = Desc(k, d) PROVE c[b] = Desc(k, c[b].data)
      BY <2>2, Said
    <2> QED BY <1>2, <2>1, <2>2
  <1> QED BY <1>1, <1>2

LEMMA FlushShapes ==
    ASSUME TypeOK, Shapes, NEW t \in Threads, Flush(t)
    PROVE  Shapes'
  <1>1. CASE ~Return(t)
    <2>1. Writes(t) BY <1>1, WritesSome
    <2>2. Shape(chan)'
      <3>1. /\ \A g \in Groups : chan'[MapBlock(g)] = MapBits(g, chan'[MapBlock(g)].data[g])
            /\ \A b \in Blocks, k \in DescBlocks : IsCopy(b, k) => chan'[b] = Desc(k, chan'[b].data)
        <4>1. PICK c : c = chan' OBVIOUS
        <4>2. \A g \in Groups : c[MapBlock(g)] = chan[MapBlock(g)] \/ c[MapBlock(g)] = MapBits(g, maps[g])
          BY <2>1, <4>1 DEF Writes
        <4>3. \A b \in Blocks, k \in DescBlocks : IsCopy(b, k) => c[b] = chan[b] \/ c[b] = Desc(k, gd)
          BY <2>1, <4>1 DEF Writes
        <4>4. geo' = geo /\ Shape(chan) /\ Shape(disk) BY <2>1 DEF Writes, Shapes
        <4>5. /\ \A g \in Groups : \/ c[MapBlock(g)] \in {chan[MapBlock(g)], disk[MapBlock(g)]}
                                    \/ \E v : c[MapBlock(g)] = MapBits(g, v)
              /\ \A b \in Blocks, k \in DescBlocks : IsCopy(b, k) =>
                   c[b] \in {chan[b], disk[b]} \/ \E d : c[b] = Desc(k, d)
          BY <4>2, <4>3
        <4>6. /\ \A g \in Groups : c[MapBlock(g)] = MapBits(g, c[MapBlock(g)].data[g])
              /\ \A b \in Blocks, k \in DescBlocks : IsCopy(b, k) => c[b] = Desc(k, c[b].data)
          BY <4>4, <4>5, ShapeKept
        <4> QED BY <4>1, <4>6
      <3> QED BY <2>1, <3>1, SameVolume DEF Writes, Shape
    <2>3. Shape(disk)' BY <2>1, SameVolume DEF Writes, Shapes, Shape
    <2> QED BY <2>2, <2>3 DEF Shapes
  <1>2. CASE Return(t)
    <2>1. geo' = geo /\ chan' \in {chan, disk} /\ disk' \in {chan, disk}
      BY <1>2 DEF Return, Gone
    <2> QED BY <2>1, SameVolume DEF Shapes, Shape
  <1> QED BY <1>1, <1>2

LEMMA WorldShapes ==
    ASSUME TypeOK, Shapes, World
    PROVE  Shapes'
  <1>1. /\ geo' = geo /\ chan' \in {chan, disk}
        /\ \A b \in Blocks : disk'[b] \in {disk[b], chan[b]}
    BY DEF World, Alloc, MarkSuperDirty, Sync, Close, WriteBack, Crash, Gone, Open, TypeOK
  <1>2. \A g \in Groups : MapBlock(g) \in Blocks BY Locations
  <1>3. Shape(chan)' BY <1>1, SameVolume DEF Shapes, Shape
  <1>4. Shape(disk)'
    <2>1. /\ \A g \in Groups : disk'[MapBlock(g)] = MapBits(g, disk'[MapBlock(g)].data[g])
          /\ \A b \in Blocks, k \in DescBlocks : IsCopy(b, k) => disk'[b] = Desc(k, disk'[b].data)
      BY <1>1, <1>2 DEF Shapes, Shape
    <2> QED BY <1>1, <2>1, SameVolume DEF Shape
  <1> QED BY <1>3, <1>4 DEF Shapes

-----------------------------------------------------------------------------
\* What the primary superblock counts.

LEMMA CountsOfFlush ==
    ASSUME TypeOK, Counted, open, NEW t \in Threads, Writes(t), TypeOK'
    PROVE  /\ Covers(chan', primary.free) /\ Covers(disk', primary.free)
           /\ \A g \in Groups : /\ super'.free[g] <= maps'[g]
                                /\ primary.free[g] <= maps'[g]
                                /\ primary.free[g] <= gd'[g]
  <1>1. ASSUME NEW g \in Groups PROVE primary.free[g] <= chan'[MapBlock(g)].data[g]
    <2>1. chan'[MapBlock(g)] \in {chan[MapBlock(g)], MapBits(g, maps[g])} BY DEF Writes
    <2> QED BY <2>1, Said DEF Counted, Covers
  <1>2. ASSUME NEW g \in Groups, NEW b \in Blocks, IsCopy(b, g \div DescPerBlock)
        PROVE  primary.free[g] <= chan'[b].data[g]
    <2>1. chan'[b] \in {chan[b], Desc(g \div DescPerBlock, gd)}
      BY <1>2, BlockOfGroup DEF Writes
    <2> QED BY <1>2, <2>1, Said DEF Counted, Covers
  <1>3. Covers(chan', primary.free) BY <1>1, <1>2 DEF Covers
  <1>4. Covers(disk', primary.free) BY DEF Writes, Counted
  <1>5. ASSUME NEW g \in Groups
        PROVE  /\ super'.free[g] <= maps'[g]
               /\ primary.free[g] <= maps'[g]
               /\ primary.free[g] <= gd'[g]
    BY DEF Writes, Counted
  <1> QED BY <1>3, <1>4, <1>5

\* At the primary superblock everything it is about to count is written.
LEMMA CountsWritten ==
    ASSUME TypeOK, CallersRight, MapsKept, DescsKept, Counted, open,
           NEW t \in Threads, At(t, "primary")
    PROVE  /\ Covers(chan, super.free)
           /\ \A g \in Groups : super.free[g] <= maps[g] /\ super.free[g] <= gd[g]
  <1>1. ~bb /\ th[t].group = NGroups BY DEF CallersRight, At, AfterMaps, AfterLoop
  <1>2. \A g \in Groups : MapIn(chan, g) BY <1>1 DEF MapsKept
  <1>3. DescsIn(chan) BY <1>1, LoopWroteAll DEF At, AfterMaps
  <1>4. ASSUME NEW g \in Groups
        PROVE  /\ super.free[g] <= maps[g] /\ super.free[g] <= gd[g]
               /\ super.free[g] <= chan[MapBlock(g)].data[g]
    BY <1>2, Said DEF Counted, MapIn
  <1>5. ASSUME NEW g \in Groups, NEW b \in Blocks, IsCopy(b, g \div DescPerBlock)
        PROVE  super.free[g] <= chan[b].data[g]
    <2>1. chan[b] = Desc(g \div DescPerBlock, gd) BY <1>3, <1>5, BlockOfGroup DEF DescsIn
    <2> QED BY <1>4, <2>1, Said
  <1> QED BY <1>4, <1>5 DEF Covers

LEMMA FlushCounted ==
    ASSUME TypeOK, ClosedIsQuiet, CallersRight, MapsKept, DescsKept, Counted,
           NEW t \in Threads, Flush(t), TypeOK'
    PROVE  Counted'
  <1>0. open BY FlushOpen DEF TypeOK
  <1>1. CASE Return(t)
    <2>1. /\ geo' = geo /\ primary' = primary
          /\ chan' \in {chan, disk} /\ disk' \in {chan, disk}
      BY <1>1 DEF Return, Gone
    <2>2. open' => super' = super /\ maps' = maps /\ gd' = gd
      BY <1>1 DEF Return, Gone, fs
    <2> QED BY <1>0, <2>1, <2>2, SameVolume DEF Counted, Covers
  <1>2. CASE ~Return(t) /\ primary' = primary
    <2>1. Writes(t) BY <1>2, WritesSome
    <2>2. /\ Covers(chan', primary.free) /\ Covers(disk', primary.free)
          /\ \A g \in Groups : /\ super'.free[g] <= maps'[g]
                               /\ primary.free[g] <= maps'[g]
                               /\ primary.free[g] <= gd'[g]
      BY <1>0, <2>1, CountsOfFlush
    <2> QED BY <1>2, <2>1, <2>2, SameVolume DEF Counted, Covers, Writes
  <1>3. CASE ~Return(t) /\ primary' # primary
    <2>1. WriteField(t)
      BY <1>3 DEF Flush, Enter, WriteMap, MapsDone, WriteBackup, WriteOld, WriteNew, WritePart,
                  Restore, Flush1, Flush2, FlushChannel, PrimaryDone
    <2>2. PICK i \in th[t].field..6 : primary' = [primary EXCEPT ![Fields[i]] = super[Fields[i]]]
      BY <1>3, <2>1 DEF WriteField
    <2>3. disk' = chan /\ chan' = chan /\ gd' = gd /\ At(t, "primary")
      BY <1>3, <2>1 DEF WriteField
    <2>4. primary'.free \in {primary.free, super.free}
      <3>1. super \in Super /\ primary \in Super BY DEF TypeOK
      <3>2. i \in 1..6 BY ThreadType
      <3> QED BY <2>2, <3>1, <3>2, FieldCopied
    <2>5. Writes(t) BY <1>3, WritesSome
    <2>6. /\ Covers(chan, super.free)
          /\ \A g \in Groups : super.free[g] <= maps[g] /\ super.free[g] <= gd[g]
      BY <1>0, <2>3, CountsWritten
    <2>7. /\ Covers(chan', primary'.free) /\ Covers(disk', primary'.free)
          /\ \A g \in Groups : /\ super'.free[g] <= maps'[g]
                               /\ primary'.free[g] <= maps'[g]
                               /\ primary'.free[g] <= gd'[g]
      BY <1>0, <2>3, <2>4, <2>5, <2>6 DEF Counted, Writes
    <2> QED BY <2>5, <2>7, SameVolume DEF Counted, Covers, Writes
  <1> QED BY <1>1, <1>2, <1>3

LEMMA WorldCounted ==
    ASSUME TypeOK, Counted, World, TypeOK'
    PROVE  Counted'
  <1>0. /\ super \in Super /\ primary \in Super /\ maps \in Versions /\ gd \in Versions
        /\ \A s \in Super : s.free \in Versions
    BY DEF TypeOK, Super
  <1>1. /\ geo' = geo /\ primary' = primary /\ chan' \in {chan, disk}
        /\ \A b \in Blocks : disk'[b] \in {disk[b], chan[b]}
    BY DEF World, Alloc, MarkSuperDirty, Sync, Close, WriteBack, Crash, Gone, Open, TypeOK
  <1>2. \A g \in Groups : MapBlock(g) \in Blocks BY Locations
  <1>3. Covers(chan, primary.free)' BY <1>1, SameVolume DEF Counted, Covers
  <1>4. Covers(disk, primary.free)' BY <1>1, <1>2, SameVolume DEF Counted, Covers
  <1>5. ASSUME open', NEW g \in Groups
        PROVE  /\ super'.free[g] <= maps'[g]
               /\ primary.free[g] <= maps'[g]
               /\ primary.free[g] <= gd'[g]
    <2>1. ASSUME NEW h \in Changing, Alloc(h)
          PROVE  /\ super'.free[g] <= maps'[g]
                 /\ primary.free[g] <= maps'[g]
                 /\ primary.free[g] <= gd'[g]
      <3>1. super'.free[g] = IF g = h THEN maps[h] + 1 ELSE super.free[g]
        BY <1>0, <2>1 DEF Alloc, Super, Versions
      <3>2. maps'[g] = IF g = h THEN maps[h] + 1 ELSE maps[g]
        BY <1>0, <2>1 DEF Alloc, Versions
      <3>3. maps[g] \in Int /\ primary.free[g] \in Int BY <1>0 DEF Versions
      <3>4. open /\ gd' = gd BY <2>1 DEF Alloc
      <3> QED BY <3>1, <3>2, <3>3, <3>4 DEF Counted
    <2>2. CASE Open
      <3>1. /\ super' = primary /\ maps'[g] = chan[MapBlock(g)].data[g] /\ gd' = maps'
        BY <2>2 DEF Open
      <3> QED BY <3>1 DEF Counted, Covers
    <2>3. CASE Crash BY <1>5, <2>3 DEF Crash, Gone
    <2>4. CASE open' = open /\ super' = super /\ maps' = maps /\ gd' = gd
      BY <1>5, <2>4 DEF Counted
    <2> QED BY <2>1, <2>2, <2>3, <2>4 DEF World, MarkSuperDirty, Sync, Close, WriteBack, fs
  <1> QED BY <1>1, <1>3, <1>4, <1>5 DEF Counted

-----------------------------------------------------------------------------
LEMMA InitFlush == Init => FlushInv
  <1> SUFFICES ASSUME Init PROVE FlushInv OBVIOUS
  <1>0. TypeOK /\ geo \in Geometries BY InitType DEF TypeOK
  <1>1. ClosedIsQuiet BY DEF Init, ClosedIsQuiet
  <1>2. CallersRight
    BY DEF Init, CallersRight, Idle, At, BeforeLoop, AfterMaps, AfterLoop
  <1>3. ASSUME NEW g \in Groups
        PROVE  chan[MapBlock(g)] = MapBits(g, 0) /\ disk = chan
    <2>1. MapBlock(g) \in Blocks BY <1>0, MapsApart
    <2> QED BY <1>0, <2>1, MadeHolds DEF Init
  <1>4. ASSUME NEW b \in Blocks, NEW k, IsCopy(b, k)
        PROVE  chan[b] = Desc(k, Zeros)
    BY <1>0, <1>4, MadeHolds DEF Init
  <1>5. disk = chan BY DEF Init
  <1>6. \A g \in Groups : Zeros[g] = 0 BY DEF Zeros
  <1>7. MapsKept
    BY <1>3, <1>6 DEF Init, MapsKept, MapIn, InMaps, Idle
  <1>8. DescsKept BY DEF Init, DescsKept, AfterMaps, Idle
  <1>9. Shapes BY <1>3, <1>4, <1>5, Said DEF Shapes, Shape
  <1>10. super.free = Zeros /\ primary.free = Zeros /\ maps = Zeros /\ gd = Zeros
    BY DEF Init, Checked
  <1>11. Covers(chan, primary.free) BY <1>3, <1>4, <1>6, <1>10, Said DEF Covers
  <1>12. Counted BY <1>5, <1>6, <1>10, <1>11 DEF Counted
  <1> QED BY <1>0, <1>1, <1>2, <1>7, <1>8, <1>9, <1>12 DEF FlushInv

LEMMA NextFlush ==
    ASSUME FlushInv, [Next]_vars
    PROVE  FlushInv'
  <1>1. TypeOK' BY NextType DEF FlushInv
  <1>2. ASSUME NEW t \in Threads, Flush(t) PROVE FlushInv'
    <2>1. ClosedIsQuiet' /\ CallersRight' BY <1>2, FlushCallers DEF FlushInv
    <2>2. MapsKept' BY <1>2, FlushMaps DEF FlushInv
    <2>3. DescsKept' BY <1>1, <1>2, FlushDescs DEF FlushInv
    <2>4. Shapes' BY <1>2, FlushShapes DEF FlushInv
    <2>5. Counted' BY <1>1, <1>2, FlushCounted DEF FlushInv
    <2> QED BY <1>1, <2>1, <2>2, <2>3, <2>4, <2>5 DEF FlushInv
  <1>3. CASE World
    <2>1. ClosedIsQuiet' /\ CallersRight' BY <1>3, WorldCallers DEF FlushInv
    <2>2. MapsKept' BY <1>3, WorldMaps DEF FlushInv
    <2>3. DescsKept' BY <1>3, WorldDescs DEF FlushInv
    <2>4. Shapes' BY <1>3, WorldShapes DEF FlushInv
    <2>5. Counted' BY <1>1, <1>3, WorldCounted DEF FlushInv
    <2> QED BY <1>1, <2>1, <2>2, <2>3, <2>4, <2>5 DEF FlushInv
  <1>4. CASE UNCHANGED vars
    <2>1. geo' = geo BY <1>4 DEF vars
    <2>2. ClosedIsQuiet' /\ CallersRight'
      BY <1>4 DEF FlushInv, vars, fs, ClosedIsQuiet, CallersRight, Quiet, At
    <2>3. MapsKept' BY <1>4, <2>1, SameVolume DEF FlushInv, vars, fs, MapsKept, MapIn, InMaps
    <2>4. DescsKept'
      BY <1>4, <2>1, SameVolume DEF FlushInv, vars, fs, DescsKept, OldIn, NewIn
    <2>5. Shapes' BY <1>4, <2>1, SameVolume DEF FlushInv, vars, Shapes, Shape
    <2>6. Counted' BY <1>4, <2>1, SameVolume DEF FlushInv, vars, fs, Counted, Covers
    <2> QED BY <1>1, <2>2, <2>3, <2>4, <2>5, <2>6 DEF FlushInv
  <1> QED BY <1>2, <1>3, <1>4, NextCases

LEMMA FlushInvariant == Spec => []FlushInv
  BY InitFlush, NextFlush, PTL DEF Spec

\* PrimaryLast, for any volume and any number of threads that flush at once:
\* wherever the machine stops, the primary superblock counts no change that the
\* bitmap or the descriptors on the device do not have.
THEOREM PrimaryIsLast == Spec => []PrimaryLast
  <1>1. FlushInv => PrimaryLast
    <2> SUFFICES ASSUME FlushInv, NEW g \in Groups
                 PROVE  /\ primary.free[g] <= disk[MapBlock(g)].data[g]
                        /\ primary.free[g] <= disk[PrimaryLoc(g \div DescPerBlock)].data[g]
      BY DEF PrimaryLast, PrimaryLoc
    <2>1. TypeOK /\ Covers(disk, primary.free) BY DEF FlushInv, Counted
    <2>2. g \div DescPerBlock \in DescBlocks BY BlockOfGroup
    <2> QED BY <2>1, <2>2, Locations DEF Covers
  <1> QED BY <1>1, FlushInvariant, PTL

-----------------------------------------------------------------------------
\* The steps of a flush, by what they do to fs->super, the primary superblock,
\* the caller and the device.

FailStep(t) ==
    /\ th' = [th EXCEPT ![t].pc = "ret", ![t].ok = FALSE] /\ failed' = TRUE
    /\ \/ th[t].pc \in Saved /\ super'.valid = th[t].valid
       \/ At(t, "premaps") /\ super' = super
    /\ \/ primary' = primary
       \/ /\ At(t, "primary")
          /\ \E i \in 1..6 : primary' = [primary EXCEPT ![Fields[i]] = super[Fields[i]]]
    /\ orig' = orig /\ chan' = chan /\ bb' = bb
    /\ \/ gd' = gd /\ dirty' = dirty
       \/ InMaps(t) /\ dirty'

MapStep(t) ==
    /\ InMaps(t) /\ dirty'
    /\ th' = [th EXCEPT ![t].group = @ + 1]
    /\ \A b \in Blocks : chan'[b] = chan[b] \/ chan'[b].what = "map"
    /\ UNCHANGED <<super, orig, primary, disk, failed, bb>>

LoopStep(t) ==
    /\ At(t, "loop")
    /\ th' = [th EXCEPT ![t] = NextPart(@)]
    /\ super'.valid = super.valid /\ super'.recovery = super.recovery
    /\ \A b \in Blocks : chan'[b] \in {chan[b], Backup(super')} \/ chan'[b].what = "desc"
    /\ UNCHANGED <<orig, primary, disk, gd, dirty, failed, bb>>

ChannelStep(t, here, there) ==
    /\ At(t, here)
    /\ th' = [th EXCEPT ![t].pc = there]
    /\ disk' = chan
    /\ UNCHANGED <<super, orig, primary, chan, gd, dirty, failed, bb>>

FieldStep(t) ==
    /\ At(t, "primary")
    /\ disk' = chan
    /\ \E i \in th[t].field..6 :
         /\ \A j \in th[t].field..(i - 1) : ~Differs(j)
         /\ primary' = [primary EXCEPT ![Fields[i]] = super[Fields[i]]]
         /\ th' = [th EXCEPT ![t].field = i + 1]
    /\ UNCHANGED <<super, orig, chan, gd, dirty, failed, bb>>

LEMMA FlushSteps ==
    ASSUME TypeOK, NEW t \in Threads, Flush(t)
    PROVE  \/ Enter(t) \/ MapStep(t) \/ MapsDone(t) \/ LoopStep(t) \/ Restore(t)
           \/ ChannelStep(t, "flush1", "primary") \/ FieldStep(t) \/ PrimaryDone(t)
           \/ ChannelStep(t, "flush2", "ret") \/ FailStep(t) \/ Return(t)
  <1>0. /\ th \in [Threads -> Caller] /\ th[t] \in Caller /\ super \in Super
        /\ chan \in [Blocks -> Contents]
    BY DEF TypeOK
  <1>1. ASSUME Errout(t)
        PROVE  /\ th' = [th EXCEPT ![t].pc = "ret", ![t].ok = FALSE] /\ failed' = TRUE
               /\ super'.valid = th[t].valid
    BY <1>0, <1>1 DEF Errout, Super
  <1>2. CASE WriteMap(t)
    <2> DEFINE g == th[t].group
    <2>1. CASE Written([b \in {MapBlock(g)} |-> MapBits(g, maps[g])])
                /\ th' = [th EXCEPT ![t].group = g + 1] /\ UNCHANGED <<super, failed>>
      <3>1. \A b \in Blocks : chan'[b] = chan[b] \/ chan'[b].what = "map"
        BY <2>1 DEF Written, MapBits, Content
      <3> QED BY <1>2, <2>1, <3>1 DEF WriteMap, MapStep
    <2>2. CASE At(t, "maps") /\ Errout(t) /\ UNCHANGED chan
      BY <1>1, <1>2, <2>2 DEF WriteMap, FailStep, Saved, At
    <2>3. CASE At(t, "premaps") /\ th' = [th EXCEPT ![t].pc = "ret", ![t].ok = FALSE]
                /\ failed' = TRUE /\ UNCHANGED <<super, chan>>
      BY <1>2, <2>3 DEF WriteMap, FailStep
    <2> QED BY <1>2, <2>1, <2>2, <2>3 DEF WriteMap
  <1>3. CASE WriteBackup(t)
    <2> DEFINE g == th[t].group
               s == Checked([super EXCEPT !.group = g])
    <2>1. /\ s.valid = super.valid /\ s.recovery = super.recovery
          /\ [s EXCEPT !.valid = th[t].valid].valid = th[t].valid
      BY <1>0 DEF Checked, Super
    <2>2. CASE Written([b \in {GroupBlock(g)} |-> Backup(s)]) /\ super' = s
                /\ th' = [th EXCEPT ![t] = NextPart(@)] /\ UNCHANGED failed
      <3>1. \A b \in Blocks : chan'[b] \in {chan[b], Backup(super')}
        BY <2>2 DEF Written
      <3> QED BY <1>3, <2>1, <2>2, <3>1 DEF WriteBackup, InPart, LoopStep
    <2>3. CASE th' = [th EXCEPT ![t] = NextPart(@)] /\ UNCHANGED <<super, chan, failed>>
      BY <1>3, <2>3 DEF WriteBackup, InPart, LoopStep
    <2>4. CASE /\ super' = [s EXCEPT !.valid = th[t].valid]
               /\ th' = [th EXCEPT ![t].pc = "ret", ![t].ok = FALSE]
               /\ failed' = TRUE /\ UNCHANGED chan
      BY <1>3, <2>1, <2>4 DEF WriteBackup, InPart, FailStep, Saved, At
    <2> QED BY <1>3, <2>2, <2>3, <2>4 DEF WriteBackup
  <1>4. ASSUME NEW part, NEW w, WritePart(t, part, w), \A b \in DOMAIN w : w[b].what = "desc"
        PROVE  LoopStep(t) \/ FailStep(t)
    <2>1. CASE Errout(t) /\ UNCHANGED chan
      BY <1>1, <1>4, <2>1 DEF WritePart, InPart, FailStep, Saved, At
    <2>2. CASE Written(w) /\ th' = [th EXCEPT ![t] = NextPart(@)] /\ UNCHANGED <<super, failed>>
      <3>1. \A b \in Blocks : chan'[b] = chan[b] \/ chan'[b].what = "desc"
        BY <1>4, <2>2 DEF Written
      <3> QED BY <1>4, <2>2, <3>1 DEF WritePart, InPart, LoopStep
    <2> QED BY <1>4, <2>1, <2>2 DEF WritePart
  <1>5. \A k, d : Desc(k, d).what = "desc" BY DEF Desc, Content
  <1>6. CASE WriteOld(t)
    <2> DEFINE g == th[t].group
               start == GroupBlock(g) + 1
               w == [b \in IF WritesOld(g) THEN {start + k : k \in OldDescs} ELSE {} |->
                       Desc(b - start, gd)]
    <2>1. WritePart(t, "old", w) BY <1>6 DEF WriteOld
    <2>2. \A b \in DOMAIN w : w[b].what = "desc" BY <1>5
    <2> HIDE DEF w
    <2> QED BY <2>1, <2>2, <1>4
  <1>7. CASE WriteNew(t)
    <2> DEFINE g == th[t].group
               w == [b \in IF HasNew(g) THEN {NewDesc(g)} ELSE {} |-> Desc(g \div DescPerBlock, gd)]
    <2>1. WritePart(t, "new", w) BY <1>7 DEF WriteNew
    <2>2. \A b \in DOMAIN w : w[b].what = "desc" BY <1>5
    <2> HIDE DEF w
    <2> QED BY <2>1, <2>2, <1>4
  <1>8. CASE Flush1(t)
    BY <1>1, <1>8 DEF Flush1, FlushChannel, ChannelStep, FailStep, Saved, At
  <1>9. CASE Flush2(t)
    BY <1>1, <1>9 DEF Flush2, FlushChannel, ChannelStep, FailStep, Saved, At
  <1>10. CASE WriteField(t)
    <2>1. PICK i \in th[t].field..6 :
            /\ \A j \in th[t].field..(i - 1) : ~Differs(j)
            /\ \/ /\ disk' = chan
                  /\ primary' = [primary EXCEPT ![Fields[i]] = super[Fields[i]]]
                  /\ th' = [th EXCEPT ![t].field = i + 1]
                  /\ UNCHANGED <<super, failed>>
               \/ /\ Errout(t)
                  /\ primary' \in {primary} \cup
                       (IF disk' = chan THEN {[primary EXCEPT ![Fields[i]] = super[Fields[i]]]} ELSE {})
      BY <1>10 DEF WriteField
    <2>2. i \in 1..6 BY ThreadType
    <2>3. CASE Errout(t)
      BY <1>1, <1>10, <2>1, <2>2, <2>3 DEF WriteField, FailStep, Saved, At
    <2>4. CASE /\ disk' = chan
               /\ primary' = [primary EXCEPT ![Fields[i]] = super[Fields[i]]]
               /\ th' = [th EXCEPT ![t].field = i + 1]
               /\ UNCHANGED <<super, failed>>
      BY <1>10, <2>1, <2>4 DEF WriteField, FieldStep
    <2> QED BY <2>1, <2>3, <2>4
  <1> QED BY <1>2, <1>3, <1>6, <1>7, <1>8, <1>9, <1>10 DEF Flush

-----------------------------------------------------------------------------
\* What is on the device.

LEMMA OpenReads ==
    ASSUME TypeOK, DescsIn(chan), MapsIn(chan)
    PROVE  AllIn(chan)
  BY Locations DEF DescsIn, AllIn

LEMMA AllInKept ==
    ASSUME TypeOK, NEW t \in Threads, Writes(t), gd' = gd, AllIn(chan)
    PROVE  /\ AllIn(chan)'
           /\ AllIn(disk) => AllIn(disk)'
  <1>1. geo' = geo /\ maps' = maps /\ disk' \in {disk, chan} BY DEF Writes
  <1>2. \A g \in Groups : MapIn(chan, g)' BY MapInKept DEF AllIn, MapsIn
  <1>3. ASSUME NEW i \in DescBlocks PROVE chan'[PrimaryLoc(i)] = Desc(i, gd)
    BY Locations DEF Writes, AllIn
  <1>4. AllIn(chan)' BY <1>1, <1>2, <1>3, SameVolume DEF AllIn, MapsIn
  <1>5. AllIn(disk) => AllIn(disk)'
    BY <1>1, SameVolume DEF AllIn, MapsIn, MapIn
  <1> QED BY <1>4, <1>5

\* The caller has written everything and the device has it.
LEMMA FlushedAll ==
    ASSUME FlushInv, open, NEW t \in Threads, th[t].pc \in AfterLoop
    PROVE  DescsIn(chan) /\ AllIn(chan)
  <1>1. TypeOK /\ ~bb /\ th[t].group = NGroups /\ th[t].pc \in AfterMaps
    BY DEF FlushInv, CallersRight, AfterMaps, AfterLoop
  <1>2. DescsIn(chan) BY <1>1, LoopWroteAll DEF FlushInv
  <1>3. MapsIn(chan) BY <1>1 DEF FlushInv, MapsKept, MapsIn
  <1> QED BY <1>1, <1>2, <1>3, OpenReads

LEMMA FlushedAllNext ==
    ASSUME NEW t \in Threads
    PROVE  (FlushInv /\ open /\ th[t].pc \in AfterLoop)' => (DescsIn(chan) /\ AllIn(chan))'
  <1>1. FlushInv /\ open /\ th[t].pc \in AfterLoop => DescsIn(chan) /\ AllIn(chan)
    BY FlushedAll
  <1> QED BY <1>1, PTL

LEMMA FlushDisk ==
    ASSUME OneThread, FlushInv, FlushInv', DiskKept, NEW t \in Threads, Flush(t)
    PROVE  DiskKept'
  <1>0. /\ TypeOK /\ th \in [Threads -> Caller] /\ th[t] \in Caller /\ open
        /\ \A s \in Threads : s = t
    BY FlushOpen DEF OneThread, FlushInv, TypeOK
  <1> DEFINE Here == /\ Flushing(th[t])' => disk' = chan' /\ DescsIn(chan)'
                     /\ Finished(th[t])' => AllIn(disk)' /\ AllIn(chan)'
  <1>1. ASSUME ~Return(t), Here,
               \/ dirty' \/ (AllIn(disk)' /\ AllIn(chan)')
               \/ dirty' = dirty /\ gd' = gd
        PROVE  DiskKept'
    <2>1. open' /\ Writes(t) BY <1>0, <1>1, WritesSome DEF Writes
    <2>2. ~dirty' => AllIn(disk)' /\ AllIn(chan)'
      <3>1. CASE dirty' = dirty /\ gd' = gd
        BY <1>0, <2>1, <3>1, AllInKept DEF DiskKept
      <3> QED BY <1>1, <3>1
    <2> HIDE DEF Here
    <2>3. \A s \in Threads : /\ Flushing(th[s])' => disk' = chan' /\ DescsIn(chan)'
                             /\ Finished(th[s])' => AllIn(disk)' /\ AllIn(chan)'
      BY <1>0, <1>1 DEF Here
    <2> QED BY <2>1, <2>2, <2>3 DEF DiskKept
  <1>2. ASSUME th'[t].pc \notin {"primary", "flush2", "ret"} \/ (th'[t].pc = "ret" /\ ~th'[t].ok)
        PROVE  Here
    BY <1>2 DEF Flushing, Finished
  <1>3. ASSUME disk' = chan', th'[t].pc \in AfterLoop, open' PROVE Here
    <2>1. DescsIn(chan)' /\ AllIn(chan)'
      BY <1>3, FlushedAllNext
    <2>2. AllIn(disk)' BY <1>3, <2>1 DEF AllIn, MapsIn, MapIn
    <2> QED BY <1>3, <2>1, <2>2
  <1>4. CASE Return(t)
    <2>1. CASE Gone /\ chan' = disk'
      <3>1. \A s \in Threads : ~Flushing(th[s])' /\ ~Finished(th[s])'
        BY <2>1, GoneState DEF Flushing, Finished, Idle
      <3> QED BY <2>1, <3>1, GoneState DEF DiskKept
    <2>2. CASE th' = [th EXCEPT ![t] = Idle] /\ UNCHANGED <<fs, chan, disk, open>>
      <3>1. \A s \in Threads : ~Flushing(th[s])' /\ ~Finished(th[s])'
        BY <1>0, <2>2 DEF Flushing, Finished, Idle
      <3>2. geo' = geo BY <1>4 DEF Return
      <3>3. AllIn(disk) /\ AllIn(chan) => AllIn(disk)' /\ AllIn(chan)'
        BY <2>2, <3>2, SameVolume DEF AllIn, MapsIn, MapIn, fs
      <3> QED BY <1>0, <2>2, <3>1, <3>3 DEF DiskKept, fs
    <2> QED BY <1>4, <2>1, <2>2 DEF Return
  <1>5. CASE ~Return(t)
    <2>0. open' /\ Writes(t) BY <1>0, <1>5, WritesSome DEF Writes
    <2>1. CASE Enter(t)
      <3>1. th'[t].pc = "maps" BY <1>0, <2>1 DEF Enter, Caller
      <3> QED BY <1>1, <1>2, <1>5, <2>1, <3>1 DEF Enter
    <2>2. CASE MapStep(t)
      <3>1. th'[t].pc = th[t].pc BY <1>0, <2>2 DEF MapStep, Caller
      <3>2. Here BY <1>2, <2>2, <3>1 DEF MapStep, InMaps
      <3>3. dirty' BY <2>2 DEF MapStep
      <3> HIDE DEF Here
      <3> QED BY <1>1, <1>5, <3>2, <3>3
    <2>3. CASE MapsDone(t)
      <3>1. th'[t].pc \in {"loop", "enter"} BY <1>0, <2>3 DEF MapsDone, Caller
      <3> QED BY <1>1, <1>2, <1>5, <2>3, <3>1 DEF MapsDone
    <2>4. CASE LoopStep(t)
      <3>1. th'[t].pc = "loop" BY <1>0, <2>4, Sizes, Passing DEF LoopStep, At
      <3> QED BY <1>1, <1>2, <1>5, <2>4, <3>1 DEF LoopStep
    <2>5. CASE Restore(t)
      <3>1. th'[t].pc = "flush1" BY <1>0, <2>5 DEF Restore, Caller
      <3> QED BY <1>1, <1>2, <1>5, <2>5, <3>1 DEF Restore
    <2>6. CASE ChannelStep(t, "flush1", "primary")
      <3>1. th'[t].pc = "primary" BY <1>0, <2>6 DEF ChannelStep, Caller
      <3>2. Here BY <1>3, <2>0, <2>6, <3>1 DEF ChannelStep, AfterLoop
      <3> QED BY <1>1, <1>5, <2>6, <3>2 DEF ChannelStep
    <2>7. CASE FieldStep(t)
      <3>1. th'[t].pc = "primary" BY <1>0, <2>7 DEF FieldStep, At, Caller
      <3>2. Here BY <1>3, <2>0, <2>7, <3>1 DEF FieldStep, AfterLoop
      <3> QED BY <1>1, <1>5, <2>7, <3>2 DEF FieldStep
    <2>8. CASE PrimaryDone(t)
      <3>1. th'[t].pc = "flush2" BY <1>0, <2>8 DEF PrimaryDone, Caller
      <3>2. disk' = chan' BY <2>8 DEF PrimaryDone, At, DiskKept, Flushing
      <3>3. Here BY <1>3, <2>0, <3>1, <3>2 DEF AfterLoop
      <3>4. AllIn(disk)' /\ AllIn(chan)'  BY <3>1, <3>3 DEF Finished
      <3> QED BY <1>1, <1>5, <3>3, <3>4
    <2>9. CASE ChannelStep(t, "flush2", "ret")
      <3>1. DescsIn(chan) /\ AllIn(chan)
        BY <1>0, <2>9, FlushedAll DEF ChannelStep, At, AfterLoop
      <3>2. geo' = geo /\ maps' = maps /\ gd' = gd /\ chan' = chan /\ disk' = chan
        BY <2>0, <2>9 DEF Writes, ChannelStep
      <3>3. DescsIn(chan)' /\ AllIn(chan)' /\ AllIn(disk)'
        BY <3>1, <3>2, SameVolume DEF DescsIn, AllIn, MapsIn, MapIn
      <3> QED BY <1>1, <1>5, <3>2, <3>3
    <2>10. CASE FailStep(t)
      <3>1. th'[t].pc = "ret" /\ ~th'[t].ok BY <1>0, <2>10 DEF FailStep, Caller
      <3>2. Here BY <1>2, <3>1
      <3>3. dirty' \/ (dirty' = dirty /\ gd' = gd) BY <2>10 DEF FailStep
      <3> HIDE DEF Here
      <3> QED BY <1>1, <1>5, <3>2, <3>3
    <2> QED BY <1>0, <1>5, <2>1, <2>2, <2>3, <2>4, <2>5, <2>6, <2>7, <2>8, <2>9, <2>10, FlushSteps
  <1> QED BY <1>4, <1>5

LEMMA WorldDisk ==
    ASSUME OneThread, FlushInv, FlushInv', DiskKept, World
    PROVE  DiskKept'
  <1>0. /\ TypeOK /\ th \in [Threads -> Caller] /\ open \in BOOLEAN /\ dirty \in BOOLEAN
        /\ chan \in [Blocks -> Contents] /\ disk \in [Blocks -> Contents]
    BY DEF FlushInv, TypeOK
  <1>1. geo' = geo
    BY DEF World, Alloc, MarkSuperDirty, Sync, Close, WriteBack, Crash, Open
  <1>2. ASSUME chan' = chan, disk' = disk, maps' = maps, gd' = gd
        PROVE  /\ AllIn(disk) => AllIn(disk)'
               /\ AllIn(chan) => AllIn(chan)'
               /\ DescsIn(chan) => DescsIn(chan)'
    BY <1>1, <1>2, SameVolume DEF AllIn, MapsIn, MapIn, DescsIn
  <1>3. ASSUME NEW g \in Changing, Alloc(g) PROVE DiskKept'
    <2>1. \A s \in Threads : ~Flushing(th[s])' /\ ~Finished(th[s])'
      BY <1>3 DEF Alloc, Quiet, At, Flushing, Finished
    <2> QED BY <1>3, <2>1 DEF Alloc, DiskKept
  <1>4. CASE MarkSuperDirty
    <2>1. /\ chan' = chan /\ disk' = disk /\ maps' = maps /\ gd' = gd /\ th' = th
          /\ dirty' /\ open' = open
      BY <1>4 DEF MarkSuperDirty
    <2> QED BY <1>2, <2>1 DEF DiskKept, Flushing, Finished
  <1>5. ASSUME NEW t \in Threads, Sync(t) PROVE DiskKept'
    <2>1. /\ chan' = chan /\ disk' = disk /\ maps' = maps /\ gd' = gd
          /\ dirty' = dirty /\ open' = open
      BY <1>5 DEF Sync, fs
    <2>2. \A s \in Threads : /\ Flushing(th[s])' => Flushing(th[s])
                             /\ Finished(th[s])' => Finished(th[s])
      BY <1>0, <1>5 DEF Sync, Flushing, Finished
    <2> QED BY <1>2, <2>1, <2>2 DEF DiskKept
  <1>6. ASSUME NEW t \in Threads, Close(t) PROVE DiskKept'
    <2>1. /\ chan' = chan /\ disk' = disk /\ maps' = maps /\ gd' = gd
          /\ dirty' = dirty /\ open' = open /\ open
      BY <1>6 DEF Close, fs
    <2>2. ASSUME NEW s \in Threads
          PROVE  ~Flushing(th[s])' /\ (Finished(th[s])' => ~dirty)
      <3>1. th[s] = Idle /\ s = t
        BY <1>6 DEF OneThread, Close, Quiet, FlushInv, CallersRight
      <3>2. /\ th'[s].group = 0 /\ th'[s].pc \in {"premaps", "enter", "ret"}
            /\ th'[s].pc = "ret" => ~dirty
        BY <1>0, <1>6, <3>1 DEF Close, Idle
      <3>3. 0 # NGroups BY Sizes
      <3> QED BY <3>2, <3>3 DEF Flushing, Finished
    <2>3. ~dirty => AllIn(disk)' /\ AllIn(chan)' BY <1>2, <2>1 DEF DiskKept
    <2>4. \A s \in Threads : ~Flushing(th[s])' BY <2>2
    <2>5. \A s \in Threads : Finished(th[s])' => AllIn(disk)' /\ AllIn(chan)' BY <2>2, <2>3
    <2> QED BY <2>1, <2>3, <2>4, <2>5 DEF DiskKept
  <1>7. ASSUME NEW b \in Blocks, WriteBack(b) PROVE DiskKept'
    <2>1. /\ chan' = chan /\ maps' = maps /\ gd' = gd /\ dirty' = dirty /\ open' = open
          /\ th' = th /\ disk # chan
      BY <1>7 DEF WriteBack, fs
    <2>2. \A x \in Blocks : disk'[x] \in {disk[x], chan[x]}
      BY <1>0, <1>7 DEF WriteBack
    <2>3. AllIn(disk) /\ AllIn(chan) => AllIn(disk)' /\ AllIn(chan)'
      BY <1>0, <1>1, <2>1, <2>2, SameVolume, Locations DEF AllIn, MapsIn, MapIn
    <2>4. \A s \in Threads : ~Flushing(th[s])' BY <2>1 DEF DiskKept, Flushing
    <2>5. \A s \in Threads : Finished(th[s])' => Finished(th[s]) BY <2>1 DEF Finished
    <2> QED BY <2>1, <2>3, <2>4, <2>5 DEF DiskKept
  <1>8. CASE Crash
    <2>1. \A s \in Threads : ~Flushing(th[s])' /\ ~Finished(th[s])'
      BY <1>8, GoneState DEF Crash, Flushing, Finished, Idle
    <2> QED BY <1>8, <2>1, GoneState DEF Crash, DiskKept
  <1>9. CASE Open
    <2>1. /\ chan' = chan /\ disk' = disk /\ disk = chan /\ ~bb' /\ ~dirty' /\ open'
          /\ th' = th /\ Quiet
      BY <1>9 DEF Open, DiskKept, FlushInv, ClosedIsQuiet
    <2>2. MapsIn(chan)' BY <2>1 DEF FlushInv, MapsKept, MapsIn
    <2>3. ASSUME NEW i \in DescBlocks PROVE chan[PrimaryLoc(i)] = Desc(i, gd')
      <3> DEFINE x == chan[PrimaryLoc(i)].data
      <3>1. chan[PrimaryLoc(i)] = Desc(i, x)
        BY <1>0, Locations DEF FlushInv, Shapes, Shape
      <3>2. \A g \in Groups : g \div DescPerBlock = i => gd'[g] = x[g]
        BY <1>9 DEF Open, PrimaryLoc
      <3> HIDE DEF x
      <3>3. [g \in Groups |-> IF g \div DescPerBlock = i THEN gd'[g] ELSE 0]
              = [g \in Groups |-> IF g \div DescPerBlock = i THEN x[g] ELSE 0]
        BY <3>2
      <3> QED BY <3>1, <3>3 DEF Desc
    <2>4. AllIn(chan)' BY <1>1, <2>1, <2>2, <2>3, SameVolume DEF AllIn
    <2>5. AllIn(disk)' BY <2>1, <2>4 DEF AllIn, MapsIn, MapIn
    <2>6. \A s \in Threads : ~Flushing(th[s])' /\ ~Finished(th[s])'
      BY <2>1 DEF Quiet, At, Flushing, Finished
    <2> QED BY <2>1, <2>4, <2>5, <2>6 DEF DiskKept
  <1> QED BY <1>3, <1>4, <1>5, <1>6, <1>7, <1>8, <1>9 DEF World

-----------------------------------------------------------------------------
\* The fields of the primary superblock.

LEMMA SameFields ==
    ASSUME NEW s \in Super, NEW p \in Super, \A j \in 1..6 : s[Fields[j]] = p[Fields[j]]
    PROVE  s = p
  <1>1. /\ Fields[1] = "free" /\ Fields[2] = "wtime" /\ Fields[3] = "valid"
        /\ Fields[4] = "group" /\ Fields[5] = "recovery" /\ Fields[6] = "csum"
    BY DEF Fields
  <1>2. /\ s.free = p.free /\ s.wtime = p.wtime /\ s.valid = p.valid
        /\ s.group = p.group /\ s.recovery = p.recovery /\ s.csum = p.csum
    <2>1. {1, 2, 3, 4, 5, 6} \subseteq 1..6 OBVIOUS
    <2> QED BY <1>1, <2>1
  <1> QED BY <1>2 DEF Super

LEMMA FlushPrimary ==
    ASSUME OneThread, FlushInv, PrimaryKept, NEW t \in Threads, Flush(t)
    PROVE  PrimaryKept'
  <1>0. /\ TypeOK /\ th \in [Threads -> Caller] /\ th[t] \in Caller /\ open
        /\ \A s \in Threads : s = t
        /\ super \in Super /\ orig \in Super /\ primary \in Super
    BY FlushOpen DEF OneThread, FlushInv, TypeOK
  <1> DEFINE q == th'[t]
             Here == /\ q.pc \notin {"primary", "flush2", "ret"} => q.field = 1
                     /\ ~q.ok => failed'
                     /\ q.pc = "primary" /\ ~failed' => FieldsKept(th[t])'
                     /\ Finished(q) /\ ~failed' => primary' = super'
                     /\ ~failed' /\ q.pc # "primary" => primary' = orig'
                     /\ ~failed' => q.pc # "idle"
  <1>1. ASSUME Here PROVE PrimaryKept'
    <2>1. \A s \in Threads : th'[s] = q BY <1>0
    <2> HIDE DEF q
    <2> QED BY <1>0, <1>1, <2>1 DEF PrimaryKept, At, Quiet, FieldsKept, Finished
  <1>2. ASSUME q.pc \notin {"idle", "primary", "flush2", "ret"}, q.field = th[t].field,
               q.ok = th[t].ok, ~At(t, "primary"), th[t].pc \notin {"flush2", "ret"},
               primary' = primary, orig' = orig, failed' = failed
        PROVE  Here
    BY <1>0, <1>2 DEF PrimaryKept, At, Finished
  <1>3. CASE Return(t)
    <2>1. CASE Gone
      <3>1. \A s \in Threads : th'[s] = Idle BY <2>1, GoneState
      <3> QED BY <2>1, <3>1, GoneState DEF PrimaryKept, Idle, At, Finished
    <2>2. CASE th' = [th EXCEPT ![t] = Idle] /\ UNCHANGED <<fs, chan, disk, open>>
      <3>1. \A s \in Threads : th'[s] = Idle BY <1>0, <2>2
      <3>2. At(t, "ret") /\ primary' = primary /\ failed' = failed BY <1>3 DEF Return
      <3>3. ~failed => primary = super /\ primary = orig
        BY <1>0, <3>2 DEF PrimaryKept, At, Finished
      <3> QED BY <2>2, <3>1, <3>2, <3>3 DEF PrimaryKept, Idle, At, Finished, fs
    <2> QED BY <1>3, <2>1, <2>2 DEF Return
  <1>4. CASE Enter(t)
    <2>1. /\ q.pc = "maps" /\ q.field = th[t].field /\ q.ok = th[t].ok /\ th[t].pc = "enter"
          /\ primary' = primary /\ orig' = orig /\ failed' = failed
      BY <1>0, <1>4 DEF Enter, At, Caller
    <2> HIDE DEF q, Here
    <2> QED BY <1>1, <1>2, <2>1 DEF At
  <1>5. CASE MapStep(t)
    <2>1. /\ q.pc = th[t].pc /\ q.field = th[t].field /\ q.ok = th[t].ok
          /\ th[t].pc \in {"premaps", "maps"}
          /\ primary' = primary /\ orig' = orig /\ failed' = failed
      BY <1>0, <1>5 DEF MapStep, InMaps, Caller
    <2> HIDE DEF q, Here
    <2> QED BY <1>1, <1>2, <2>1 DEF At
  <1>6. CASE MapsDone(t)
    <2>1. /\ q.pc \in {"loop", "enter"} /\ q.field = th[t].field /\ q.ok = th[t].ok
          /\ th[t].pc \in {"premaps", "maps"}
          /\ primary' = primary /\ orig' = orig /\ failed' = failed
      BY <1>0, <1>6 DEF MapsDone, InMaps, Caller
    <2> HIDE DEF q, Here
    <2> QED BY <1>1, <1>2, <2>1 DEF At
  <1>7. CASE LoopStep(t)
    <2>0. q = NextPart(th[t]) BY <1>0, <1>7 DEF LoopStep
    <2>1. /\ q.pc = th[t].pc /\ q.field = th[t].field /\ q.ok = th[t].ok
      <3> HIDE DEF q
      <3>1. CASE th[t].part = "super" BY <1>0, <2>0, <3>1 DEF NextPart, Caller
      <3>2. CASE th[t].part = "old" BY <1>0, <2>0, <3>2 DEF NextPart, Caller
      <3>3. CASE th[t].part = "new" BY <1>0, <2>0, <3>3 DEF NextPart, Caller
      <3> QED BY <1>0, <3>1, <3>2, <3>3 DEF Caller
    <2>2. th[t].pc = "loop" /\ primary' = primary /\ orig' = orig /\ failed' = failed
      BY <1>7 DEF LoopStep, At
    <2> HIDE DEF q, Here
    <2> QED BY <1>1, <1>2, <2>1, <2>2 DEF At
  <1>8. CASE Restore(t)
    <2>1. /\ q.pc = "flush1" /\ q.field = th[t].field /\ q.ok = th[t].ok /\ th[t].pc = "loop"
          /\ primary' = primary /\ orig' = orig /\ failed' = failed
      BY <1>0, <1>8 DEF Restore, At, Caller
    <2> HIDE DEF q, Here
    <2> QED BY <1>1, <1>2, <2>1 DEF At
  <1>9. CASE ChannelStep(t, "flush1", "primary")
    <2>1. /\ q.pc = "primary" /\ q.field = th[t].field /\ q.ok = th[t].ok /\ th[t].pc = "flush1"
          /\ primary' = primary /\ orig' = orig /\ failed' = failed /\ super' = super
      BY <1>0, <1>9 DEF ChannelStep, At, Caller
    <2>2. ~failed => primary = orig BY <1>0, <2>1 DEF PrimaryKept, At
    <2>3. q.field = 1 /\ (~q.ok => failed') BY <2>1 DEF PrimaryKept
    <2>4. ~failed' => FieldsKept(th[t])' BY <2>1, <2>2, <2>3 DEF FieldsKept
    <2> HIDE DEF q
    <2>5. Here BY <2>1, <2>3, <2>4 DEF Finished
    <2> HIDE DEF Here
    <2> QED BY <1>1, <2>5
  <1>10. CASE FieldStep(t)
    <2>1. PICK i \in th[t].field..6 :
            /\ \A j \in th[t].field..(i - 1) : ~Differs(j)
            /\ primary' = [primary EXCEPT ![Fields[i]] = super[Fields[i]]]
            /\ th' = [th EXCEPT ![t].field = i + 1]
      BY <1>10 DEF FieldStep
    <2>2. /\ q.pc = "primary" /\ q.field = i + 1 /\ q.ok = th[t].ok /\ At(t, "primary")
          /\ orig' = orig /\ failed' = failed /\ super' = super
      BY <1>0, <1>10, <2>1 DEF FieldStep, At, Caller
    <2>3. th[t].field \in 1..7 /\ i \in 1..6 BY <1>0, ThreadType
    <2>4. \A j \in 1..6 : primary'[Fields[j]] = IF j = i THEN super[Fields[j]] ELSE primary[Fields[j]]
      BY <1>0, <2>1, <2>3, FieldCopied, SMTT(30)
    <2>5. ASSUME ~failed, NEW j \in 1..6
          PROVE  primary'[Fields[j]] = IF j < i + 1 THEN super[Fields[j]] ELSE orig[Fields[j]]
      <3>1. primary[Fields[j]] = IF j < th[t].field THEN super[Fields[j]] ELSE orig[Fields[j]]
        BY <2>2, <2>5 DEF PrimaryKept, FieldsKept
      <3>2. CASE j = i BY <2>3, <2>4, <3>2
      <3>3. CASE j < i
        <4>1. j < th[t].field \/ super[Fields[j]] = orig[Fields[j]]
          BY <2>1, <2>3, <3>3 DEF Differs
        <4>2. j # i /\ j < i + 1 BY <2>3, <3>3
        <4> QED BY <2>4, <3>1, <4>1, <4>2
      <3>4. CASE j > i
        <4>1. j # i /\ ~(j < i + 1) /\ ~(j < th[t].field) BY <2>3, <3>4
        <4> QED BY <2>4, <3>1, <4>1
      <3> QED BY <2>3, <3>2, <3>3, <3>4
    <2>6. ~failed' => FieldsKept(th[t])' BY <2>2, <2>5 DEF FieldsKept
    <2>7. ~q.ok => failed' BY <2>2 DEF PrimaryKept
    <2> HIDE DEF q
    <2>8. Here BY <2>2, <2>6, <2>7 DEF Finished
    <2> HIDE DEF Here
    <2> QED BY <1>1, <2>8
  <1>11. CASE PrimaryDone(t)
    <2>1. /\ q.pc = "flush2" /\ q.ok = th[t].ok /\ At(t, "primary")
          /\ primary' = primary /\ orig' = super /\ failed' = failed /\ super' = super
      BY <1>0, <1>11 DEF PrimaryDone, At, Caller
    <2>2. ASSUME ~failed PROVE primary = super
      <3>1. \A j \in 1..6 : primary[Fields[j]] = super[Fields[j]]
        <4> TAKE j \in 1..6
        <4>1. th[t].field \in 1..7 BY <1>0, ThreadType
        <4>2. primary[Fields[j]] = IF j < th[t].field THEN super[Fields[j]] ELSE orig[Fields[j]]
          BY <2>1, <2>2 DEF PrimaryKept, FieldsKept
        <4>3. j < th[t].field \/ super[Fields[j]] = orig[Fields[j]]
          BY <1>11, <4>1 DEF PrimaryDone, Differs
        <4> QED BY <4>2, <4>3
      <3> QED BY <1>0, <3>1, SameFields
    <2>3. ~q.ok => failed' BY <2>1 DEF PrimaryKept
    <2> HIDE DEF q
    <2>4. Here BY <2>1, <2>2, <2>3
    <2> HIDE DEF Here
    <2> QED BY <1>1, <2>4
  <1>12. CASE ChannelStep(t, "flush2", "ret")
    <2>1. /\ q.pc = "ret" /\ q.ok = th[t].ok /\ th[t].pc = "flush2"
          /\ primary' = primary /\ orig' = orig /\ failed' = failed /\ super' = super
      BY <1>0, <1>12 DEF ChannelStep, At, Caller
    <2>2. /\ ~failed => primary = orig /\ primary = super
          /\ ~q.ok => failed'
      BY <1>0, <2>1 DEF PrimaryKept, At, Finished
    <2> HIDE DEF q
    <2>3. Here BY <2>1, <2>2
    <2> HIDE DEF Here
    <2> QED BY <1>1, <2>3
  <1>13. CASE FailStep(t)
    <2>1. q.pc = "ret" /\ failed' = TRUE BY <1>0, <1>13 DEF FailStep, Caller
    <2> HIDE DEF q
    <2>2. Here BY <2>1
    <2> HIDE DEF Here
    <2> QED BY <1>1, <2>2
  <1> QED BY <1>0, <1>3, <1>4, <1>5, <1>6, <1>7, <1>8, <1>9, <1>10, <1>11, <1>12, <1>13, FlushSteps

LEMMA WorldPrimary ==
    ASSUME OneThread, FlushInv, PrimaryKept, World
    PROVE  PrimaryKept'
  <1>0. th \in [Threads -> Caller] BY DEF FlushInv, TypeOK
  <1>1. ASSUME NEW g \in Changing, Alloc(g) PROVE PrimaryKept'
    BY <1>1 DEF Alloc, PrimaryKept, Quiet, At, Finished
  <1>2. CASE MarkSuperDirty
    BY <1>2 DEF MarkSuperDirty, PrimaryKept, Quiet, At, Finished, FieldsKept
  <1>3. ASSUME NEW t \in Threads, Sync(t) PROVE PrimaryKept'
    <2>1. \A s \in Threads : s = t BY DEF OneThread
    <2>2. th[t] = Idle BY <1>3 DEF Sync, FlushInv, CallersRight
    <2>3. th'[t].pc = "enter" /\ th'[t].field = 1 /\ th'[t].ok
      BY <1>0, <1>3, <2>2 DEF Sync, Idle
    <2>4. /\ UNCHANGED <<super, orig, primary, failed, open>>
          /\ open /\ \A s \in Threads : ~At(s, "primary")
      BY <1>3, <2>1, <2>2 DEF Sync, fs, At, Idle
    <2> QED BY <2>1, <2>3, <2>4 DEF PrimaryKept, Quiet, At, Finished
  <1>4. ASSUME NEW t \in Threads, Close(t) PROVE PrimaryKept'
    <2>1. \A s \in Threads : s = t BY DEF OneThread
    <2>2. th[t] = Idle BY <1>4 DEF Close, Quiet, FlushInv, CallersRight
    <2>3. /\ th'[t].pc \in {"premaps", "enter", "ret"} /\ th'[t].field = 1 /\ th'[t].ok
          /\ th'[t].pc = "ret" => ~dirty
      BY <1>0, <1>4, <2>2 DEF Close, Idle
    <2>4. /\ UNCHANGED <<super, orig, primary, failed, open, dirty>>
          /\ open /\ Quiet /\ \A s \in Threads : ~At(s, "primary")
      BY <1>4, <2>1, <2>2 DEF Close, fs, At, Idle
    <2> QED BY <2>1, <2>3, <2>4 DEF PrimaryKept, Quiet, At, Finished
  <1>5. ASSUME NEW b \in Blocks, WriteBack(b) PROVE PrimaryKept'
    BY <1>5 DEF WriteBack, fs, PrimaryKept, Quiet, At, Finished, FieldsKept
  <1>6. CASE Crash
    BY <1>6, GoneState DEF Crash, PrimaryKept, Idle, At, Finished
  <1>7. CASE Open
    BY <1>7 DEF Open, PrimaryKept, FlushInv, ClosedIsQuiet, Quiet, At, Finished
  <1> QED BY <1>1, <1>2, <1>3, <1>4, <1>5, <1>6, <1>7 DEF World

-----------------------------------------------------------------------------
\* The state in the superblock.

LEMMA FlushState ==
    ASSUME OneThread, FlushInv, StateSaved, NEW t \in Threads, Flush(t)
    PROVE  StateSaved'
  <1>0. /\ TypeOK /\ th \in [Threads -> Caller] /\ th[t] \in Caller /\ open
        /\ \A s \in Threads : s = t
        /\ super \in Super /\ orig \in Super /\ primary \in Super
    BY FlushOpen DEF OneThread, FlushInv, TypeOK
  <1>1. geo' = geo
    <2>1. CASE Return(t) BY <2>1 DEF Return
    <2>2. CASE ~Return(t) BY <2>2, <1>0, WritesSome DEF Writes
    <2> QED BY <2>1, <2>2
  <1> DEFINE q == th'[t]
             Back(s) == s.valid = geo.valid /\ (s.recovery = geo.recovery \/ failed')
             Here == /\ q.pc \in Saved => Back(q)
                     /\ q.pc = "loop" => ~super'.valid /\ ~super'.recovery
                     /\ q.pc \in AfterLoop => super'.csum = SuperCsum(super')
                     /\ orig'.csum = SuperCsum(orig')
                     /\ q.pc # "loop" => Back(super')
                     /\ Back(primary')
  <1>2. ASSUME Here PROVE StateSaved'
    <2>1. \A s \in Threads : th'[s] = q BY <1>0
    <2> HIDE DEF q
    <2> QED BY <1>0, <1>1, <1>2, <2>1 DEF StateSaved, At, SuperCsum
  <1>3. /\ orig.csum = SuperCsum(orig)
        /\ th[t].pc \in Saved => /\ th[t].valid = geo.valid
                                 /\ th[t].recovery = geo.recovery \/ failed
        /\ ~At(t, "loop") => super.valid = geo.valid /\ (super.recovery = geo.recovery \/ failed)
        /\ At(t, "loop") => ~super.valid /\ ~super.recovery
        /\ th[t].pc \in AfterLoop => super.csum = SuperCsum(super)
        /\ primary.valid = geo.valid /\ (primary.recovery = geo.recovery \/ failed)
    BY <1>0 DEF StateSaved, At
  \* Steps that leave the superblocks and what is saved as they are.
  <1>4. ASSUME super' = super, orig' = orig, primary' = primary, failed' = failed,
               q.valid = th[t].valid, q.recovery = th[t].recovery,
               q.pc \in Saved => th[t].pc \in Saved,
               q.pc \in AfterLoop => th[t].pc \in AfterLoop,
               q.pc = "loop" <=> At(t, "loop")
        PROVE  StateSaved'
    <2> HIDE DEF q
    <2>1. Here BY <1>3, <1>4
    <2> QED BY <1>2, <2>1
  <1>5. CASE Return(t)
    <2>1. CASE Gone
      <3>1. \A s \in Threads : th'[s] = Idle BY <2>1, GoneState
      <3> QED BY <1>1, <1>3, <1>5, <2>1, <3>1, GoneState
            DEF Return, StateSaved, Idle, At, Saved, AfterLoop
    <2>2. CASE th' = [th EXCEPT ![t] = Idle] /\ UNCHANGED <<fs, chan, disk, open>>
      <3>1. q = Idle BY <1>0, <2>2
      <3>2. /\ At(t, "ret") /\ primary' = primary /\ failed' = failed
            /\ super' = super /\ orig' = orig
        BY <1>5, <2>2 DEF Return, fs
      <3> HIDE DEF q
      <3>3. Here BY <1>3, <3>1, <3>2 DEF Idle, At, Saved, AfterLoop
      <3> QED BY <1>2, <3>3
    <2> QED BY <1>5, <2>1, <2>2 DEF Return
  <1>6. CASE Enter(t)
    <2>1. /\ q.pc = "maps" /\ q.valid = super.valid /\ q.recovery = super.recovery
          /\ ~At(t, "loop")
          /\ primary' = primary /\ orig' = orig /\ failed' = failed
      BY <1>0, <1>6 DEF Enter, At, Caller
    <2>2. super'.valid = super.valid /\ super'.recovery = super.recovery
      BY <1>0, <1>6 DEF Enter, Super
    <2> HIDE DEF q
    <2>3. Here BY <1>3, <2>1, <2>2 DEF AfterLoop
    <2> QED BY <1>2, <2>3
  <1>7. CASE MapStep(t)
    <2>1. q.pc = th[t].pc /\ q.valid = th[t].valid /\ q.recovery = th[t].recovery
      BY <1>0, <1>7 DEF MapStep, Caller
    <2> HIDE DEF q
    <2> QED BY <1>4, <1>7, <2>1 DEF MapStep, At
  <1>8. CASE MapsDone(t)
    <2>1. CASE At(t, "maps")
      <3>1. /\ q.pc = "loop" /\ q.valid = th[t].valid /\ q.recovery = th[t].recovery
            /\ ~super'.valid /\ ~super'.recovery
            /\ primary' = primary /\ orig' = orig /\ failed' = failed
        BY <1>0, <1>8, <2>1, ZenonT(30) DEF MapsDone, At, Caller, Invalid, Super
      <3> HIDE DEF q
      <3>2. Here BY <1>3, <2>1, <3>1 DEF At, Saved, AfterLoop
      <3> QED BY <1>2, <3>2
    <2>2. CASE At(t, "premaps")
      <3>1. /\ q.pc = "enter" /\ q.valid = th[t].valid /\ q.recovery = th[t].recovery
            /\ super' = super /\ primary' = primary /\ orig' = orig /\ failed' = failed
        BY <1>0, <1>8, <2>2 DEF MapsDone, At, Caller
      <3> HIDE DEF q
      <3> QED BY <1>4, <2>2, <3>1 DEF At, Saved, AfterLoop
    <2> QED BY <1>8, <2>1, <2>2 DEF MapsDone, InMaps, At
  <1>9. CASE LoopStep(t)
    <2>1. q.pc = "loop" /\ q.valid = th[t].valid /\ q.recovery = th[t].recovery
      <3>1. q = NextPart(th[t]) /\ th[t].pc = "loop" BY <1>0, <1>9 DEF LoopStep, At
      <3> HIDE DEF q
      <3>2. CASE th[t].part = "super" BY <1>0, <3>1, <3>2 DEF NextPart, Caller
      <3>3. CASE th[t].part = "old" BY <1>0, <3>1, <3>3 DEF NextPart, Caller
      <3>4. CASE th[t].part = "new" BY <1>0, <3>1, <3>4 DEF NextPart, Caller
      <3> QED BY <1>0, <3>2, <3>3, <3>4 DEF Caller
    <2>2. /\ super'.valid = super.valid /\ super'.recovery = super.recovery /\ At(t, "loop")
          /\ primary' = primary /\ orig' = orig /\ failed' = failed
      BY <1>9 DEF LoopStep
    <2> HIDE DEF q
    <2>3. Here BY <1>3, <2>1, <2>2 DEF At, Saved, AfterLoop
    <2> QED BY <1>2, <2>3
  <1>10. CASE Restore(t)
    <2>1. /\ q.pc = "flush1" /\ q.valid = th[t].valid /\ q.recovery = th[t].recovery
          /\ At(t, "loop") /\ super' = Restored(super, th[t])
          /\ primary' = primary /\ orig' = orig /\ failed' = failed
      BY <1>0, <1>10 DEF Restore, At, Caller
    <2>2. /\ super'.valid = th[t].valid /\ super'.recovery = th[t].recovery
          /\ super'.csum = SuperCsum(super')
      BY <1>0, <2>1 DEF Restored, Checked, SuperCsum, Super
    <2> HIDE DEF q
    <2>3. Here BY <1>3, <2>1, <2>2 DEF At, Saved
    <2> QED BY <1>2, <2>3
  <1>11. CASE ChannelStep(t, "flush1", "primary")
    <2>1. /\ q.pc = "primary" /\ q.valid = th[t].valid /\ q.recovery = th[t].recovery
          /\ th[t].pc = "flush1" /\ super' = super
          /\ primary' = primary /\ orig' = orig /\ failed' = failed
      BY <1>0, <1>11 DEF ChannelStep, At, Caller
    <2> HIDE DEF q
    <2> QED BY <1>4, <2>1 DEF At, Saved, AfterLoop
  <1>12. CASE FieldStep(t)
    <2>1. PICK i \in th[t].field..6 :
            /\ primary' = [primary EXCEPT ![Fields[i]] = super[Fields[i]]]
            /\ th' = [th EXCEPT ![t].field = i + 1]
      BY <1>12 DEF FieldStep
    <2>2. /\ q.pc = "primary" /\ q.valid = th[t].valid /\ q.recovery = th[t].recovery
          /\ th[t].pc = "primary" /\ super' = super /\ orig' = orig /\ failed' = failed
      BY <1>0, <1>12, <2>1 DEF FieldStep, At, Caller
    <2>3. i \in 1..6 BY <1>0, ThreadType
    <2>4. /\ primary'.valid \in {primary.valid, super.valid}
          /\ primary'.recovery \in {primary.recovery, super.recovery}
      BY <1>0, <2>1, <2>3, FieldCopied
    <2> HIDE DEF q
    <2>5. Here BY <1>3, <2>2, <2>4 DEF At, Saved, AfterLoop
    <2> QED BY <1>2, <2>5
  <1>13. CASE PrimaryDone(t)
    <2>1. /\ q.pc = "flush2" /\ q.valid = th[t].valid /\ q.recovery = th[t].recovery
          /\ th[t].pc = "primary" /\ super' = super /\ orig' = super
          /\ primary' = primary /\ failed' = failed
      BY <1>0, <1>13 DEF PrimaryDone, At, Caller
    <2> HIDE DEF q
    <2>2. Here BY <1>3, <2>1 DEF At, Saved, AfterLoop
    <2> QED BY <1>2, <2>2
  <1>14. CASE ChannelStep(t, "flush2", "ret")
    <2>1. /\ q.pc = "ret" /\ q.valid = th[t].valid /\ q.recovery = th[t].recovery
          /\ th[t].pc = "flush2" /\ super' = super
          /\ primary' = primary /\ orig' = orig /\ failed' = failed
      BY <1>0, <1>14 DEF ChannelStep, At, Caller
    <2> HIDE DEF q
    <2> QED BY <1>4, <2>1 DEF At, Saved, AfterLoop
  <1>15. CASE FailStep(t)
    <2>1. q.pc = "ret" /\ failed' /\ orig' = orig BY <1>0, <1>15 DEF FailStep, Caller
    <2>2. super'.valid = geo.valid BY <1>3, <1>15 DEF FailStep, At
    <2>3. primary'.valid = geo.valid
      <3>1. CASE primary' = primary BY <1>3, <3>1
      <3>2. ASSUME At(t, "primary"), NEW i \in 1..6,
                   primary' = [primary EXCEPT ![Fields[i]] = super[Fields[i]]]
            PROVE  primary'.valid = geo.valid
        <4>1. primary'.valid \in {primary.valid, super.valid} BY <1>0, <3>2, FieldCopied
        <4> QED BY <1>3, <3>2, <4>1 DEF At
      <3> QED BY <1>15, <3>1, <3>2 DEF FailStep
    <2> HIDE DEF q
    <2>4. Here BY <1>3, <2>1, <2>2, <2>3 DEF Saved, AfterLoop
    <2> QED BY <1>2, <2>4
  <1> QED BY <1>0, <1>5, <1>6, <1>7, <1>8, <1>9, <1>10, <1>11, <1>12, <1>13, <1>14, <1>15, FlushSteps

LEMMA WorldState ==
    ASSUME OneThread, FlushInv, StateSaved, World
    PROVE  StateSaved'
  <1>0. th \in [Threads -> Caller] /\ super \in Super BY DEF FlushInv, TypeOK
  <1>1. ASSUME NEW g \in Changing, Alloc(g) PROVE StateSaved'
    <2>1. /\ super'.valid = super.valid /\ super'.recovery = super.recovery
          /\ UNCHANGED <<geo, orig, primary, th, open, failed>> /\ Quiet
      BY <1>0, <1>1 DEF Alloc, Super
    <2> QED BY <2>1 DEF StateSaved, Quiet, At, Saved, AfterLoop, SuperCsum
  <1>2. CASE MarkSuperDirty
    BY <1>2 DEF MarkSuperDirty, StateSaved, At, SuperCsum
  <1>3. ASSUME NEW t \in Threads, th'[t].pc \in {"premaps", "enter", "ret"},
               th[t].pc = "idle",
               UNCHANGED <<geo, super, orig, primary, open, failed>>
        PROVE  StateSaved'
    <2>1. \A s \in Threads : s = t BY DEF OneThread
    <2> QED BY <1>3, <2>1 DEF StateSaved, At, Saved, AfterLoop, SuperCsum
  <1>4. ASSUME NEW t \in Threads, Sync(t) \/ Close(t) PROVE StateSaved'
    <2>1. th'[t].pc \in {"premaps", "enter", "ret"} /\ th[t].pc = "idle"
      BY <1>0, <1>4 DEF Sync, Close, Quiet, At, Caller
    <2> QED BY <1>3, <1>4, <2>1 DEF Sync, Close, fs
  <1>5. ASSUME NEW b \in Blocks, WriteBack(b) PROVE StateSaved'
    BY <1>5 DEF WriteBack, fs, StateSaved, At, SuperCsum
  <1>6. CASE Crash
    BY <1>6, GoneState DEF Crash, StateSaved, Idle, At, Saved, AfterLoop
  <1>7. CASE Open
    BY <1>7 DEF Open, StateSaved, FlushInv, ClosedIsQuiet, Quiet, At, Saved, AfterLoop, SuperCsum
  <1> QED BY <1>1, <1>2, <1>4, <1>5, <1>6, <1>7 DEF World

-----------------------------------------------------------------------------
\* The backups.

LEMMA FlushHidden ==
    ASSUME FlushInv, StateSaved, BackupsHidden, NEW t \in Threads, Flush(t)
    PROVE  BackupsHidden'
  <1>0. TypeOK BY DEF FlushInv
  <1>1. Blocks' = Blocks BY DEF Blocks
  <1>2. disk' \in {disk, chan} \/ (chan' \in {disk, chan} /\ disk' = chan')
    <2>1. CASE Return(t) BY <2>1 DEF Return, Gone
    <2>2. CASE ~Return(t) BY <2>2, <1>0, WritesSome DEF Writes
    <2> QED BY <2>1, <2>2
  <1>3. ASSUME Hidden(chan') PROVE BackupsHidden'
    BY <1>1, <1>2, <1>3 DEF BackupsHidden, Hidden
  <1>4. ASSUME chan' \in {chan, disk} PROVE BackupsHidden'
    BY <1>3, <1>4 DEF BackupsHidden
  <1>5. CASE Return(t) BY <1>4, <1>5 DEF Return, Gone
  <1>6. CASE MapStep(t)
    <2>1. Hidden(chan') BY <1>6 DEF MapStep, BackupsHidden, Hidden
    <2> QED BY <1>3, <2>1
  <1>7. CASE LoopStep(t)
    <2>1. ~super'.valid /\ ~super'.recovery BY <1>7 DEF LoopStep, StateSaved
    <2>2. ~Backup(super').valid BY <2>1 DEF Backup, Content
    <2>3. Hidden(chan') BY <1>7, <2>2 DEF LoopStep, BackupsHidden, Hidden
    <2> QED BY <1>3, <2>3
  <1>8. CASE Enter(t) \/ MapsDone(t) \/ Restore(t) \/ PrimaryDone(t)
    BY <1>4, <1>8 DEF Enter, MapsDone, Restore, PrimaryDone
  <1>9. CASE ChannelStep(t, "flush1", "primary") \/ ChannelStep(t, "flush2", "ret")
    BY <1>4, <1>9 DEF ChannelStep
  <1>10. CASE FieldStep(t) \/ FailStep(t)
    BY <1>4, <1>10 DEF FieldStep, FailStep
  <1> QED BY <1>0, <1>5, <1>6, <1>7, <1>8, <1>9, <1>10, FlushSteps

LEMMA WorldHidden ==
    ASSUME TypeOK, BackupsHidden, World
    PROVE  BackupsHidden'
  <1>1. Blocks' = Blocks BY DEF Blocks
  <1>2. chan' \in {chan, disk} /\ \A b \in Blocks : disk'[b] \in {disk[b], chan[b]}
    BY DEF World, Alloc, MarkSuperDirty, Sync, Close, WriteBack, Crash, Gone, Open, TypeOK
  <1>3. Hidden(chan') BY <1>2 DEF BackupsHidden
  <1>4. Hidden(disk') BY <1>2 DEF BackupsHidden, Hidden
  <1> QED BY <1>1, <1>3, <1>4 DEF BackupsHidden, Hidden

-----------------------------------------------------------------------------
\* The second invariant.

LEMMA InitStore ==
    ASSUME Init
    PROVE  StoreInv
  <1>0. TypeOK /\ FlushInv BY InitType, InitFlush
  <1>1. \A t \in Threads : th[t] = Idle BY DEF Init
  <1>2. AllIn(chan)
    BY <1>0, MadeHolds, Locations DEF Init, AllIn, MapsIn, MapIn, Zeros
  <1>3. DiskKept BY <1>1, <1>2 DEF Init, DiskKept, Flushing, Finished, Idle, AllIn, MapsIn, MapIn
  <1>4. PrimaryKept BY <1>1 DEF Init, PrimaryKept, Finished, At, Idle
  <1>5. /\ super.csum = SuperCsum(super) /\ super.valid = geo.valid
        /\ super.recovery = geo.recovery
    BY DEF Init, Checked, SuperCsum
  <1>6. StateSaved BY <1>1, <1>5 DEF Init, StateSaved, Saved, AfterLoop, At, Idle
  <1>7. BackupsHidden BY <1>0, MadeHolds DEF Init, BackupsHidden, Hidden
  <1> QED BY <1>0, <1>3, <1>4, <1>6, <1>7 DEF StoreInv

LEMMA NextStore ==
    ASSUME OneThread, StoreInv, Next
    PROVE  StoreInv'
  <1>1. FlushInv /\ FlushInv' /\ TypeOK BY NextFlush DEF StoreInv, FlushInv
  <1>2. ASSUME NEW t \in Threads, Flush(t) PROVE StoreInv'
    BY <1>1, <1>2, FlushDisk, FlushPrimary, FlushState, FlushHidden DEF StoreInv
  <1>3. CASE World
    BY <1>1, <1>3, WorldDisk, WorldPrimary, WorldState, WorldHidden DEF StoreInv
  <1> QED BY <1>2, <1>3, NextCases

LEMMA StoreInvariant ==
    ASSUME OneThread
    PROVE  Spec => []StoreInv
  <1>1. ASSUME StoreInv, UNCHANGED vars PROVE StoreInv'
    <2>1. FlushInv' BY <1>1, NextFlush DEF StoreInv
    <2>2. geo' = geo BY <1>1 DEF vars
    <2>3. /\ AllIn(disk)' = AllIn(disk) /\ AllIn(chan)' = AllIn(chan)
          /\ DescsIn(chan)' = DescsIn(chan)
      BY <1>1, <2>2, SameVolume DEF vars, fs, AllIn, MapsIn, MapIn, DescsIn
    <2>4. DiskKept' BY <1>1, <2>3 DEF StoreInv, vars, fs, DiskKept, Flushing, Finished
    <2>5. PrimaryKept'
      BY <1>1 DEF StoreInv, vars, fs, PrimaryKept, FieldsKept, Finished, Quiet, At
    <2>6. StateSaved' BY <1>1 DEF StoreInv, vars, fs, StateSaved, SuperCsum, At
    <2>7. BackupsHidden' BY <1>1 DEF StoreInv, vars, BackupsHidden, Hidden, Blocks
    <2> QED BY <2>1, <2>4, <2>5, <2>6, <2>7 DEF StoreInv
  <1> QED BY <1>1, InitStore, NextStore, PTL DEF Spec

\* BackupsNotValid, for any volume and one thread at a time: no backup
\* superblock says that the file system is valid or needs recovery.
THEOREM BackupsAreInvalid ==
    ASSUME OneThread
    PROVE  Spec => []BackupsNotValid
  <1>1. StoreInv => BackupsNotValid BY DEF StoreInv, BackupsHidden, Hidden, BackupsNotValid
  <1> QED BY <1>1, StoreInvariant, PTL

\* StateKept, for any volume and one thread at a time: what the flush writes
\* into s_state and s_feature_incompat for the backups' sake never reaches the
\* primary superblock, and is gone from fs->super when the flush is.
THEOREM StateIsKept ==
    ASSUME OneThread
    PROVE  Spec => []StateKept
  <1>1. StoreInv => StateKept
    BY DEF StoreInv, FlushInv, StateSaved, StateKept, Quiet, At
  <1> QED BY <1>1, StoreInvariant, PTL

\* StoredWhenDone, for any volume and one thread at a time: a flush that
\* returns 0 has everything where ext2fs_open looks for it.
THEOREM StoredIsOnDevice ==
    ASSUME OneThread
    PROVE  Spec => []StoredWhenDone
  <1>1. ASSUME StoreInv, NEW t \in Threads, At(t, "ret"), th[t].ok
        PROVE  /\ MapsStored
               /\ \A i \in DescBlocks : DescStored(geo.first, i)
               /\ failed \/ SuperStored
               /\ Flushed(t) => CopiesStored
    <2>0. TypeOK /\ Finished(th[t]) BY <1>1 DEF StoreInv, FlushInv, Finished, At
    <2>1. AllIn(disk) BY <1>1, <2>0 DEF StoreInv, DiskKept
    <2>2. MapsStored BY <2>1 DEF AllIn, MapsIn, MapIn, MapsStored
    <2>3. \A i \in DescBlocks : DescStored(geo.first, i)
      BY <2>1 DEF AllIn, DescStored, PrimaryLoc
    <2>4. failed \/ SuperStored BY <1>1, <2>0 DEF StoreInv, PrimaryKept, SuperStored
    <2>5. ASSUME Flushed(t) PROVE CopiesStored
      <3>1. DescsIn(disk)
        BY <1>1, <2>5 DEF StoreInv, DiskKept, Flushing, Flushed, At, DescsIn
      <3>2. ASSUME NEW g \in Groups \ {0}, HasSuper(g), ~geo.master_only,
                   HasOld(g) \/ OldDescs = {}, NEW i \in DescBlocks
            PROVE  DescStored(GroupBlock(g), i)
        <4>1. IsCopy(DescLoc(GroupBlock(g), i), i) BY <2>0, <3>2, BackupIsCopy DEF TypeOK
        <4>2. DescLoc(GroupBlock(g), i) \in Blocks
          BY <2>0, <4>1, CopyHolds DEF TypeOK
        <4> QED BY <3>1, <4>1, <4>2 DEF DescsIn, DescStored
      <3> QED BY <3>2 DEF CopiesStored
    <2> QED BY <2>2, <2>3, <2>4, <2>5
  <1>2. StoreInv => StoredWhenDone BY <1>1 DEF StoredWhenDone
  <1> QED BY <1>2, StoreInvariant, PTL
==============================================================================
