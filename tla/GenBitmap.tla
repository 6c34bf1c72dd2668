------------------------------ MODULE GenBitmap ------------------------------
(* The bitmaps that the rest of the library uses: src/libext2fs/bitmaps.c    *)
(* and gen_bitmap64.c, which turn blocks into clusters and refuse what lies  *)
(* outside the map, over the tree of RbBitmap and, in step with it, over an  *)
(* array of bytes: src/libext2fs/blkmap64_ba.c and gen_bitmap.c, which search *)
(* it in the same ways.  A position is a number less bitmap->start.  Arrays  *)
(* end with a byte, as the sizes of groups make them; allocation succeeds.   *)
EXTENDS RbBitmap

CONSTANTS ByteBits,   \* bits of a byte
          WordBytes,  \* bytes of the words that the searches read
          Clusters    \* blocks of a cluster, in a map of clusters

ASSUME ByteAssumption    == ByteBits \in Nat \ {0} /\ WordBytes \in Nat \ {0}
ASSUME ClusterAssumption == Clusters \in Nat \ {0}

VARIABLE array  \* the positions that are set in the bytes

gvars == <<vars, array>>

Run(s, n) == s..(s + n - 1)
Whole(e)  == (e + 1) % ByteBits = 0

-----------------------------------------------------------------------------
\* The operations, on positions that the layer accepts

GInit == Init /\ Whole(real_end) /\ array = {}

\* ext2fs_mark_generic_bmap, ext2fs_mark_block_bitmap_range2
MarkRun(s, n) == Mark(s, n) /\ array' = array \cup Run(s, n)

\* ext2fs_unmark_generic_bmap, ext2fs_unmark_block_bitmap_range2
UnmarkRun(s, n) == Unmark(s, n) /\ array' = array \ Run(s, n)

\* ext2fs_test_generic_bmap
TestBit(i) == Test(i) /\ UNCHANGED array

\* ext2fs_clear_generic_bmap
ClearMap == Clear /\ array' = {}

\* ext2fs_copy_generic_bmap
CopyMap == Copy /\ UNCHANGED array

\* ba_resize_bmap, ext2fs_resize_generic_bitmap: only the tree gets padding.
ArrayKept(new_end) == array                                            \* mutant
ArrayGrown(new_end) == array \ ((end + 1)..Min({real_end, new_end}))
ResizeMap(new_end, new_real_end) ==
    /\ Whole(new_real_end)
    /\ Resize(new_end, new_real_end)
    /\ array' = {i \in ArrayGrown(new_end) : i <= new_real_end}

\* ext2fs_set_generic_bmap_padding
SetPadding == /\ end < real_end
              /\ Mark(end + 1, real_end - end)
              /\ array' = array \cup ((end + 1)..real_end)

\* ba_set_bmap_range, ext2fs_set_generic_bitmap_range: whole bytes, into a map
\* that is clear from there on.
LoadGroups(s, in) == /\ s % ByteBits = 0
                     /\ SetRange(s, in)
                     /\ array' = {i \in array : i < s \/ i > end} \cup in

\* write_bitmaps and, after a mount, read_bitmaps_range: the last group is
\* padded.  A map without a single bit does not occur (blkmap64_rb.c:758).
Image(S) == {i \in S : i <= end} \cup ((end + 1)..real_end)
Reload == /\ Ready
          /\ \E i \in 0..end : Holders(bp, i) # {}
          /\ bp' = Fresh
          /\ todo' = Image(GetRange(0, real_end + 1))
          /\ array' = Image(array)
          /\ UNCHANGED <<end, real_end>>

GNext == \/ \E s \in 0..end : \E n \in 1..(end - s + 1) : MarkRun(s, n) \/ UnmarkRun(s, n)
         \/ \E i \in 0..end : TestBit(i)
         \/ ClearMap
         \/ CopyMap
         \/ \E new_real_end \in 0..MaxBit : \E new_end \in 0..new_real_end :
              ResizeMap(new_end, new_real_end)
         \/ SetPadding
         \/ \E s \in 0..end : \E in \in SUBSET (s..end) : LoadGroups(s, in)
         \/ Reload
         \/ SetRun /\ UNCHANGED array

GSpec == GInit /\ [][GNext]_gvars

-----------------------------------------------------------------------------
\* The searches of the array

Array == INSTANCE BitArray WITH bits <- {i \in array : i <= end}

\* ba_test_clear_bmap_extent, ext2fs_test_clear_generic_bitmap_range: the bits
\* before the first whole byte, those after the last one, the bytes between.
BytesRounded(n) == (n + ByteBits - 1) \div ByteBits                    \* mutant
BytesIn(n) == n \div ByteBits
ArrayTestClear(s, n) ==
    LET Dirty(byte, bits) == \E i \in bits : byte * ByteBits + i \in array
        off  == s % ByteBits
        head == IF off = 0 THEN 0 ELSE Min({n, ByteBits - off})
        byte == (s + ByteBits - 1) \div ByteBits
        last == byte + BytesIn(n - head)
    IN  /\ off # 0 => ~Dirty(s \div ByteBits, off..(off + head - 1))
        /\ \/ off # 0 /\ n <= ByteBits - off
           \/ /\ ~Dirty(last, 0..(((n - head) % ByteBits) - 1))
              /\ \A k \in byte..(last - 1) : ~Dirty(k, 0..(ByteBits - 1))

\* ba_find_first_zero, ba_find_first_set: bits to the end of a byte, bytes to
\* the end of a word, words, bytes, and the bits that are left or that the
\* byte found holds.  hits is what is looked for.
RoundUp(i, unit) == ((i + unit - 1) \div unit) * unit
Skip(pos, stop, unit, hits) ==
    LET n    == IF stop <= pos THEN 0 ELSE (stop - pos) \div unit
        busy == {k \in 0..(n - 1) : Run(pos + k * unit, unit) \cap hits # {}}
    IN  pos + unit * (IF busy = {} THEN n ELSE Min(busy))
ArrayFirst(s, e, hits) ==
    LET lead  == Min({e + 1, RoundUp(s, ByteBits)})
        word  == WordBytes * ByteBits
        byte  == Skip(lead, Min({e + 1, RoundUp(lead, word)}), ByteBits, hits)
        found == byte + ByteBits <= e + 1 /\ byte % word # 0
        rest  == IF found THEN byte
                 ELSE Skip(Skip(byte, e + 1, word, hits), e + 1, ByteBits, hits)
    IN  IF (s..(lead - 1)) \cap hits # {} THEN Min((s..(lead - 1)) \cap hits)
        ELSE Array!First((rest..e) \cap hits)

\* ba_get_bmap_range, ext2fs_get_generic_bitmap_range: whole bytes.
ArrayRange(s, n) == array \cap Run((s \div ByteBits) * ByteBits, RoundUp(n, ByteBits))

\* ext2fs_compare_generic_bitmap: whole bytes, then the bits of the last one.
LastByte == (end \div ByteBits) * ByteBits
Same(S, T) == /\ \A i \in 0..(LastByte - 1) : (i \in S) = (i \in T)
              /\ \A i \in LastByte..end : (i \in S) = (i \in T)

-----------------------------------------------------------------------------
\* The conversions of the generic layer.  A layout is bitmap->start and the
\* blocks of a cluster: that of inodes and of volumes of small blocks, which
\* start at 1, and that of clusters.

Layouts == {[first |-> 1, ratio |-> 1], [first |-> 0, ratio |-> Clusters]}

Position(l, b) == b \div l.ratio - l.first

\* The clusters of a run of n blocks, the last one rounded up.
LengthCut(l, b, n) == (b + n) \div l.ratio - b \div l.ratio            \* mutant
Length(l, b, n) == (b + n + l.ratio - 1) \div l.ratio - b \div l.ratio

\* What is refused changes nothing; a run that is refused counts as clear.
Accepted(l, b, n) == Position(l, b) >= 0 /\ Position(l, b) + Length(l, b, n) - 1 <= end

\* ext2fs_find_first_zero_generic_bmap, ext2fs_find_first_set_generic_bmap
BlockFound(l, b, pos) == Max({(pos + l.first) * l.ratio, b})

-----------------------------------------------------------------------------
\* Properties

\* Whatever marks, unmarks, resizes and tests came before, each query of the
\* tree answers as the array would (ext2_bitmap_ops); find_first_zero and
\* get_bmap_range only if some bit is set (blkmap64_rb.c:758, 838).
TreeRight == Ready =>
    /\ \A i \in 0..end : Tested(bp, i).ans = Array!Test(i) /\ MarkAnswer(i) = Array!Test(i)
    /\ \A s \in 0..end : \A e \in s..end :
         /\ FirstSet(s, e) = Array!FirstSet(s, e)
         /\ TestClear(s, e - s + 1) = Array!TestClear(s, e - s + 1)
         /\ Live(bp) # {} => /\ FirstZero(s, e) = Array!FirstZero(s, e)
                             /\ GetRange(s, e - s + 1) = Array!GetRange(s, e - s + 1)

\* The byte-wise searches of the array are right on every boundary, and
\* comparing sees each bit of the map and none of the padding.
ArrayRight ==
    /\ array \subseteq 0..real_end
    /\ \A s \in 0..end : \A e \in s..end :
         /\ ArrayTestClear(s, e - s + 1) = Array!TestClear(s, e - s + 1)
         /\ ArrayFirst(s, e, array) = Array!FirstSet(s, e)
         /\ ArrayFirst(s, e, (0..real_end) \ array) = Array!FirstZero(s, e)
         /\ Whole(s - 1) /\ Whole(e)
              => ArrayRange(s, e - s + 1) = Array!GetRange(s, e - s + 1)
    /\ \A i \in 0..real_end : Same(array, array \cup {i}) = (i \in array \/ i > end)

\* The layer's conversions are about blocks: a run is that of the clusters of
\* its blocks, accepted if they are all in the map, and what a search returns
\* is the first block at or after the one asked for in the cluster found.
\* They depend on the ends of the map alone, so that one map of each will do.
ConversionsRight == array = {} =>
    \A l \in Layouts : LET Blocks == 0..((end + 2) * l.ratio) IN
      /\ \A b, c \in Blocks : b <= c =>
           LET covered == {Position(l, d) : d \in b..c}
           IN  /\ Accepted(l, b, c - b + 1) = (covered \subseteq 0..end)
               /\ Run(Position(l, b), Length(l, b, c - b + 1)) = covered
      /\ \A b \in Blocks : \A pos \in Position(l, b)..end : pos >= 0 =>
           LET d == BlockFound(l, b, pos)
           IN  /\ Position(l, d) = pos /\ d >= b
               /\ d = b \/ Position(l, d - 1) < pos

\* The two backends hold the same bits, and no search of either, by extents
\* and cursors or by bits, bytes and words, tells a client otherwise; nor does
\* the layer when it turns blocks into clusters and back.
AnswersRight == TreeRight /\ ArrayRight /\ ConversionsRight

\* The layer is a bit array (ext2_bitmap_ops): padding, the bits that a resize
\* leaves behind, and a write and read of the bitmap never show.
ImplementsBitArray == Array!Spec
=============================================================================
