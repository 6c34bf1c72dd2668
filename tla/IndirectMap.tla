------------------------------ MODULE IndirectMap ------------------------------
(* The blocks of a file that has no extents: ext2fs_bmap2 of                   *)
(* src/libext2fs/bmap.c, ext2fs_punch_ind of punch.c, ext2fs_block_iterate3 of *)
(* block.c, the blocks of pointers of ind_block.c and the counts of i_block.c. *)
(*                                                                             *)
(* An inode has NDir pointers to blocks and one each to a tree of pointers of  *)
(* depth one, two and three.  Operators take the volume as it is, a record,    *)
(* and give the volume as it becomes: nothing runs beside a call.              *)
EXTENDS Integers, Sequences, FiniteSets, SequencesExt, FiniteSetsExt

CONSTANTS Blocks,     \* the blocks a file may have, natural numbers above 0
          NDir,       \* EXT2_NDIR_BLOCKS
          PerBlock,   \* pointers of a block, fs->blocksize / 4
          BlockSize   \* bytes of a block, cut to what tells bytes apart

ASSUME IndirectAssumption ==
    /\ Blocks \subseteq Nat \ {0} /\ IsFiniteSet(Blocks) /\ NDir \in Nat \ {0}
    /\ PerBlock \in Nat \ {0, 1} /\ BlockSize \in Nat \ {0}

Slots   == 0..(NDir + 2)
NoMap   == [s \in Slots |-> 0]
NoPtrs  == [i \in 0..(PerBlock - 1) |-> 0]
Zeroes  == [i \in 0..(BlockSize - 1) |-> 0]
MaxMapBlock == NDir + PerBlock + PerBlock ^ 2 + PerBlock ^ 3

\* ext2fs_file_block_offset_too_big
TooBig(block) == block >= MaxMapBlock

\* A volume: its blocks in use, what each has as a block of pointers and of
\* data, the inode in the table, and the copy of it the caller works on.
Inode(map, size, iblocks) == [map |-> map, size |-> size, iblocks |-> iblocks]
NoInode == Inode(NoMap, 0, 0)
Volume  == [used |-> {}, ptrs |-> [b \in Blocks |-> NoPtrs], data |-> [b \in Blocks |-> Zeroes],
            table |-> NoInode, inode |-> NoInode]

\* What an operation gives: the volume, whether it failed, a block, and how many
\* blocks it has allocated.
Result(v, ok, blk, n) == [v |-> v, ok |-> ok, blk |-> blk, n |-> n]

WriteInode(v) == [v EXCEPT !.table = v.inode]

\* ext2fs_alloc_block3: a block that is not in use, cleared.
Alloc(v) ==
    LET free == Blocks \ v.used
        b == Min(free)
    IN  IF free = {} THEN Result(v, FALSE, 0, 0)
        ELSE Result([v EXCEPT !.used = @ \cup {b}, !.ptrs[b] = NoPtrs, !.data[b] = Zeroes], TRUE, b, 1)

-----------------------------------------------------------------------------
\* Mapping

Plus(r, n) == [r EXCEPT !.n = @ + n]

\* block_ind_bmap without BMAP_SET: entry nr of the block of pointers ind.
LinkEntry(a, ind, nr) == IF a.ok THEN [a EXCEPT !.v.ptrs[ind][nr] = a.blk] ELSE a
IndMap(v, ind, nr, alloc) ==
    IF ind = 0 THEN Result(v, TRUE, 0, 0)
    ELSE IF v.ptrs[ind][nr] # 0 \/ ~alloc THEN Result(v, TRUE, v.ptrs[ind][nr], 0)
    ELSE LinkEntry(Alloc(v), ind, nr)

\* block_dind_bmap and block_tind_bmap: the block of pointers, then its entry.
EntryOf(p, nr, alloc) == IF p.ok THEN Plus(IndMap(p.v, p.blk, nr, alloc), p.n) ELSE p
RECURSIVE TreeMap(_, _, _, _, _)
TreeMap(v, level, top, nr, alloc) ==
    IF level = 1 THEN IndMap(v, top, nr, alloc)
    ELSE EntryOf(TreeMap(v, level - 1, top, nr \div PerBlock, alloc), nr % PerBlock, alloc)

\* The pointer in the inode, allocated if there is none yet.
LinkSlot(a, s) == IF a.ok THEN [a EXCEPT !.v.inode.map[s] = a.blk] ELSE a
SlotMap(v, s, alloc) ==
    IF v.inode.map[s] # 0 \/ ~alloc THEN Result(v, TRUE, v.inode.map[s], 0)
    ELSE LinkSlot(Alloc(v), s)

\* Where a block is: the slot of the inode, the depth of its tree, the entry.
Place(block) ==
    LET r1 == block - NDir
        r2 == r1 - PerBlock
        r3 == r2 - PerBlock ^ 2
    IN  CASE block < NDir            -> [slot |-> block, level |-> 0, nr |-> 0]
          [] r1 >= 0 /\ r2 < 0       -> [slot |-> NDir, level |-> 1, nr |-> r1]
          [] r2 >= 0 /\ r3 < 0       -> [slot |-> NDir + 1, level |-> 2, nr |-> r2]
          [] r3 >= 0                 -> [slot |-> NDir + 2, level |-> 3, nr |-> r3]

UnderSlot(s, p, alloc) ==
    IF ~s.ok \/ p.level = 0 \/ s.blk = 0 THEN s
    ELSE Plus(TreeMap(s.v, p.level, s.blk, p.nr, alloc), s.n)
MapAt(v, p, alloc) == UnderSlot(SlotMap(v, p.slot, alloc), p, alloc)

\* The end of ext2fs_bmap2: what was allocated is counted and the inode written,
\* if all went well.
CountOne(r) ==                                                  \* mutant
    IF r.ok /\ r.n > 0 THEN [r EXCEPT !.v = WriteInode([@ EXCEPT !.inode.iblocks = @ + 1])] ELSE r
CountBlocks(r) ==
    IF r.ok /\ r.n > 0 THEN [r EXCEPT !.v = WriteInode([@ EXCEPT !.inode.iblocks = @ + r.n])] ELSE r

\* ext2fs_bmap2
Bmap(v, block, alloc) ==
    IF TooBig(block) THEN Result(v, FALSE, 0, 0) ELSE CountBlocks(MapAt(v, Place(block), alloc))

-----------------------------------------------------------------------------
\* Punching

Endless == 10 * MaxMapBlock              \* BLK_T_MAX, and a count below 0

\* A table of pointers, the inode's or a block's, with the volume, the blocks
\* freed of it so far and whether nothing has failed.
Table(v, ptrs) == [v |-> v, ptrs |-> ptrs, freed |-> 0, ok |-> TRUE]

\* ind_punch frees what an entry points to.
FreeEntry(t, i) == [t EXCEPT !.v.used = @ \ {t.ptrs[i]}, !.ptrs[i] = 0, !.freed = @ + 1]

\* The block of pointers of an entry is written if anything is left in it
\* (check_zero_block); after a failure it is not.
KeepTable(t, i, sub) ==
    IF ~sub.ok THEN [t EXCEPT !.v = sub.v, !.ok = FALSE]
    ELSE IF sub.ptrs = NoPtrs THEN FreeEntry([t EXCEPT !.v = sub.v], i)
    ELSE [t EXCEPT !.v = [sub.v EXCEPT !.ptrs[t.ptrs[i]] = sub.ptrs]]

\* ext2fs_iblk_sub_blocks, which refuses to count below 0
SubBlocks(t) ==
    IF t.ok /\ t.freed <= t.v.inode.iblocks THEN [t EXCEPT !.v.inode.iblocks = @ - t.freed]
    ELSE [t EXCEPT !.ok = FALSE]

\* ind_punch
RECURSIVE IndPunch(_, _, _, _)
IndPunch(table, level, start, count) ==
    SubBlocks(FoldLeft(
        LAMBDA t, i :
            LET incr   == PerBlock ^ level
                offset == i * incr
                left   == IF count < offset THEN Endless ELSE count - offset
            IN  IF ~t.ok \/ offset >= start + count \/ offset + incr <= start \/ t.ptrs[i] = 0 THEN t
                ELSE IF level = 0 THEN FreeEntry(t, i)
                ELSE KeepTable(t, i, IndPunch(Table(t.v, t.v.ptrs[t.ptrs[i]]), level - 1,
                                              Max({start - offset, 0}), left)),
        table, [i \in 1..Cardinality(DOMAIN table.ptrs) |-> i - 1]))

\* ext2fs_punch_ind, from one kind of pointer on.
NumOf(level)  == IF level = 0 THEN NDir ELSE 1
SlotOf(level) == IF level = 0 THEN 0 ELSE NDir + level - 1
InSlots(t, slot, num) ==
    [v  |-> [t.v EXCEPT !.inode.map = [s \in Slots |-> IF s \in slot..(slot + num - 1) THEN t.ptrs[s - slot] ELSE @[s]]],
     ok |-> t.ok]
RECURSIVE PunchLevel(_, _, _, _)
PunchLevel(p, level, start, count) ==
    LET max  == IF level = 0 THEN NDir ELSE PerBlock ^ level
        ptrs == [i \in 0..(NumOf(level) - 1) |-> p.v.inode.map[SlotOf(level) + i]]
        here == InSlots(IndPunch(Table(p.v, ptrs), level, start, count), SlotOf(level), NumOf(level))
    IN  IF level = 4 \/ ~p.ok THEN p
        ELSE IF start >= max THEN PunchLevel(p, level + 1, start - max, count)
        ELSE IF count > max THEN PunchLevel(here, level + 1, 0, count - (max - start))
        ELSE here

\* ext2fs_punch: the inode is written if nothing has failed.
WriteIfOk(p) == IF p.ok THEN [p EXCEPT !.v = WriteInode(@)] ELSE p
Punch(v, start, count) == WriteIfOk(PunchLevel([v |-> v, ok |-> TRUE], 0, start, count))

-----------------------------------------------------------------------------
\* Walking

SkipOne(level) == 1                                             \* mutant
\* How many blocks a pointer that is 0 stands for.
Skipped(level) == PerBlock ^ level

\* block_iterate_ind, _dind and _tind: the data blocks below a pointer, each with
\* the count ctx->bcount had when it was given to the caller.
RECURSIVE Iterate(_, _, _, _)
Iterate(v, w, b, level) ==
    IF b = 0 THEN [w EXCEPT !.count = @ + Skipped(level)]
    ELSE IF level = 0 THEN [seen |-> Append(w.seen, [block |-> w.count, blk |-> b]), count |-> w.count + 1]
    ELSE FoldLeft(LAMBDA acc, i : Iterate(v, acc, v.ptrs[b][i - 1], level - 1), w, [i \in 1..PerBlock |-> i])

\* ext2fs_block_iterate3 with BLOCK_FLAG_DATA_ONLY
LevelOf(s) == IF s < NDir THEN 0 ELSE s - NDir + 1
SlotSeq == [s \in 1..(NDir + 3) |-> s - 1]
IterateAll(v) ==
    FoldLeft(LAMBDA acc, s : Iterate(v, acc, v.table.map[s], LevelOf(s)), [seen |-> <<>>, count |-> 0], SlotSeq).seen

\* All the blocks below a pointer, those of pointers among them, and how many
\* pointers lead to them.
RECURSIVE Below(_, _, _)
Below(v, b, level) ==
    IF b = 0 THEN <<>> ELSE <<b>> \o (IF level = 0 THEN <<>> ELSE
        FoldLeft(LAMBDA acc, i : acc \o Below(v, v.ptrs[b][i - 1], level - 1), <<>>, [i \in 1..PerBlock |-> i]))
Tree(v, inode) == FoldLeft(LAMBDA acc, s : acc \o Below(v, inode.map[s], LevelOf(s)), <<>>, SlotSeq)
=============================================================================
