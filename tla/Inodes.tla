-------------------------------- MODULE Inodes --------------------------------
(* src/libext2fs/inode.c: reading and writing inodes through the inode cache   *)
(* of a file system (fs->icache: some inodes, and one block of the inode table *)
(* in which they are changed), and the scan that goes through the table of     *)
(* every group without it.                                                     *)
(*                                                                             *)
(* An inode is its first 128 bytes (base), the rest (extra), whether its       *)
(* checksum is right and whether it looks like an inode.  Table blocks are     *)
(* numbered from 1, inodes too; block 0 is fs->icache->buffer_blk = 0.         *)
EXTENDS Integers, Sequences, FiniteSets

CONSTANTS Groups, InodesPerGroup, InodesPerBlock,
          CacheSize,      \* ext2fs_create_inode_cache
          BufferBlocks,   \* scan->inode_buffer_blocks
          Clients,        \* bound: the inodes that are read and written
          Vals,           \* bound: what a client writes
          Damaged, Insane,\* inodes with a bad checksum, or that look like none
          Layouts,        \* the groups and the options of a scan
          Uses,           \* what clients do besides
          Faults,         \* "write", "read": transfers that may fail
          MaxFaults       \* bound: transfers that fail

\* A layout: unused[g] is bg_itable_unused; the groups with INODE_UNINIT; those
\* whose table is missing; the bad blocks; lazy: the checksum feature of groups;
\* warn: EXT2_SF_WARN_GARBAGE_INODES; skip: EXT2_SF_SKIP_MISSING_ITABLE.
Inos   == 1..(Groups * InodesPerGroup)
Blocks == 1..((Groups * InodesPerGroup) \div InodesPerBlock)
\* "rewind": a scan goes to a group once it is past the bad blocks; "damaged":
\* reading an inode with a bad checksum.
ASSUME InodesAssumption ==
    /\ Uses \subseteq {"rewind", "damaged"}
    /\ {Groups, InodesPerGroup, CacheSize, BufferBlocks} \subseteq Nat \ {0}
    /\ InodesPerBlock \in Nat \ {0, 1} /\ InodesPerGroup % InodesPerBlock = 0
    /\ Clients \cup Damaged \cup Insane \subseteq Inos /\ Clients \cap (Damaged \cup Insane) = {}
    /\ Faults \subseteq {"write", "read"} /\ MaxFaults \in Nat
    /\ \A l \in Layouts : /\ l.unused \in [0..(Groups - 1) -> 0..InodesPerGroup]
                          /\ l.uninit \cup l.missing \subseteq 0..(Groups - 1)
                          /\ l.bad \subseteq Blocks

VARIABLES dev,     \* the inode tables
          cache,   \* fs->icache
          scan,    \* the ext2_inode_scan, or NoScan
          answer,  \* what the last call returned
          may,     \* the inodes as clients may find them
          layout,
          faults   \* how many transfers failed

vars == <<dev, cache, scan, answer, may, layout, faults>>

Zero     == [base |-> 0, extra |-> 0, sum |-> TRUE, sane |-> TRUE]
Answer(ret, i, n)  == [scanned |-> FALSE, ret |-> ret, ino |-> i, inode |-> n]
Scanned(ret, i)    == [scanned |-> TRUE, ret |-> ret, ino |-> i, inode |-> Zero]
NoAnswer == Answer("none", 0, Zero)

BlockOf(i)  == ((i - 1) \div InodesPerBlock) + 1
GroupOf(i)  == (i - 1) \div InodesPerGroup
Offset(i)   == ((i - 1) % InodesPerBlock) + 1
Content(b)  == [n \in 1..InodesPerBlock |-> dev[(b - 1) * InodesPerBlock + n]]
NoBlock     == [n \in 1..InodesPerBlock |-> Zero]

\* ext2fs_create_inode_cache, and ext2fs_flush_icache on a cache c.
EmptyCache  == [slots |-> [s \in 1..CacheSize |-> [ino |-> 0, inode |-> Zero]],
                last |-> 0, blk |-> 0, buf |-> NoBlock]
Flushed(c)  == [slots |-> [s \in 1..CacheSize |-> [c.slots[s] EXCEPT !.ino = 0]],
                last |-> c.last, blk |-> 0, buf |-> c.buf]

-----------------------------------------------------------------------------
\* The cache.  An outcome is [ret, cache, inode].

Slot(c, i)    == {s \in 1..CacheSize : c.slots[s].ino = i}
NextSlot(c)   == (c.last % CacheSize) + 1
UnreadBlock(c, b) == [c EXCEPT !.blk = b]                        \* mutant
WithBlock(c, b) == [slots |-> c.slots, last |-> c.last, blk |-> b, buf |-> Content(b)]

\* A transfer that fails leaves zeroes in the buffer, and buffer_blk alone
\* (src/libext2fs/xnu_io.c:146).
Loads(c, b) == IF c.blk = b THEN {[ret |-> "ok", cache |-> c]}
               ELSE {[ret |-> "ok", cache |-> WithBlock(c, b)]}
                    \cup (IF "read" \in Faults /\ faults < MaxFaults
                          THEN {[ret |-> "io", cache |-> [c EXCEPT !.buf = NoBlock]]} ELSE {})

\* The slot is overwritten before the checksum is looked at; only then, if it is
\* right, is the slot the inode's.
Cached(c, i) ==
    LET s == NextSlot(c)
        n == c.buf[Offset(i)]
    IN  IF n.sum
        THEN [slots |-> [c.slots EXCEPT ![s] = [ino |-> i, inode |-> n]],
              last |-> s, blk |-> c.blk, buf |-> c.buf]
        ELSE [c EXCEPT !.slots[s].inode = n]

\* ext2fs_read_inode2; nocsum is READ_INODE_NOCSUM.
Reads(c, i, nocsum) ==
    IF Slot(c, i) # {}
    THEN {[ret |-> "ok", cache |-> c, inode |-> c.slots[CHOOSE s \in Slot(c, i) : TRUE].inode]}
    ELSE IF GroupOf(i) \in layout.missing
    THEN {[ret |-> "missing", cache |-> c, inode |-> Zero]}
    ELSE {IF l.ret # "ok" THEN [ret |-> l.ret, cache |-> l.cache, inode |-> Zero]
          ELSE [ret   |-> IF l.cache.buf[Offset(i)].sum \/ nocsum THEN "ok" ELSE "csum",
                cache |-> Cached(l.cache, i), inode |-> l.cache.buf[Offset(i)]]
          : l \in Loads(c, BlockOf(i))}

\* A client's bytes over an inode: the first 128 of them, or all.
Overlaid(n, v, full) == [base |-> v, extra |-> IF full THEN v ELSE n.extra, sum |-> TRUE, sane |-> TRUE]

NotUpdated(c, i, v, full) == c                                   \* mutant
\* The cached inode is changed before anything can fail.
Updated(c, i, v, full) ==
    [c EXCEPT !.slots = [s \in 1..CacheSize |->
        IF s \in Slot(c, i) THEN [ino |-> i, inode |-> Overlaid(@[s].inode, v, full)] ELSE @[s]]]

\* ext2fs_write_inode2: outcomes [ret, cache, dev].  The block's buffer is changed
\* before the block is written.
Stored(c, i, n) ==
    LET ok   == [c EXCEPT !.buf[Offset(i)] = n]
        b    == BlockOf(i)
        after == [j \in Inos |-> IF BlockOf(j) = b THEN ok.buf[Offset(j)] ELSE dev[j]]
    IN  {[ret |-> "ok", cache |-> ok, dev |-> after]}
        \cup (IF "write" \in Faults /\ faults < MaxFaults
              THEN {[ret |-> "io", cache |-> ok, dev |-> dev]} ELSE {})

StoredIn(c, i, n) ==
    IF GroupOf(i) \in layout.missing THEN {[ret |-> "missing", cache |-> c, dev |-> dev]}
    ELSE UNION {IF l.ret # "ok" THEN {[ret |-> l.ret, cache |-> l.cache, dev |-> dev]}
                ELSE Stored(l.cache, i, n) : l \in Loads(c, BlockOf(i))}

Writes(c, i, v, full) ==
    LET old == IF full THEN {[ret |-> "ok", cache |-> c, inode |-> Zero]} ELSE Reads(c, i, TRUE)
    IN  UNION {IF o.ret # "ok" THEN {[ret |-> o.ret, cache |-> o.cache, dev |-> dev]}
               ELSE StoredIn(Updated(o.cache, i, v, full), i, Overlaid(o.inode, v, full)) : o \in old}

-----------------------------------------------------------------------------
\* The scan.  inodes and blocks are inodes_left and blocks_left of the group,
\* block is current_block, buf and status the inodes read and not yet returned
\* and what is known of their blocks (SCAN_BLOCK_STATUS); ptr is bad_block_ptr.

BlocksPerGroup == InodesPerGroup \div InodesPerBlock
NoScan == [open |-> FALSE]

InodesLeft(l, g) == IF l.lazy THEN InodesPerGroup - l.unused[g] ELSE InodesPerGroup
BlocksLeft(l, g) == (InodesLeft(l, g) + InodesPerBlock - 1) \div InodesPerBlock
TableLoc(l, g)   == IF g \in l.missing THEN 0 ELSE g * BlocksPerGroup + 1
NoStatus == [k \in 0..(BufferBlocks - 1) |-> {}]

\* ext2fs_open_inode_scan: bad_block_ptr is the blocks of the list still ahead.
ScanStart(l) ==
    [open |-> TRUE, current |-> 0, group |-> 0, inodes |-> InodesLeft(l, 0),
     blocks |-> BlocksLeft(l, 0), block |-> TableLoc(l, 0), ahead |-> l.bad,
     check |-> l.bad # {}, bad |-> FALSE, buf |-> <<>>, status |-> NoStatus]

NextGroupWithRest(s, g) ==                                       \* mutant
    [s EXCEPT !.current = g * InodesPerGroup, !.group = g, !.inodes = InodesLeft(layout, g),
              !.blocks = BlocksLeft(layout, g), !.block = TableLoc(layout, g)]
\* get_next_blockgroup
NextGroup(s, g) ==
    [s EXCEPT !.current = g * InodesPerGroup, !.group = g, !.inodes = InodesLeft(layout, g),
              !.blocks = BlocksLeft(layout, g), !.block = TableLoc(layout, g), !.buf = <<>>]

\* Groups that ext2fs_get_next_inode_full passes over.
Passed(g) == \/ layout.lazy /\ g \in layout.uninit
             \/ InodesLeft(layout, g) = 0
             \/ g \in layout.missing /\ layout.skip

\* The scan as it is when an inode is returned: in this group, or in the next one
\* that is not passed over, or past the last one (group = Groups).
AtGroup(s) ==
    IF s.inodes > 0 /\ ~Passed(s.group) THEN s
    ELSE LET later == {g \in (s.group + 1)..(Groups - 1) : ~Passed(g)}
         IN  IF later = {} THEN [s EXCEPT !.group = Groups, !.inodes = 0, !.buf = <<>>]
             ELSE NextGroup(s, CHOOSE g \in later : \A h \in later : g <= h)

\* check_for_inode_bad_blocks: how many blocks to read, and whether it is a bad one.
Smallest(S) == CHOOSE n \in S : \A m \in S : n <= m
BadChecked(s, wanted) ==
    LET ahead == {b \in s.ahead : b >= s.block}
    IN  IF ~s.check \/ ahead = {}
        THEN [s |-> [s EXCEPT !.check = FALSE, !.bad = FALSE], n |-> wanted]
        ELSE IF Smallest(ahead) = s.block
        THEN [s |-> [s EXCEPT !.ahead = ahead \ {s.block}, !.check = ahead # {s.block}, !.bad = TRUE],
              n |-> 1]
        ELSE [s |-> [s EXCEPT !.ahead = ahead, !.bad = FALSE],
              n |-> IF s.block + wanted > Smallest(ahead) THEN Smallest(ahead) - s.block ELSE wanted]

\* check_inode_block_sanity, of the block that is the k-th in the buffer: more
\* than half of the inodes that are looked at are damaged or insane; or all of
\* its inodes have been looked at and have the right checksum.
BlockStatus(s, inodes, k) ==
    LET looked == {n \in (k * InodesPerBlock + 1)..((k + 1) * InodesPerBlock) :
                      n <= Len(inodes) /\ n <= s.inodes}
        amiss  == {n \in looked : ~inodes[n].sum \/ ~inodes[n].sane}
    IN  IF 2 * Cardinality(amiss) > InodesPerBlock THEN {"insane"}
        ELSE IF Cardinality(looked) = InodesPerBlock /\ \A n \in looked : inodes[n].sum
        THEN {"csums_ok"} ELSE {}

Checked(s, inodes) == IF ~layout.warn THEN s.status
                      ELSE [k \in 0..(BufferBlocks - 1) |-> BlockStatus(s, inodes, k)]

\* Of an inode the scan's buffer has what decides how it is returned.
Seen(n) == [sum |-> n.sum, sane |-> n.sane]

\* get_next_blocks
Filled(s) ==
    LET wanted == IF s.blocks < BufferBlocks THEN s.blocks ELSE BufferBlocks
        c      == BadChecked(s, wanted)
        inodes == [n \in 1..(c.n * InodesPerBlock) |->
                      Seen(IF c.s.bad THEN Zero ELSE dev[(s.block - 1) * InodesPerBlock + n])]
    IN  [c.s EXCEPT !.buf = inodes, !.status = Checked(s, inodes), !.blocks = @ - c.n,
                    !.block = @ + c.n]

\* iblk: where the status of the block of the next inode is looked for.
StatusAt(s) == ((s.current % InodesPerGroup) \div InodesPerBlock) % BufferBlocks

\* What is returned with the next inode, at the head of the buffer.
Verdict(s) ==
    LET st  == s.status[StatusAt(s)]
        ret == IF s.bad THEN "bad_block"
               ELSE IF ~("csums_ok" \in st) /\ ~Head(s.buf).sum THEN "csum" ELSE "ok"
    IN  IF "insane" \in st /\ ret # "bad_block" THEN "garbage" ELSE ret

-----------------------------------------------------------------------------
\* Actions

Start(i) == [base |-> 9, extra |-> 9, sum |-> i \notin Damaged, sane |-> i \notin Insane]
Init == /\ dev = [i \in Inos |-> Start(i)]
        /\ cache = EmptyCache /\ scan = NoScan /\ answer = NoAnswer /\ faults = 0
        /\ may = [i \in Inos |-> {Start(i)}]
        /\ layout \in Layouts

Counted(ret) == faults' = IF ret = "io" THEN faults + 1 ELSE faults

\* Bound: inodes are read and written while no scan is open.  A scan shares with
\* them only the table, whose checksums they leave right.
ReadInode(i) ==
    /\ ~scan.open
    /\ \E o \in Reads(cache, i, FALSE) :
         /\ cache' = o.cache
         /\ answer' = Answer(o.ret, i, o.inode)
         /\ Counted(o.ret)
    /\ UNCHANGED <<dev, scan, may, layout>>

\* ext2fs_write_inode, ext2fs_write_inode_full and ext2fs_write_new_inode.  After
\* a failure the inode may be the old one or the new one.
WriteInode(i, v, full) ==
    /\ ~scan.open
    /\ \E o \in Writes(cache, i, v, full) :
         LET new == {Overlaid(n, v, full) : n \in may[i]}
         IN  /\ cache' = o.cache
             /\ dev' = o.dev
             /\ answer' = Answer(o.ret, 0, Zero)
             /\ may' = [may EXCEPT ![i] = IF o.ret = "ok" THEN new ELSE @ \cup new]
             /\ Counted(o.ret)
    /\ UNCHANGED <<scan, layout>>

FlushIcache == /\ ~scan.open
               /\ cache' = Flushed(cache)
               /\ answer' = NoAnswer
               /\ UNCHANGED <<dev, scan, may, layout, faults>>

\* Bound: the scan comes before the first inode is read.
OpenScan == /\ ~scan.open /\ cache = EmptyCache
            /\ scan' = ScanStart(layout)
            /\ answer' = NoAnswer
            /\ UNCHANGED <<dev, cache, may, layout, faults>>

\* ext2fs_inode_scan_goto_blockgroup
GotoGroup(g) == /\ scan.open
                /\ scan.check \/ layout.bad = {} \/ "rewind" \in Uses
                /\ scan' = [NextGroup(scan, g) EXCEPT !.ahead = layout.bad]
                /\ answer' = NoAnswer
                /\ UNCHANGED <<dev, cache, may, layout, faults>>

\* ext2fs_get_next_inode_full
NextInode ==
    /\ scan.open
    /\ LET s == AtGroup(scan)
           f == IF s.buf = <<>> THEN Filled(s) ELSE s
       IN  IF s.group = Groups
           THEN scan' = s /\ answer' = Scanned("end", 0)
           ELSE IF s.block = 0
           THEN scan' = s /\ answer' = Scanned("missing_table", 0)
           ELSE /\ scan' = [f EXCEPT !.buf = Tail(@), !.inodes = @ - 1, !.current = @ + 1]
                /\ answer' = Scanned(Verdict(f), f.current + 1)
    /\ UNCHANGED <<dev, cache, may, layout, faults>>

CloseScan == /\ scan.open
             /\ scan' = NoScan
             /\ answer' = NoAnswer
             /\ UNCHANGED <<dev, cache, may, layout, faults>>

Read == Clients \cup (IF "damaged" \in Uses THEN Damaged ELSE {})

Next == \/ \E i \in Read : ReadInode(i)
        \/ \E i \in Clients, v \in Vals, full \in BOOLEAN : WriteInode(i, v, full)
        \/ FlushIcache \/ OpenScan \/ NextInode \/ CloseScan
        \/ \E g \in 0..(Groups - 1) : GotoGroup(g)

Spec == Init /\ [][Next]_vars

-----------------------------------------------------------------------------
\* Properties

\* What a client reads is the last inode that was written, or one whose write
\* failed since, whatever has been through the cache in between.
ReadsRight == answer.ret = "ok" /\ answer.ino \in Clients /\ ~answer.scanned => answer.inode \in may[answer.ino]

\* A write goes to its inode only: the other inodes of the block, which go to the
\* device with it out of the cache's buffer, keep what their clients left there.
TableKept == \A i \in Inos : dev[i] \in may[i]

\* The inodes that a scan is to return, and what it is to say of each.
Wanted == {i \in Inos : ~Passed(GroupOf(i)) /\ (i - 1) % InodesPerGroup < InodesLeft(layout, GroupOf(i))}
Garbage(i) == 2 * Cardinality({j \in Wanted \cap (Damaged \cup Insane) : BlockOf(j) = BlockOf(i)}) > InodesPerBlock
Truth(i) == IF GroupOf(i) \in layout.missing THEN "missing_table"
            ELSE IF BlockOf(i) \in layout.bad THEN "bad_block"
            ELSE IF layout.warn /\ Garbage(i) THEN "garbage"
            ELSE IF i \in Damaged THEN "csum" ELSE "ok"

\* A scan returns the inodes of the groups in order, none twice and none left
\* out, and tells for each whether it lies in a bad block, has a wrong checksum or
\* is in a block of garbage, although it reads blocks ahead in pieces that bad
\* blocks and short groups cut off.
ScanRight ==
    [][NextInode => LET ahead == {i \in Wanted : i > scan.current} IN
         IF ahead = {} THEN answer'.ret = "end"
         ELSE /\ answer'.ret = Truth(Smallest(ahead))
              /\ answer'.ino \in {0, Smallest(ahead)}]_vars
=============================================================================
