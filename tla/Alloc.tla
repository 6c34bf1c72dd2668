-------------------------------- MODULE Alloc --------------------------------
(* Allocation of blocks and inodes: the searches of src/libext2fs/alloc.c    *)
(* and the counts and flags of src/libext2fs/alloc_stats.c, with the write   *)
(* of the bitmaps (src/libext2fs/rw_bitmaps.c) that makes them last.         *)
(*                                                                           *)
(* One client calls at a time.  A search is a loop, one turn an action; the  *)
(* rest of a call is one action.  Clusters are blocks; the maps are sets.    *)
(* The group descriptors have checksums; where they are set, and how a flush *)
(* may fail, is the subject of FsFlush.                                      *)
EXTENDS FiniteSetsExt, Integers

CONSTANTS FirstBlock,  \* s_first_data_block
          Count,       \* s_blocks_count
          GroupBlocks, \* s_blocks_per_group
          GroupInodes, \* s_inodes_per_group
          FirstInode,  \* s_first_ino
          Reserved,    \* blocks of superblocks, descriptors, bitmaps, tables
          MaxLen,      \* bound: the longest run a client asks for
          Kinds,       \* the searches the client makes
          BothUninit   \* may a group have both its bitmaps uninitialised?

Blocks    == FirstBlock..(Count - 1)
NGroups   == (Count - FirstBlock + GroupBlocks - 1) \div GroupBlocks
Groups    == 0..(NGroups - 1)
MaxInode  == NGroups * GroupInodes
Inodes    == 1..MaxInode

ASSUME BlocksAssumption == /\ FirstBlock \in {0, 1} /\ Count \in Nat /\ Count > FirstBlock
                           /\ GroupBlocks \in Nat \ {0}
                           /\ Reserved \subseteq Blocks
ASSUME InodesAssumption == /\ GroupInodes \in Nat \ {0} /\ FirstInode \in 1..GroupInodes
ASSUME ClientAssumption == /\ MaxLen \in 1..(Count - FirstBlock)
                           /\ Kinds \subseteq {"range", "alloc", "free", "inode"}
                           /\ BothUninit \in BOOLEAN

VARIABLES used,    \* fs->block_map
          iused,   \* fs->inode_map
          bg,      \* [Groups -> counts and flags of the descriptor]
          sb,      \* the free counts of the superblock
          dirty,   \* the EXT2_FLAGs: "super", "bb" and "ib"
          stored,  \* [Groups -> which bitmaps the device has as they are]
          op,      \* the search that runs
          reply    \* what the last one returned, until a map changes

maps == <<used, iused, bg, sb>>
vars == <<maps, dirty, stored, op, reply>>

InGroup(g)     == {b \in Blocks : (b - FirstBlock) \div GroupBlocks = g}
GroupOf(b)     == (b - FirstBlock) \div GroupBlocks
InodesOf(g)    == (g * GroupInodes + 1)..((g + 1) * GroupInodes)
GroupOfInode(i) == (i - 1) \div GroupInodes
Run(b, n)      == b..(b + n - 1)

NoOp    == [kind |-> "none", goal |-> 0, from |-> 0, len |-> 0, fixed |-> FALSE,
            min |-> FALSE, at |-> 0, looped |-> FALSE]
NoReply == [kind |-> "none", err |-> "none", at |-> 0, len |-> 0]

\* A new volume: only what mke2fs put there is in use.
Init ==
    /\ used = Reserved
    /\ iused = 1..(FirstInode - 1)
    /\ \E b, i \in SUBSET Groups : \E tail \in BOOLEAN :
         /\ 0 \notin b \cup i
         /\ b \cap i = {} \/ BothUninit
         /\ bg = [g \in Groups |->
                    [free   |-> Cardinality(InGroup(g) \ Reserved),
                     ifree  |-> Cardinality(InodesOf(g) \ iused),
                     unused |-> IF g \in i \/ tail THEN Cardinality(InodesOf(g) \ iused) ELSE 0,
                     block_uninit |-> g \in b, inode_uninit |-> g \in i]]
         /\ stored = [g \in Groups |-> {m \in {"bb", "ib"} : g \notin IF m = "bb" THEN b ELSE i}]
    /\ sb = [free |-> Cardinality(Blocks \ Reserved), ifree |-> Cardinality(Inodes \ iused)]
    /\ dirty = {}
    /\ op = NoOp
    /\ reply = NoReply

-----------------------------------------------------------------------------
\* What the operations do to the descriptors

\* ext2fs_clear_block_uninit, for some groups.
Initialised(d, gs) == [g \in Groups |-> IF g \in gs THEN [d[g] EXCEPT !.block_uninit = FALSE]
                                                    ELSE d[g]]
InitDirty(gs) == IF \E g \in gs : bg[g].block_uninit THEN {"super", "bb"} ELSE {}

\* check_inode_uninit: "mimics what the kernel does" with the block bitmap.
InodeInitialised(g) == [bg EXCEPT ![g].inode_uninit = FALSE, ![g].block_uninit = FALSE]

\* ext2fs_block_alloc_stats2 and ext2fs_block_alloc_stats_range.
BlocksCountedFirst(d, bs, sign) ==                                  \* mutant
    LET g == GroupOf(Min(bs))
    IN  [d EXCEPT ![g].free = @ - sign * Cardinality(bs), ![g].block_uninit = FALSE]
BlocksCounted(d, bs, sign) ==
    [g \in Groups |-> IF bs \cap InGroup(g) = {} THEN d[g]
                      ELSE [d[g] EXCEPT !.free = @ - sign * Cardinality(bs \cap InGroup(g)),
                                        !.block_uninit = FALSE]]

SuperDirty == {"super"}                                                \* mutant
BlockStatsDirty == {"super", "bb"}
BlockStats(d, bs, sign) ==
    /\ used' = IF sign > 0 THEN used \cup bs ELSE used \ bs
    /\ bg' = BlocksCounted(d, bs, sign)
    /\ sb' = [sb EXCEPT !.free = @ - sign * Cardinality(bs)]
    /\ dirty' = dirty \cup BlockStatsDirty
    /\ stored' = [g \in Groups |-> IF bs \cap InGroup(g) = {} THEN stored[g]
                                                              ELSE stored[g] \ {"bb"}]
    /\ UNCHANGED iused

\* ext2fs_inode_alloc_stats2
TailKept(g, ino) == bg[g].unused                                     \* mutant
Tail(g, ino) == IF ino >= (g + 1) * GroupInodes - bg[g].unused + 1
                THEN (g + 1) * GroupInodes - ino ELSE bg[g].unused

InodeStats(ino, sign) ==
    LET g == GroupOfInode(ino)
    IN  /\ iused' = IF sign > 0 THEN iused \cup {ino} ELSE iused \ {ino}
        /\ bg' = [bg EXCEPT ![g].ifree = @ - sign, ![g].inode_uninit = FALSE,
                            ![g].unused = Tail(g, ino)]
        /\ sb' = [sb EXCEPT !.ifree = @ - sign]
        /\ dirty' = dirty \cup {"super", "ib"}
        /\ stored' = [stored EXCEPT ![g] = @ \ {"ib"}]
        /\ UNCHANGED used

-----------------------------------------------------------------------------
\* Single blocks

Idle == op.kind = "none"
Answer(kind, err, at, len) == reply' = [kind |-> kind, err |-> err, at |-> at, len |-> len]

\* The goal, as every search corrects it.
Goal(goal) == IF goal \in Blocks /\ goal # 0 THEN goal ELSE FirstBlock

\* ext2fs_alloc_block3 with ext2fs_new_block3: from the goal to the end, then
\* from the first block to the goal.  The block is zeroed before it is counted.
FreeFrom(b) == {c \in Blocks \ used : c >= b}
NextFree(goal) == IF FreeFrom(goal) # {} THEN Min(FreeFrom(goal)) ELSE Min(Blocks \ used)

AllocBlock(goal) ==
    /\ Idle
    /\ \/ /\ used = Blocks
          /\ Answer("block", "full", 0, 0)
          /\ UNCHANGED <<maps, dirty, stored>>
       \/ /\ used # Blocks
          /\ LET b == NextFree(Goal(goal))
                 d == Initialised(bg, {GroupOf(b)})
             IN  \/ BlockStats(d, {b}, 1) /\ Answer("block", "none", b, 1)
                 \/ /\ bg' = d                                  \* zeroing fails
                    /\ dirty' = dirty \cup InitDirty({GroupOf(b)})
                    /\ Answer("block", "io", 0, 0)
                    /\ UNCHANGED <<used, iused, sb, stored>>
    /\ UNCHANGED op

\* A client gives back a run of its blocks.
FreeRange(b, n) ==
    /\ Idle
    /\ Run(b, n) \subseteq used \ Reserved
    /\ BlockStats(bg, Run(b, n), -1)
    /\ reply' = NoReply
    /\ UNCHANGED op

-----------------------------------------------------------------------------
\* ext2fs_new_range and, with kind "alloc", ext2fs_alloc_range

StartSearch(o) == /\ Idle
                  /\ o.kind \in Kinds
                  /\ op' = o
                  /\ reply' = NoReply
                  /\ UNCHANGED <<maps, dirty, stored>>

NewRange(kind, goal, len, fixed, min) ==
    /\ kind = "alloc" => min
    /\ StartSearch([NoOp EXCEPT !.kind = kind, !.goal = Goal(goal), !.at = Goal(goal),
                                !.len = len, !.fixed = fixed, !.min = min])

Failed == /\ op' = NoOp
          /\ Answer(op.kind, "full", 0, 0)
          /\ UNCHANGED <<maps, dirty, stored>>

\* The groups that new_range initialises: those of every GroupBlocks-th block.
Stepped(b, n) == {GroupOf(b + k * GroupBlocks) : k \in 0..((n - 1) \div GroupBlocks)}

RangeFound(b, n) ==
    LET d == Initialised(bg, Stepped(b, n))
    IN  /\ op' = NoOp
        /\ \/ /\ op.kind = "alloc"
              /\ BlockStats(d, Run(b, op.len), 1)
              /\ Answer(op.kind, "none", b, op.len)
           \/ /\ bg' = d
              /\ dirty' = dirty \cup InitDirty(Stepped(b, n))
              /\ IF op.kind = "range" THEN Answer(op.kind, "none", b, n)
                                      ELSE Answer(op.kind, "io", 0, 0)    \* zeroing fails
              /\ UNCHANGED <<used, iused, sb, stored>>

\* What follows start: the rest of the volume, or, the first time that the
\* search runs off the end, all of it.
NextStart(start) == IF start >= Count THEN [op EXCEPT !.at = FirstBlock, !.looped = TRUE]
                                      ELSE [op EXCEPT !.at = start]

ScanRange ==
    /\ op.kind \in {"range", "alloc"}
    /\ IF FreeFrom(op.at) = {}
       THEN IF op.fixed \/ op.at = FirstBlock THEN Failed
            ELSE /\ op' = [op EXCEPT !.at = FirstBlock]
                 /\ UNCHANGED <<maps, dirty, stored, reply>>
       ELSE LET start == Min(FreeFrom(op.at))
                stop  == Min({start + op.len, Count} \cup {b \in used : b > start})
                next  == NextStart(stop)
            IN  IF op.fixed /\ start # op.goal THEN Failed
                ELSE IF ~op.min \/ stop - start >= op.len THEN RangeFound(start, stop - start)
                ELSE IF op.fixed \/ (stop >= Count /\ op.looped)
                        \/ (next.looped /\ next.at > op.goal) THEN Failed
                ELSE op' = next /\ UNCHANGED <<maps, dirty, stored, reply>>

\* The client takes what it wants of the run it was given.
Claim(n) == /\ Idle
            /\ reply.kind \in {"range", "free"} /\ reply.err = "none"
            /\ n \in 1..reply.len
            /\ BlockStats(bg, Run(reply.at, n), 1)
            /\ reply' = NoReply
            /\ UNCHANGED op

-----------------------------------------------------------------------------
\* ext2fs_get_free_blocks2 (op.goal is finish)

GetFree(start, finish, num) ==
    LET b == IF start = 0 THEN FirstBlock ELSE start
    IN  StartSearch([NoOp EXCEPT !.kind = "free", !.at = b, !.from = b, !.len = num,
                                 !.goal = IF finish = 0 THEN start ELSE finish,
                                 !.fixed = finish > start])

\* op.fixed: finish lies ahead, and the search does not wrap round.
ScanFree ==
    /\ op.kind = "free"
    /\ LET end == op.at + op.len - 1 >= Count
           b   == IF end THEN FirstBlock ELSE op.at
       IN  IF end /\ op.fixed THEN Failed
           ELSE IF Run(b, op.len) \cap used = {}
                THEN /\ op' = NoOp
                     /\ Answer(op.kind, "none", b, op.len)
                     /\ UNCHANGED <<maps, dirty, stored>>
           ELSE IF b + 1 = op.goal THEN Failed
           ELSE op' = [op EXCEPT !.at = b + 1] /\ UNCHANGED <<maps, dirty, stored, reply>>

-----------------------------------------------------------------------------
\* Inodes: ext2fs_new_inode (op.goal is start_inode)

NewInode(dir) ==
    LET first == IF dir = 0 THEN 0 ELSE GroupOfInode(dir) * GroupInodes + 1
        start == Max({first, FirstInode})
    IN  StartSearch([NoOp EXCEPT !.kind = "inode", !.goal = start, !.at = start])

\* The last inode a turn looks at.
UptoInGroup(i) == Min({MaxInode, (GroupOfInode(i) + 1) * GroupInodes - 1}) \* mutant
UptoPastEnd(i) == LET upto == (GroupOfInode(i) + 1) * GroupInodes + 1   \* mutant
                  IN  IF i < op.goal /\ upto >= op.goal THEN op.goal - 1 ELSE upto
UptoPastStart(i) == Min({MaxInode, (GroupOfInode(i) + 1) * GroupInodes + 1}) \* mutant
Upto(i) == LET upto == (GroupOfInode(i) + 1) * GroupInodes + 1
           IN  Min({MaxInode, IF i < op.goal /\ upto >= op.goal THEN op.goal - 1 ELSE upto})

\* check_inode_uninit also clears the group's part of the inode map.
ScanInodes ==
    /\ op.kind = "inode"
    /\ LET g      == GroupOfInode(op.at)
           uninit == bg[g].inode_uninit
           map    == IF uninit THEN iused \ InodesOf(g) ELSE iused
           free   == ((op.at)..Upto(op.at)) \ map
           next   == IF Upto(op.at) + 1 > MaxInode THEN FirstInode ELSE Upto(op.at) + 1
       IN  /\ iused' = map
           /\ bg' = IF uninit THEN InodeInitialised(g) ELSE bg
           /\ dirty' = IF uninit THEN dirty \cup {"super", "ib"} ELSE dirty
           /\ \/ /\ free # {}
                 /\ op' = NoOp /\ Answer(op.kind, "none", Min(free), 1)
              \/ /\ free = {} /\ next # op.goal
                 /\ op' = [op EXCEPT !.at = next] /\ UNCHANGED reply
              \/ /\ free = {} /\ next = op.goal
                 /\ op' = NoOp /\ Answer(op.kind, "full", 0, 0)
    /\ UNCHANGED <<used, sb, stored>>

\* The client counts the inode it was given, or gives one back.
TakeInode == /\ Idle
             /\ reply.kind = "inode" /\ reply.err = "none"
             /\ InodeStats(reply.at, 1)
             /\ reply' = NoReply
             /\ UNCHANGED op

FreeInode(ino) == /\ Idle
                  /\ ino \in iused /\ ino >= FirstInode
                  /\ InodeStats(ino, -1)
                  /\ reply' = NoReply
                  /\ UNCHANGED op

-----------------------------------------------------------------------------
\* ext2fs_flush: write_bitmaps passes over the uninitialised ones.
Flush == /\ Idle
         /\ stored' = [g \in Groups |-> stored[g] \cup
                         {m \in dirty \ {"super"} :
                            ~(IF m = "bb" THEN bg[g].block_uninit ELSE bg[g].inode_uninit)}]
         /\ dirty' = {}
         /\ UNCHANGED <<maps, op, reply>>

Scan == ScanRange \/ ScanFree \/ ScanInodes

Next == \/ \E goal \in {0} \cup Blocks :
             \/ AllocBlock(goal)
             \/ \E kind \in {"range", "alloc"} : \E len \in 1..MaxLen :
                  \E fixed, min \in BOOLEAN : NewRange(kind, goal, len, fixed, min)
             \/ \E finish \in {0} \cup Blocks : \E num \in 1..MaxLen : GetFree(goal, finish, num)
        \/ \E b \in Blocks : \E n \in 1..MaxLen : FreeRange(b, n)
        \/ \E n \in 1..MaxLen : Claim(n)
        \/ \E dir \in {0} \cup Inodes : NewInode(dir)
        \/ TakeInode
        \/ \E ino \in Inodes : FreeInode(ino)
        \/ Scan
        \/ Flush

\* A search is a loop of sequential code.
Spec == Init /\ [][Next]_vars /\ WF_vars(Scan)

-----------------------------------------------------------------------------
\* Properties

Descriptor == [free : 0..GroupBlocks, ifree : 0..GroupInodes, unused : 0..GroupInodes,
               block_uninit : BOOLEAN, inode_uninit : BOOLEAN]
Op == [kind : {"none"} \cup Kinds, goal : 0..(Count + MaxInode),
       from : 0..Count, len : 0..MaxLen,
       fixed : BOOLEAN, min : BOOLEAN, at : 0..(Count + MaxInode), looped : BOOLEAN]

\* Types: no count goes below zero or above its group.
TypeOK == /\ used \subseteq Blocks /\ iused \subseteq Inodes
          /\ bg \in [Groups -> Descriptor]
          /\ sb \in [free : 0..Count, ifree : 0..MaxInode]
          /\ dirty \subseteq {"super", "bb", "ib"}
          /\ stored \in [Groups -> SUBSET {"bb", "ib"}]
          /\ op \in Op
          /\ reply \in [kind : {"none", "block"} \cup Kinds, err : {"none", "full", "io"}, at : 0..(Count + MaxInode),
                        len : 0..(MaxLen + Count)]

\* The counts of the superblock and of every descriptor are those of the
\* maps, after runs that cross groups and failures half way as well
\* (alloc_stats.c); none goes below 0 or above its group (TypeOK).
CountsMatch ==
    /\ TypeOK
    /\ \A g \in Groups : /\ bg[g].free = Cardinality(InGroup(g) \ used)
                         /\ bg[g].ifree = Cardinality(InodesOf(g) \ iused)
    /\ sb.free = Cardinality(Blocks \ used)
    /\ sb.ifree = Cardinality(Inodes \ iused)

\* Once nothing is marked dirty, whoever opens the volume reads the maps as
\* they are: an uninitialised bitmap has nothing of a client in it, and any
\* other one is on the device (rw_bitmaps.c: write_bitmaps and
\* mark_uninit_bg_group_blocks, against the flags that alloc.c and
\* alloc_stats.c clear and the dirty flags that they set).
MapsStored == \A g \in Groups :
    /\ "bb" \in dirty \/ IF bg[g].block_uninit THEN used \cap InGroup(g) \subseteq Reserved
                                               ELSE "bb" \in stored[g]
    /\ "ib" \in dirty \/ IF bg[g].inode_uninit THEN iused \cap InodesOf(g) = {}
                                               ELSE "ib" \in stored[g]

\* The inodes that the descriptor counts as never used are not in use: a scan
\* of the inode table leaves them out (ext2fs_inode_alloc_stats2), and
\* check_inode_uninit wipes the group's inode map.
UnusedTail == \A g \in Groups : \A i \in iused \cap InodesOf(g) :
    ~bg[g].inode_uninit /\ i <= (g + 1) * GroupInodes - bg[g].unused

\* What would do for the search, and where it is told to look.
FreeRun(b, n) == Run(b, n) \subseteq Blocks \ used
Suitable(o) == CASE o.kind = "inode" -> FirstInode..MaxInode \ iused
                 [] o.kind = "free"  -> {b \in Blocks : FreeRun(b, o.len)}
                 [] OTHER -> {b \in Blocks : /\ FreeRun(b, IF o.min THEN o.len ELSE 1)
                                             /\ o.fixed => b = o.goal}
InWindow(o) == CASE o.kind # "free" -> Nat
                 [] o.fixed         -> o.from..(o.goal - 1)
                 [] OTHER           -> {b \in Blocks : b >= o.from \/ b < o.goal}

\* A search that returns something returns what was asked for, free and as
\* long as promised, and one that fails had nothing to find where it was told
\* to look (alloc.c: ext2fs_new_range, ext2fs_get_free_blocks2,
\* ext2fs_new_inode).
SearchRight == [][~Idle /\ Idle' =>
    /\ reply'.err = "none" =>
         CASE op.kind = "inode" -> reply'.at \in Suitable(op)
           [] op.kind = "alloc" -> reply'.at \in Suitable(op) /\ reply'.len = op.len
           [] OTHER -> /\ FreeRun(reply'.at, reply'.len)
                       /\ op.min \/ op.kind = "free" => reply'.len >= op.len
                       /\ op.kind = "range" /\ op.fixed => reply'.at = op.goal
    /\ reply'.err = "full" => Suitable(op) \cap InWindow(op) = {}]_vars

\* A search for an inode ends, and so does one for blocks that are there to be
\* found (alloc.c: the loops of ext2fs_new_inode, ext2fs_get_free_blocks2 and
\* ext2fs_new_range).  The last two may go round for ever over a volume that
\* has no such blocks.
SearchEnds == ~Idle ~> (Idle \/ (op.kind # "inode" /\ Suitable(op) = {}))

\* "EXT2_BG_BLOCK_UNINIT: Block bitmap not initialized" (ext2_fs.h:224): when
\* a flush is over, the block bitmap of a group without the flag is.  With
\* BothUninit = TRUE a search for an inode clears the flag and writes nothing.
InitialisedOnDevice == \A g \in Groups :
    dirty = {} /\ ~bg[g].block_uninit => "bb" \in stored[g]
=============================================================================
