-------------------------------- MODULE Extents --------------------------------
(* The changes a file's owner makes to its extent tree: ext2fs_extent_set_bmap *)
(* (src/libext2fs/extent.c), as bmap.c, fileio.c and block.c call it, and      *)
(* ext2fs_punch (src/libext2fs/punch.c).  Each call opens a handle, works on   *)
(* the tree and frees the handle; nothing else runs meanwhile, so a call is an *)
(* action.  ExtentTree has the handle and the tree.                            *)
EXTENDS ExtentTree

CONSTANTS MaxBlock,  \* bound: the last logical block of the file
          Shifts,    \* bound: block l is mapped to l + k, k in Shifts,
          UninitShifts, \* or, uninitialised, k in UninitShifts
          Rooms,     \* bound: how many blocks the volume has for nodes
          Sizes,     \* i_size in blocks while the call runs
          JoinLeaves \* may a call remap a block to follow on another leaf?

Logical  == 0..MaxBlock
Physical == {l + k : l \in Logical, k \in Shifts}

ASSUME ExtentsAssumption == /\ MaxBlock \in Nat
                            /\ Shifts \subseteq Nat \ {0} /\ UninitShifts \subseteq Shifts
                            /\ Rooms \subseteq Nat /\ Sizes \subseteq Nat
                            /\ JoinLeaves \in BOOLEAN

VARIABLES tree,  \* the inode's tree, i_blocks, and the blocks in use for it
          file   \* what the calls that returned 0 have made of the file

vars == <<tree, file>>

Map == INSTANCE ExtentMap WITH map <- file

Init == /\ \E room \in Rooms : tree = EmptyTree(room)
        /\ Map!Init

-----------------------------------------------------------------------------
\* ext2fs_extent_set_bmap

\* May x take new in, at its end or before its start?
Joins(x, new)   == x.uninit = new.uninit /\ x.len < LenLimit(new.uninit) - 1
Follows(new, x) == /\ new.lblk = x.lblk + x.len /\ new.pblk = x.pblk + x.len
                   /\ Joins(x, new)
Precedes(new, x) == /\ new.lblk = x.lblk - 1 /\ new.pblk = x.pblk - 1
                    /\ Joins(x, new)
GrownBack(x)  == [x EXCEPT !.len = @ + 1]
GrownFront(x) == [x EXCEPT !.lblk = @ - 1, !.pblk = @ - 1, !.len = @ + 1]

\* The extent under the handle, without its last or its first block.
ShrinkBack(h)  == Replace(h, [Extent(h) EXCEPT !.len = @ - 1])
ShrinkFront(h) == Replace(h, [Extent(h) EXCEPT !.lblk = @ + 1, !.pblk = @ + 1, !.len = @ - 1])

\* g: the handle where goto leaves it; x: the extent there; new: the block.
MapHole(g, x, new) ==
    LET n == NextLeaf(g)
    IN  FixParents(IF Follows(new, x) THEN Replace(g, GrownBack(x))
                   ELSE IF Precedes(new, x) THEN Replace(g, GrownFront(x))
                   ELSE IF ~Bad(n) /\ Precedes(new, Extent(n)) THEN Replace(n, GrownFront(Extent(n)))
                   ELSE Insert(g, new.lblk >= x.lblk, new))

\* The only block of an extent.
UnmapOnly(g) == LET f == FixParents(Delete(g))
                IN  IF f.err = "no_current" THEN Ok(f) ELSE f

\* The last block of an extent: first the new mapping, then the old one is
\* found again and shortened.
RemapLast(g, new, set) ==
    LET n == NextLeaf(g)
        i == IF ~Bad(n) /\ Precedes(new, Extent(n)) THEN Replace(n, GrownFront(Extent(n)))
             ELSE Insert(g, TRUE, new)
    IN  ShrinkBack(IF set THEN Goto(FixParents(i), 0, new.lblk) ELSE g)

\* The first block: the same, the old mapping being the next extent.
RemapFirst(g, new, set) ==
    LET q == PrevLeaf(g)
        i == IF ~Bad(q) /\ Follows(new, Extent(q)) THEN Replace(q, GrownBack(Extent(q)))
             ELSE Insert(g, FALSE, new)
    IN  FixParents(ShrinkFront(IF set THEN NextLeaf(FixParents(i)) ELSE g))

\* A block in the middle: the extent is shortened, the new mapping and the rest
\* are inserted after it.  If there is no room, the extent is put back.
PutBackNot(h, x) == h \* mutant
PutBack(h, x) ==
    LET r == Goto(Ok(h), 0, x.lblk)
    IN  Fail(IF Bad(r) THEN r ELSE Replace(r, x), h.err)

TakeOut(h, lblk) ==
    LET r == Goto(Ok(h), 0, lblk)
    IN  Fail(IF Bad(r) THEN r ELSE Delete(r), h.err)

\* What x keeps without its blocks up to last.
TailOf(x, last) == LET n == last - x.lblk + 1
                   IN  [x EXCEPT !.lblk = @ + n, !.pblk = @ + n, !.len = @ - n]

UnlessFailed(t, x, new, set) ==
    IF ~Bad(t) THEN t ELSE PutBack(IF set THEN TakeOut(t, new.lblk) ELSE t, x)

AddTail(i, x, new, set) ==
    IF Bad(i) THEN PutBack(i, x)
    ELSE UnlessFailed(Insert(i, TRUE, TailOf(x, new.lblk)), x, new, set)

RemapMiddle(g, x, new, set) ==
    LET s == Replace(g, [x EXCEPT !.len = new.lblk - x.lblk])
    IN  IF Bad(s) THEN s
        ELSE AddTail(IF set THEN Insert(s, TRUE, new) ELSE s, x, new, set)

\* The code looks at the next and the previous extent first and comes back by
\* goto each time: the handle g again.
NewExtent(l, p, u) == [lblk |-> l, pblk |-> p, len |-> 1, uninit |-> u]

SetBmapAt(g, l, p, u) ==
    LET new == NewExtent(l, p, u)
        set == p # 0
        x   == Extent(g)
        k   == Ok(g)
    IN  IF g.err = "not_found" THEN (IF set THEN MapHole(k, Extent(k), new) ELSE k)
        ELSE IF Bad(g) THEN g
        ELSE IF x.uninit = u /\ x.pblk + (l - x.lblk) = p THEN g
        ELSE IF l = x.lblk /\ x.len = 1 THEN (IF set THEN Replace(g, new) ELSE UnmapOnly(g))
        ELSE IF l = x.lblk + x.len - 1 THEN RemapLast(g, new, set)
        ELSE IF l = x.lblk THEN RemapFirst(g, new, set)
        ELSE RemapMiddle(g, x, new, set)

\* The whole call; p = 0 unmaps.
SetBmapTree(h, l, p, u) ==
    IF h.depth = 0 /\ Entries(h) = 0 THEN Insert(h, FALSE, NewExtent(l, p, u))
    ELSE SetBmapAt(Goto(h, 0, l), l, p, u)

\* Does it join an extent on another leaf?
OnOtherLeaf(g, l, p, u) ==
    LET new == NewExtent(l, p, u)
        n == NextLeaf(g)
        q == PrevLeaf(g)
    IN  /\ ~Bad(g) /\ Extent(g).len > 1
        /\ \/ ~Bad(n) /\ Left(g) = 0 /\ Precedes(new, Extent(n))
           \/ ~Bad(q) /\ Curr(g) = 1 /\ Follows(new, Extent(q))

\* extent_bmap (the block allocated first and freed again on an error) or a
\* change of a mapping, with the count that ext2fs_bmap2 or the caller keeps.
SetBmapReturns(r, l, p, u) ==
    LET old == file[l].pblk
    IN  /\ tree' = IF Bad(r) THEN TreeOf(r)
                   ELSE [TreeOf(r) EXCEPT
                           !.held = (@ \ {old}) \cup ({p} \ {0}),
                           !.iblk = @ + (IF old = 0 THEN 1 ELSE 0) - (IF p = 0 THEN 1 ELSE 0)]
        /\ IF r.err = "full" THEN UNCHANGED file ELSE Map!SetBmap(l, p, u)

SetBmap(l, p, u, eof) ==
    /\ p = 0 => tree.root # <<>> /\ ~u
    /\ JoinLeaves \/ ~OnOtherLeaf(Goto(Open(tree, eof), 0, l), l, p, u)
    /\ SetBmapReturns(SetBmapTree(Open(tree, eof), l, p, u), l, p, u)

-----------------------------------------------------------------------------
\* ext2fs_punch_extent

\* punch_extent_blocks, without clusters.
FreeBlocksButLast(h, b, n) == [h EXCEPT !.held = @ \ (b..(b + n - 2))] \* mutant
FreeBlocks(h, b, n) ==
    IF Bad(h) THEN h
    ELSE IF b + n > LastBlock THEN Fail(h, "bad_block")
    ELSE [h EXCEPT !.held = @ \ (b..(b + n - 1))]

\* The extent goes; the handle moves on to what came after it.
DropExtent(h) ==
    LET n == NextLeaf(h)
        d == FixParents(Delete(Goto(Ok(n), 0, Extent(h).lblk)))
        to == IF Bad(n) THEN Extent(h).lblk ELSE Extent(n).lblk
    IN  IF Bad(d) /\ d.err # "no_current" THEN d ELSE Ok(Goto(Ok(d), 0, to))

\* What is left of x, after its tail has been inserted behind it.
KeptOf(x, first, last) == IF first > x.lblk THEN [x EXCEPT !.len = first - x.lblk]
                          ELSE TailOf(x, last)

\* An extent that lies on both sides of the range is cut in two first.
CutAt(h, x, start, end) ==
    IF x.lblk < start /\ end < x.lblk + x.len - 1
    THEN Goto(FixParents(Insert(h, TRUE, TailOf(x, end))), 0, x.lblk)
    ELSE h

\* The loop; moved: the handle is already at the next extent to look at.
RECURSIVE PunchFrom(_, _, _, _)
PunchFrom(h, start, end, moved) ==
    IF h.err = "no_next" \/ (moved /\ Curr(h) = 0) THEN Ok(h)
    ELSE IF Bad(h) THEN h
    ELSE LET x    == Extent(h)
             last == x.lblk + x.len - 1
             from == Max({start, x.lblk})
             to   == Min({end, last})
             cut  == CutAt(h, x, start, end)
             kept == KeptOf(x, from, to)
             Free(g) == FreeBlocks(g, x.pblk + (from - x.lblk), to - from + 1)
         IN  IF end < x.lblk THEN h
             ELSE IF start > last THEN PunchFrom(NextLeaf(h), start, end, FALSE)
             ELSE IF Bad(cut) THEN cut
             ELSE IF kept.len > 0
                  THEN PunchFrom(NextLeaf(Free(FixParents(Replace(cut, kept)))), start, end, FALSE)
             ELSE PunchFrom(Free(DropExtent(cut)), start, end, TRUE)

\* The blocks freed are taken off i_blocks at the end.
Settled(r, held) == IF Bad(r) THEN r
                    ELSE [r EXCEPT !.iblk = @ - (Cardinality(held) - Cardinality(r.held))]

PunchTree(h, start, end) ==
    LET g == Ok(Goto(h, 0, start))
    IN  IF Curr(g) = 0 THEN g ELSE Settled(PunchFrom(g, start, end, TRUE), h.held)

PunchReturns(r, start, end) ==
    /\ tree' = TreeOf(r)
    /\ IF r.err = "full" THEN UNCHANGED file ELSE Map!Punch(start, end)

Punch(start, end, eof) ==
    /\ start <= end
    /\ PunchReturns(PunchTree(Open(tree, eof), start, end), start, end)

Next == \E eof \in Sizes :
          \/ \E l \in Logical : \/ \E k \in Shifts : SetBmap(l, l + k, FALSE, eof)
                               \/ \E k \in UninitShifts : SetBmap(l, l + k, TRUE, eof)
                               \/ SetBmap(l, 0, FALSE, eof)
          \/ \E start, end \in Logical : Punch(start, end, eof)

Spec == Init /\ [][Next]_vars

-----------------------------------------------------------------------------
\* Properties

Leaves == LeavesOf(tree.root, tree.depth)
Handle == Open(tree, MaxBlock + 1)

\* Types: nodes are as large as their blocks allow and not empty, extents as
\* long as their kind may be.
RECURSIVE NodesOk(_, _, _)
NodesOk(node, depth, max) ==
    /\ Len(node) <= max
    /\ depth > 0 => \A i \in 1..Len(node) : /\ node[i].kids # <<>>
                                            /\ NodesOk(node[i].kids, depth - 1, NodeMax)
TypeOK == /\ tree.depth \in 0..Levels
          /\ NodesOk(tree.root, tree.depth, RootMax)
          /\ \A i \in 1..Len(Leaves) : /\ Leaves[i].len \in 1..LenLimit(Leaves[i].uninit)
                                       /\ Leaves[i].lblk \in Logical
          /\ file \in [Logical -> Map!Mapping \cup {Map!Hole}]

\* The extents are in order and do not overlap, so they are a map, and it is
\* the map that the calls have built: each call that returned 0 did what it
\* was asked, one that ran out of space half way changed nothing
\* (ext2fs_extent_set_bmap with its rollback, ext2fs_punch_extent).  The nodes
\* are as large as they may be (TypeOK).
Mapped(leaves) == {<<leaves[i].lblk + j, leaves[i].pblk + j, leaves[i].uninit>> :
                     <<i, j>> \in {<<a, b>> \in (1..Len(leaves)) \X (0..MaxLen) : b < leaves[a].len}}
MapRight ==
    /\ TypeOK
    /\ \A i \in 1..(Len(Leaves) - 1) : Leaves[i].lblk + Leaves[i].len <= Leaves[i + 1].lblk
    /\ Mapped(Leaves) = {<<l, file[l].pblk, file[l].uninit>> : l \in {m \in Logical : file[m] # Map!Hole}}

\* Whoever looks for a block finds its extent, and finds nothing in a hole
\* (ext2fs_extent_goto over the indexes that ext2fs_extent_fix_parents keeps).
SearchRight == \A l \in Logical :
    LET g == Goto(Handle, 0, l)
    IN  IF file[l] = Map!Hole THEN g.err = "not_found"
        ELSE /\ ~Bad(g)
             /\ Extent(g).pblk + (l - Extent(g).lblk) = file[l].pblk
             /\ Extent(g).uninit = file[l].uninit

\* Walking from leaf to leaf visits every extent once, in order
\* (ext2fs_extent_get with NEXT_LEAF and its visit_num).
WalkRight == Walk(Handle) = Leaves

\* The blocks in use for the file are those of its tree, and i_blocks counts
\* them: nothing leaks and nothing is freed that is still mapped.
BlocksCounted == /\ tree.nodes = NodesUnder(tree.root, tree.depth)
                 /\ tree.held = {m[2] : m \in Mapped(Leaves)}
                 /\ tree.iblk = tree.nodes + Cardinality(tree.held)
=============================================================================
