------------------------------ MODULE ExtentTree ------------------------------
(* The extent tree of an inode and the handle that moves over it             *)
(* (src/libext2fs/extent.c): pure operators from a handle to a handle.       *)
(*                                                                           *)
(* A node is a sequence of entries, sorted: in a leaf extents                *)
(* [lblk, pblk, len, uninit], above it indexes [lblk, kids], with the child  *)
(* in place of its block number.  A handle is a record:                      *)
(*   root, depth   the tree; the root lies in the inode                      *)
(*   level         handle->level, 0 at the root                              *)
(*   path[k]       curr (0: none), visit_num and end_blk at level k.  `left' *)
(*                 is always what follows curr, so it is not kept            *)
(*   nodes, iblk   blocks allocated to nodes; what i_blocks counts           *)
(*   room          how many more nodes the volume has blocks for               *)
(*   held          the data blocks marked in use for this file               *)
(*   err           what the last call returned                               *)
(* An operator given a handle with an error returns it as it is: that is the *)
(* `goto done' of the code.  Ok(h) is where the code ignores an error.       *)
(* Transfers do not fail here, so a buffer of the path always equals its     *)
(* block; only an allocation fails.                                          *)
EXTENDS SequencesExt, Integers

CONSTANTS RootMax,   \* extents that i_block holds (4)
          NodeMax,   \* extents that a block holds
          MaxLen,    \* EXT_INIT_MAX_LEN; EXT_UNINIT_MAX_LEN is one less
          Levels,    \* bound: the deepest tree
          Wide,      \* stands for 2^32: e_len is a __u32
          LastBlock  \* the last block of the volume

ASSUME TreeAssumption == /\ RootMax \in Nat /\ RootMax >= 2
                         /\ NodeMax \in Nat /\ NodeMax > RootMax
                         /\ MaxLen \in Nat /\ MaxLen >= 3
                         /\ Levels \in Nat /\ Wide \in Nat /\ LastBlock \in Nat

EmptyTree(room) == [root |-> <<>>, depth |-> 0, nodes |-> 0, room |-> room, iblk |-> 0,
                    held |-> {}]

\* ext2fs_extent_open2, for an inode of eof blocks.
Open(tree, eof) ==
    [level |-> 0, err |-> "none",
     path |-> [k \in 0..Levels |-> [curr |-> 0, visit |-> 1, end |-> eof]]] @@ tree

\* What is left when the handle is freed.
TreeOf(h) == [field \in DOMAIN h \ {"level", "err", "path"} |-> h[field]]

Bad(h)     == h.err # "none"
Ok(h)      == [h EXCEPT !.err = "none"]
Fail(h, e) == [h EXCEPT !.err = e]

\* The node at level k of the path.
RECURSIVE NodeAt(_, _)
NodeAt(h, k) == IF k = 0 THEN h.root ELSE NodeAt(h, k - 1)[h.path[k - 1].curr].kids

RECURSIVE WithNodeAt(_, _, _)
WithNodeAt(h, k, node) ==
    IF k = 0 THEN [h EXCEPT !.root = node]
    ELSE WithNodeAt(h, k - 1, [NodeAt(h, k - 1) EXCEPT ![h.path[k - 1].curr].kids = node])

IsLeaf(h)  == h.level = h.depth
Node(h)    == NodeAt(h, h.level)
Curr(h)    == h.path[h.level].curr
Entries(h) == Len(Node(h))
Left(h)    == Entries(h) - Curr(h)
RoomAsInBlock(h, k) == NodeMax - Len(NodeAt(h, k)) \* mutant
Room(h, k) == (IF k = 0 THEN RootMax ELSE NodeMax) - Len(NodeAt(h, k))
At(h, c)   == [h EXCEPT !.path[h.level].curr = c]

\* An index covers what comes before the next one, or before end_blk.
EndBlk(h) == IF Left(h) > 0 THEN Node(h)[Curr(h) + 1].lblk ELSE h.path[h.level].end

\* What ext2fs_extent_get returns where the handle is.
Extent(h) == LET entry == Node(h)[Curr(h)]
             IN  IF IsLeaf(h) THEN entry
                 ELSE [lblk |-> entry.lblk, len |-> (EndBlk(h) - entry.lblk) % Wide]

Covers(x, b) == b \in x.lblk..(x.lblk + x.len - 1)

-----------------------------------------------------------------------------
\* ext2fs_extent_get: one case of its switch each

NextSibVisited(h) == IF Left(h) <= 0 THEN Fail(h, "no_next") \* mutant
                     ELSE [h EXCEPT !.path[h.level].curr = @ + 1]
NextSib(h) == IF Left(h) <= 0 THEN Fail(h, "no_next")
              ELSE [h EXCEPT !.path[h.level].curr = @ + 1, !.path[h.level].visit = 0]

FirstExtent(h) == NextSib([h EXCEPT !.level = 0, !.path[0].curr = 0])

PrevSib(h) == IF Curr(h) = 0 \/ Left(h) + 1 >= Entries(h) THEN Fail(h, "no_prev")
              ELSE [h EXCEPT !.path[h.level].curr = @ - 1,
                             !.path[h.level].visit = IF IsLeaf(h) THEN @ ELSE 1]

Up(h) == [h EXCEPT !.level = @ - 1]

Down(h, last) ==
    LET kids == Node(h)[Curr(h)].kids
        inner == h.level + 1 < h.depth
    IN  [h EXCEPT !.level = @ + 1,
                  !.path[h.level + 1] = [curr  |-> IF last THEN Len(kids) ELSE 1,
                                         visit |-> IF last /\ inner THEN 1 ELSE 0,
                                         end   |-> EndBlk(h)]]

\* EXT2_EXTENT_NEXT_LEAF: a node is entered when its index is first visited.
RECURSIVE NextLeaf(_)
NextLeaf(h) ==
    IF Bad(h) THEN h
    ELSE LET inner == ~IsLeaf(h)
             n == IF inner /\ h.path[h.level].visit = 0
                  THEN Down([h EXCEPT !.path[h.level].visit = 1], FALSE)
                  ELSE IF Left(h) > 0 THEN NextSib(h)
                  ELSE IF h.level > 0 THEN Up(h) ELSE Fail(h, "no_next")
         IN  IF Bad(n) \/ IsLeaf(n) THEN n ELSE NextLeaf(n)

RECURSIVE PrevLeaf(_)
PrevLeaf(h) ==
    IF Bad(h) THEN h
    ELSE LET inner == ~IsLeaf(h)
             n == IF inner /\ h.path[h.level].visit > 0 THEN Down(h, TRUE)
                  ELSE IF Left(h) < Entries(h) - 1 THEN PrevSib(h)
                  ELSE IF h.level > 0 THEN [Up(h) EXCEPT !.path[h.level - 1].visit = 0]
                  ELSE Fail(h, "no_prev")
         IN  IF Bad(n) \/ IsLeaf(n) THEN n ELSE PrevLeaf(n)

\* ext2fs_extent_goto2: to the entry over block b, height levels above the
\* leaves.  In a hole the handle is left at the last extent before b.
RECURSIVE Seek(_, _, _)
Seek(h, height, b) ==
    LET n == NextSib(h)
    IN  IF h.depth - h.level = height
        THEN IF Covers(Extent(h), b) THEN h
             ELSE IF b < Extent(h).lblk THEN Fail(PrevSib(h), "not_found")
             ELSE IF Bad(n) THEN Fail(n, "not_found")
             ELSE Seek(n, height, b)
        ELSE IF Bad(n) THEN Seek(Down(h, FALSE), height, b)
             ELSE IF b > Extent(n).lblk THEN Seek(n, height, b)
             ELSE Seek(Down(IF b = Extent(n).lblk THEN n ELSE PrevSib(n), FALSE), height, b)

Goto(h, height, b) ==
    IF Bad(h) THEN h
    ELSE LET r == FirstExtent(h)
         IN  IF Bad(r) THEN Fail(r, "not_found")
             ELSE IF height > h.depth THEN Fail(r, "not_supported")
             ELSE Seek(r, height, b)

-----------------------------------------------------------------------------
\* Changes to the tree

\* ext2fs_extent_replace.  An index keeps its child.
LenLimit(uninit) == IF uninit THEN MaxLen - 1 ELSE MaxLen

Replace(h, x) ==
    IF Bad(h) THEN h
    ELSE IF Curr(h) = 0 THEN Fail(h, "no_current")
    ELSE IF ~IsLeaf(h)
         THEN WithNodeAt(h, h.level, [Node(h) EXCEPT ![Curr(h)].lblk = x.lblk])
    ELSE IF x.len > LenLimit(x.uninit)
         THEN Fail(WithNodeAt(h, h.level, [Node(h) EXCEPT ![Curr(h)].lblk = x.lblk,
                                                          ![Curr(h)].pblk = x.pblk]), "length")
    ELSE WithNodeAt(h, h.level, [Node(h) EXCEPT ![Curr(h)] = x])

\* ext2fs_extent_fix_parents: as long as the handle is at the first entry of
\* its node, the index above starts where that entry starts.
RECURSIVE FixUp(_, _)
FixUp(h, start) ==
    IF h.level > 0 /\ Curr(h) = 1
    THEN LET u == Up(h)
         IN  IF Extent(u).lblk = start THEN u
             ELSE FixUp(Replace(u, [lblk |-> start]), start)
    ELSE h

FixParentsNot(h) == IF Curr(h) = 0 THEN Fail(h, "no_current") ELSE h \* mutant
FixParents(h) ==
    IF Bad(h) THEN h
    ELSE IF Curr(h) = 0 THEN Fail(h, "no_current")
    ELSE Goto(FixUp(h, Extent(h).lblk), h.depth - h.level, Extent(h).lblk)

\* splitting_at_eof: nothing follows at any level of the path.
AtEof(h) == \A k \in 0..h.level : h.path[k].curr = Len(NodeAt(h, k))

\* ext2fs_extent_delete.  A node that loses its last entry goes, and so does
\* the index to it; the handle stays where the index was.
RECURSIVE Delete(_)
Delete(h) ==
    IF Bad(h) THEN h
    ELSE IF Curr(h) = 0 THEN Fail(h, "no_current")
    ELSE LET rest == RemoveAt(Node(h), Curr(h))
             d == At(WithNodeAt(h, h.level, rest),
                     IF Left(h) > 0 THEN Curr(h) ELSE Curr(h) - 1)
         IN  IF rest # <<>> THEN d
             ELSE IF h.level = 0 THEN [d EXCEPT !.depth = 0]
             ELSE [Delete(Up(d)) EXCEPT !.nodes = @ - 1, !.room = @ + 1, !.iblk = @ - 1, !.err = "none"]

\* extent_node_split and ext2fs_extent_insert call each other: to insert in a
\* full node it is split first, after its parent if that is full as well.
\* Half of the entries move to a new node, only the last one if the tree
\* grows at its end, all of them if the node is the root.  What is inserted has
\* a length that ext2fs_extent_replace takes, so nothing is deleted again.
RECURSIVE Split(_)
RECURSIVE Insert(_, _, _)

Moved(h) == IF h.level = 0 THEN Entries(h)
            ELSE IF AtEof(h) THEN 1 ELSE Entries(h) \div 2

Hang(h, kept, new) ==
    IF h.level = 0
    THEN [h EXCEPT !.root = <<new>>, !.depth = @ + 1,
                   !.path[0].curr = 1, !.path[0].visit = 0]
    ELSE Insert(Up(WithNodeAt(h, h.level, kept)), TRUE, new)

\* The inode's block count, once the new node hangs in the tree.
Counted(h) == IF Bad(h) THEN h ELSE [h EXCEPT !.iblk = @ + 1]

\* The node of handle s is split; its parent has room.
SplitNode(s, height, start) ==
    LET kept  == Entries(s) - Moved(s)
        moved == SubSeq(Node(s), kept + 1, Entries(s))
    IN  IF Bad(s) THEN s
        ELSE IF s.room = 0 THEN Fail(s, "full")
        ELSE Counted(Goto(Hang([s EXCEPT !.room = @ - 1, !.nodes = @ + 1],
                               SubSeq(Node(s), 1, kept),
                               [lblk |-> moved[1].lblk, kids |-> moved]),
                          height, start))

Split(h) ==
    LET height == h.depth - h.level
        start  == Extent(h).lblk
        full   == h.level > 0 /\ Room(h, h.level - 1) <= 0
    IN  IF Curr(h) = 0 THEN Fail(h, "no_current")
        ELSE SplitNode(IF full THEN Goto(Split(Up(h)), height, start) ELSE h, height, start)

\* x goes before or after the current entry of a node that has room.
Place(s, after, x) ==
    LET c == IF Curr(s) = 0 THEN 1 ELSE IF after THEN Curr(s) + 1 ELSE Curr(s)
    IN  IF Bad(s) THEN s ELSE At(WithNodeAt(s, s.level, InsertAt(Node(s), c, x)), c)

Insert(h, after, x) ==
    IF Bad(h) THEN h ELSE Place(IF Room(h, h.level) <= 0 THEN Split(h) ELSE h, after, x)

-----------------------------------------------------------------------------
\* What the tree holds

RECURSIVE LeavesOf(_, _)
LeavesOf(node, depth) ==
    IF depth = 0 THEN node
    ELSE FlattenSeq([i \in 1..Len(node) |-> LeavesOf(node[i].kids, depth - 1)])

RECURSIVE NodesUnder(_, _)
NodesUnder(node, depth) ==
    IF depth = 0 THEN 0
    ELSE Len(node) + FoldLeft(LAMBDA n, x : n + NodesUnder(x.kids, depth - 1), 0, node)

\* ext2fs_extent_get from the root with NEXT_LEAF until there is no next one.
RECURSIVE WalkFrom(_)
WalkFrom(h) == IF Bad(h) THEN <<>> ELSE <<Extent(h)>> \o WalkFrom(NextLeaf(h))
Walk(h) == LET r == FirstExtent(h)
           IN  IF Bad(r) THEN <<>> ELSE WalkFrom(IF IsLeaf(r) THEN r ELSE NextLeaf(r))
=============================================================================
