------------------------------- MODULE RbBitmap -------------------------------
(* src/libext2fs/blkmap64_rb.c: a bitmap kept as a tree of extents, with     *)
(* three cursors that remember where the last mark and the last tests were.  *)
(* The tree (src/libext2fs/rbtree.c) is the set of its extents, ordered by   *)
(* start.  An extent has an identity, its address, which a later allocation  *)
(* may use again; allocation does not fail.  GenBitmap has the callers       *)
(* (src/libext2fs/gen_bitmap64.c), and with them the next-state relation.    *)
EXTENDS Integers, FiniteSetsExt

CONSTANTS MaxBit,  \* bound: the largest real_end
          NIds     \* bound: addresses of extents

Ids == 1..NIds
Nil == 0

ASSUME MaxBitAssumption == MaxBit \in Nat
\* Extents do not touch; one more is there while a mark joins others.
ASSUME NIdsAssumption   == NIds \in Nat /\ 2 * NIds > MaxBit + 2

VARIABLES bp,        \* struct ext2fs_rb_private: the tree and its cursors
          end,       \* bitmap->end
          real_end,  \* bitmap->real_end: the padding ends there
          todo       \* bits that rb_set_bmap_range has yet to insert

vars == <<bp, end, real_end, todo>>

Live(p)    == DOMAIN p.ext
Start(p, k) == p.ext[k].start
Stop(p, k) == p.ext[k].start + p.ext[k].count

NewId(p) == CHOOSE k \in Ids \ Live(p) : \A j \in Ids \ Live(p) : k <= j

\* rb_free_extent drops the cursors that point to the extent.
Kept(cursor, gone) == cursor                                        \* mutant
Forget(cursor, gone) == IF cursor \in gone THEN Nil ELSE cursor

Contains(p, k, bit) == k \in Live(p) /\ Start(p, k) <= bit /\ bit < Stop(p, k)
Holders(p, bit)     == {k \in Live(p) : Contains(p, k, bit)}

\* ext2fs_rb_next
After(p, k) == {j \in Live(p) : Start(p, j) > Start(p, k)}
Successor(p, k) == IF After(p, k) = {} THEN Nil
                   ELSE CHOOSE j \in After(p, k) :
                          \A i \in After(p, k) : Start(p, j) <= Start(p, i)

-----------------------------------------------------------------------------
\* rb_insert_extent: the extent that starts at or before the new bits and
\* reaches them grows, or a new one is made; what it now touches is merged.
Near(p, start) == {k \in Live(p) : Start(p, k) <= start /\ start <= Stop(p, k)}

EatenInside(p, home, lo, hi) ==                                     \* mutant
    {k \in Live(p) \ {home} : lo <= Start(p, k) /\ Start(p, k) < hi}
Eaten(p, home, lo, hi) ==
    {k \in Live(p) \ {home} : lo <= Start(p, k) /\ Start(p, k) <= hi}

Grown(p, start, count) ==
    LET near  == Near(p, start)
        home  == IF p.w \in near THEN p.w
                 ELSE IF near # {} THEN CHOOSE k \in near : TRUE ELSE NewId(p)
        lo    == IF near = {} THEN start ELSE Start(p, home)
        eaten == Eaten(p, home, lo, start + count)
        hi    == Max({start + count} \cup {Stop(p, k) : k \in eaten})
    IN  [ext |-> [k \in (Live(p) \cup {home}) \ eaten |->
                    IF k = home THEN [start |-> lo, count |-> hi - lo] ELSE p.ext[k]],
         w   |-> IF near = {} THEN home ELSE Forget(p.w, eaten),
         r   |-> Forget(p.r, eaten),
         rn  |-> Forget(p.rn, eaten)]

InsertedKeepsNext(p, start, count) ==                               \* mutant
    IF count = 0 \/ \E k \in Near(p, start) : start + count <= Stop(p, k) THEN p
    ELSE Grown(p, start, count)
Inserted(p, start, count) ==
    LET q == [p EXCEPT !.rn = Nil]
    IN  IF count = 0 THEN p
        ELSE IF \E k \in Near(p, start) : start + count <= Stop(p, k) THEN q
        ELSE Grown(q, start, count)

\* rb_remove_extent: an extent that sticks out on both sides is split, the
\* extents inside go, and those at the edges are cut.
Gone(p, start, stop) == {k \in Live(p) : start <= Start(p, k) /\ Stop(p, k) <= stop}

Cut(x, start, stop) ==
    LET from  == IF start <= x.start /\ x.start < stop THEN stop ELSE x.start
        until == IF x.start < start /\ start < x.start + x.count
                 THEN start ELSE x.start + x.count
    IN  [start |-> from, count |-> until - from]

Removed(p, start, count) ==
    LET stop  == start + count
        split == {k \in Live(p) : Start(p, k) < start /\ stop < Stop(p, k)}
        gone  == Gone(p, start, stop)
    IN  IF split # {}
        THEN LET k == CHOOSE k \in split : TRUE
             IN  Inserted([p EXCEPT !.ext[k].count = start - Start(p, k)],
                          stop, Stop(p, k) - stop)
        ELSE [ext |-> [k \in Live(p) \ gone |-> Cut(p.ext[k], start, stop)],
              w   |-> Forget(p.w, gone),
              r   |-> Forget(p.r, gone),
              rn  |-> Forget(p.rn, gone)]

\* The tree with its read cursors set.
ReadAt(p, r, rn) == [ext |-> p.ext, w |-> p.w, r |-> r, rn |-> rn]

\* rb_test_bit: the read cursor answers for its extent and the gap after it,
\* the write cursor for its own extent, and only when the read cursor is set.
Tested(p, bit) ==
    LET found    == Holders(p, bit)
        next     == IF p.rn # Nil THEN p.rn ELSE Successor(p, p.r)
        in_gap   == next \in Live(p) /\ Stop(p, p.r) <= bit /\ bit < Start(p, next)
        moved    == ReadAt(p, Nil, Nil)
        Search(q) == [ans |-> found # {},
                      bp  |-> IF found = {} THEN q
                              ELSE ReadAt(q, CHOOSE k \in found : TRUE, Nil)]
    IN  IF p.r = Nil THEN Search(p)
        ELSE IF Contains(p, p.r, bit) THEN [ans |-> TRUE, bp |-> p]
        ELSE IF in_gap THEN [ans |-> FALSE, bp |-> ReadAt(p, p.r, next)]
        ELSE IF Contains(moved, p.w, bit) THEN [ans |-> TRUE, bp |-> moved]
        ELSE Search(moved)

\* rb_truncate leaves the cursors alone.
Truncated(p, new_max) ==
    [p EXCEPT !.ext = [k \in {k \in Live(p) : Start(p, k) <= new_max} |->
                         [start |-> Start(p, k),
                          count |-> Min({Stop(p, k), new_max + 1}) - Start(p, k)]]]

-----------------------------------------------------------------------------
\* The operations

Fresh == [ext |-> <<>>, w |-> Nil, r |-> Nil, rn |-> Nil]

\* rb_new_bmap
Init == /\ real_end \in 0..MaxBit
        /\ end \in 0..real_end
        /\ bp = Fresh
        /\ todo = {}

Ready == todo = {}

\* rb_mark_bmap, rb_mark_bmap_extent
Mark(s, n) == Ready /\ bp' = Inserted(bp, s, n) /\ UNCHANGED <<end, real_end, todo>>

\* rb_unmark_bmap, rb_unmark_bmap_extent
Unmark(s, n) == Ready /\ bp' = Removed(bp, s, n) /\ UNCHANGED <<end, real_end, todo>>

\* rb_test_bmap
Test(b) == Ready /\ bp' = Tested(bp, b).bp /\ UNCHANGED <<end, real_end, todo>>

\* rb_set_bmap_range inserts the runs of ones of the buffer and removes
\* nothing: its caller, read_bitmaps in rw_bitmaps.c, fills a clear range.
SetRange(s, in) == /\ Ready
                   /\ in # {}
                   /\ \A b \in s..end : Holders(bp, b) = {}
                   /\ todo' = in
                   /\ UNCHANGED <<bp, end, real_end>>

SetRun == /\ todo # {}
          /\ LET first == Min(todo)
                 stop  == Min({b \in first..(real_end + 1) : b \notin todo})
             IN  /\ bp' = Inserted(bp, first, stop - first)
                 /\ todo' = todo \ (first..(stop - 1))
          /\ UNCHANGED <<end, real_end>>

\* rb_clear_bmap
Clear == Ready /\ bp' = Fresh /\ UNCHANGED <<end, real_end, todo>>

TruncatedAtEnd(p, new_end) == Truncated(p, Min({new_end, end}))

\* rb_resize_bmap also marks the padding.
Resize(new_end, new_real_end) ==
    /\ Ready
    /\ LET p == TruncatedAtEnd([ReadAt(bp, Nil, bp.rn) EXCEPT !.w = Nil], new_end)
       IN  bp' = Inserted(p, new_end + 1, new_real_end - new_end)
    /\ end' = new_end
    /\ real_end' = new_real_end
    /\ UNCHANGED todo

\* rb_copy_bmap: the one that is looked at from now on is the source, which
\* loses a cursor, or the copy, which has none.
Copy == /\ Ready
        /\ \/ bp' = [bp EXCEPT !.r = Nil]
           \/ bp' = [Fresh EXCEPT !.ext = bp.ext]
        /\ UNCHANGED <<end, real_end, todo>>

-----------------------------------------------------------------------------
\* The queries that change nothing

\* rb_insert_extent's return value, for one bit.
MarkAnswer(b) == \E k \in Near(bp, b) : b < Stop(bp, k)

\* rb_test_clear_bmap_extent
TestClear(s, n) == /\ Holders(bp, s) = {}
                   /\ \A k \in Live(bp) : Stop(bp, k) <= s \/ s + n <= Start(bp, k)

\* rb_get_bmap_range, on a tree that is not empty.
GetRange(s, n) == UNION {Max({s, Start(bp, k)})..(Min({s + n, Stop(bp, k)}) - 1) :
                           k \in Live(bp)}

Nowhere == -1      \* ENOENT

\* rb_find_first_zero, on a tree that is not empty.
FirstZero(s, e) ==
    IF Holders(bp, s) = {} THEN s
    ELSE LET stop == Stop(bp, CHOOSE k \in Holders(bp, s) : TRUE)
         IN  IF stop <= e THEN stop ELSE Nowhere

\* rb_find_first_set
FirstSet(s, e) ==
    LET later == {Start(bp, k) : k \in {k \in Live(bp) : s < Start(bp, k)}}
    IN  IF Holders(bp, s) # {} THEN s
        ELSE IF later # {} /\ Min(later) <= e THEN Min(later)
        ELSE Nowhere

-----------------------------------------------------------------------------
\* Properties

\* check_tree (blkmap64_rb.c:81-143): extents neither overlap nor touch, or
\* the searches by start, which look at one extent, would miss bits; none is
\* empty or beyond real_end, and (the types) the addresses suffice.
WellFormed ==
    /\ end \in 0..MaxBit /\ real_end \in end..MaxBit /\ todo \subseteq 0..real_end
    /\ Live(bp) \subseteq Ids /\ Live(bp) # Ids
    /\ {bp.w, bp.r, bp.rn} \subseteq Ids \cup {Nil}
    /\ \A k \in Live(bp) : /\ Start(bp, k) >= 0 /\ bp.ext[k].count > 0
                           /\ Stop(bp, k) <= real_end + 1
    /\ \A j, k \in Live(bp) :
         j # k => Stop(bp, j) < Start(bp, k) \/ Stop(bp, k) < Start(bp, j)

\* A cursor never outlives its extent, and rcursor_next is the extent right
\* after rcursor: rb_test_bit answers from them without looking at the tree, and
\* all searches rely on extents that are apart (WellFormed).
CursorsRight ==
    /\ WellFormed
    /\ {bp.w, bp.r} \subseteq Live(bp) \cup {Nil}
    /\ bp.r # Nil /\ bp.rn # Nil => bp.rn = Successor(bp, bp.r)
=============================================================================
