------------------------------- MODULE BitArray -------------------------------
(* What a bitmap backend promises (src/libext2fs/bmap64.h: ext2_bitmap_ops,  *)
(* and its plain backend src/libext2fs/blkmap64_ba.c): a set of the numbers  *)
(* 0..end, where 0 stands for bitmap->start.                                 *)
EXTENDS Integers

CONSTANT MaxBit  \* the largest bit a bitmap may ever have

VARIABLES bits,  \* the bits that are set
          end    \* the last bit

vars == <<bits, end>>

Range(s, n) == s..(s + n - 1)

Init == end \in 0..MaxBit /\ bits = {}

Mark(s, n)   == bits' = bits \cup Range(s, n) /\ UNCHANGED end
Unmark(s, n) == bits' = bits \ Range(s, n) /\ UNCHANGED end

\* set_bmap_range, of a bitmap block into bits that are clear from there on.
Load(s) == /\ (s..end) \cap bits = {}
           /\ bits' \subseteq 0..end
           /\ bits \subseteq bits' /\ \A b \in bits' \ bits : b >= s
           /\ UNCHANGED end

Clear == bits' = {} /\ UNCHANGED end

\* Bits beyond the old end come up clear.
Resize(new_end) == end' = new_end /\ bits' = {b \in bits : b <= new_end}

Next == \/ \E s \in 0..end : \E n \in 1..(end - s + 1) :
             Mark(s, n) \/ Unmark(s, n)
        \/ \E s \in 0..end : Load(s)
        \/ Clear
        \/ \E new_end \in 0..MaxBit : Resize(new_end)

Spec == Init /\ [][Next]_vars

-----------------------------------------------------------------------------
\* What the queries answer.

Nowhere == -1      \* ENOENT

First(S) == IF S = {} THEN Nowhere ELSE CHOOSE b \in S : \A c \in S : b <= c

Test(b)         == b \in bits
TestClear(s, n) == bits \cap Range(s, n) = {}
GetRange(s, n)  == bits \cap Range(s, n)
FirstZero(s, e) == First((s..e) \ bits)
FirstSet(s, e)  == First((s..e) \cap bits)
=============================================================================
