------------------------------- MODULE ExtentMap -------------------------------
(* What the extent tree of src/libext2fs/extent.c promises to the rest of    *)
(* the library: a map from the logical blocks of a file to physical ones.    *)
(* A block is mapped or not, a mapped one is initialised or not, and a call  *)
(* that fails leaves the map as it was.                                      *)
EXTENDS Integers

CONSTANTS Logical,  \* logical blocks of the file
          Physical  \* blocks of the volume

Hole    == [pblk |-> 0, uninit |-> FALSE]
Mapping == [pblk : Physical, uninit : BOOLEAN]

VARIABLE map

Init == map = [l \in Logical |-> Hole]

\* ext2fs_extent_set_bmap: one block gets a mapping, or loses it (p = 0).
SetBmap(l, p, u) ==
    map' = [map EXCEPT ![l] = IF p = 0 THEN Hole ELSE [pblk |-> p, uninit |-> u]]

\* ext2fs_punch: the blocks from start to end lose theirs.
Punch(start, end) == map' = [l \in Logical |-> IF l \in start..end THEN Hole ELSE map[l]]

Next == \/ \E l \in Logical, p \in Physical \cup {0}, u \in BOOLEAN : SetBmap(l, p, u)
        \/ \E start, end \in Logical : Punch(start, end)

Spec == Init /\ [][Next]_map
=============================================================================
