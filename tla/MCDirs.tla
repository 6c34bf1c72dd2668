-------------------------------- MODULE MCDirs --------------------------------
(* Directories for TLC: blocks of 1024 bytes, names of which three fit in one, *)
(* short ones, and two with the hash of a third.                               *)
EXTENDS Dirs

Long == {"a", "b", "c", "d", "e", "f"}
MCNames == Long \cup {"x", "y"}
MCSizeOf == [n \in MCNames |-> CASE n \in Long -> 66 [] n = "x" -> 3 [] OTHER -> 60]
MCHashOf == [n \in MCNames |-> CASE n = "a" -> 2 [] n \in {"b", "c", "x"} -> 4
                                 [] n \in {"d", "y"} -> 6 [] n = "e" -> 8 [] OTHER -> 10]
MCLinkKind == [n \in MCNames |-> CASE n = "a" -> "inline" [] n \in {"d", "y"} -> "slow" [] OTHER -> "fast"]

\* One leaf with the entries given, the last one to the end.
Block(ents) == Leaf([ents EXCEPT ![Len(ents)].len = Room - Length(SubSeq(ents, 1, Len(ents) - 1))] \o TailEnts)
MCLayouts ==
    {<<Block(<<Used("x", 1, 3), Used("a", 2, 66), Used("b", 3, 66)>>)>>,
     <<Block(<<Free(20), Used("x", 1, 3), Free(40), Free(30), Used("y", 2, 66), Used("f", 3, 66)>>)>>,
     <<Node(<<Pointer(0, 1)>>, 0), Block(<<Used("d", 1, 66), Used("a", 2, 66), Used("b", 3, 66)>>)>>,
     <<Node(<<Pointer(0, 1), Pointer(4, 2)>>, 0), Block(<<Used("a", 1, 66)>>),
       Block(<<Used("d", 2, 66), Free(10), Used("e", 3, 80)>>)>>,
     <<Node(<<Pointer(0, 3)>>, 1), Block(<<Used("a", 1, 66)>>),
       Block(<<Used("b", 2, 66), Used("d", 3, 70), Used("c", 6, 66)>>),
       Node(<<Pointer(0, 1), Pointer(4, 2), Pointer(8, 4)>>, 0), Block(<<Used("e", 4, 70), Used("f", 5, 66)>>)>>}
MCLayoutsFrom0 == {[b \in 0..(Len(l) - 1) |-> l[b + 1]] : l \in MCLayouts}
=============================================================================
