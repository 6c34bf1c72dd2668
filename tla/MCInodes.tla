------------------------------- MODULE MCInodes -------------------------------
(* Two groups of inodes for TLC: which of the second one's are in use, whether *)
(* it has a table, the blocks that are bad and what the scan is asked for.     *)
EXTENDS Inodes

Layout(unused, uninit, missing, bad, lazy, warn, skip) ==
    [unused |-> [g \in 0..(Groups - 1) |-> IF g = Groups - 1 THEN unused ELSE 0],
     uninit |-> uninit, missing |-> missing, bad |-> bad, lazy |-> lazy, warn |-> warn, skip |-> skip]

MCLayouts ==
    {Layout(0, {}, {}, {}, FALSE, FALSE, FALSE), Layout(1, {}, {}, {}, TRUE, TRUE, FALSE),
     Layout(0, {1}, {}, {}, TRUE, FALSE, FALSE), Layout(0, {}, {1}, {}, FALSE, FALSE, TRUE),
     Layout(0, {}, {1}, {}, FALSE, FALSE, FALSE), Layout(0, {}, {}, {}, FALSE, TRUE, FALSE)}
      \cup {Layout(0, {}, {}, bad, FALSE, FALSE, FALSE) : bad \in {{2}, {2, 3}, {1, 6}}}
=============================================================================
