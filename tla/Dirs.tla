--------------------------------- MODULE Dirs ---------------------------------
(* Directories: src/libext2fs/link.c, dir_iterate.c, dirblock.c, lookup.c and  *)
(* symlink.c, the tails of csum.c, and readdir and lookup of                   *)
(* src/e2fsmac/vnops.c.                                                        *)
(*                                                                             *)
(* A block of a directory is entries one after another that fill it, the last  *)
(* one for the checksum; in an indexed directory it may be a node instead,     *)
(* which every walk takes for one unused entry.  Lengths are in units of four  *)
(* bytes, as every rec_len is.  ext2fs_symlink makes an inode and links it; a  *)
(* call runs alone, but it writes one block at a time and any of these writes  *)
(* may fail, which ends the call where it is.                                  *)
EXTENDS Integers, Sequences, FiniteSets, SequencesExt

CONSTANTS Names,      \* names of entries
          NoName,     \* what an unused entry has
          TailName,   \* EXT2_DIR_NAME_LEN_CSUM
          SizeOf,     \* [Names -> Nat]: EXT2_DIR_REC_LEN of a name
          HashOf,     \* [Names -> Nat]: ext2fs_dirhash2, which is even
          LinkKind,   \* [Names -> {"fast", "inline", "slow"}]: by the target's length
          BlockLen,   \* fs->blocksize
          TailLen,    \* of the ext2_dir_entry_tail, 0 without metadata_csum
          RootLimit, NodeLimit,  \* bound: entries of the root and of a node
          MaxLevels,  \* ext2_dir_htree_level
          MaxBlocks,  \* bound: blocks the volume has for the directory
          MaxIno,     \* bound: inodes
          Layouts,    \* the directories there may be at the start
          Uses,       \* "blocks": directories of several blocks are read
          Faults,     \* which writes may fail
          MaxFaults   \* bound: calls that fail

ASSUME DirsAssumption ==
    /\ \A n \in Names : SizeOf[n] \in 3..66 /\ HashOf[n] % 2 = 0
    /\ TailLen \in {0, 3} /\ {RootLimit, NodeLimit, MaxLevels, MaxBlocks, MaxIno} \subseteq Nat \ {0}
    /\ Uses \subseteq {"blocks"}
    /\ Faults \subseteq {"add", "newleaf", "oldleaf", "leafparent", "root",
                         "newroot", "nodeparent", "oldnode", "newnode"}
    /\ NoName \notin Names /\ TailName \notin Names

VARIABLES disk,    \* the blocks of the directory
          size,    \* i_size / blocksize
          used,    \* inodes in use in the bitmap
          data,    \* inodes whose data block is in use in the bitmap
          pc, op,  \* the call that runs
          rd,      \* a reader of the directory: its offset and what it was given
          linked,  \* the <<name, inode>> of the calls that returned 0
          last,    \* the call that ended last
          faults   \* how many calls failed at a write

vars == <<disk, size, used, data, pc, op, rd, linked, last, faults>>

-----------------------------------------------------------------------------
\* Blocks

Used(name, ino, len) == [name |-> name, ino |-> ino, len |-> len]
Free(len)            == Used(NoName, 0, len)
TailEnts == IF TailLen = 0 THEN <<>> ELSE <<Used(TailName, 0, TailLen)>>
Room     == BlockLen - TailLen

Leaf(ents)        == [ents |-> ents, idx |-> <<>>, levels |-> 0]
Node(idx, levels) == [ents |-> <<>>, idx |-> idx, levels |-> levels]
Zero              == Leaf(<<>>)                      \* EXT2_FALLOCATE_ZERO_BLOCKS
IsNode(b)         == b.idx # <<>>
Pointer(hash, blk) == [hash |-> hash, blk |-> blk]

Length(ents) == FoldSeq(LAMBDA e, n : e.len + n, 0, ents)
IsUsed(e)    == e.ino # 0
IsTail(e)    == e.ino = 0 /\ e.name = TailName

\* ext2fs_read_dir_block4 and the checks of ext2fs_process_dir_block: a block
\* that was never written has entries of length 0 and no checksum.
Readable(b) == b # Zero

\* __get_dirent_tail and __get_dx_countlimit: a block is written if its entries
\* end where the checksum is, or if its count of pointers is sane.
TailFits(b) == \/ IsNode(b) /\ Len(b.idx) <= NodeLimit
               \/ ~IsNode(b) /\ Length(b.ents) = BlockLen
                  /\ (TailLen # 0 => IsTail(b.ents[Len(b.ents)]))

-----------------------------------------------------------------------------
\* Walking and looking up

\* What ext2fs_dir_iterate without flags calls its function with.
Walk(b) == SelectSeq(b.ents, IsUsed)
OffsetOf(b, k) == Length(SubSeq(b.ents, 1, k - 1))

\* ext2fs_lookup with lookup_proc: the blocks in order, to the first that has
\* the name or cannot be read.
Lookup(name) ==
    LET stop == {b \in 0..(size - 1) :
                    ~Readable(disk[b]) \/ \E k \in 1..Len(disk[b].ents) : disk[b].ents[k].name = name}
        b == CHOOSE x \in stop : \A y \in stop : x <= y
    IN  IF stop = {} THEN [found |-> FALSE, err |-> "notfound"]
        ELSE IF ~Readable(disk[b]) THEN [found |-> FALSE, err |-> "corrupt"]
        ELSE [found |-> TRUE, err |-> "none"]

-----------------------------------------------------------------------------
\* Linking into a block

\* link_proc: an unused entry is absorbed into the one before it.
Absorbed(ents, k) ==
    IF k < Len(ents) /\ ~IsUsed(ents[k + 1]) /\ ~IsTail(ents[k + 1])
    THEN [RemoveAt(ents, k + 1) EXCEPT ![k].len = @ + ents[k + 1].len] ELSE ents

\* link_proc over the entries from k on: a used one is cut to its length when
\* the rest has room for the name; an unused one is filled.
RECURSIVE LinkFrom(_, _, _, _)
LinkFrom(ents, k, name, ino) ==
    IF k > Len(ents) THEN [done |-> FALSE, ents |-> ents]
    ELSE IF IsTail(ents[k]) THEN LinkFrom(ents, k + 1, name, ino)
    ELSE LET s == Absorbed(ents, k)
             e == s[k]
             min == SizeOf[e.name]
         IN  IF IsUsed(e) /\ e.len >= min + SizeOf[name]
             THEN LinkFrom(InsertAt([s EXCEPT ![k].len = min], k + 1, Free(e.len - min)),
                           k + 1, name, ino)
             ELSE IF ~IsUsed(e) /\ e.len >= SizeOf[name]
             THEN [done |-> TRUE, ents |-> [s EXCEPT ![k] = Used(name, ino, e.len)]]
             ELSE LinkFrom(s, k + 1, name, ino)

LinkIn(b, name, ino) == LET r == LinkFrom(b.ents, 1, name, ino)
                        IN  [done |-> r.done, block |-> [b EXCEPT !.ents = r.ents]]

\* A write and the name of the fault it may have.
Write(blk, b, fault) == [blk |-> blk, block |-> b, fault |-> fault]

\* ext2fs_dir_iterate2 with link_proc: every block up to the one with room is
\* written if an entry of it has absorbed another.
PlainLink(name, ino) ==
    LET stop == {b \in 0..(size - 1) : ~Readable(disk[b]) \/ LinkIn(disk[b], name, ino).done}
        end  == IF stop = {} THEN size - 1 ELSE CHOOSE x \in stop : \A y \in stop : x <= y
        done(b) == LinkIn(disk[b], name, ino).block
        seen == IF stop # {} /\ ~Readable(disk[end]) THEN 0..(end - 1) ELSE 0..end
        changed == {b \in seen : done(b) # disk[b]}
    IN  [writes |-> [k \in 1..Cardinality(changed) |->
                        LET b == SetToSortSeq(changed, <)[k] IN Write(b, done(b), "add")],
         result |-> IF stop = {} THEN "nospace" ELSE IF Readable(disk[end]) THEN "ok" ELSE "corrupt"]

-----------------------------------------------------------------------------
\* The index of hashes

\* dx_search_entry, its loop.
RECURSIVE SearchLoop(_, _, _, _)
SearchLoop(idx, p, q, h) ==
    IF p > q THEN p - 1
    ELSE LET m == p + (q - p) \div 2
         IN  IF idx[m].hash > h THEN SearchLoop(idx, p, m - 1, h) ELSE SearchLoop(idx, m + 1, q, h)
\* dx_search_entry: which pointer a hash goes to; the first one has no hash.
SearchEntry(idx, h) == SearchLoop(idx, 2, Len(idx), h)

\* dx_lookup: the frames, from the root to the node above the leaf.
RECURSIVE Frames(_, _, _)
Frames(blk, levels, h) ==
    LET f == [blk |-> blk, at |-> SearchEntry(disk[blk].idx, h)]
    IN  IF levels = 0 THEN <<f>>
        ELSE <<f>> \o Frames(disk[blk].idx[f.at].blk, levels - 1, h)

RECURSIVE Nodes(_, _, _)
\* Whether every block on the way is a node: dx_lookup refuses another.
Nodes(blk, levels, h) ==
    /\ IsNode(disk[blk])
    /\ levels > 0 => Nodes(disk[blk].idx[SearchEntry(disk[blk].idx, h)].blk, levels - 1, h)

Levels   == disk[0].levels + 1
Path(h)  == Frames(0, disk[0].levels, h)
LeafOf(h) == LET f == Path(h)[Levels] IN disk[f.blk].idx[f.at].blk
Indexed  == IsNode(disk[0])
LimitOf(blk) == IF blk = 0 THEN RootLimit ELSE NodeLimit

\* dx_insert_entry, without its write.
Inserted(blk, at, hash, new) ==
    [disk[blk] EXCEPT !.idx = InsertAt(@, at + 1, Pointer(hash, new))]

\* dx_move_dirents: the entries packed, the last one stretched to the end.  With
\* no entry, the first one that was in the buffer before is stretched.
Packed(s, before) ==
    LET body  == IF s = <<>> THEN <<before[1]>> ELSE [k \in 1..Len(s) |-> [s[k] EXCEPT !.len = SizeOf[s[k].name]]]
        front == SubSeq(body, 1, Len(body) - 1)
    IN  Leaf([body EXCEPT ![Len(body)].len = Room - Length(front)] \o TailEnts)

\* The entries dx_split_leaf sorts, in each order qsort may leave equal hashes.
SortedByHash(b) == {s \in SetToSeqs(ToSet(Walk(b))) :
                       \A j, k \in 1..Len(s) : j < k => HashOf[s[j].name] <= HashOf[s[k].name]}

\* dx_split_leaf: the first entry to move.  From the last one on, entries move
\* while at least half of the entry fits in half a block.
SplitAt(s) ==
    LET stays(k) == 2 * Length(SubSeq(s, k + 1, Len(s))) + s[k].len > BlockLen
        stay     == {k \in 1..Len(s) : stays(k)}
    IN  IF stay = {} THEN 1 ELSE 1 + CHOOSE k \in stay : \A j \in stay : j <= k

NeverContinued(s, at) == {0}                                    \* mutant
\* dx_split_leaf: whether the leaf goes on with the hash the one before ends
\* with.  When every entry moves, it reads the element before the array.
Continued(s, at) == IF at = 1 THEN {0, 1}
                    ELSE IF HashOf[s[at].name] = HashOf[s[at - 1].name] THEN {1} ELSE {0}

\* dx_split_leaf: the new leaf, the old one and the node above, in this order.
SplitLeaf(frame, leaf, b, new) ==
    UNION {LET at == SplitAt(s)
               moved == Packed(SubSeq(s, at, Len(s)), <<>>)
           IN  {<<Write(new, moved, "newleaf"),
                  Write(leaf, Packed(SubSeq(s, 1, at - 1), moved.ents), "oldleaf"),
                  Write(frame.blk, Inserted(frame.blk, frame.at, HashOf[s[at].name] + c, new), "leafparent")>> :
                c \in Continued(s, at)} : s \in SortedByHash(b)}

\* dx_grow_tree when the root is full: what it has goes to a new node.
GrowRoot(new) ==
    <<Write(0, Node(<<Pointer(0, new)>>, disk[0].levels + 1), "root"),
      Write(new, Node(disk[0].idx, 0), "newroot")>>

\* dx_grow_tree when a node is full and the one above is not.
SplitNode(above, frame, new) ==
    LET idx  == disk[frame.blk].idx
        keep == Len(idx) \div 2
    IN  <<Write(above.blk, Inserted(above.blk, above.at, idx[keep + 1].hash, new), "nodeparent"),
          Write(frame.blk, Node(SubSeq(idx, 1, keep), 0), "oldnode"),
          Write(new, Node(SubSeq(idx, keep + 1, Len(idx)), 0), "newnode")>>

\* The frames with room for one more pointer.
FramesWithRoom(path) == {k \in 1..Levels : Len(disk[path[k].blk].idx) < LimitOf(path[k].blk)}

\* dx_grow_tree: the writes it may make, once the new block is there.
GrowTree(h, b, new) ==
    LET path == Path(h)
        room == FramesWithRoom(path)
        i    == CHOOSE k \in room : \A j \in room : j <= k
    IN  IF room = {} THEN {GrowRoot(new)}
        ELSE IF i = Levels THEN SplitLeaf(path[i], LeafOf(h), b, new)
        ELSE {SplitNode(path[i], path[i + 1], new)}

-----------------------------------------------------------------------------
\* The calls

Idle == [name |-> NoName, ino |-> 0, restart |-> 0, writes |-> <<>>, then |-> "idle"]
NotReading == [open |-> FALSE, start |-> 0, got |-> <<>>, first |-> {}, eof |-> FALSE]

LinkedIn(layout) == {<<e.name, e.ino>> : e \in UNION {ToSet(Walk(layout[b])) : b \in DOMAIN layout}}

Init ==
    \E layout \in Layouts :
        /\ disk = [b \in 0..(MaxBlocks - 1) |-> IF b \in DOMAIN layout THEN layout[b] ELSE Zero]
        /\ size = Cardinality(DOMAIN layout)
        /\ linked = LinkedIn(layout)
        /\ used = {l[2] : l \in LinkedIn(layout)}
        /\ data = {l[2] : l \in {x \in LinkedIn(layout) : LinkKind[x[1]] = "slow"}}
        /\ pc = "idle" /\ op = Idle /\ rd = NotReading
        /\ last = [name |-> NoName, result |-> "none"] /\ faults = 0

\* ext2fs_symlink, to the accounting: an inode, with a block if the target is
\* long and does not go into the inode.
Symlink(name) ==
    LET free == 1..MaxIno \ used
        ino  == CHOOSE i \in free : \A j \in free : i <= j
    IN  /\ pc = "idle" /\ free # {}
        /\ used' = used \cup {ino}
        /\ data' = IF LinkKind[name] = "slow" THEN data \cup {ino} ELSE data
        /\ op' = [Idle EXCEPT !.name = name, !.ino = ino]
        /\ pc' = "lookup"
        /\ UNCHANGED <<disk, size, rd, linked, last, faults>>

KeptOnFailure(result) ==                                        \* mutant
    /\ pc' = "idle" /\ op' = Idle
    /\ last' = [name |-> op.name, result |-> result]
    /\ linked' = IF result = "ok" THEN linked \cup {<<op.name, op.ino>>} ELSE linked
    /\ used' = used
    /\ data' = IF result = "ok" THEN data ELSE data \ {op.ino}
\* The end of ext2fs_symlink: drop_refcount gives back what was counted.
End(result) ==
    /\ pc' = "idle" /\ op' = Idle
    /\ last' = [name |-> op.name, result |-> result]
    /\ linked' = IF result = "ok" THEN linked \cup {<<op.name, op.ino>>} ELSE linked
    /\ used' = IF result = "ok" THEN used ELSE used \ {op.ino}
    /\ data' = IF result = "ok" THEN data ELSE data \ {op.ino}

\* ext2fs_symlink looks the name up before it links it.
LookUp ==
    /\ pc = "lookup"
    /\ LET l == Lookup(op.name)
       IN  IF l.err = "notfound"
           THEN pc' = "link" /\ UNCHANGED <<op, last, linked, used, data>>
           ELSE End(IF l.found THEN "exists" ELSE "corrupt")
    /\ UNCHANGED <<disk, size, rd, faults>>

\* The writes to come, and what the call does after them.
Queue(writes, then) == op' = [op EXCEPT !.writes = writes, !.then = then] /\ pc' = "write"

\* ext2fs_link in a directory without an index.
LinkPlain ==
    /\ pc = "link" /\ ~Indexed
    /\ LET r == PlainLink(op.name, op.ino) IN Queue(r.writes, r.result)
    /\ UNCHANGED <<disk, size, used, data, rd, linked, last, faults>>

\* dx_link: what follows a try: as many growths as the tree had levels.
AfterTry(full) == IF full /\ op.restart < Levels THEN "grow" ELSE IF full THEN "nospace" ELSE "ok"

\* dx_link up to add_dirent_to_buf.
TryLeaf ==
    /\ pc = "link" /\ Indexed
    /\ LET h == HashOf[op.name]
       IN  IF ~Nodes(0, disk[0].levels, h) \/ ~Readable(disk[LeafOf(h)])
           THEN End("corrupt")
           ELSE LET r == LinkIn(disk[LeafOf(h)], op.name, op.ino)
                IN  /\ Queue(IF r.block = disk[LeafOf(h)] THEN <<>>
                             ELSE <<Write(LeafOf(h), r.block, "add")>>, AfterTry(~r.done))
                    /\ UNCHANGED <<used, data, linked, last>>
    /\ UNCHANGED <<disk, size, rd, faults>>

\* dx_grow_tree: a block more for the directory, then the writes.
Grow ==
    /\ pc = "grow"
    /\ LET h == HashOf[op.name]
       IN  IF FramesWithRoom(Path(h)) = {} /\ Levels >= MaxLevels
           THEN End("nospace") /\ UNCHANGED size
           ELSE IF size = MaxBlocks
           THEN End("noblock") /\ UNCHANGED size
           ELSE /\ size' = size + 1
                /\ \E w \in GrowTree(h, disk[LeafOf(h)], size) :
                      op' = [op EXCEPT !.writes = w, !.then = "link", !.restart = @ + 1]
                /\ pc' = "write"
                /\ UNCHANGED <<used, data, linked, last>>
    /\ UNCHANGED <<disk, rd, faults>>

\* ext2fs_write_dir_block4 of the next block.
WriteNext ==
    /\ pc = "write" /\ op.writes # <<>>
    /\ LET w == Head(op.writes)
       IN  IF TailFits(w.block)
           THEN /\ disk' = [disk EXCEPT ![w.blk] = w.block]
                /\ op' = [op EXCEPT !.writes = Tail(@)]
                /\ UNCHANGED <<pc, last, linked, used, data>>
           ELSE End("nocsum") /\ UNCHANGED disk
    /\ UNCHANGED <<size, rd, faults>>

\* A write that fails: the call returns its error.
WriteFails ==
    /\ pc = "write" /\ op.writes # <<>> /\ Head(op.writes).fault \in Faults /\ faults < MaxFaults
    /\ faults' = faults + 1
    /\ End("io")
    /\ UNCHANGED <<disk, size, rd>>

Written ==
    /\ pc = "write" /\ op.writes = <<>>
    /\ IF op.then \in {"grow", "link"}
       THEN pc' = op.then /\ UNCHANGED <<op, last, linked, used, data>>
       ELSE End(op.then)
    /\ UNCHANGED <<disk, size, rd, faults>>

-----------------------------------------------------------------------------
\* The kext reads

\* What ext2_readdir_process is called with, block after block.
RECURSIVE Visits(_)
Visits(b) == IF b = size THEN <<>>
             ELSE LET ks == SelectSeq([k \in 1..Len(disk[b].ents) |-> k], LAMBDA k : IsUsed(disk[b].ents[k]))
                  IN  [n \in 1..Len(ks) |-> [off |-> OffsetOf(disk[b], ks[n]),
                                             name |-> disk[b].ents[ks[n]].name]] \o Visits(b + 1)

AfterStart(vs, start) == SelectSeq(vs, LAMBDA v : v.off > start \/ start = 0)  \* mutant
\* The entries that are not before the offset the reader comes with.
FromStart(vs, start) == SelectSeq(vs, LAMBDA v : v.off >= start)

OpenDir ==
    /\ pc = "idle" /\ ~rd.open /\ ~Indexed /\ (size = 1 \/ "blocks" \in Uses)
    /\ rd' = [NotReading EXCEPT !.open = TRUE, !.first = {l[1] : l \in linked}]
    /\ UNCHANGED <<disk, size, used, data, pc, op, linked, last, faults>>

\* ext2_vnop_readdir with room for n entries.  uio_offset is that of the last
\* entry visited, given out or not.
ReadDir(n) ==
    /\ pc = "idle" /\ rd.open /\ ~rd.eof /\ \A b \in 0..(size - 1) : Readable(disk[b])
    /\ LET vs   == Visits(0)
           from == FromStart(vs, rd.start)
           stop == Len(from) > n
           pos  == IF stop THEN from[n + 1] ELSE vs[Len(vs)]
       IN  /\ vs # <<>>
           /\ rd' = [rd EXCEPT !.start = pos.off, !.eof = ~stop,
                               !.got = @ \o [k \in 1..(IF stop THEN n ELSE Len(from)) |-> from[k].name]]
    /\ UNCHANGED <<disk, size, used, data, pc, op, linked, last, faults>>

CloseDir ==
    /\ pc = "idle" /\ rd.open /\ rd.eof
    /\ rd' = NotReading
    /\ UNCHANGED <<disk, size, used, data, pc, op, linked, last, faults>>

Next ==
    \/ \E name \in Names : Symlink(name)
    \/ LookUp \/ LinkPlain \/ TryLeaf \/ Grow
    \/ WriteNext \/ WriteFails \/ Written
    \/ OpenDir \/ (\E n \in 1..2 : ReadDir(n)) \/ CloseDir

Spec == Init /\ [][Next]_vars

-----------------------------------------------------------------------------
\* Properties

Blocks == 0..(size - 1)

\* A directory is what was linked into it: between calls the entries of every
\* block fill it, none is shorter than its name, a walk meets each name that was
\* linked once, with its inode, and nothing else (link_proc, dx_move_dirents,
\* ext2fs_process_dir_block); and the inodes and data blocks in use are those of
\* the entries, however a call ended (ext2fs_symlink).
EntriesRight ==
    pc = "idle" =>
       /\ used = {l[2] : l \in linked}
       /\ data = {l[2] : l \in {x \in linked : LinkKind[x[1]] = "slow"}}
       /\ \A b \in Blocks : disk[b] # Zero /\ ~IsNode(disk[b]) =>
             /\ Length(disk[b].ents) = BlockLen
             /\ \A k \in 1..Len(disk[b].ents) :
                   LET e == disk[b].ents[k] IN IsUsed(e) => e.len >= SizeOf[e.name]
       /\ LET walked == UNION {{<<b, k>> : k \in 1..Len(disk[b].ents)} : b \in Blocks}
              at(l) == {w \in walked : LET e == disk[w[1]].ents[w[2]] IN <<e.name, e.ino>> = l}
          IN  /\ \A l \in linked : Cardinality(at(l)) = 1 \/ (faults > 0 /\ at(l) # {})
              /\ \A w \in walked : LET e == disk[w[1]].ents[w[2]] IN IsUsed(e) => <<e.name, e.ino>> \in linked

\* The leaves in the order of the index, each with the hash it begins at.
RECURSIVE Under(_, _, _)
Under(blk, levels, low) ==
    LET idx == disk[blk].idx
        lowOf(k) == IF k = 1 THEN low ELSE idx[k].hash
    IN  IF levels < 0 THEN <<Pointer(low, blk)>>
        ELSE FoldLeft(LAMBDA s, k : s \o Under(idx[k].blk, levels - 1, lowOf(k)), <<>>,
                     [k \in 1..Len(idx) |-> k])
Even(h) == (h \div 2) * 2

\* The index finds every name: in an indexed directory each linked name is in
\* exactly one of the leaves the index reaches, and the hashes the leaf is for
\* include its hash, whatever the order of links, with equal hashes on both
\* sides of a split, with the tree grown and with a call that failed before the
\* node above was to be written (dx_search_entry, dx_split_leaf, dx_grow_tree).
\* "No space" is said only of a tree that cannot grow (dx_link).
IndexRight ==
    pc = "idle" /\ Indexed =>
       LET leaves == Under(0, disk[0].levels, 0)
           here(k) == {<<e.name, e.ino>> : e \in ToSet(Walk(disk[leaves[k].blk]))}
       IN  /\ \A l \in linked : Nodes(0, disk[0].levels, HashOf[l[1]])
           /\ \A k \in 1..Len(leaves) : ~IsNode(disk[leaves[k].blk]) /\ disk[leaves[k].blk] # Zero
           /\ \A j, k \in 1..Len(leaves) : j # k => leaves[j].blk # leaves[k].blk /\ here(j) \cap here(k) = {}
           /\ linked = UNION {here(k) : k \in 1..Len(leaves)}
           /\ \A k \in 1..Len(leaves) : \A l \in here(k) :
                 /\ Even(leaves[k].hash) <= HashOf[l[1]]
                 /\ k < Len(leaves) => HashOf[l[1]] < leaves[k + 1].hash
           /\ last.result = "nospace" =>
                 FramesWithRoom(Path(HashOf[last.name])) = {} /\ Levels = MaxLevels

\* Reading a directory to its end gives every name that was there when it was
\* opened once and none twice, in however many pieces it is read and whatever is
\* linked between them (ext2_vnop_readdir, ext2_readdir_process and the offset
\* they leave in the uio).
ReadOnce ==
    rd.open =>
       /\ \A j, k \in 1..Len(rd.got) : j # k => rd.got[j] # rd.got[k]
       /\ rd.eof => rd.first \subseteq ToSet(rd.got)
=============================================================================
