------------------------------ MODULE InodeFile -------------------------------
(* An open file of src/libext2fs/fileio.c: one block of the file is buffered,  *)
(* written when the position leaves it, and gets a block of the volume when it *)
(* is first written.  The file is mapped by blocks of pointers (IndirectMap).  *)
(* Its blocks run out, in the middle of a write or of mapping one block.       *)
EXTENDS IndirectMap

CONSTANTS Positions,  \* where a caller seeks to, in bytes
          Lengths,    \* how much it reads or writes
          Sizes,      \* the sizes it sets
          MaxOps,     \* bound on writes, changes of the size and punches
          Uses        \* what the caller does that the code is not made for

VARIABLES vol,        \* the volume and the handle's inode
          file,       \* the rest of the handle, ext2_file_t
          want,       \* what the bytes of the file should be
          wsize,      \* and its size
          agree,      \* every read gave what the file should hold
          torn,       \* a block could not be mapped after its table was allocated
          ops
vars == <<vol, file, want, wsize, agree, torn, ops>>

Unsure    == -1                        \* the byte of a write that has failed
MaxBytes  == BlockSize * MaxMapBlock
BlockOf(p) == p \div BlockSize
Offset(p)  == p % BlockSize

Closed == [open |-> FALSE, pos |-> 0, blockno |-> 0, phys |-> 0, buf |-> Zeroes,
           valid |-> FALSE, dirty |-> FALSE]

\* A handle with its volume.  ok is FALSE once a call has failed, and torn is
\* set when ext2fs_bmap2 leaves blocks behind that it has not counted.
State(v, f, ok, t) == [v |-> v, f |-> f, ok |-> ok, torn |-> t]
Now == State(vol, file, TRUE, torn)

\* One step after another, as long as none fails.
Then(s, Step(_)) == IF s.ok THEN Step(s) ELSE s
\* The same, where the step must be finished if there was a failure before.
Fail(s) == [s EXCEPT !.ok = FALSE]

Mapped(s, r) == State(r.v, [s.f EXCEPT !.phys = r.blk], r.ok, s.torn \/ (~r.ok /\ r.n > 0))
MapInto(s, alloc) == Mapped(s, Bmap(s.v, s.f.blockno, alloc))
\* The buffered block gets a block of the volume if it has none.
Allocated(s) == IF s.f.phys = 0 THEN MapInto(s, TRUE) ELSE s

-----------------------------------------------------------------------------
\* The buffer

\* ext2fs_file_flush
FlushFile(s) ==
    IF ~s.f.valid \/ ~s.f.dirty THEN s
    ELSE Then(Allocated(s), LAMBDA t : [t EXCEPT !.v.data[t.f.phys] = t.f.buf, !.f.dirty = FALSE])

KeepBuffer(s) ==                                                \* mutant
    IF BlockOf(s.f.pos) = s.f.blockno THEN s
    ELSE Then(FlushFile(s), LAMBDA t : [t EXCEPT !.f.blockno = BlockOf(t.f.pos)])
\* sync_buffer_position
SyncBufferPosition(s) ==
    IF BlockOf(s.f.pos) = s.f.blockno THEN s
    ELSE Then(FlushFile(s), LAMBDA t : [t EXCEPT !.f.valid = FALSE, !.f.blockno = BlockOf(t.f.pos)])

\* load_buffer
LoadBuffer(s, dontfill) ==
    IF s.f.valid THEN s
    ELSE Then(MapInto(s, FALSE),
              LAMBDA t : [t EXCEPT !.f.valid = TRUE,
                                   !.f.buf = IF dontfill THEN @
                                             ELSE IF t.f.phys # 0 THEN t.v.data[t.f.phys] ELSE Zeroes])

-----------------------------------------------------------------------------
\* The calls

Piece(s, wanted) == Min({BlockSize - Offset(s.f.pos), wanted})
InPiece(s, n)    == Offset(s.f.pos)..(Offset(s.f.pos) + n - 1)

RECURSIVE ReadFrom(_, _)
\* ext2fs_file_read: the bytes that were read before the end or a failure.
ReadFrom(r, wanted) ==
    LET c == Min({Piece(r.s, wanted), r.s.v.inode.size - r.s.f.pos})
        take(t) == IF t.ok
                   THEN ReadFrom([s   |-> [t EXCEPT !.f.pos = @ + c],
                                  got |-> r.got \o [i \in 1..c |-> t.f.buf[Offset(t.f.pos) + i - 1]]], wanted - c)
                   ELSE [r EXCEPT !.s = t]
    IN  IF c <= 0 THEN r
        ELSE take(Then(SyncBufferPosition(r.s), LAMBDA t : LoadBuffer(t, FALSE)))

RECURSIVE WriteFrom(_, _, _)
\* The loop of ext2fs_file_write: each piece goes into the buffer, and its block
\* is allocated at once.
WriteFrom(s, nbytes, val) ==
    LET c == Piece(s, nbytes)
        fill(t) == [t EXCEPT !.f.dirty = TRUE,
                             !.f.buf = [i \in DOMAIN @ |-> IF i \in InPiece(t, c) THEN val ELSE @[i]]]
    IN  IF nbytes = 0 THEN s
        ELSE Then(Then(Then(SyncBufferPosition(s), LAMBDA t : LoadBuffer(t, c = BlockSize)),
                       LAMBDA t : Allocated(fill(t))),
                  LAMBDA t : WriteFrom([t EXCEPT !.f.pos = @ + c], nbytes - c, val))

\* ext2fs_file_zero_past_offset: on the device only, by the inode of the table.
ZeroPastOffset(s, offset) ==
    LET zero(t, blk) ==
            IF blk = 0 THEN t
            ELSE [t EXCEPT !.v.data[blk] = [i \in DOMAIN @ |-> IF i >= Offset(offset) THEN 0 ELSE @[i]]]
    IN  IF Offset(offset) = 0 THEN s
        ELSE Then(SyncBufferPosition(s),
                  LAMBDA t : zero(t, Bmap([t.v EXCEPT !.inode = t.v.table], BlockOf(offset), FALSE).blk))

BlocksFor(size) == BlockOf(size + BlockSize - 1)

Punched(s, p) == [s EXCEPT !.v = p.v, !.ok = p.ok]

\* ext2fs_file_set_size2
SetSizeOf(s, size) ==
    IF size # 0 /\ TooBig(BlockOf(size - 1)) THEN Fail(s)
    ELSE Then(ZeroPastOffset([s EXCEPT !.v = WriteInode([@ EXCEPT !.inode.size = size])], size),
              LAMBDA t : IF BlocksFor(size) >= BlocksFor(s.v.inode.size) THEN t
                         ELSE Punched(t, Punch(t.v, BlocksFor(size), Endless)))

\* The end of ext2fs_file_write: what was written counts, if it then failed too.
Grown(w, pos) ==
    IF w.f.pos > pos /\ w.v.inode.size < w.f.pos
    THEN [SetSizeOf([w EXCEPT !.ok = TRUE], w.f.pos) EXCEPT !.ok = @ /\ w.ok]
    ELSE w
WriteOf(s, nbytes, val) == Grown(WriteFrom(s, nbytes, val), s.f.pos)

-----------------------------------------------------------------------------
Init == /\ vol = Volume
        /\ file = Closed
        /\ want = [i \in 0..(MaxBytes - 1) |-> 0]
        /\ wsize = 0
        /\ agree = TRUE
        /\ torn = FALSE
        /\ ops = 0

Become(s) == vol' = s.v /\ file' = s.f /\ torn' = s.torn
Expect(cells, val) == want' = [i \in DOMAIN want |-> IF i \in cells THEN val ELSE want[i]]

\* ext2fs_file_open2
OpenFile ==
    /\ ~file.open
    /\ file' = [Closed EXCEPT !.open = TRUE]
    /\ vol' = [vol EXCEPT !.inode = vol.table]
    /\ UNCHANGED <<want, wsize, agree, torn, ops>>

\* ext2fs_file_llseek
Seek(p) ==
    /\ file.open /\ file.pos # p
    /\ file' = [file EXCEPT !.pos = p]
    /\ UNCHANGED <<vol, want, wsize, agree, torn, ops>>

\* ext2fs_file_read
Read(n) ==
    /\ file.open
    /\ \E r \in {ReadFrom([s |-> Now, got |-> <<>>], n)} :
          /\ Become(r.s)
          /\ agree' = (agree /\ \A i \in DOMAIN r.got : want[file.pos + i - 1] \in {Unsure, r.got[i]})
    /\ UNCHANGED <<want, wsize, ops>>

\* What is written becomes what the file should hold.  Of a piece that could not
\* be written the buffer holds a part, which may reach the file or not.
Written(s, n) ==
    LET end  == Min({file.pos + n, BlockSize * (BlockOf(s.f.pos) + 1)})
        half == ~s.ok /\ s.f.dirty /\ s.f.blockno = BlockOf(s.f.pos)
    IN  /\ want' = [i \in DOMAIN want |-> IF i \in file.pos..(s.f.pos - 1) THEN ops + 1
                                          ELSE IF half /\ i \in s.f.pos..(end - 1) THEN Unsure
                                          ELSE want[i]]
        /\ wsize' = IF s.f.pos = file.pos THEN wsize ELSE Max({wsize, s.f.pos})

\* ext2fs_file_write
Write(n) ==
    /\ file.open /\ ops < MaxOps
    /\ ops' = ops + 1
    /\ \E s \in {WriteOf(Now, n, ops + 1)} : Become(s) /\ Written(s, n)
    /\ UNCHANGED agree

\* ext2fs_file_flush, as the caller calls it
Flush ==
    /\ file.open /\ file.dirty
    /\ \E s \in {FlushFile(Now)} : Become(s)
    /\ UNCHANGED <<want, wsize, agree, ops>>

\* ext2fs_file_set_size2, as the caller calls it
SetSize(n) ==
    /\ file.open /\ ops < MaxOps
    /\ ~file.valid \/ "buffered" \in Uses
    /\ ~torn \/ "torn" \in Uses
    /\ ops' = ops + 1
    /\ \E s \in {SetSizeOf(Now, n)} :
          /\ Become(s)
          /\ IF s.v.inode.size = n
             THEN wsize' = n /\ Expect(n..(MaxBytes - 1), 0)
             ELSE UNCHANGED <<want, wsize>>
    /\ UNCHANGED agree

\* ext2fs_file_close: the handle is gone if the flush has failed as well.
CloseFile ==
    /\ file.open
    /\ \E s \in {FlushFile(Now)} : vol' = s.v /\ torn' = s.torn
    /\ file' = Closed
    /\ UNCHANGED <<want, wsize, agree, ops>>

\* ext2fs_punch by a caller with no handle: from the first block of a kind of
\* pointers on, or to the end.
PunchBlocks ==
    /\ ~file.open /\ ops < MaxOps
    /\ ~torn \/ "torn" \in Uses
    /\ \E start \in 0..(MaxMapBlock - 1), count \in 1..(MaxMapBlock - 1) \cup {Endless} :
          /\ \/ count = Endless
             \/ start \in {0, NDir, NDir + PerBlock, NDir + PerBlock + PerBlock ^ 2}
             \/ "range" \in Uses
          /\ \E p \in {Punch([vol EXCEPT !.inode = vol.table], start, count)} :
                /\ vol' = p.v
                /\ Expect((start * BlockSize)..((start + count) * BlockSize - 1), IF p.ok THEN 0 ELSE Unsure)
    /\ ops' = ops + 1
    /\ UNCHANGED <<file, wsize, agree, torn>>

Next == \/ OpenFile \/ Flush \/ CloseFile \/ PunchBlocks
        \/ \E p \in Positions : Seek(p)
        \/ \E n \in Lengths : Read(n) \/ Write(n)
        \/ \E n \in Sizes : SetSize(n)

Spec == Init /\ [][Next]_vars

-----------------------------------------------------------------------------
\* A byte of the file, by the handle's buffer or by the map.
ByteOf(s, i) ==
    LET blk == Bmap(s.v, BlockOf(i), FALSE).blk
    IN  IF s.f.open /\ s.f.valid /\ s.f.blockno = BlockOf(i) THEN s.f.buf[Offset(i)]
        ELSE IF blk = 0 THEN 0 ELSE s.v.data[blk][Offset(i)]

\* A file holds what was written to it and has the size the writes made it,
\* through the buffer as well as on the volume once it is closed, whatever was
\* truncated, punched or left half done by a full volume before; a block that is
\* used again shows nothing of what it held (ext2fs_file_write, _read, _set_size2
\* and ext2fs_punch).
ContentsRight ==
    LET s == IF file.open THEN Now ELSE [Now EXCEPT !.v.inode = vol.table]
    IN  /\ agree
        /\ s.v.inode.size = wsize
        /\ \A i \in 0..(wsize - 1) : want[i] \in {Unsure, ByteOf(s, i)}

\* Every block of the tree is in use and has one pointer to it; the blocks in use
\* are those of the tree and i_blocks counts them, unless mapping a block failed
\* half way; and a walk over the tree meets just the blocks ext2fs_bmap2 finds,
\* each under its number (bmap.c, punch.c, block.c, i_block.c).
TreeRight ==
    LET v    == [vol EXCEPT !.inode = vol.table]
        seen == ToSet(IterateAll(v))
        tree == Tree(v, v.table)
    IN  /\ IsInjective(tree) /\ ToSet(tree) \subseteq v.used
        /\ ~torn => ToSet(tree) = v.used /\ v.table.iblocks = Len(tree)
        /\ seen = {p \in [block : 0..(MaxMapBlock - 1), blk : Blocks] : Bmap(v, p.block, FALSE).blk = p.blk}
=============================================================================
