------------------------------ MODULE InlineData ------------------------------
(* Files kept in their inodes: src/libext2fs/inline_data.c, and what fileio.c   *)
(* and punch.c do for them.  The first 60 bytes are in i_block (the head), the  *)
(* rest is the value of the attribute "system.data", written through a handle   *)
(* of its own after the inode has been written.  An open file (ext2_file_t)     *)
(* has a copy of the inode's first 128 bytes, which it writes back as a whole.  *)
(* Xattrs has the attributes.                                                   *)
EXTENDS Xattrs

CONSTANTS InlineInodes, \* bound: the inodes that get inline data
          Heads,   \* contents of files
          Sizes,   \* bound: lengths of the files that are written
          Uses     \* what clients do besides

\* "partial": writing less than the file has; "shared": inline data in an inode
\* whose attribute block other inodes share; "emptied": writing to a file that
\* was emptied while it stayed inline, and has lost its attribute.
ASSUME InlineAssumption == /\ InlineInodes \subseteq Inodes /\ Sizes \subseteq Nat \ 0..59
                           /\ Uses \subseteq {"partial", "shared", "emptied"}
                           /\ "system.data" \in Names

VARIABLES node,   \* what the 128 bytes of the inode say of the data
          file,   \* the open file
          data    \* the contents by the calls that returned 0

ivars == <<disk, handle, want, faults, node, file, data>>

MinInline == 60                          \* EXT4_MIN_INLINE_DATA_SIZE
NoFile == [open |-> FALSE, ino |-> NoBlock, acl |-> NoBlock, iblocks |-> 0, size |-> 0]
NotInline    == [kind |-> "none", head |-> "zero", tail |-> None, size |-> 0]
Inline(t, n) == [kind |-> "inline", head |-> t, tail |-> None, size |-> n]
NoData    == [head |-> "zero", tail |-> None]

\* The parts of a buffer of n bytes with contents t.
Rest(n, t) == IF n <= MinInline THEN [len |-> 0, tag |-> <<"empty">>]
              ELSE [len |-> n - MinInline, tag |-> <<t>>]
InlineTail(v) == IF v.len = 0 THEN None ELSE v

IsInline(i) == node[i].kind = "inline"

\* ext2fs_inline_data_ea_get: no attribute is no data.
TailOnDisk(d, i) == InlineTail(Contents(d, i)["system.data"])

\* Files start empty, or one of them is an inline file of another driver.
SharedInline(d, i, v) ==
    [d EXCEPT !.inode[i].ibody = <<Entry(Attr("system.data", v, 0), FALSE)>>]
InlineInit ==
    /\ file = NoFile
    /\ \/ /\ Init
          /\ node = [i \in Inodes |-> NotInline]
          /\ data = [i \in Inodes |-> NoData]
       \/ /\ "shared" \in Uses
          /\ handle = Closed /\ faults = 0
          /\ \E s \in SharedDisks, i \in InlineInodes, n \in Sizes, t \in Heads :
               /\ disk = SharedInline(s[2], i, Rest(n, t))
               /\ want = [j \in Inodes |->
                           [NoAttrs EXCEPT !["user.a"] = s[1],
                                           !["system.data"] = IF j = i THEN Rest(n, t) ELSE None]]
               /\ node = [j \in Inodes |-> IF j = i THEN Inline(t, n) ELSE NotInline]
               /\ data = [j \in Inodes |->
                           IF j = i THEN [head |-> t, tail |-> InlineTail(Rest(n, t))] ELSE NoData]

-----------------------------------------------------------------------------
\* Room

\* ext2fs_xattr_inode_max_size: what the values leave between them and the names.
ValueBytes(s) == Total([n \in 1..Len(s) |-> IF s[n].ea = 0 THEN Round4(s[n].value.len) ELSE 0])
NameBytes(s)  == Total([n \in 1..Len(s) |-> NameLen(s[n].name)])
MinOff == InodeSize - 160 - 4
InodeMaxSize(d, i) ==
    LET s == ReadAttrs(d, d.inode[i].ibody)
    IN  IF s = <<>> THEN Round4(MinOff - 20 - 3 - 4)
        ELSE (MinOff - ValueBytes(s)) - NameBytes(s) - 4

FitsUnread(d, i, n) == n <= MinInline + InodeMaxSize(d, i) + 60  \* mutant
\* ext2fs_inline_data_set's test of a new size.
Fits(d, i, n) == LET existing == MinInline + TailOnDisk(d, i).len
                 IN  \/ n <= MinInline
                     \/ n = existing
                     \/ n <= existing + InodeMaxSize(d, i)

-----------------------------------------------------------------------------
\* Calls.  Each opens a handle of its own for the attribute.

\* ext2fs_inline_data_ea_set and ext2fs_inline_data_ea_remove: [err, d, h]
EaSet(d, i, tail) == SetOutcomes(d, ReadHandle(d, i), "system.data", tail)
EaRemove(d, i)    == RemoveOutcomes(d, ReadHandle(d, i), "system.data")

Idle == ~handle.open /\ ~file.open
Counted(o) == faults' = IF o.err = "io" THEN faults + 1 ELSE faults

\* May the attribute's write have outcome o after i_block has been written?
Allowed(o) == o.err = "io" => "head" \in Faults

\* A new inode gets inline data (src/libext2fs/symlink.c:109-140): i_flags and
\* i_block are written, then the attribute.
CreateInline(i, n, t) ==
    /\ Idle /\ node[i].kind = "none"
    /\ Fits(disk, i, n)
    /\ \E o \in EaSet(disk, i, Rest(n, t)) :
         /\ o.err = "ok"
         /\ disk' = o.d
         /\ node' = [node EXCEPT ![i] = Inline(t, n)]
         /\ data' = [data EXCEPT ![i] = [head |-> t, tail |-> InlineTail(Rest(n, t))]]
         /\ want' = [want EXCEPT ![i]["system.data"] = Rest(n, t)]
         /\ Counted(o)
    /\ UNCHANGED <<handle, file>>

\* ext2fs_file_open2 and ext2fs_file_close
FileOpen(i) == /\ Idle /\ IsInline(i)
               /\ file' = [open |-> TRUE, ino |-> i, acl |-> disk.inode[i].acl,
                           iblocks |-> disk.inode[i].iblocks, size |-> node[i].size]
               /\ UNCHANGED <<disk, handle, want, faults, node, data>>

FileClose == /\ file.open /\ file' = NoFile
             /\ UNCHANGED <<disk, handle, want, faults, node, data>>

\* ext2fs_write_inode of the file's copy.
WriteCopy(d) == [d EXCEPT !.inode[file.ino] =
                    [ibody |-> @.ibody, acl |-> file.acl, iblocks |-> file.iblocks]]

\* ext2fs_inline_data_expand, of inode i on disk d: i_block is cleared and the
\* attribute removed before a block is asked for.
Expanded(d, i) == {o \in EaRemove(d, i) : Allowed(o)}
InBlocks(c, n) == [kind |-> "blocks", head |-> c.head, tail |-> c.tail, size |-> n]
OnDisk(i) == [head |-> node[i].head,
              tail |-> IF IsInline(i) THEN TailOnDisk(disk, i) ELSE node[i].tail]

\* The block is asked for last (room): without it the data are gone.
Expand(i) ==
    /\ Idle /\ IsInline(i)
    /\ \E o \in Expanded(disk, i), room \in {TRUE, ~("head" \in Faults /\ faults < MaxFaults)} :
         LET ok == o.err = "ok" /\ room
         IN  /\ disk' = o.d
             /\ node' = [node EXCEPT ![i] =
                            IF ok THEN InBlocks(OnDisk(i), MinInline + TailOnDisk(disk, i).len)
                            ELSE [@ EXCEPT !.head = "zero"]]
             /\ want' = IF o.err = "ok" THEN [want EXCEPT ![i]["system.data"] = None] ELSE want
             /\ faults' = IF ok THEN faults ELSE faults + 1
    /\ UNCHANGED <<handle, file, data>>

-----------------------------------------------------------------------------
\* ext2fs_file_write of n bytes at the start of an inline file

Whole(n, t) == [head |-> t, tail |-> InlineTail(Rest(n, t))]

\* ext2fs_inline_data_set: the copy of the inode goes out, then the attribute;
\* a file that has grown has its copy written again, by ext2fs_file_set_size2.
WriteInline(n, t) ==
    /\ file.open /\ IsInline(file.ino)
    /\ Fits(disk, file.ino, n)
    /\ \E o \in EaSet(WriteCopy(disk), file.ino, Rest(n, t)) :
         LET i     == file.ino
             grown == file.size < n
         IN  /\ Allowed(o)
             /\ disk' = IF o.err = "ok" /\ grown THEN WriteCopy(o.d) ELSE o.d
             /\ node' = [node EXCEPT ![i] = Inline(t, IF o.err = "ok" /\ grown THEN n ELSE @.size)]
             /\ file' = [file EXCEPT !.size = IF o.err = "ok" /\ grown THEN n ELSE @]
             /\ data' = IF o.err # "ok" THEN data
                        ELSE [data EXCEPT ![i] = IF grown \/ n = file.size THEN Whole(n, t)
                                                 ELSE [@ EXCEPT !.head = t]]
             /\ want' = IF o.err = "ok" THEN [want EXCEPT ![i]["system.data"] = Rest(n, t)] ELSE want
             /\ Counted(o)
    /\ UNCHANGED handle

\* No room: the file is given blocks, its copy is read again, and the bytes go
\* to the blocks (InodeFile has that part).
WriteExpand(n, t) ==
    /\ file.open /\ IsInline(file.ino)
    /\ ~Fits(disk, file.ino, n)
    /\ \E o \in Expanded(disk, file.ino) :
         LET i == file.ino
         IN  /\ disk' = o.d
             /\ node' = [node EXCEPT ![i] = IF o.err = "ok" THEN InBlocks(Whole(n, t), n)
                                            ELSE [@ EXCEPT !.head = "zero"]]
             /\ data' = IF o.err = "ok" THEN [data EXCEPT ![i] = Whole(n, t)] ELSE data
             /\ want' = IF o.err = "ok" THEN [want EXCEPT ![i]["system.data"] = None] ELSE want
             /\ Counted(o)
    /\ file' = NoFile
    /\ UNCHANGED handle

HasEntry(i) == IndexOf(disk.inode[i].ibody, "system.data") # 0
FileWrite(n, t) == /\ file.open
                   /\ n < file.size => "partial" \in Uses /\ n = MinInline
                   /\ HasEntry(file.ino) \/ "emptied" \in Uses
                   /\ WriteInline(n, t) \/ WriteExpand(n, t)

\* ext2fs_punch_inline_data, from block 0 on.
Punch(i) ==
    /\ Idle /\ IsInline(i)
    /\ \E o \in EaRemove(disk, i) :
         /\ Allowed(o)
         /\ disk' = o.d
         /\ node' = [node EXCEPT ![i] = Inline("zero", 0)]
         /\ data' = IF o.err = "ok" THEN [data EXCEPT ![i] = NoData] ELSE data
         /\ want' = IF o.err = "ok" THEN [want EXCEPT ![i]["system.data"] = None] ELSE want
         /\ Counted(o)
    /\ UNCHANGED <<handle, file>>

\* The other attributes, while no file is open.
Attributes ==
    /\ ~file.open
    /\ \/ \E i \in Inodes : XattrsOpen(i)
       \/ \E i \in Inodes : ~IsInline(i) /\ FreeExtAttr(i)
       \/ \E name \in Names \ {"system.data"} :
            XattrRemove(name) \/ \E v \in Values(name) : XattrSet(name, v)
       \/ XattrsClose
    /\ UNCHANGED <<node, file, data>>

InlineNext ==
    \/ Attributes
    \/ \E i \in InlineInodes : FileOpen(i) \/ Expand(i) \/ Punch(i)
    \/ \E i \in InlineInodes, n \in Sizes, t \in Heads : CreateInline(i, n, t)
    \/ \E n \in Sizes, t \in Heads : FileWrite(n, t)
    \/ FileClose

InlineSpec == InlineInit /\ [][InlineNext]_ivars

BlockSymmetry == Permutations(EaBlocks)

-----------------------------------------------------------------------------
\* Properties

\* The head and the tail of a file are of the same write, whatever room the other
\* attributes leave: a write that does not fit is found out before the inode is
\* touched, and a file that moves to blocks takes all of its bytes along.
InlineWhole == \A i \in Inodes : node[i].kind # "none" => OnDisk(i) = data[i]
=============================================================================
