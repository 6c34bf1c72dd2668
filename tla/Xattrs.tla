-------------------------------- MODULE Xattrs --------------------------------
(* src/libext2fs/ext_attr.c: the extended attributes of inodes, in the room    *)
(* after the fields of the inode (ibody) and in one block beside it, which     *)
(* other inodes may share until it is written to.  A large value is kept in an *)
(* inode of its own.                                                           *)
(*                                                                             *)
(* A client opens a handle, reads the attributes into it, changes them one at  *)
(* a time, each change writing all of them back, and closes it.  Sizes are in  *)
(* bytes, as in the code: they decide where an attribute goes.  A value is its *)
(* length and its contents; the hash of an entry is what it is taken of.       *)
(* Nothing runs beside a call, so a call is an action; what happens when it    *)
(* stops halfway depends on where, and Faults says where it may.               *)
EXTENDS Integers, Sequences, FiniteSets, SequencesExt

CONSTANTS Inodes,      \* inodes with attributes
          EaBlocks,    \* blocks for attributes
          EaInodes,    \* inodes for large values
          NoBlock,     \* i_file_acl = 0
          Names,       \* names of attributes
          Lens, Tags,  \* bound: lengths of values, and contents
          InodeSize,   \* EXT2_INODE_SIZE
          BlockSize,   \* fs->blocksize
          HasEaInode,  \* the ea_inode feature
          Faults,      \* where a call may fail
          MaxFaults,   \* bound: calls that fail
          KeepHandle,  \* may a handle be used again after a call that failed?
          SharedLarge  \* may a shared block have a value in an inode?

\* "first": before the call has changed anything that is in use; "cow": after
\* the count of a shared block has gone down; "eainode": after a value's inode
\* has lost its user; "inode": at the write of the inode, its block written;
\* "head": after the first bytes of an inline file (InlineData).
ASSUME XattrsAssumption ==
    /\ Names \subseteq {"system.data", "system.posix_acl_access", "user.a", "user.bb"}
    /\ Lens \subseteq Nat /\ {InodeSize, BlockSize, MaxFaults} \subseteq Nat
    /\ Faults \subseteq {"first", "cow", "eainode", "inode", "head"}
    /\ {HasEaInode, KeepHandle, SharedLarge} \subseteq BOOLEAN /\ NoBlock \notin EaBlocks
    /\ InodeSize % 4 = 0 /\ BlockSize % 4 = 0
    /\ Inodes # {} /\ IsFiniteSet(Inodes \cup EaBlocks) /\ EaInodes \subseteq Nat \ {0}

VARIABLES disk,    \* the inodes, the blocks and inodes of attributes, the bitmap
          handle,  \* the struct ext2_xattr_handle in use, or Closed
          want,    \* the attributes by the calls that returned 0
          faults   \* how many calls failed

vars == <<disk, handle, want, faults>>

None   == [len |-> 0, tag |-> <<>>]
Closed == [open |-> FALSE, ino |-> NoBlock, attrs |-> <<>>, ibody |-> 0]

\* Values as a client gives them; a list for access control is its entries.
Plain == {[len |-> n, tag |-> <<t>>] : n \in Lens \ {0}, t \in Tags}
           \cup (IF 0 \in Lens THEN {[len |-> 0, tag |-> <<"empty">>]} ELSE {})
Acls  == {<< <<"user_obj", 5>> >>, << <<"user_obj", 0>>, <<"user", 7>>, <<"mask", 0>> >>}
Values(name) == IF name = "system.posix_acl_access"
                THEN {[len |-> 4 + 8 * Len(a), tag |-> a] : a \in Acls} ELSE Plain

-----------------------------------------------------------------------------
\* Sizes and order

Round4(n) == ((n + 3) \div 4) * 4

\* find_ea_index: e_name_index, and the length of what follows the prefix; rank
\* stands for memcmp.
Key(name) == CASE name = "system.posix_acl_access" -> <<2, 0, 0>>
               [] name = "system.data"             -> <<7, 4, 0>>
               [] name = "user.a"                  -> <<1, 1, 0>>
               [] name = "user.bb"                 -> <<1, 2, 0>>

ExtraIsize == 32                        \* i_extra_isize
NameLen(name) == Round4(Key(name)[2] + 16)                \* EXT2_EXT_ATTR_LEN
IbodyRoom  == InodeSize - 128 - ExtraIsize - 4            \* storage_size
BlockRoom  == BlockSize - 32
MinLargeEaSize == BlockSize - 20 - 32 - 4

\* An attribute in a handle: ea is the inode of its value, or 0.
Attr(name, value, ea) == [name |-> name, value |-> value, ea |-> ea]
Needed(name, len, inInode) == NameLen(name) + (IF inInode THEN 0 ELSE Round4(len))
AttrSize(a)  == Needed(a.name, a.value.len, a.ea # 0)
\* The sum of a sequence of numbers.
Total(q) == LET sum[n \in 0..Len(q)] == IF n = 0 THEN 0 ELSE sum[n - 1] + q[n] IN sum[Len(q)]
SpaceUsed(s) == Total([n \in 1..Len(s) |-> AttrSize(s[n])])

SortsBefore(k, l) == \/ k[1] < l[1]
                     \/ k[1] = l[1] /\ k[2] < l[2]
                     \/ k[1] = l[1] /\ k[2] = l[2] /\ k[3] <= l[3]

LastPosition(s, name) == Len(s) + 1                             \* mutant
\* xattr_find_position: the first index whose entry does not sort before name.
FindPosition(s, name) ==
    LET later == {n \in 1..Len(s) : SortsBefore(Key(name), Key(s[n].name))}
    IN  IF later = {} THEN Len(s) + 1 ELSE CHOOSE n \in later : \A m \in later : n <= m

IndexOf(s, name) == LET at == {n \in 1..Len(s) : s[n].name = name}
                    IN  IF at = {} THEN 0 ELSE CHOOSE n \in at : TRUE

-----------------------------------------------------------------------------
\* Entries on disk

Hash(name, value) == <<name, value>>

\* write_xattrs_to_buffer and its inverse: the value of an entry is beside it,
\* or in the inode it names; a hash is kept where write_hash or ea asks for it.
Entry(a, withHash) ==
    [name |-> a.name, ea |-> a.ea, len |-> a.value.len,
     value |-> IF a.ea = 0 THEN a.value ELSE None,
     hash |-> IF withHash \/ a.ea # 0 THEN Hash(a.name, a.value) ELSE <<>>]

EntryValue(d, e) == IF e.ea = 0 THEN e.value ELSE d.ea[e.ea].value

\* read_xattrs_from_buffer refuses a value whose inode is not one in use for
\* values, or is of another length, and an entry whose hash is of another value.
EntryOk(d, e) ==
    /\ e.ea # 0 => d.ea[e.ea].ref > 0 /\ EntryValue(d, e).len = e.len
    /\ e.hash # <<>> => e.hash = Hash(e.name, EntryValue(d, e))

BlockEntries(d, i) == IF d.inode[i].acl = NoBlock THEN <<>>
                      ELSE d.blk[d.inode[i].acl].entries
Entries(d, i)  == d.inode[i].ibody \o BlockEntries(d, i)
Readable(d, i) == \A n \in 1..Len(Entries(d, i)) : EntryOk(d, Entries(d, i)[n])

ReadAttrs(d, s) == [n \in 1..Len(s) |-> Attr(s[n].name, EntryValue(d, s[n]), s[n].ea)]

\* ext2fs_xattrs_open and ext2fs_xattrs_read
Handle(i, attrs, n) == [open |-> TRUE, ino |-> i, attrs |-> attrs, ibody |-> n]
ReadHandle(d, i) == Handle(i, ReadAttrs(d, Entries(d, i)), Len(d.inode[i].ibody))

-----------------------------------------------------------------------------
\* Access control lists are shorter on disk: only some entries keep their id.

HasId(e) == e[1] \in {"user", "group"}

\* convert_posix_acl_to_disk_buffer
ToDisk(v) == [len |-> 4 + Total([n \in 1..Len(v.tag) |-> IF HasId(v.tag[n]) THEN 8 ELSE 4]),
              tag |-> [n \in 1..Len(v.tag) |-> IF HasId(v.tag[n]) THEN v.tag[n]
                                               ELSE <<v.tag[n][1]>>]]

\* convert_disk_buffer_to_posix_acl
FromDisk(v) == [len |-> 4 + 8 * Len(v.tag),
                tag |-> [n \in 1..Len(v.tag) |-> IF HasId(v.tag[n]) THEN v.tag[n]
                                                 ELSE <<v.tag[n][1], 0>>]]

Stored(name, v) == IF name = "system.posix_acl_access" THEN ToDisk(v) ELSE v

\* ext2fs_xattr_get of every name
Got(name, v)   == IF name = "system.posix_acl_access" THEN FromDisk(v) ELSE v
Contents(d, i) ==
    [name \in Names |-> LET n == IndexOf(Entries(d, i), name)
                        IN  IF n = 0 THEN None
                            ELSE Got(name, EntryValue(d, Entries(d, i)[n]))]

-----------------------------------------------------------------------------
\* Values in inodes

\* xattr_create_ea_inode: the inodes it may take.
FreeEaInodes(d) == {e \in EaInodes : d.ea[e].ref = 0}
WithEaInode(d, e, v) == [d EXCEPT !.ea[e] = [ref |-> 1, value |-> v]]

\* xattr_inode_dec_ref: the last user's inode is freed with its blocks.  What a
\* free inode or a free block holds is not kept.
FreeInode == [ref |-> 0, value |-> None]
FreeBlock == [ref |-> 0, entries |-> <<>>]
DecRef(d, ea) == IF ea = 0 THEN d
                 ELSE [d EXCEPT !.ea[ea] = IF @.ref = 1 THEN FreeInode
                                           ELSE [ref |-> @.ref - 1, value |-> @.value]]

\* xattr_update_entry: the new value's inode is made before the old one's goes.
UpdateEntry(d, old, name, v, inInode) ==
    IF ~inInode THEN [err |-> "ok", d |-> DecRef(d, old), attr |-> Attr(name, v, 0)]
    ELSE IF FreeEaInodes(d) = {} THEN [err |-> "no_inode", d |-> d, attr |-> Attr(name, v, 0)]
    ELSE LET e == CHOOSE e \in FreeEaInodes(d) : \A f \in FreeEaInodes(d) : e <= f
         IN  [err |-> "ok", d |-> DecRef(WithEaInode(d, e, v), old), attr |-> Attr(name, v, e)]

-----------------------------------------------------------------------------
\* Where an attribute goes

BlockPart(h) == SubSeq(h.attrs, h.ibody + 1, Len(h.attrs))
IbodyPart(h) == SubSeq(h.attrs, 1, h.ibody)

\* The room that ext2fs_xattr_set finds: a magic and a null entry besides.
IbodyFree(h) == IF InodeSize = 128 THEN 0 ELSE IbodyRoom - 4 - SpaceUsed(IbodyPart(h))
BlockFree(h) == BlockRoom - 4 - SpaceUsed(BlockPart(h))

AppendToIbody(h, a) == Handle(h.ino, InsertAt(h.attrs, h.ibody + 1, a), h.ibody + 1)
\* Entries of the block stay sorted.
InsertInBlock(h, a) ==
    Handle(h.ino, InsertAt(h.attrs, h.ibody + FindPosition(BlockPart(h), a.name), a), h.ibody)
Dropped(h, n) == Handle(h.ino, RemoveAt(h.attrs, n), IF n <= h.ibody THEN h.ibody - 1 ELSE h.ibody)
Replaced(h, n, a) == Handle(h.ino, [h.attrs EXCEPT ![n] = a], h.ibody)

\* xattr_array_update of the entry at old (0: a new one).  It is asked for room
\* beside the others, the old entry's own room counted where it is.
ArrayUpdate(d, h, name, v, ibodyFree, blockFree, old, inInode) ==
    LET needed  == Needed(name, v.len, inInode)
        freed   == IF old = 0 THEN 0 ELSE AttrSize(h.attrs[old])
        inIbody == old \in 1..h.ibody
        inBlock == old > h.ibody
        up      == UpdateEntry(d, IF old = 0 THEN 0 ELSE h.attrs[old].ea, name, v, inInode)
        Done(g) == [err |-> up.err, d |-> up.d, h |-> IF up.err = "ok" THEN g ELSE h]
    IN  IF needed <= ibodyFree + (IF inIbody THEN freed ELSE 0)
        THEN Done(IF inIbody THEN Replaced(h, old, up.attr)
                  ELSE IF inBlock THEN AppendToIbody(Dropped(h, old), up.attr)
                  ELSE AppendToIbody(h, up.attr))
        ELSE IF needed <= blockFree + (IF inBlock THEN freed ELSE 0)
        THEN Done(IF inBlock THEN Replaced(h, old, up.attr)
                  ELSE IF inIbody THEN InsertInBlock(Dropped(h, old), up.attr)
                  ELSE InsertInBlock(h, up.attr))
        ELSE [err |-> "no_space", d |-> d, h |-> h]

-----------------------------------------------------------------------------
\* ext2fs_xattrs_write: its outcomes, for a handle h of inode i.  The inode is
\* changed in memory (ino) and written last.

Outcome(err, d) == [err |-> err, d |-> d]
WithInode(d, i, ino) == [d EXCEPT !.inode[i] = ino]

\* prep_ea_block_for_write: the blocks to write to, and what the disk is then.
AnyBlock(d, ino) == ino.acl # NoBlock                           \* mutant
OwnBlock(d, ino)    == ino.acl # NoBlock /\ d.blk[ino.acl].ref = 1
SharedBlock(d, ino) == ino.acl # NoBlock /\ d.blk[ino.acl].ref # 1
StillShared(d, ino) == d                                        \* mutant
Unshared(d, ino)    == IF SharedBlock(d, ino) THEN [d EXCEPT !.blk[ino.acl].ref = @ - 1] ELSE d

WriteIn(d, b, rest) ==
    LET block == [ref |-> 1, entries |-> [n \in 1..Len(rest) |-> Entry(rest[n], TRUE)]]
    IN  [inode |-> d.inode, blk |-> [d.blk EXCEPT ![b] = block], ea |-> d.ea, used |-> d.used \cup {b}]

\* May the call stop here, having done these things already?
MayFail(done) == IF done = {} THEN "first" \in Faults ELSE done \subseteq Faults

WriteXattrs(d, i, h, released) ==
    LET ibody   == [n \in 1..h.ibody |-> Entry(h.attrs[n], FALSE)]
        ino     == [d.inode[i] EXCEPT !.ibody = ibody]
        rest    == BlockPart(h)
        done    == IF released THEN {"eainode"} ELSE {}
        cow     == IF SharedBlock(d, ino) THEN {"cow"} ELSE {}
        Failed(at, e) == IF MayFail(at) /\ faults < MaxFaults THEN {Outcome("io", e)} ELSE {}
    IN  IF rest = <<>> /\ ino.acl = NoBlock
        THEN {Outcome("ok", WithInode(d, i, ino))} \cup Failed(done, d)
        ELSE LET e      == Unshared(d, ino)
                 inPlace == OwnBlock(d, ino)
                 blocks == IF inPlace THEN {ino.acl} ELSE EaBlocks \ d.used
                 count  == ino.iblocks + (IF ino.acl = NoBlock THEN 1 ELSE 0)
             IN  \* no block, or its write failed (a new block is then lost)
                 Failed(done \cup cow, e)
                 \cup (UNION {Failed(done \cup cow, [e EXCEPT !.used = @ \cup {b}]) : b \in blocks})
                 \cup (UNION {Failed(done \cup cow \cup (IF inPlace THEN {"inode"} ELSE {}),
                                   WriteIn(e, b, rest)) : b \in blocks})
                 \cup {Outcome("ok", WithInode(WriteIn(e, b, rest), i,
                                   [ibody |-> ibody, acl |-> b, iblocks |-> count])) : b \in blocks}

-----------------------------------------------------------------------------
\* ext2fs_xattr_set and ext2fs_xattr_remove: outcomes [err, d, h].

\* "skipping update if value is the same": the one in the handle.
SameInHandle(h, n, v) == /\ n # 0 /\ h.attrs[n].ea = 0
                         /\ h.attrs[n].value = v

\* The answer of xattr_array_update, tried again with the value in an inode.
Updated(d, h, name, v) ==
    LET old   == IndexOf(h.attrs, name)
        large == HasEaInode /\ v.len > MinLargeEaSize
        first == ArrayUpdate(d, h, name, v, IbodyFree(h), BlockFree(h), old, large)
    IN  IF name = "system.data"
        THEN IF old > h.ibody THEN [err |-> "corrupted", d |-> d, h |-> h]
             ELSE ArrayUpdate(d, h, name, v, IbodyFree(h), 0, old, FALSE)
        ELSE IF first.err = "no_space" /\ ~large /\ HasEaInode
        THEN ArrayUpdate(d, h, name, v, IbodyFree(h), BlockFree(h), old, TRUE)
        ELSE first

\* u: the handle and the disk after the change in memory.
Written(i, u, released) ==
    {[err |-> o.err, d |-> o.d, h |-> u.h] : o \in WriteXattrs(u.d, i, u.h, released)}

Releases(h, name) == LET n == IndexOf(h.attrs, name) IN n # 0 /\ h.attrs[n].ea # 0

SetOutcomes(d, h, name, value) ==
    LET v == Stored(name, value)
        u == Updated(d, h, name, v)
    IN  IF SameInHandle(h, IndexOf(h.attrs, name), v) THEN {[err |-> "ok", d |-> d, h |-> h]}
        ELSE IF u.err # "ok" THEN {u}
        ELSE Written(h.ino, u, Releases(h, name))

RemoveOutcomes(d, h, name) ==
    LET n == IndexOf(h.attrs, name)
    IN  IF n = 0 THEN {[err |-> "ok", d |-> d, h |-> h]}
        ELSE Written(h.ino, [d |-> DecRef(d, h.attrs[n].ea), h |-> Dropped(h, n)],
                     Releases(h, name))

-----------------------------------------------------------------------------
\* Actions

NoAttrs == [name \in Names |-> None]
PlainInode == [ibody |-> <<>>, acl |-> NoBlock, iblocks |-> 0]

\* Inodes start without attributes, or with a block that another system's
\* driver has made them share, with one entry of value v (in inode e).
EmptyDisk == [inode |-> [i \in Inodes |-> PlainInode],
              blk   |-> [b \in EaBlocks |-> FreeBlock],
              ea    |-> [e \in EaInodes |-> FreeInode],
              used  |-> {}]
SharedEntry(v, e) == Entry(Attr("user.a", v, e), TRUE)
SharedDisk(b, v, e) ==
    [inode |-> [i \in Inodes |-> [ibody |-> <<>>, acl |-> b, iblocks |-> 1]],
     blk   |-> [EmptyDisk.blk EXCEPT ![b] = [ref |-> Cardinality(Inodes),
                                             entries |-> <<SharedEntry(v, e)>>]],
     ea    |-> [f \in EaInodes |-> IF f = e THEN [ref |-> 1, value |-> v] ELSE FreeInode],
     used  |-> {b}]
SharedDisks == {<<v, SharedDisk(b, v, 0)>> : b \in EaBlocks, v \in {v \in Plain : v.len <= MinLargeEaSize}}
               \cup IF SharedLarge THEN {<<v, SharedDisk(b, v, e)>> : b \in EaBlocks, v \in Plain, e \in EaInodes}
                    ELSE {}

Init == /\ \/ disk = EmptyDisk /\ want = [i \in Inodes |-> NoAttrs]
           \/ \E s \in SharedDisks :
                 disk = s[2] /\ want = [i \in Inodes |-> [NoAttrs EXCEPT !["user.a"] = s[1]]]
        /\ handle = Closed
        /\ faults = 0

\* A client opens a handle and reads the attributes.
XattrsOpen(i) == /\ ~handle.open
           /\ Readable(disk, i)
           /\ handle' = ReadHandle(disk, i)
           /\ UNCHANGED <<disk, want, faults>>

XattrsClose == /\ handle.open
         /\ handle' = Closed
         /\ UNCHANGED <<disk, want, faults>>

\* A call on the handle has outcome o, and makes w of the promise if it works.
Ends(o, w) ==
    /\ disk' = o.d
    /\ handle' = IF o.err = "ok" \/ KeepHandle THEN o.h ELSE Closed
    /\ want' = IF o.err = "ok" THEN w ELSE want
    /\ faults' = IF o.err = "io" THEN faults + 1 ELSE faults

XattrSet(name, v) ==
    /\ handle.open
    /\ \E o \in SetOutcomes(disk, handle, name, v) :
         Ends(o, [want EXCEPT ![handle.ino][name] = v])

XattrRemove(name) ==
    /\ handle.open
    /\ \E o \in RemoveOutcomes(disk, handle, name) :
         Ends(o, [want EXCEPT ![handle.ino][name] = None])

\* ext2fs_free_ext_attr, the inode read and written by it.  The values that
\* entries of the block have in inodes stay there.
Freed(d, i) ==
    LET b    == d.inode[i].acl
        last == d.blk[b].ref = 1
        ino  == [ibody |-> d.inode[i].ibody, acl |-> NoBlock, iblocks |-> d.inode[i].iblocks - 1]
    IN  [inode |-> [d.inode EXCEPT ![i] = ino],
         blk   |-> [d.blk EXCEPT ![b] = IF last THEN FreeBlock
                                        ELSE [ref |-> @.ref - 1, entries |-> @.entries]],
         ea    |-> d.ea,
         used  |-> IF last THEN d.used \ {b} ELSE d.used]

FreeExtAttr(i) ==
    /\ ~handle.open
    /\ disk.inode[i].acl # NoBlock
    /\ disk' = Freed(disk, i)
    /\ want' = [want EXCEPT ![i] =
                   [name \in Names |-> IF IndexOf(BlockEntries(disk, i), name) # 0 THEN None
                                       ELSE @[name]]]
    /\ UNCHANGED <<handle, faults>>

Next == \/ \E i \in Inodes : XattrsOpen(i) \/ FreeExtAttr(i)
        \/ \E name \in Names : XattrRemove(name) \/ \E v \in Values(name) : XattrSet(name, v)
        \/ XattrsClose

Spec == Init /\ [][Next]_vars

Symmetry == Permutations(Inodes) \cup Permutations(EaBlocks)

-----------------------------------------------------------------------------
\* Properties

\* Two values are the same to a client: an entry of a list without a user or a
\* group has no id.
SameTo(name, v, w) ==
    IF name = "system.posix_acl_access" /\ v # None /\ w # None
    THEN /\ v.len = w.len /\ Len(v.tag) = Len(w.tag)
         /\ \A n \in 1..Len(v.tag) : v.tag[n][1] = w.tag[n][1]
                                       /\ (HasId(v.tag[n]) => v.tag[n] = w.tag[n])
    ELSE v = w

Users(b)  == {i \in Inodes : disk.inode[i].acl = b}
Places(e) ==
    Cardinality({b \in EaBlocks : Users(b) # {}
                    /\ \E n \in 1..Len(disk.blk[b].entries) : disk.blk[b].entries[n].ea = e})
    + Cardinality({i \in Inodes : \E n \in 1..Len(disk.inode[i].ibody) :
                                     disk.inode[i].ibody[n].ea = e})

\* A block is marked in use and counts exactly the inodes that name it, an
\* inode counts its block, an inode with a value counts at least the places that
\* name it; without a failure no block is lost.
RefsCounted ==
    /\ \A b \in EaBlocks : Users(b) # {} => /\ b \in disk.used
                                            /\ disk.blk[b].ref = Cardinality(Users(b))
    /\ faults = 0 => \A b \in disk.used : Users(b) # {}
    /\ \A i \in Inodes : disk.inode[i].iblocks = IF disk.inode[i].acl = NoBlock THEN 0 ELSE 1
    /\ \A e \in EaInodes : Places(e) <= disk.ea[e].ref

Size(s) == SpaceUsed(ReadAttrs(disk, s))

\* Entries and their values leave room for the null entry that ends them; those
\* of a block are in the order in which the drivers search it; inline data
\* never leaves the inode.
Placed ==
    \A i \in Inodes :
      LET ibody == disk.inode[i].ibody
          block == BlockEntries(disk, i)
      IN  /\ ibody # <<>> => Size(ibody) + 4 <= IbodyRoom
          /\ block # <<>> => Size(block) + 4 <= BlockRoom
          /\ \A n \in 1..(Len(block) - 1) : /\ SortsBefore(Key(block[n].name), Key(block[n + 1].name))
                                            /\ block[n].name # block[n + 1].name
          /\ IndexOf(block, "system.data") = 0

\* Whoever reads an inode's attributes afresh finds what the calls that returned
\* 0 for that inode have stored: not what another inode's calls did to a block
\* they shared, nothing lost on the way between inode, block and value inode,
\* nothing refused; and what is stored is where the next call looks for it
\* (Placed).
ReadsRight ==
    /\ Placed
    /\ \A i \in Inodes : /\ Readable(disk, i)
                         /\ \A name \in Names : SameTo(name, Contents(disk, i)[name], want[i][name])
=============================================================================
