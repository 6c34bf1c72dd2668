------------------------------- MODULE FsFlush -------------------------------
(* How a file system's metadata reaches the device:                          *)
(* src/libext2fs/closefs.c (ext2fs_flush2, write_primary_superblock,         *)
(* ext2fs_close2), the bitmaps' write in rw_bitmaps.c, and what openfs.c     *)
(* reads back.  The volume has metadata_csum and is open for writing.        *)
(*                                                                           *)
(* Any number of threads flush at once (ext2_vfsop_sync and translate_error  *)
(* in src/e2fsmac take no lock), and may be interrupted at every transfer.   *)
(* The I/O channel is what BlockStore promises: chan is what it answers      *)
(* with, disk what a crash leaves, and any block may reach the disk early.   *)
(*                                                                           *)
(* What is allocated in a group is a version number: maps[g] counts the      *)
(* changes to the group's bitmap.  A checksum is the value it is taken of.   *)
EXTENDS Integers

CONSTANTS Threads,       \* callers of ext2fs_flush and ext2fs_close
          NGroups,       \* group_desc_count
          BlocksPerGroup,
          DescPerBlock,  \* EXT2_DESC_PER_BLOCK
          Geometries,    \* the volumes to look at
          MaxChanges,    \* bound: changes to the bitmap of one group
          Changing,      \* bound: the groups that are allocated from
          Faulty         \* may a transfer fail?

Groups     == 0..(NGroups - 1)
DescBlocks == 0..((NGroups + DescPerBlock - 1) \div DescPerBlock - 1)

\* A block of 1024 bytes holds sixteen descriptors of 64 bytes.
ASSUME SizesAssumption == /\ {NGroups, DescPerBlock} \subseteq Nat \ {0}
                          /\ DescPerBlock > 1
                          /\ BlocksPerGroup \in Nat /\ BlocksPerGroup > NGroups + 2
                          /\ MaxChanges \in Nat /\ Changing \subseteq Groups
ASSUME FaultyAssumption == Faulty \in BOOLEAN

\* first is s_first_data_block; supers is "all", "sparse" or "sparse2" (with
\* backup_bgs); valid and recovery are what mke2fs and the last client left in
\* s_state and in s_feature_incompat.
ASSUME GeometriesAssumption ==
    Geometries \subseteq
      [first : {0, 1}, meta_bg : BOOLEAN, first_meta_bg : Nat,
       supers : {"all", "sparse", "sparse2"}, backup_bgs : SUBSET Groups,
       master_only : BOOLEAN, valid : BOOLEAN, recovery : BOOLEAN]

VARIABLES geo,      \* the volume: constant
          super,    \* fs->super
          orig,     \* fs->orig_super
          maps,     \* [Groups -> version of fs->block_map]
          gd,       \* [Groups -> version the descriptor has the checksum of]
          dirty,    \* EXT2_FLAG_DIRTY
          bb,       \* EXT2_FLAG_BB_DIRTY
          chan,     \* [Blocks -> what the channel answers]
          disk,     \* [Blocks -> what is on the device]
          primary,  \* the primary superblock on the device
          th,       \* [Threads -> where the caller is]
          open,     \* is the file system open?
          failed    \* has a flush ever failed?

fs   == <<super, orig, maps, gd, dirty, bb>>
vars == <<geo, fs, chan, disk, primary, th, open, failed>>

-----------------------------------------------------------------------------
\* Where things are

\* test_root: a is b, b * b, b * b * b, ...
TestRoot(a, b) ==
    LET root[x \in 0..a] == x >= b /\ (x = b \/ (x % b = 0 /\ root[x \div b]))
    IN  root[a]

HasSuper(g) ==
    \/ g = 0
    \/ /\ geo.supers = "sparse2"
       /\ g \in geo.backup_bgs
    \/ /\ geo.supers # "sparse2"
       /\ \/ g <= 1 \/ geo.supers = "all"
          \/ g % 2 = 1 /\ \E b \in {3, 5, 7} : TestRoot(g, b)

GroupBlock(g) == geo.first + g * BlocksPerGroup
Adjust(g)     == IF HasSuper(g) THEN 1 ELSE 0
Blocks        == 0..(NGroups * BlocksPerGroup)
BlocksCount   == geo.first + NGroups * BlocksPerGroup
MapBlock(g)   == GroupBlock(g) + BlocksPerGroup - 1   \* not where descriptors are

\* ext2fs_super_and_bgd_loc2: how many descriptor blocks follow the superblock
\* of the group, and does the group hold its meta group's block?
InMeta(g)  == geo.meta_bg /\ g \div DescPerBlock >= geo.first_meta_bg
OldDescs   == IF geo.meta_bg THEN {k \in DescBlocks : k < geo.first_meta_bg}
                             ELSE DescBlocks
HasOld(g)  == ~InMeta(g) /\ HasSuper(g)
HasNew(g)  == InMeta(g) /\ g % DescPerBlock \in {0, 1, DescPerBlock - 1}
NewDescUnadjusted(g) == GroupBlock(g) + 1                            \* mutant
NewDesc(g) == GroupBlock(g) + Adjust(g)

\* ext2fs_descriptor_block_loc2: where ext2fs_open looks for descriptor block
\* i, from the primary superblock or from the backup at group_block.
DescLoc(group_block, i) ==
    LET bg  == DescPerBlock * i
        alt == GroupBlock(bg) + Adjust(bg) + BlocksPerGroup
    IN  IF ~geo.meta_bg \/ i < geo.first_meta_bg THEN group_block + i + 1
        ELSE IF group_block # geo.first /\ alt < BlocksCount
             THEN GroupBlock(bg) + BlocksPerGroup + Adjust(bg + 1)
             ELSE GroupBlock(bg) + Adjust(bg)

-----------------------------------------------------------------------------
\* Contents

Versions == [Groups -> 0..MaxChanges]
Zeros    == [g \in Groups |-> 0]

\* The superblock's fields that a flush touches, in the order of their offsets.
\* free stands for the counts, as the changes they count; wtime is s_wtime.
Fields == <<"free", "wtime", "valid", "group", "recovery", "csum">>

SuperCsum(s) == <<s.free, s.wtime, s.valid, s.group, s.recovery>>
Checked(s)   == [s EXCEPT !.csum = SuperCsum(s)]

Content(what, i, data, valid) == [what |-> what, i |-> i, data |-> data, valid |-> valid]
Empty         == Content("empty", 0, Zeros, FALSE)
MapBits(g, v) == Content("map", g, [Zeros EXCEPT ![g] = v], FALSE)
Desc(k, d)    == Content("desc", k, [g \in Groups |-> IF g \div DescPerBlock = k
                                                      THEN d[g] ELSE 0], FALSE)
Backup(s)     == Content("super", s.group, s.free, s.valid \/ s.recovery)

\* What mke2fs made: every copy is there.
Made(b) ==
    CASE \E g \in Groups : b = MapBlock(g) ->
           MapBits(CHOOSE g \in Groups : b = MapBlock(g), 0)
      [] \E g \in Groups : HasOld(g) /\ b - GroupBlock(g) - 1 \in OldDescs ->
           Desc(CHOOSE k \in OldDescs : \E g \in Groups : b = GroupBlock(g) + 1 + k, Zeros)
      [] \E g \in Groups : HasNew(g) /\ b = NewDesc(g) ->
           Desc(CHOOSE k \in DescBlocks : \E g \in Groups : b = NewDesc(g) /\ k = g \div DescPerBlock, Zeros)
      [] OTHER -> Empty

Idle == [pc |-> "idle", kind |-> "sync", group |-> 0, part |-> "super",
         field |-> 1, valid |-> FALSE, recovery |-> FALSE, ok |-> TRUE]

Init ==
    /\ geo \in Geometries
    /\ super = Checked([free |-> Zeros, wtime |-> 0, valid |-> geo.valid, group |-> 0,
                        recovery |-> geo.recovery, csum |-> <<>>])
    /\ orig = super /\ primary = super
    /\ maps = Zeros /\ gd = Zeros
    /\ dirty = FALSE /\ bb = FALSE
    /\ chan = [b \in Blocks |-> Made(b)] /\ disk = chan
    /\ th = [t \in Threads |-> Idle]
    /\ open = TRUE /\ failed = FALSE

-----------------------------------------------------------------------------
\* The client

At(t, here) == th[t].pc = here
Quiet == \A t \in Threads : At(t, "idle")

\* ext2fs_block_alloc_stats2 and the like, between two flushes: the bitmap and
\* the counts change, the checksum of the bitmap waits for its write.
Alloc(g) == /\ open /\ Quiet
            /\ maps[g] < MaxChanges
            /\ maps' = [maps EXCEPT ![g] = @ + 1]
            /\ super' = [super EXCEPT !.free[g] = maps[g] + 1]
            /\ dirty' = TRUE /\ bb' = TRUE
            /\ UNCHANGED <<geo, orig, gd, chan, disk, primary, th, open, failed>>

\* ext2fs_mark_super_dirty: the mount, translate_error.
MarkSuperDirty == /\ open
                  /\ dirty' = TRUE
                  /\ UNCHANGED <<geo, super, orig, maps, gd, bb, chan, disk, primary, th, open, failed>>

Sync(t) == /\ open /\ At(t, "idle")
           /\ th' = [th EXCEPT ![t].pc = "enter"]
           /\ UNCHANGED <<geo, fs, chan, disk, primary, open, failed>>

\* ext2fs_close2: the bitmaps first, then a flush if anything is dirty.  The
\* kernel lets no one else in (ext2_vfsop_unmount).
Close(t) == /\ open /\ Quiet
            /\ th' = [th EXCEPT ![t].kind = "close",
                                ![t].pc = IF bb THEN "premaps" ELSE IF dirty THEN "enter" ELSE "ret"]
            /\ UNCHANGED <<geo, fs, chan, disk, primary, open, failed>>

-----------------------------------------------------------------------------
\* ext2fs_flush2

\* errout: s_state is put back, s_feature_incompat is not.
Errout(t) == /\ Faulty
             /\ super' = [super EXCEPT !.valid = th[t].valid]
             /\ th' = [th EXCEPT ![t].pc = "ret", ![t].ok = FALSE]
             /\ failed' = TRUE

Written(w) == chan' = [b \in Blocks |-> IF b \in DOMAIN w THEN w[b] ELSE chan[b]]

\* The entry saves what errout and Restore put back.
Enter(t) ==
    /\ At(t, "enter")
    /\ \E now \in {0, 1} : super' = [super EXCEPT !.wtime = now, !.group = 0]
    /\ th' = [th EXCEPT ![t].pc = "maps", ![t].group = IF bb THEN 0 ELSE NGroups,
                        ![t].valid = super.valid, ![t].recovery = super.recovery]
    /\ UNCHANGED <<geo, orig, maps, gd, dirty, bb, chan, disk, primary, open, failed>>

\* write_bitmaps, one group a turn.
InMaps(t) == th[t].pc \in {"premaps", "maps"}

StaleCsum(g) == gd                                                   \* mutant
MapCsumSet(g) == [gd EXCEPT ![g] = maps[g]]

WriteMap(t) ==
    LET g == th[t].group
    IN  /\ InMaps(t) /\ g < NGroups
        /\ gd' = MapCsumSet(g)
        /\ dirty' = TRUE
        /\ \/ /\ Written([b \in {MapBlock(g)} |-> MapBits(g, maps[g])])
              /\ th' = [th EXCEPT ![t].group = g + 1]
              /\ UNCHANGED <<super, failed>>
           \/ /\ At(t, "maps") /\ Errout(t)
              /\ UNCHANGED chan
           \/ /\ At(t, "premaps") /\ Faulty
              /\ th' = [th EXCEPT ![t].pc = "ret", ![t].ok = FALSE]
              /\ failed' = TRUE
              /\ UNCHANGED <<super, chan>>
        /\ UNCHANGED <<geo, orig, maps, bb, disk, primary, open>>

\* The bitmaps are written; while the backups are, the superblock says that
\* the file system is not valid and needs no recovery.
StillValid(s) == [s EXCEPT !.recovery = FALSE]                       \* mutant
Invalid(s) == [s EXCEPT !.valid = FALSE, !.recovery = FALSE]

MapsDone(t) ==
    /\ InMaps(t) /\ th[t].group = NGroups
    /\ bb' = FALSE
    /\ IF At(t, "maps") THEN super' = Invalid(super) ELSE UNCHANGED super
    /\ th' = [th EXCEPT ![t].pc = IF @ = "maps" THEN "loop" ELSE "enter", ![t].group = 0]
    /\ UNCHANGED <<geo, orig, maps, gd, dirty, chan, disk, primary, open, failed>>

\* The loop over the groups: up to three writes in each.
NextPart(r) == CASE r.part = "super" -> [r EXCEPT !.part = "old"]
                 [] r.part = "old"   -> [r EXCEPT !.part = "new"]
                 [] r.part = "new"   -> [r EXCEPT !.part = "super", !.group = @ + 1]

InPart(t, part) == At(t, "loop") /\ th[t].group < NGroups /\ th[t].part = part

WritesSuper(g) == ~geo.master_only /\ g # 0 /\ HasSuper(g)
WritesOld(g)   == HasOld(g) /\ (~geo.master_only \/ g = 0)

WriteBackup(t) ==
    LET g == th[t].group
        s == Checked([super EXCEPT !.group = g])
    IN  /\ InPart(t, "super")
        /\ IF ~WritesSuper(g)
           THEN th' = [th EXCEPT ![t] = NextPart(@)] /\ UNCHANGED <<super, chan, failed>>
           ELSE \/ /\ super' = s
                   /\ Written([b \in {GroupBlock(g)} |-> Backup(s)])
                   /\ th' = [th EXCEPT ![t] = NextPart(@)]
                   /\ UNCHANGED failed
                \/ /\ Faulty
                   /\ super' = [s EXCEPT !.valid = th[t].valid]
                   /\ th' = [th EXCEPT ![t].pc = "ret", ![t].ok = FALSE]
                   /\ failed' = TRUE
                   /\ UNCHANGED chan
        /\ UNCHANGED <<geo, orig, maps, gd, dirty, bb, disk, primary, open>>

\* w says which blocks to write and what; none when the group has no such part.
WritePart(t, part, w) ==
    /\ InPart(t, part)
    /\ \/ /\ Written(w)
          /\ th' = [th EXCEPT ![t] = NextPart(@)]
          /\ UNCHANGED <<super, failed>>
       \/ /\ DOMAIN w # {} /\ Errout(t)
          /\ UNCHANGED chan
    /\ UNCHANGED <<geo, orig, maps, gd, dirty, bb, disk, primary, open>>

WriteOld(t) ==
    LET g == th[t].group
        start == GroupBlock(g) + 1
    IN  WritePart(t, "old",
                  [b \in IF WritesOld(g) THEN {start + k : k \in OldDescs} ELSE {} |->
                     Desc(b - start, gd)])

WriteNew(t) ==
    LET g == th[t].group
    IN  WritePart(t, "new", [b \in IF HasNew(g) THEN {NewDesc(g)} ELSE {} |->
                               Desc(g \div DescPerBlock, gd)])

NotRestored(s, r) == Checked([s EXCEPT !.group = 0, !.recovery = r.recovery])   \* mutant
NotChecked(s, r)  == [s EXCEPT !.group = 0, !.valid = r.valid, !.recovery = r.recovery]   \* mutant
Restored(s, r) == Checked([s EXCEPT !.group = 0, !.valid = r.valid, !.recovery = r.recovery])

Restore(t) ==
    /\ At(t, "loop") /\ th[t].group = NGroups
    /\ super' = Restored(super, th[t])
    /\ th' = [th EXCEPT ![t].pc = "flush1"]
    /\ UNCHANGED <<geo, orig, maps, gd, dirty, bb, chan, disk, primary, open, failed>>

\* io_channel_flush, before and after the primary superblock.
FlushChannel(t, here, there) ==
    /\ At(t, here)
    /\ \/ /\ disk' = chan
          /\ th' = [th EXCEPT ![t].pc = there]
          /\ UNCHANGED <<super, failed>>
       \/ Errout(t) /\ UNCHANGED disk
    /\ UNCHANGED <<geo, orig, maps, gd, dirty, bb, chan, primary, open>>

Flush1(t) == FlushChannel(t, "flush1", "primary")
Flush2(t) == FlushChannel(t, "flush2", "ret")

\* write_primary_superblock: io_channel_write_byte for each run of bytes that
\* is not as in orig_super; it flushes the channel first.
Differs(i) == super[Fields[i]] # orig[Fields[i]]

WriteField(t) ==
    /\ At(t, "primary")
    /\ \E i \in th[t].field..6 :
         /\ Differs(i)
         /\ \A j \in th[t].field..(i - 1) : ~Differs(j)
         /\ \/ /\ disk' = chan
               /\ primary' = [primary EXCEPT ![Fields[i]] = super[Fields[i]]]
               /\ th' = [th EXCEPT ![t].field = i + 1]
               /\ UNCHANGED <<super, failed>>
            \/ /\ Errout(t)
               /\ disk' \in {disk, chan}
               /\ primary' \in {primary} \cup
                    (IF disk' = chan THEN {[primary EXCEPT ![Fields[i]] = super[Fields[i]]]} ELSE {})
    /\ UNCHANGED <<geo, orig, maps, gd, dirty, bb, chan, open>>

PrimaryDone(t) ==
    /\ At(t, "primary")
    /\ \A j \in th[t].field..6 : ~Differs(j)
    /\ orig' = super
    /\ dirty' = FALSE
    /\ th' = [th EXCEPT ![t].pc = "flush2"]
    /\ UNCHANGED <<geo, super, maps, gd, bb, chan, disk, primary, open, failed>>

\* The call returns.  A close that has come this far frees fs; the close of
\* the channel flushes, and nobody looks at the result.
Gone == /\ open' = FALSE
        /\ th' = [t \in Threads |-> Idle]
        /\ super' = primary /\ orig' = primary
        /\ maps' = Zeros /\ gd' = Zeros
        /\ dirty' = FALSE /\ bb' = FALSE

Return(t) ==
    /\ At(t, "ret")
    /\ IF th[t].kind = "close" /\ th[t].ok
       THEN /\ Gone
            /\ disk' \in IF Faulty THEN {chan, disk} ELSE {chan}
            /\ chan' = disk'
       ELSE /\ th' = [th EXCEPT ![t] = Idle]
            /\ UNCHANGED <<fs, chan, disk, open>>
    /\ UNCHANGED <<geo, primary, failed>>

-----------------------------------------------------------------------------
\* The rest of the world

\* The channel writes a block back when it wants the slot.
WriteBack(b) == /\ disk[b] # chan[b]
                /\ disk' = [disk EXCEPT ![b] = chan[b]]
                /\ UNCHANGED <<geo, fs, chan, primary, th, open, failed>>

Crash == /\ open
         /\ Gone
         /\ chan' = disk
         /\ UNCHANGED <<geo, disk, primary, failed>>

\* ext2fs_open and ext2fs_read_bitmaps: a checksum that does not match refuses
\* the volume.
Open ==
    /\ ~open
    /\ primary.csum = SuperCsum(primary)
    /\ super' = primary /\ orig' = primary
    /\ gd' = [g \in Groups |-> chan[DescLoc(geo.first, g \div DescPerBlock)].data[g]]
    /\ maps' = [g \in Groups |-> chan[MapBlock(g)].data[g]]
    /\ gd' = maps'
    /\ open' = TRUE
    /\ UNCHANGED <<geo, dirty, bb, chan, disk, primary, th, failed>>

Flush(t) == \/ Enter(t) \/ WriteMap(t) \/ MapsDone(t)
            \/ WriteBackup(t) \/ WriteOld(t) \/ WriteNew(t) \/ Restore(t)
            \/ Flush1(t) \/ WriteField(t) \/ PrimaryDone(t) \/ Flush2(t)
            \/ Return(t)

Next == \/ \E g \in Changing : Alloc(g)
        \/ MarkSuperDirty
        \/ \E t \in Threads : Sync(t) \/ Close(t) \/ Flush(t)
        \/ \E b \in Blocks : WriteBack(b)
        \/ Crash
        \/ Open

Spec == Init /\ [][Next]_vars

-----------------------------------------------------------------------------
\* Properties

Super == [free : Versions, wtime : {0, 1}, valid : BOOLEAN, group : Groups,
          recovery : BOOLEAN,
          csum : Versions \X {0, 1} \X BOOLEAN \X Groups \X BOOLEAN]
Contents == [what : {"empty", "map", "desc", "super"}, i : Groups, data : Versions,
             valid : BOOLEAN]
Caller == [pc : {"idle", "premaps", "enter", "maps", "loop", "flush1", "primary",
                 "flush2", "ret"},
           kind : {"sync", "close"}, group : 0..NGroups, part : {"super", "old", "new"},
           field : 1..7, valid : BOOLEAN, recovery : BOOLEAN, ok : BOOLEAN]

\* The types of the variables.
TypeOK == /\ geo \in Geometries
          /\ {super, orig, primary} \subseteq Super
          /\ {maps, gd} \subseteq Versions
          /\ {dirty, bb, open, failed} \subseteq BOOLEAN
          /\ {chan, disk} \subseteq [Blocks -> Contents]
          /\ th \in [Threads -> Caller]

\* "We flush all other pending changes out to disk first" (closefs.c:421):
\* whenever the machine stops, the primary superblock counts no change that
\* the bitmap or the descriptor of its group does not have on the device.
PrimaryLast == \A g \in Groups :
    /\ primary.free[g] <= disk[MapBlock(g)].data[g]
    /\ primary.free[g] <= disk[DescLoc(geo.first, g \div DescPerBlock)].data[g]

\* A flush that returns 0 has put the bitmaps, the descriptors and the
\* superblock where ext2fs_open looks for them, from the primary superblock
\* and from each backup (ext2fs_flush2 and ext2fs_super_and_bgd_loc2 against
\* ext2fs_descriptor_block_loc2), save the backups past s_first_meta_bg, which
\* have no copy of the descriptors before it.  After a failure the superblock may not be:
\* orig_super no longer says what is on the device.
DescStored(group_block, i) == disk[DescLoc(group_block, i)] = Desc(i, gd)
CopiesStored == \A g \in Groups \ {0} :
    /\ HasSuper(g) /\ ~geo.master_only
    /\ HasOld(g) \/ OldDescs = {}
    => \A i \in DescBlocks : DescStored(GroupBlock(g), i)
MapsStored  == \A g \in Groups : disk[MapBlock(g)] = MapBits(g, maps[g]) /\ gd[g] = maps[g]
SuperStored == primary = super
Flushed(t)  == th[t].group = NGroups     \* unless a close found nothing dirty
StoredWhenDone == \A t \in Threads : At(t, "ret") /\ th[t].ok =>
    /\ MapsStored
    /\ \A i \in DescBlocks : DescStored(geo.first, i)
    /\ failed \/ SuperStored
    /\ Flushed(t) => CopiesStored

\* The flush marks the file system in memory as not valid and not in need of
\* recovery, for the backups' sake: the primary superblock on the device never
\* says so, and nor does fs->super between two flushes ("has already been
\* backed up earlier, and will be restored", closefs.c:322).  errout forgets
\* s_feature_incompat: after a failure it may be lost.  orig_super, which was
\* read or was written as a whole (closefs.c:230), has the right checksum with
\* the state put back.
StateKept ==
    /\ TypeOK
    /\ open => orig.csum = SuperCsum(orig)
    /\ primary.valid = geo.valid
    /\ primary.recovery = geo.recovery \/ failed
    /\ open /\ Quiet => super.valid = geo.valid

\* No backup superblock says that the file system is valid or needs recovery
\* (closefs.c:321-327): whoever falls back on one has the volume checked.
BackupsNotValid == \A b \in Blocks : chan[b].what = "super" => ~chan[b].valid
=============================================================================
