-------------------------------- MODULE XnuIO --------------------------------
(* src/libext2fs/xnu_io.c: the I/O manager between libext2fs and the vnode   *)
(* of the block device, with its write-back cache of CACHE_SIZE blocks.      *)
(*                                                                           *)
(* One request runs at a time (the threads that share a channel without a    *)
(* lock are another matter, see README).  Each action is one turn of a loop  *)
(* of the request's handler or one transfer to the device, so that a crash   *)
(* can come between any two of them.  The block is the unit of data: a       *)
(* transfer of part of a block (count < 0, io_channel_write_byte) gives the  *)
(* block another value.  Memory allocation does not fail here, and the       *)
(* bounce buffer, the error handlers and CHANNEL_FLAGS_WRITETHROUGH, which   *)
(* nothing in the tree switches on, are left out.                            *)
EXTENDS Integers

CONSTANTS NBlocks,         \* blocks on the device
          Vals,            \* contents of a block
          Zero,            \* the contents of a fresh buffer
          CacheSize,       \* CACHE_SIZE
          DirectSize,      \* WRITE_DIRECT_SIZE: larger transfers are direct
          MaxCount,        \* bound: the largest count of a request
          Faults,          \* where the device may fail a transfer
          DirectOverClean  \* may a client write directly over a block that
                           \* the cache holds clean?

ASSUME NBlocksAssumption    == NBlocks \in Nat \ {0}
ASSUME CacheSizeAssumption  == CacheSize \in Nat \ {0}
ASSUME DirectSizeAssumption == DirectSize \in Nat /\ MaxCount \in Nat
ASSUME ZeroAssumption       == Zero \in Vals
ASSUME FlagsAssumption      == DirectOverClean \in BOOLEAN

\* "eviction": the write-back of a slot that a cached write wants; "switch":
\* the flush of set_option "cache=off"; "transfer": every other one.
ASSUME FaultsAssumption     == Faults \subseteq {"transfer", "eviction", "switch"}

Blocks  == 0..(NBlocks - 1)
Slots   == 1..CacheSize
NoBlock == NBlocks               \* the "block" of a slot that is not in_use

VARIABLES dev,      \* [Blocks -> Vals]: the device
          cache,    \* [Slots -> struct xnu_cache]
          age,      \* [Slots -> 1..CacheSize]: the order of the access_times
          nocache,  \* IO_FLAG_NOCACHE
          pc,       \* where the handler of the request is
          op,       \* the request, and the handler's locals
          reply     \* what the last request returned

vars == <<dev, cache, age, nocache, pc, op, reply>>

Unused == [block |-> NoBlock, dirty |-> FALSE, write_err |-> FALSE, buf |-> Zero]

Kinds == {"none", "read", "write", "write_byte", "flush", "set_blksize",
          "cache_off", "close"}

\* block..last is what is left to do, first..last what was asked; upto ends a
\* run of uncached blocks; slot is the flush loop's index; ok says whether
\* retval is still 0.
NoOp == [kind |-> "none", first |-> 0, block |-> 0, last |-> 0, upto |-> 0,
         slot |-> 1, ok |-> TRUE, data |-> [b \in Blocks |-> Zero]]

NoReply == [kind |-> "none", ok |-> TRUE, at |-> {}, data |-> [b \in Blocks |-> Zero]]

InUse == {s \in Slots : cache[s].block # NoBlock}
HitDirtyOnly(b) == {s \in Slots : cache[s].block = b /\ cache[s].dirty}       \* mutant
Hit(b) == {s \in Slots : cache[s].block = b}
Free == Slots \ InUse

\* find_cached_block's *eldest: the first unused slot, else the oldest one.
VictimsClean == {s \in Slots : ~cache[s].dirty}                             \* mutant
Victims == IF Free # {} THEN {s \in Free : \A t \in Free : s <= t}
           ELSE {s \in Slots : \A t \in Slots : age[s] <= age[t]}

\* cache->access_time = ++data->access_time, kept as a rank.
Touched(s) == [t \in Slots |-> IF t = s THEN CacheSize
                               ELSE IF age[t] > age[s] THEN age[t] - 1
                               ELSE age[t]]

EmptyCache == [s \in Slots |-> Unused]
FreshAge   == [s \in Slots |-> s]

\* raw_write_blk of the values d to the blocks from lo to below hi.
Overwritten(lo, hi, d) ==
    [b \in Blocks |-> IF lo <= b /\ b < hi THEN d[b] ELSE dev[b]]

SlotWritten(s) == [dev EXCEPT ![cache[s].block] = cache[s].buf]

Init == /\ dev \in [Blocks -> Vals]
        /\ cache = EmptyCache
        /\ age = FreshAge
        /\ nocache = FALSE
        /\ pc = "idle"
        /\ op = NoOp
        /\ reply = NoReply

-----------------------------------------------------------------------------
\* Requests

Begin(o, p) == /\ pc = "idle"
               /\ op' = o
               /\ pc' = p
               /\ reply' = NoReply
               /\ UNCHANGED <<dev, cache, age, nocache>>

EntryNoFlush(direct, cached) == IF nocache \/ direct THEN "raw" ELSE cached  \* mutant
\* The tests at the head of xnu_read_blk64 and xnu_write_blk64.
Entry(direct, cached) == IF nocache THEN "raw" ELSE IF direct THEN "flush" ELSE cached

Read(lo, hi, odd) ==
    Begin([NoOp EXCEPT !.kind = "read", !.first = lo, !.block = lo, !.last = hi],
          Entry(odd \/ hi - lo >= DirectSize, "read"))

\* Without DirectOverClean, the clients write directly only where the cache
\* holds no copy that the flush would leave behind.
MayWriteDirect(lo, hi) ==
    \/ DirectOverClean
    \/ \A s \in Slots : cache[s].block \in lo..hi => cache[s].dirty /\ ~nocache

Write(lo, hi, d, odd) ==
    LET direct == odd \/ hi - lo >= DirectSize
    IN  /\ direct \/ nocache => MayWriteDirect(lo, hi)
        /\ Begin([NoOp EXCEPT !.kind = "write", !.first = lo, !.block = lo,
                              !.last = hi, !.data = d],
                 Entry(direct, "store"))

WriteByte(b, v) ==
    /\ MayWriteDirect(b, b)
    /\ Begin([NoOp EXCEPT !.kind = "write_byte", !.first = b, !.block = b, !.last = b,
                          !.data = [NoOp.data EXCEPT ![b] = v]], "flush")

\* xnu_flush, xnu_set_blksize (to another size), set_option "cache=off" and
\* xnu_close begin with flush_cached_blocks (channel, data, 0).
FlushFirst(kind) == Begin([NoOp EXCEPT !.kind = kind], "flush")

CacheOn == /\ pc = "idle"
           /\ nocache
           /\ nocache' = FALSE
           /\ reply' = NoReply
           /\ UNCHANGED <<dev, cache, age, pc, op>>

Open == /\ pc = "closed"
        /\ cache' = EmptyCache /\ age' = FreshAge
        /\ nocache' = FALSE
        /\ pc' = "idle"
        /\ reply' = NoReply
        /\ UNCHANGED <<dev, op>>

-----------------------------------------------------------------------------
\* reuse_cache: a dirty victim is written back first.

ReuseUnwritten(s, b, v, d) ==                                               \* mutant
    /\ cache' = [cache EXCEPT ![s] = [block |-> b, dirty |-> d,
                                      write_err |-> FALSE, buf |-> v]]
    /\ age' = Touched(s)
    /\ UNCHANGED dev
ReuseClean(s, b, v, d) ==                                                   \* mutant
    /\ dev' = IF cache[s].dirty THEN SlotWritten(s) ELSE dev
    /\ cache' = [cache EXCEPT ![s] = [Unused EXCEPT !.block = b, !.buf = v]]
    /\ age' = Touched(s)
ReuseOk(s, b, v, d) ==
    /\ dev' = IF cache[s].dirty THEN SlotWritten(s) ELSE dev
    /\ cache' = [cache EXCEPT ![s] = [block |-> b, dirty |-> d,
                                      write_err |-> FALSE, buf |-> v]]
    /\ age' = Touched(s)

\* A failed transfer may have changed the block or not.
ReuseFail(s) ==
    /\ cache[s].dirty
    /\ dev' \in {dev, SlotWritten(s)}
    /\ cache' = [cache EXCEPT ![s].write_err = TRUE]
    /\ UNCHANGED age

Fail == pc' = "return" /\ op' = [op EXCEPT !.ok = FALSE]

-----------------------------------------------------------------------------
\* xnu_read_blk64 through the cache

ReadHit ==
    /\ pc = "read" /\ op.block <= op.last
    /\ \E s \in Hit(op.block) :
         /\ op' = [op EXCEPT !.data[op.block] = cache[s].buf, !.block = @ + 1]
         /\ age' = Touched(s)
    /\ UNCHANGED <<dev, cache, nocache, pc, reply>>

\* One transfer for the run of uncached blocks; the scan for its end touches
\* the block that ends it.
ReadMiss ==
    /\ pc = "read" /\ op.block <= op.last
    /\ \E e \in op.block..op.last :
         /\ \A b \in op.block..e : Hit(b) = {}
         /\ e < op.last => Hit(e + 1) # {}
         /\ IF e < op.last THEN \E s \in Hit(e + 1) : age' = Touched(s)
                           ELSE UNCHANGED age
         /\ \/ /\ op' = [op EXCEPT !.upto = e,
                                   !.data = [b \in Blocks |-> IF b \in op.block..e
                                                              THEN dev[b] ELSE @[b]]]
               /\ pc' = "fill"
            \/ "transfer" \in Faults /\ Fail
    /\ UNCHANGED <<dev, cache, nocache, reply>>

ReadFill ==
    /\ pc = "fill"
    /\ Hit(op.block) = {}
    /\ \E s \in Victims :
         \/ /\ ReuseOk(s, op.block, op.data[op.block], FALSE)
            /\ op' = [op EXCEPT !.block = @ + 1]
            /\ pc' = IF op.block = op.upto THEN "read" ELSE "fill"
         \/ "transfer" \in Faults /\ ReuseFail(s) /\ Fail
    /\ UNCHANGED <<nocache, reply>>

\* xnu_write_blk64 through the cache

WriteHit ==
    /\ pc = "store" /\ op.block <= op.last
    /\ \E s \in Hit(op.block) :
         /\ cache' = [cache EXCEPT ![s].buf = op.data[op.block],
                                   ![s].dirty = TRUE]
         /\ age' = Touched(s)
    /\ op' = [op EXCEPT !.block = @ + 1]
    /\ UNCHANGED <<dev, nocache, pc, reply>>

\* When the victim cannot be written back, the handler leaves the loop and
\* returns retval, which the failure (err) has not been copied to.
WriteMiss ==
    /\ pc = "store" /\ op.block <= op.last
    /\ Hit(op.block) = {}
    /\ \E s \in Victims :
         \/ /\ ReuseOk(s, op.block, op.data[op.block], TRUE)
            /\ op' = [op EXCEPT !.block = @ + 1]
            /\ UNCHANGED pc
         \/ /\ "eviction" \in Faults /\ ReuseFail(s)
            /\ pc' = "return"
            /\ UNCHANGED op
    /\ UNCHANGED <<nocache, reply>>

LoopEnd ==
    /\ pc \in {"read", "store"} /\ op.block > op.last
    /\ pc' = "return"
    /\ UNCHANGED <<dev, cache, age, nocache, op, reply>>

-----------------------------------------------------------------------------
\* flush_cached_blocks

Invalidating == op.kind \in {"write", "write_byte"}       \* FLUSH_INVALIDATE

\* A slot that is on the device is clean, or given up.
CleanedStillDirty(s) == IF Invalidating                                     \* mutant
                        THEN [cache[s] EXCEPT !.block = NoBlock]
                        ELSE [cache[s] EXCEPT !.dirty = FALSE, !.write_err = FALSE]
Cleaned(s) == IF Invalidating
              THEN Unused
              ELSE [cache[s] EXCEPT !.dirty = FALSE, !.write_err = FALSE]

\* The next slot the loop does not skip.
FlushSlot ==
    /\ pc = "flush"
    /\ \E s \in op.slot..CacheSize :
         /\ cache[s].dirty
         /\ \A t \in op.slot..(s - 1) : ~cache[t].dirty
         /\ \/ /\ dev' = SlotWritten(s)
               /\ cache' = [cache EXCEPT ![s] = Cleaned(s)]
               /\ op' = [op EXCEPT !.slot = s + 1]
            \/ /\ (IF op.kind = "cache_off" THEN "switch" ELSE "transfer") \in Faults
               /\ dev' \in {dev, SlotWritten(s)}
               /\ cache' = [cache EXCEPT ![s].write_err = TRUE]
               /\ op' = [op EXCEPT !.slot = s + 1, !.ok = FALSE]
    /\ UNCHANGED <<age, nocache, pc, reply>>

FlushLoopEnd == /\ pc = "flush"
                /\ \A t \in op.slot..CacheSize : ~cache[t].dirty

ErrorsDropped == [s \in Slots |-> IF cache[s].write_err                     \* mutant
                                  THEN [cache[s] EXCEPT !.write_err = FALSE, !.dirty = FALSE]
                                  ELSE cache[s]]
ErrorsCleared == [s \in Slots |-> [cache[s] EXCEPT !.write_err = FALSE]]

\* After an error the write_err marks are cleared and the caller returns.
FlushFailed ==
    /\ FlushLoopEnd /\ ~op.ok
    /\ cache' = ErrorsCleared
    /\ nocache' = (nocache \/ op.kind = "cache_off")
    /\ pc' = "return"
    /\ UNCHANGED <<dev, age, op, reply>>

\* A direct transfer follows; a new block size empties the cache.
Flushed ==
    /\ FlushLoopEnd /\ op.ok
    /\ pc' = IF op.kind \in {"read", "write", "write_byte"} THEN "raw" ELSE "return"
    /\ IF op.kind = "set_blksize"
       THEN cache' = EmptyCache /\ age' = FreshAge
       ELSE UNCHANGED <<cache, age>>
    /\ nocache' = (nocache \/ op.kind = "cache_off")
    /\ UNCHANGED <<dev, op, reply>>

\* raw_read_blk and raw_write_blk for the whole request.

RawRead ==
    /\ pc = "raw" /\ op.kind = "read"
    /\ \/ /\ op' = [op EXCEPT !.block = op.last + 1,
                              !.data = [b \in Blocks |-> IF b \in op.first..op.last
                                                         THEN dev[b] ELSE Zero]]
          /\ pc' = "return"
       \/ "transfer" \in Faults /\ Fail
    /\ UNCHANGED <<dev, cache, age, nocache, reply>>

RawWrite ==
    /\ pc = "raw" /\ Invalidating
    /\ \/ /\ dev' = Overwritten(op.first, op.last + 1, op.data)
          /\ op' = [op EXCEPT !.block = op.last + 1]
          /\ pc' = "return"
       \/ /\ "transfer" \in Faults
          /\ \E k \in op.first..(op.last + 1) :
               /\ dev' = Overwritten(op.first, k, op.data)
               /\ op' = [op EXCEPT !.block = k, !.ok = FALSE]
          /\ pc' = "return"
    /\ UNCHANGED <<cache, age, nocache, reply>>

-----------------------------------------------------------------------------
\* The handler returns; xnu_close frees the cache whatever the flush said.
Return ==
    /\ pc = "return"
    /\ reply' = [kind |-> op.kind, ok |-> op.ok, at |-> op.first..op.last,
                 data |-> IF op.kind = "read" /\ op.ok THEN op.data ELSE NoReply.data]
    /\ IF op.kind = "close"
       THEN cache' = EmptyCache /\ age' = FreshAge /\ pc' = "closed"
       ELSE pc' = "idle" /\ UNCHANGED <<cache, age>>
    /\ op' = NoOp
    /\ UNCHANGED <<dev, nocache>>

\* The machine stops: what is not on the device is lost.
Crash == /\ pc # "closed"
         /\ cache' = EmptyCache /\ age' = FreshAge
         /\ pc' = "closed"
         /\ op' = NoOp
         /\ reply' = NoReply
         /\ UNCHANGED <<dev, nocache>>

Request ==
    \/ \E lo \in Blocks : \E hi \in lo..(NBlocks - 1) :
         /\ hi - lo < MaxCount
         /\ \E odd \in BOOLEAN :
              /\ odd => lo = hi
              /\ \/ Read(lo, hi, odd)
                 \/ \E f \in [lo..hi -> Vals] :
                      Write(lo, hi, [b \in Blocks |-> IF b \in lo..hi THEN f[b]
                                                                      ELSE Zero], odd)
    \/ \E b \in Blocks : \E v \in Vals : WriteByte(b, v)
    \/ \E kind \in {"flush", "set_blksize", "cache_off", "close"} : FlushFirst(kind)
    \/ CacheOn
    \/ Open

Step == \/ ReadHit \/ ReadMiss \/ ReadFill
        \/ WriteHit \/ WriteMiss \/ LoopEnd
        \/ FlushSlot \/ FlushFailed \/ Flushed
        \/ RawRead \/ RawWrite
        \/ Return

Next == Request \/ Step \/ Crash

\* The handler is sequential code on one thread: it goes on until it returns.
Fairness == WF_vars(Step)

Spec == Init /\ [][Next]_vars /\ Fairness

-----------------------------------------------------------------------------
\* Properties

Slot == [block : Blocks \cup {NoBlock}, dirty : BOOLEAN, write_err : BOOLEAN, buf : Vals]
Op   == [kind : Kinds, first : Blocks, block : 0..NBlocks, last : Blocks,
         upto : Blocks, slot : 1..(CacheSize + 1), ok : BOOLEAN, data : [Blocks -> Vals]]

\* Types, and that only a slot in use is dirty or carries a write error: what
\* alloc_cache, reuse_cache and flush_cached_blocks leave behind.
TypeOK ==
    /\ dev \in [Blocks -> Vals]
    /\ cache \in [Slots -> Slot]
    /\ \A s \in Slots : cache[s].dirty => cache[s].block # NoBlock
    /\ age \in [Slots -> 1..CacheSize]
    /\ nocache \in BOOLEAN
    /\ pc \in {"idle", "closed", "read", "fill", "store", "flush", "raw", "return"}
    /\ op \in Op
    /\ pc = "fill" => op.block <= op.upto

\* find_cached_block returns the first slot it finds: no block is cached
\* twice, or a write would reach one copy and a read or write-back the other.
NoAlias == \A s, t \in Slots :
    cache[s].block = cache[t].block /\ cache[s].block # NoBlock => s = t

\* A clean slot may be reused without a write-back and serve reads without
\* asking the device (find_cached_block, reuse_cache): it must hold what the
\* device holds.
CleanMatchesDevice ==
    \A s \in InUse : ~cache[s].dirty => cache[s].buf = dev[cache[s].block]

\* The contents of a dirty slot are all there is of an acknowledged write:
\* the slot is cleaned, reused or dropped only once they are on the device
\* (reuse_cache, flush_cached_blocks), unless a newer write to the same block
\* replaces them or the channel goes away.
WrittenBack(s) ==
    \/ /\ cache'[s].block = cache[s].block /\ cache'[s].dirty
       /\ cache'[s].buf = cache[s].buf \/ pc = "store"
    \/ dev'[cache[s].block] = cache[s].buf
    \/ pc' = "closed"
AllWrittenBack == \A s \in InUse : cache[s].dirty => WrittenBack(s)
DirtyIsWrittenBack == [][AllWrittenBack]_vars

\* What a client of the channel sees of a block.
View == [b \in Blocks |->
          IF ~nocache /\ Hit(b) # {} THEN cache[CHOOSE s \in Hit(b) : TRUE].buf
          ELSE dev[b]]

\* "the data" of the request in the abstract channel's terms.
AbstractKind(k) == CASE k \in {"read", "none", "close"} -> k
                     [] k \in {"write", "write_byte"} -> "write"
                     [] OTHER -> "sync"
Transferring == op.kind \in {"read", "write", "write_byte"}

Abstract == INSTANCE BlockStore WITH
    store <- View,
    disk  <- dev,
    req   <- [kind |-> AbstractKind(op.kind),
              at   |-> IF Transferring THEN op.first..op.last ELSE {},
              todo |-> IF Invalidating THEN [b \in op.block..op.last |-> op.data[b]] ELSE <<>>],
    reply <- [kind |-> AbstractKind(reply.kind),
              ok   |-> reply.ok,
              data |-> IF reply.kind = "read"
                       THEN [b \in reply.at |-> reply.data[b]] ELSE <<>>]

\* The channel is a block store: reads return the last write, an acknowledged
\* flush, block-size change or close is on the device, and a crash loses only
\* what was not flushed (xnu_io.c as a whole).
ImplementsBlockStore == Abstract!Spec

\* Every handler returns: neither the loops over blocks nor the flush's retry
\* loop can go round for ever.
Answered == (pc \notin {"idle", "closed"}) ~> (pc \in {"idle", "closed"})

\* "and then fill the cache with the blocks" (xnu_io.c:709): a multi-block
\* write that returns 0 has stored each of its blocks.  It has not when the
\* write of a victim failed (Faults with "eviction"), whose error is dropped.
AckedWriteIsStored ==
    pc = "return" /\ op.kind = "write" /\ op.ok => op.block = op.last + 1
=============================================================================
