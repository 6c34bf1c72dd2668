----------------------------- MODULE XnuIOProofs -----------------------------
(* Proofs about the block cache of XnuIO, for every number of blocks and of  *)
(* cache slots: its invariants, and that it implements BlockStore.           *)
EXTENDS XnuIO, TLAPS

\* What the constants and the helpers of XnuIO range over.
LEMMA Ranges ==
    /\ NBlocks \in Nat /\ NBlocks > 0 /\ CacheSize \in Nat /\ CacheSize > 0
    /\ Blocks \subseteq Nat /\ Slots \subseteq Nat /\ NoBlock \notin Blocks
    /\ Unused \in Slot /\ ~Unused.dirty /\ Unused.block = NoBlock
    /\ EmptyCache \in [Slots -> Slot]
    /\ \A s \in Slots : EmptyCache[s] = Unused
    /\ FreshAge \in [Slots -> 1..CacheSize]
    /\ NoOp \in Op
<1> USE NBlocksAssumption, CacheSizeAssumption, ZeroAssumption
        DEF Blocks, Slots, NoBlock
<1>1. Unused \in Slot /\ ~Unused.dirty /\ Unused.block = NoBlock
  BY DEF Unused, Slot
<1>2. EmptyCache \in [Slots -> Slot] /\ \A s \in Slots : EmptyCache[s] = Unused
  BY <1>1 DEF EmptyCache
<1>3. FreshAge \in [Slots -> 1..CacheSize]
  BY DEF FreshAge
<1>4. NoOp \in Op
  BY DEF NoOp, Op, Kinds
<1> QED
  BY <1>1, <1>2, <1>3, <1>4

\* What the helpers return in a typed state.
LEMMA Helpers ==
    ASSUME TypeOK
    PROVE  /\ Victims \subseteq Slots
           /\ \A b : Hit(b) \subseteq Slots
           /\ \A s \in Slots : Touched(s) \in [Slots -> 1..CacheSize]
           /\ \A s \in Slots : cache[s].dirty => SlotWritten(s) \in [Blocks -> Vals]
           /\ \A lo, hi, d : d \in [Blocks -> Vals] =>
                                Overwritten(lo, hi, d) \in [Blocks -> Vals]
<1>1. Victims \subseteq Slots /\ \A b : Hit(b) \subseteq Slots
  BY DEF Victims, Hit, Free, InUse
<1>2. ASSUME NEW s \in Slots PROVE Touched(s) \in [Slots -> 1..CacheSize]
  <2>1. CacheSize \in 1..CacheSize /\ \A t \in Slots : age[t] \in 1..CacheSize
    BY Ranges DEF TypeOK
  <2>2. \A t \in Slots : age[t] > age[s] => age[t] - 1 \in 1..CacheSize
    BY <2>1, Ranges
  <2> QED
    BY <2>1, <2>2 DEF Touched
<1>3. \A s \in Slots : cache[s].dirty => SlotWritten(s) \in [Blocks -> Vals]
  BY DEF SlotWritten, TypeOK, Slot
<1>4. \A lo, hi, d : d \in [Blocks -> Vals] => Overwritten(lo, hi, d) \in [Blocks -> Vals]
  BY DEF Overwritten, TypeOK
<1> QED
  BY <1>1, <1>2, <1>3, <1>4

\* The records of a request, and the handler's updates of one.
LEMMA Requests ==
    ASSUME NEW k \in Kinds
    PROVE  /\ [NoOp EXCEPT !.kind = k] \in Op
           /\ \A lo, hi \in Blocks :
                [NoOp EXCEPT !.kind = k, !.first = lo, !.block = lo, !.last = hi] \in Op
           /\ \A lo, hi \in Blocks : \A d \in [Blocks -> Vals] :
                [NoOp EXCEPT !.kind = k, !.first = lo, !.block = lo, !.last = hi,
                             !.data = d] \in Op
<1>1. NoOp \in Op /\ \A lo \in Blocks : lo \in 0..NBlocks
  BY Ranges DEF Blocks
<1> QED
  BY <1>1 DEF Op

\* A slot of the cache is replaced by one that is dirty only if it is in use.
LEMMA SlotPut ==
    ASSUME cache \in [Slots -> Slot],
           \A t \in Slots : cache[t].dirty => cache[t].block # NoBlock,
           NEW s \in Slots, NEW e \in Slot, e.dirty => e.block # NoBlock,
           cache' = [cache EXCEPT ![s] = e]
    PROVE  /\ cache' \in [Slots -> Slot]
           /\ \A t \in Slots : cache'[t].dirty => cache'[t].block # NoBlock
<1>1. cache' \in [Slots -> Slot]
  OBVIOUS
<1>2. \A t \in Slots : cache'[t] = IF t = s THEN e ELSE cache[t]
  OBVIOUS
<1> QED
  BY <1>1, <1>2

\* What the handlers' steps use of the request in hand: every index they form is
\* in range.
LEMMA OpFields ==
    ASSUME op \in Op
    PROVE  /\ op.first \in Blocks /\ op.block \in 0..NBlocks /\ op.last \in Blocks
           /\ op.upto \in Blocks /\ op.slot \in 1..(CacheSize + 1)
           /\ op.data \in [Blocks -> Vals]
           /\ op.last + 1 \in 0..NBlocks
           /\ \A b \in Blocks : op.block <= b => op.block \in Blocks /\ op.block + 1 \in 0..NBlocks
           /\ op.block..op.last \subseteq Blocks
<1>1. /\ op.first \in Blocks /\ op.block \in 0..NBlocks /\ op.last \in Blocks
      /\ op.upto \in Blocks /\ op.slot \in 1..(CacheSize + 1)
      /\ op.data \in [Blocks -> Vals]
  BY DEF Op
<1> QED
  BY <1>1, NBlocksAssumption, SMTT(30) DEF Blocks

\* Each way a step of a handler changes the request leaves a request.
LEMMA Updates ==
    ASSUME op \in Op
    PROVE  /\ [op EXCEPT !.ok = FALSE] \in Op
           /\ \A b \in 0..NBlocks : /\ [op EXCEPT !.block = b] \in Op
                                     /\ [op EXCEPT !.block = b, !.ok = FALSE] \in Op
           /\ \A b \in 0..NBlocks, d \in [Blocks -> Vals] :
                [op EXCEPT !.block = b, !.data = d] \in Op
           /\ \A b \in 0..NBlocks, v \in Vals :
                [op EXCEPT !.data[op.block] = v, !.block = b] \in Op
           /\ \A u \in Blocks, d \in [Blocks -> Vals] :
                [op EXCEPT !.upto = u, !.data = d] \in Op
           /\ \A s \in 1..(CacheSize + 1) : /\ [op EXCEPT !.slot = s] \in Op
                                            /\ [op EXCEPT !.slot = s, !.ok = FALSE] \in Op
  BY DEF Op

\* A direct write, complete or not, reaches the blocks from first to below some k.
LEMMA RawWriteStep ==
    ASSUME op \in Op, RawWrite
    PROVE  \E k \in 0..NBlocks :
             /\ k <= op.last + 1
             /\ dev' = Overwritten(op.first, k, op.data)
             /\ op' \in {[op EXCEPT !.block = k], [op EXCEPT !.block = k, !.ok = FALSE]}
<1>1. op.last + 1 \in 0..NBlocks /\ op.first..(op.last + 1) \subseteq 0..NBlocks
  BY OpFields, NBlocksAssumption, SMTT(30) DEF Blocks
<1>2. \A k \in op.first..(op.last + 1) : k <= op.last + 1
  BY OpFields, NBlocksAssumption DEF Blocks
<1>3. CASE dev' = Overwritten(op.first, op.last + 1, op.data)
           /\ op' = [op EXCEPT !.block = op.last + 1]
  <2>1. op.last + 1 <= op.last + 1
    BY <1>1
  <2> QED
    BY <1>1, <1>3, <2>1
<1>4. CASE \E k \in op.first..(op.last + 1) :
             /\ dev' = Overwritten(op.first, k, op.data)
             /\ op' = [op EXCEPT !.block = k, !.ok = FALSE]
  BY <1>1, <1>2, <1>4
<1> QED
  BY <1>3, <1>4 DEF RawWrite

\* TypeOK: a request starts from typed arguments and each loop index stays
\* inside the request.
THEOREM TypeInvariant == Spec => []TypeOK
<1>1. Init => TypeOK
  BY Ranges DEF Init, TypeOK
<1>2. TypeOK /\ [Next]_vars => TypeOK'
  <2> SUFFICES ASSUME TypeOK, [Next]_vars PROVE TypeOK'
    OBVIOUS
  <2> USE Ranges
  <2>1. ASSUME NEW o \in Op, NEW p \in {"read", "store", "flush", "raw"}, Begin(o, p)
        PROVE  TypeOK'
    BY <2>1 DEF Begin, TypeOK
  <2>2. \A d, c : c \in {"read", "store"} => Entry(d, c) \in {"read", "store", "flush", "raw"}
    BY DEF Entry
  <2>3. CASE Request
    <3>0. /\ \A lo \in Blocks : lo..(NBlocks - 1) \subseteq Blocks
          /\ {"read", "write", "write_byte"} \subseteq Kinds
          /\ {"flush", "set_blksize", "cache_off", "close"} \subseteq Kinds
      BY DEF Blocks, Kinds
    <3>1. ASSUME NEW lo \in Blocks, NEW hi \in lo..(NBlocks - 1), NEW odd \in BOOLEAN,
                 Read(lo, hi, odd)
          PROVE  TypeOK'
      BY <2>1, <2>2, <3>0, <3>1, Requests DEF Read
    <3>2. ASSUME NEW lo \in Blocks, NEW hi \in lo..(NBlocks - 1), NEW odd \in BOOLEAN,
                 NEW d \in [Blocks -> Vals], Write(lo, hi, d, odd)
          PROVE  TypeOK'
      BY <2>1, <2>2, <3>0, <3>2, Requests DEF Write
    <3>8. \A b \in Blocks, v \in Vals : [NoOp.data EXCEPT ![b] = v] \in [Blocks -> Vals]
      BY ZeroAssumption DEF NoOp
    <3>3. ASSUME NEW b \in Blocks, NEW v \in Vals, WriteByte(b, v)
          PROVE  TypeOK'
      BY <2>1, <3>0, <3>3, Requests, <3>8 DEF WriteByte
    <3>4. ASSUME NEW kind \in {"flush", "set_blksize", "cache_off", "close"},
                 FlushFirst(kind)
          PROVE  TypeOK'
      BY <2>1, <3>0, <3>4, Requests DEF FlushFirst
    <3>5. CASE CacheOn
      BY <3>5 DEF CacheOn, TypeOK
    <3>6. CASE Open
      BY <3>6 DEF Open, TypeOK
    <3>7. \A lo, hi, f : f \in [lo..hi -> Vals] =>
            [b \in Blocks |-> IF b \in lo..hi THEN f[b] ELSE Zero] \in [Blocks -> Vals]
      BY ZeroAssumption
    <3>9. ASSUME NEW lo \in Blocks, NEW hi \in lo..(NBlocks - 1), NEW odd \in BOOLEAN,
                 NEW f \in [lo..hi -> Vals],
                 Write(lo, hi, [b \in Blocks |-> IF b \in lo..hi THEN f[b] ELSE Zero], odd)
          PROVE  TypeOK'
      BY <3>2, <3>7, <3>9
    <3> QED
      BY <2>3, <3>1, <3>3, <3>4, <3>5, <3>6, <3>9 DEF Request
  <2>4. ASSUME NEW s \in Slots, NEW b \in Blocks, NEW v \in Vals, NEW d \in BOOLEAN,
               ReuseOk(s, b, v, d)
        PROVE  /\ dev' \in [Blocks -> Vals] /\ cache' \in [Slots -> Slot]
               /\ \A t \in Slots : cache'[t].dirty => cache'[t].block # NoBlock
               /\ age' \in [Slots -> 1..CacheSize]
    <3> DEFINE e == [block |-> b, dirty |-> d, write_err |-> FALSE, buf |-> v]
    <3>1. e \in Slot /\ e.block # NoBlock
      BY DEF Slot
    <3>2. cache' = [cache EXCEPT ![s] = e]
      BY <2>4 DEF ReuseOk
    <3>3. /\ cache' \in [Slots -> Slot]
          /\ \A t \in Slots : cache'[t].dirty => cache'[t].block # NoBlock
      <4> HIDE DEF e
      <4> QED
        BY <3>1, <3>2, SlotPut DEF TypeOK
    <3>4. dev' \in [Blocks -> Vals]
      BY <2>4, Helpers DEF ReuseOk, TypeOK
    <3>5. age' \in [Slots -> 1..CacheSize]
      BY <2>4, Helpers DEF ReuseOk
    <3> QED
      BY <3>3, <3>4, <3>5
  <2>5. ASSUME NEW s \in Slots, ReuseFail(s)
        PROVE  /\ dev' \in [Blocks -> Vals] /\ cache' \in [Slots -> Slot]
               /\ \A t \in Slots : cache'[t].dirty => cache'[t].block # NoBlock
               /\ age' \in [Slots -> 1..CacheSize]
    <3> DEFINE e == [cache[s] EXCEPT !.write_err = TRUE]
    <3>1. cache[s] \in Slot /\ (cache[s].dirty => cache[s].block # NoBlock)
      BY DEF TypeOK
    <3>2. e \in Slot /\ (e.dirty => e.block # NoBlock)
      BY <3>1 DEF Slot
    <3>3. cache' = [cache EXCEPT ![s] = e]
      BY <2>5 DEF ReuseFail
    <3>4. /\ cache' \in [Slots -> Slot]
          /\ \A t \in Slots : cache'[t].dirty => cache'[t].block # NoBlock
      <4> HIDE DEF e
      <4> QED
        BY <3>2, <3>3, SlotPut DEF TypeOK
    <3>5. dev' \in [Blocks -> Vals]
      BY <2>5, Helpers DEF ReuseFail, TypeOK
    <3>6. age' \in [Slots -> 1..CacheSize]
      BY <2>5 DEF ReuseFail, TypeOK
    <3> QED
      BY <3>4, <3>5, <3>6
  <2>6. Fail => pc' = "return" /\ op' \in Op
    BY ZenonT(30) DEF Fail, TypeOK, Op
  <2> op \in Op /\ cache \in [Slots -> Slot] /\ dev \in [Blocks -> Vals]
    BY DEF TypeOK
  <2> HIDE Ranges
  <2>7. CASE ReadHit
    <3>1. PICK s \in Slots :
            /\ op' = [op EXCEPT !.data[op.block] = cache[s].buf, !.block = @ + 1]
            /\ age' = Touched(s)
      BY <2>7, Helpers DEF ReadHit
    <3>2. op.block + 1 \in 0..NBlocks
      BY <2>7, OpFields DEF ReadHit
    <3>3. cache[s].buf \in Vals
      BY DEF Slot
    <3>4. op' \in Op
      BY <3>1, <3>2, <3>3, Updates, OpFields
    <3> QED
      BY <2>7, <3>1, <3>4, Helpers DEF ReadHit, TypeOK
  <2>8. CASE ReadMiss
    <3>1. age' \in [Slots -> 1..CacheSize]
      BY <2>8, Helpers DEF ReadMiss, TypeOK
    <3>2. \A e \in op.block..op.last :
            [op EXCEPT !.upto = e,
                       !.data = [b \in Blocks |-> IF b \in op.block..e THEN dev[b] ELSE @[b]]] \in Op
      BY Updates, OpFields
    <3>3. CASE Fail
      BY <2>8, <2>6, <3>1, <3>3 DEF ReadMiss, TypeOK
    <3>4. ASSUME NEW e \in op.block..op.last,
                 op' = [op EXCEPT !.upto = e,
                                  !.data = [b \in Blocks |-> IF b \in op.block..e
                                                             THEN dev[b] ELSE @[b]]],
                 pc' = "fill"
          PROVE  TypeOK'
      <4>1. op' \in Op
        BY <3>2, <3>4
      <4>2. op'.block = op.block /\ op'.upto = e
        BY <3>4 DEF Op
      <4>3. op'.block <= op'.upto
        BY <4>2, OpFields
      <4> QED
        BY <2>8, <3>1, <3>4, <4>1, <4>3 DEF ReadMiss, TypeOK
    <3> QED
      BY <2>8, <3>3, <3>4 DEF ReadMiss
  <2>9. CASE ReadFill
    <3>1. op.block \in Blocks /\ op.block + 1 \in 0..NBlocks
            /\ (op.block # op.upto => op.block + 1 <= op.upto)
      BY <2>9, OpFields, Ranges, SMTT(30) DEF ReadFill, TypeOK, Blocks
    <3>2. op.data[op.block] \in Vals
      BY <3>1, OpFields
    <3>3. PICK s \in Slots :
            \/ /\ ReuseOk(s, op.block, op.data[op.block], FALSE)
               /\ op' = [op EXCEPT !.block = @ + 1]
               /\ pc' = IF op.block = op.upto THEN "read" ELSE "fill"
            \/ ReuseFail(s) /\ Fail
      BY <2>9, Helpers DEF ReadFill
    <3>4. /\ dev' \in [Blocks -> Vals] /\ cache' \in [Slots -> Slot]
          /\ \A t \in Slots : cache'[t].dirty => cache'[t].block # NoBlock
          /\ age' \in [Slots -> 1..CacheSize]
      BY <2>4, <2>5, <3>1, <3>2, <3>3
    <3>5. op' \in Op
      BY <2>6, <3>1, <3>3, Updates, OpFields
    <3>6. pc' = "fill" => op'.block <= op'.upto
      BY <2>6, <3>1, <3>3 DEF Op
    <3> QED
      BY <2>6, <2>9, <3>3, <3>4, <3>5, <3>6 DEF ReadFill, TypeOK
  <2>10. CASE WriteHit
    <3>1. op.block \in Blocks /\ op.block + 1 \in 0..NBlocks /\ op.data[op.block] \in Vals
      BY <2>10, OpFields DEF WriteHit
    <3>2. PICK s \in Hit(op.block) :
            /\ cache' = [cache EXCEPT ![s].buf = op.data[op.block], ![s].dirty = TRUE]
            /\ age' = Touched(s)
      BY <2>10 DEF WriteHit
    <3>3. /\ cache' \in [Slots -> Slot]
          /\ \A t \in Slots : cache'[t].dirty => cache'[t].block # NoBlock
      <4> DEFINE e == [cache[s] EXCEPT !.buf = op.data[op.block], !.dirty = TRUE]
      <4>1. s \in Slots /\ cache[s] \in Slot /\ cache[s].block = op.block
        BY <3>2 DEF TypeOK, Hit
      <4>2. e \in Slot
        BY <3>1, <4>1 DEF Slot
      <4>3. e.block # NoBlock
        BY <3>1, <4>1, Ranges DEF Slot
      <4>4. cache' = [cache EXCEPT ![s] = e]
        BY <3>2, <4>1
      <4> HIDE DEF e
      <4> QED
        BY <4>1, <4>2, <4>3, <4>4, SlotPut DEF TypeOK
    <3>4. op' \in Op
      BY <2>10, <3>1, Updates, OpFields DEF WriteHit
    <3> QED
      BY <2>10, <3>2, <3>3, <3>4, Helpers DEF WriteHit, TypeOK
  <2>11. CASE WriteMiss
    <3>1. op.block \in Blocks /\ op.block + 1 \in 0..NBlocks /\ op.data[op.block] \in Vals
      BY <2>11, OpFields DEF WriteMiss
    <3>2. PICK s \in Slots :
            \/ ReuseOk(s, op.block, op.data[op.block], TRUE)
                 /\ op' = [op EXCEPT !.block = @ + 1] /\ UNCHANGED pc
            \/ ReuseFail(s) /\ pc' = "return" /\ UNCHANGED op
      BY <2>11, Helpers DEF WriteMiss
    <3>3. /\ dev' \in [Blocks -> Vals] /\ cache' \in [Slots -> Slot]
          /\ \A t \in Slots : cache'[t].dirty => cache'[t].block # NoBlock
          /\ age' \in [Slots -> 1..CacheSize]
      BY <2>4, <2>5, <3>1, <3>2
    <3>4. op' \in Op
      BY <3>1, <3>2, Updates, OpFields
    <3> QED
      BY <2>11, <3>2, <3>3, <3>4 DEF WriteMiss, TypeOK
  <2>12. CASE LoopEnd
    BY <2>12 DEF LoopEnd, TypeOK
  <2>13. CASE FlushSlot
    <3>0. \A s \in op.slot..CacheSize : s \in Slots /\ s + 1 \in 1..(CacheSize + 1)
      BY OpFields, Ranges, SMTT(30) DEF Slots
    <3>1. PICK s \in op.slot..CacheSize :
            /\ cache[s].dirty
            /\ dev' \in {dev, SlotWritten(s)}
            /\ \/ /\ cache' = [cache EXCEPT ![s] = Cleaned(s)]
                  /\ op' = [op EXCEPT !.slot = s + 1]
               \/ /\ cache' = [cache EXCEPT ![s].write_err = TRUE]
                  /\ op' = [op EXCEPT !.slot = s + 1, !.ok = FALSE]
      BY <2>13 DEF FlushSlot
    <3>2. op' \in Op
      BY <3>0, <3>1, Updates, ZenonT(30)
    <3>3. /\ cache' \in [Slots -> Slot]
          /\ \A t \in Slots : cache'[t].dirty => cache'[t].block # NoBlock
      <4>1. Cleaned(s) \in Slot /\ ~Cleaned(s).dirty
        BY <3>0, Ranges DEF Cleaned, Slot
      <4>2. [cache[s] EXCEPT !.write_err = TRUE] \in Slot
        BY <3>0 DEF Slot
      <4>3. CASE cache' = [cache EXCEPT ![s] = Cleaned(s)]
        BY <3>0, <4>1, <4>3 DEF TypeOK
      <4>4. CASE cache' = [cache EXCEPT ![s].write_err = TRUE]
        BY <3>0, <4>2, <4>4 DEF TypeOK, Slot
      <4> QED
        BY <3>1, <4>3, <4>4
    <3> QED
      BY <2>13, <3>0, <3>1, <3>2, <3>3, Helpers DEF FlushSlot, TypeOK
  <2>14. CASE FlushFailed
    BY <2>14, ZenonT(30) DEF FlushFailed, ErrorsCleared, TypeOK, Slot
  <2>15. CASE Flushed
    BY <2>15, Ranges DEF Flushed, TypeOK
  <2>16. CASE RawRead
    <3>0. [b \in Blocks |-> IF b \in op.first..op.last THEN dev[b] ELSE Zero] \in [Blocks -> Vals]
      BY ZeroAssumption
    <3>1. op' \in Op
      <4>1. [op EXCEPT !.block = op.last + 1,
                       !.data = [b \in Blocks |-> IF b \in op.first..op.last
                                                  THEN dev[b] ELSE Zero]] \in Op
        BY <3>0, Updates, OpFields
      <4> QED
        BY <2>6, <2>16, <4>1 DEF RawRead
    <3> QED
      BY <2>6, <2>16, <3>1 DEF RawRead, TypeOK
  <2>17. CASE RawWrite
    <3>1. op' \in Op
      BY <2>6, <2>17, Updates, RawWriteStep
    <3>2. dev' \in [Blocks -> Vals]
      <4>1. PICK k \in 0..NBlocks : dev' = Overwritten(op.first, k, op.data)
        BY <2>6, <2>17, RawWriteStep
      <4>2. op.data \in [Blocks -> Vals]
        BY <2>6, OpFields
      <4> QED
        BY <4>1, <4>2, Helpers
    <3> QED
      BY <2>6, <2>17, <3>1, <3>2 DEF RawWrite, TypeOK
  <2>18. CASE Return
    BY <2>18, Ranges DEF Return, TypeOK
  <2>19. CASE Crash
    BY <2>19, Ranges DEF Crash, TypeOK
  <2>20. CASE UNCHANGED vars
    BY <2>20 DEF vars, TypeOK
  <2> QED
    BY <2>3, <2>7, <2>8, <2>9, <2>10, <2>11, <2>12, <2>13, <2>14, <2>15, <2>16, <2>17,
       <2>18, <2>19, <2>20 DEF Next, Step
<1> QED
  BY <1>1, <1>2, PTL DEF Spec

-----------------------------------------------------------------------------
(* The flush loop has left no dirty slot behind it unless it has met an      *)
(* error, and a closed channel has an empty cache.                           *)
FlushInv == pc = "flush" /\ op.ok => \A t \in Slots : t < op.slot => ~cache[t].dirty
ClosedInv == pc = "closed" => cache = EmptyCache
LoopInv == FlushInv /\ ClosedInv

\* What each step does to the cache: it keeps the blocks of the slots or lets
\* slots go, or it puts a block that is not cached into one slot.
LEMMA CacheSteps ==
    ASSUME TypeOK, [Next]_vars
    PROVE  \/ \A t \in Slots : cache'[t].block \in {cache[t].block, NoBlock}
           \/ \E s \in Slots, b \in Blocks :
                /\ \A t \in Slots : cache[t].block # b
                /\ cache'[s].block = b
                /\ \A t \in Slots \ {s} : cache'[t] = cache[t]
<1> cache \in [Slots -> Slot] /\ op \in Op
  BY DEF TypeOK
<1>1. CASE cache' = cache \/ cache' = EmptyCache
  BY <1>1, Ranges
<1>2. ASSUME NEW s \in Slots, ReuseFail(s)
      PROVE  \A t \in Slots : cache'[t].block = cache[t].block
  BY <1>2 DEF ReuseFail, Slot
<1>3. ASSUME NEW s \in Slots, NEW b \in Blocks, NEW v, NEW d, Hit(b) = {}, ReuseOk(s, b, v, d)
      PROVE  /\ \A t \in Slots : cache[t].block # b
             /\ cache'[s].block = b
             /\ \A t \in Slots \ {s} : cache'[t] = cache[t]
  BY <1>3 DEF ReuseOk, Hit
<1>4. CASE Request
  BY <1>1, <1>4, ZenonT(30) DEF Request, Read, Write, WriteByte, FlushFirst, Begin, CacheOn, Open
<1>5. CASE ReadHit \/ ReadMiss \/ LoopEnd \/ RawRead \/ RawWrite
  BY <1>1, <1>5 DEF ReadHit, ReadMiss, LoopEnd, RawRead, RawWrite
<1>6. CASE ReadFill
  <2>1. op.block \in Blocks
    BY <1>6, OpFields, Ranges DEF ReadFill, TypeOK, Blocks
  <2> QED
    <3>1. PICK s \in Slots : ReuseOk(s, op.block, op.data[op.block], FALSE) \/ ReuseFail(s)
      BY <1>6, Helpers DEF ReadFill
    <3>2. Hit(op.block) = {} BY <1>6 DEF ReadFill
    <3> QED
      BY <1>2, <1>3, <2>1, <3>1, <3>2
<1>7. CASE WriteHit
  <2>1. PICK s \in Slots :
          cache' = [cache EXCEPT ![s].buf = op.data[op.block], ![s].dirty = TRUE]
    BY <1>7, Helpers DEF WriteHit
  <2>2. \A t \in Slots : cache'[t].block = cache[t].block
    BY <2>1 DEF Slot
  <2> QED
    BY <2>2
<1>8. CASE WriteMiss
  <2>1. op.block \in Blocks
    BY <1>8, OpFields DEF WriteMiss
  <2> QED
    <3>1. PICK s \in Slots : ReuseOk(s, op.block, op.data[op.block], TRUE) \/ ReuseFail(s)
      BY <1>8, Helpers DEF WriteMiss
    <3>2. Hit(op.block) = {} BY <1>8 DEF WriteMiss
    <3> QED
      BY <1>2, <1>3, <2>1, <3>1, <3>2
<1>9. CASE FlushSlot
  <2>1. PICK s \in op.slot..CacheSize :
          \/ cache' = [cache EXCEPT ![s] = Cleaned(s)]
          \/ cache' = [cache EXCEPT ![s].write_err = TRUE]
    BY <1>9 DEF FlushSlot
  <2>2. s \in Slots
    BY <2>1, OpFields, Ranges DEF Slots
  <2>3. Cleaned(s).block \in {cache[s].block, NoBlock}
    BY <2>2, Ranges DEF Cleaned, Slot
  <2>4. \A t \in Slots : cache'[t].block \in {cache[t].block, NoBlock}
    BY <2>1, <2>2, <2>3 DEF Slot
  <2> QED
    BY <2>4
<1>10. CASE FlushFailed
  <2>1. \A t \in Slots : cache'[t].block = cache[t].block
    BY <1>10 DEF FlushFailed, ErrorsCleared, Slot
  <2> QED
    BY <2>1
<1>11. CASE Flushed \/ Return \/ Crash \/ UNCHANGED vars
  BY <1>1, <1>11 DEF Flushed, Return, Crash, vars
<1> QED
  BY <1>4, <1>5, <1>6, <1>7, <1>8, <1>9, <1>10, <1>11 DEF Next, Step

\* NoAlias: a block is put into a slot only when no slot holds it.
THEOREM AliasInvariant == Spec => []NoAlias
<1>1. Init => NoAlias
  BY Ranges DEF Init, NoAlias
<1>2. TypeOK /\ NoAlias /\ [Next]_vars => NoAlias'
  <2> SUFFICES ASSUME TypeOK, NoAlias, [Next]_vars,
                      NEW s \in Slots, NEW t \in Slots,
                      cache'[s].block = cache'[t].block, cache'[s].block # NoBlock
               PROVE  s = t
    BY DEF NoAlias
  <2>1. CASE \A u \in Slots : cache'[u].block \in {cache[u].block, NoBlock}
    BY <2>1 DEF NoAlias
  <2>2. CASE \E u \in Slots, b \in Blocks :
               /\ \A w \in Slots : cache[w].block # b
               /\ cache'[u].block = b
               /\ \A w \in Slots \ {u} : cache'[w] = cache[w]
    BY <2>2 DEF NoAlias
  <2> QED
    BY <2>1, <2>2, CacheSteps
<1> QED
  BY <1>1, <1>2, TypeInvariant, PTL DEF Spec

\* The flush loop cleans or marks every slot it passes; nothing but a request
\* and Open leaves the closed state.
THEOREM LoopInvariant == Spec => []LoopInv
<1>1. Init => LoopInv
  BY DEF Init, LoopInv, FlushInv, ClosedInv
<1>2. TypeOK /\ LoopInv /\ [Next]_vars => LoopInv'
  <2> SUFFICES ASSUME TypeOK, LoopInv, [Next]_vars PROVE LoopInv'
    OBVIOUS
  <2> cache \in [Slots -> Slot] /\ op \in Op
    BY DEF TypeOK
  <2> USE DEF LoopInv, FlushInv, ClosedInv
  <2>1. CASE Request
    <3>1. \A t \in Slots : ~(t < NoOp.slot)
      BY Ranges DEF NoOp, Slots
    <3>2. ASSUME NEW o, NEW p \in {"read", "store", "flush", "raw"},
                 o.slot = NoOp.slot, Begin(o, p)
          PROVE  LoopInv'
      BY <3>1, <3>2 DEF Begin
    <3>3. \A d, c : c \in {"read", "store"} => Entry(d, c) \in {"read", "store", "flush", "raw"}
      BY DEF Entry
    <3>4. ASSUME NEW lo, NEW hi, NEW odd, Read(lo, hi, odd)
          PROVE  LoopInv'
      BY <3>2, <3>3, <3>4 DEF Read, NoOp
    <3>5. ASSUME NEW lo, NEW hi, NEW d, NEW odd, Write(lo, hi, d, odd)
          PROVE  LoopInv'
      BY <3>2, <3>3, <3>5 DEF Write, NoOp
    <3>6. ASSUME NEW b, NEW v, WriteByte(b, v)
          PROVE  LoopInv'
      BY <3>2, <3>6 DEF WriteByte, NoOp
    <3>7. ASSUME NEW kind, FlushFirst(kind)
          PROVE  LoopInv'
      BY <3>2, <3>7 DEF FlushFirst, NoOp
    <3>8. CASE CacheOn \/ Open
      BY <3>8 DEF CacheOn, Open
    <3> QED
      BY <2>1, <3>4, <3>5, <3>6, <3>7, <3>8 DEF Request
  <2>2. CASE ReadHit \/ ReadMiss \/ LoopEnd \/ RawRead \/ RawWrite \/ FlushFailed \/ WriteHit
    BY <2>2 DEF ReadHit, ReadMiss, LoopEnd, RawRead, RawWrite, FlushFailed, WriteHit, Fail
  <2>3. CASE ReadFill
    BY <2>3 DEF ReadFill, Fail
  <2>4. CASE WriteMiss
    BY <2>4 DEF WriteMiss
  <2>5. CASE FlushSlot
    <3>1. PICK s \in op.slot..CacheSize :
            /\ \A t \in op.slot..(s - 1) : ~cache[t].dirty
            /\ \/ /\ cache' = [cache EXCEPT ![s] = Cleaned(s)]
                  /\ op' = [op EXCEPT !.slot = s + 1]
               \/ op' = [op EXCEPT !.slot = s + 1, !.ok = FALSE]
      BY <2>5 DEF FlushSlot
    <3>2. s \in Slots /\ pc = "flush" /\ pc' = "flush"
      BY <2>5, <3>1, OpFields, Ranges DEF FlushSlot, Slots
    <3>3. CASE op' = [op EXCEPT !.slot = s + 1, !.ok = FALSE]
      BY <3>2, <3>3 DEF Op
    <3>4. CASE cache' = [cache EXCEPT ![s] = Cleaned(s)] /\ op' = [op EXCEPT !.slot = s + 1]
      <4>1. op'.ok = op.ok /\ op'.slot = s + 1
        BY <3>4 DEF Op
      <4>2. ~Cleaned(s).dirty
        BY <3>2, Ranges DEF Cleaned, Slot
      <4>3. ASSUME op.ok, NEW t \in Slots, t < s + 1 PROVE ~cache'[t].dirty
        BY <3>1, <3>2, <3>4, <4>2, <4>3, OpFields DEF Slots
      <4> QED
        BY <3>2, <4>1, <4>3
    <3> QED
      BY <3>1, <3>3, <3>4
  <2>6. CASE Flushed \/ Return \/ Crash \/ UNCHANGED vars
    BY <2>6 DEF Flushed, Return, Crash, vars
  <2> QED
    BY <2>1, <2>2, <2>3, <2>4, <2>5, <2>6 DEF Next, Step
<1> QED
  BY <1>1, <1>2, TypeInvariant, PTL DEF Spec

\* When the flush loop ends without an error no slot is dirty: not those it
\* has passed, nor those it skipped.
LEMMA NothingDirty ==
    ASSUME op \in Op, FlushInv, FlushLoopEnd, op.ok
    PROVE  \A s \in Slots : ~cache[s].dirty
<1> SUFFICES ASSUME NEW s \in Slots PROVE ~cache[s].dirty
  OBVIOUS
<1>1. op.slot \in Int /\ s \in Int /\ s <= CacheSize /\ CacheSize \in Int
  BY OpFields, Ranges DEF Slots
<1>2. CASE s < op.slot
  BY <1>2 DEF FlushInv, FlushLoopEnd
<1>3. CASE s \in op.slot..CacheSize
  BY <1>3 DEF FlushLoopEnd
<1> QED
  BY <1>1, <1>2, <1>3

\* DirtyIsWrittenBack: every step that cleans, reuses or drops a dirty slot
\* has put its contents on the device.
THEOREM DirtyWrittenBack == Spec => DirtyIsWrittenBack
<1>1. TypeOK /\ LoopInv /\ [Next]_vars => AllWrittenBack
  <2> SUFFICES ASSUME TypeOK, LoopInv, [Next]_vars, NEW s \in Slots, cache[s].dirty,
                      cache[s].block \in Blocks
               PROVE  WrittenBack(s)
    BY DEF AllWrittenBack, InUse, TypeOK, Slot
  <2> cache \in [Slots -> Slot] /\ op \in Op /\ dev \in [Blocks -> Vals]
    BY DEF TypeOK
  <2> USE DEF WrittenBack
  <2>1. CASE UNCHANGED cache
    BY <2>1
  <2>2. ASSUME NEW t \in Slots, NEW b, NEW v, NEW d, ReuseOk(t, b, v, d)
        PROVE  WrittenBack(s)
    BY <2>2 DEF ReuseOk, SlotWritten
  <2>3. ASSUME NEW t \in Slots, ReuseFail(t)
        PROVE  WrittenBack(s)
    BY <2>3 DEF ReuseFail, Slot
  <2>4. CASE Request
    <3>1. CASE Open
      BY <2>1, <3>1, Ranges DEF Open, LoopInv, ClosedInv
    <3> QED
      BY <2>1, <2>4, <3>1, ZenonT(30) DEF Request, Read, Write, WriteByte, FlushFirst, Begin, CacheOn
  <2>5. CASE ReadHit \/ ReadMiss \/ LoopEnd \/ RawRead \/ RawWrite
    BY <2>1, <2>5 DEF ReadHit, ReadMiss, LoopEnd, RawRead, RawWrite
  <2>6. CASE ReadFill
    BY <2>2, <2>3, <2>6, Helpers DEF ReadFill
  <2>7. CASE WriteHit
    <3>1. PICK t \in Slots :
            cache' = [cache EXCEPT ![t].buf = op.data[op.block], ![t].dirty = TRUE]
      BY <2>7, Helpers DEF WriteHit
    <3> QED
      BY <2>7, <3>1 DEF WriteHit, Slot
  <2>8. CASE WriteMiss
    BY <2>2, <2>3, <2>8, Helpers DEF WriteMiss
  <2>9. CASE FlushSlot
    <3>1. PICK t \in op.slot..CacheSize :
            \/ dev' = SlotWritten(t) /\ cache' = [cache EXCEPT ![t] = Cleaned(t)]
            \/ cache' = [cache EXCEPT ![t].write_err = TRUE]
      BY <2>9 DEF FlushSlot
    <3>2. t \in Slots
      BY <3>1, OpFields, Ranges DEF Slots
    <3>3. CASE dev' = SlotWritten(t) /\ cache' = [cache EXCEPT ![t] = Cleaned(t)]
      BY <3>2, <3>3 DEF SlotWritten
    <3>4. CASE cache' = [cache EXCEPT ![t].write_err = TRUE]
      BY <3>2, <3>4 DEF Slot
    <3> QED
      BY <3>1, <3>3, <3>4
  <2>10. CASE FlushFailed
    BY <2>10 DEF FlushFailed, ErrorsCleared, Slot
  <2>11. CASE Flushed
    <3>1. ~cache[s].dirty
      BY <2>11, NothingDirty DEF Flushed, LoopInv, TypeOK
    <3> QED
      BY <3>1
  <2>12. CASE Return \/ Crash
    BY <2>1, <2>12 DEF Return, Crash
  <2>13. CASE UNCHANGED vars
    BY <2>1, <2>13 DEF vars
  <2> QED
    BY <2>4, <2>5, <2>6, <2>7, <2>8, <2>9, <2>10, <2>11, <2>12, <2>13 DEF Next, Step
<1> QED
  BY <1>1, TypeInvariant, LoopInvariant, PTL DEF Spec, DirtyIsWrittenBack

-----------------------------------------------------------------------------
(* Coherence.  The blocks a read is about to put into the cache are not      *)
(* there yet and hold what the device holds; the blocks of a direct write    *)
(* are in no slot that the flush before it would leave behind.               *)
FillInv == pc = "fill" =>
    \A b \in op.block..op.upto : Hit(b) = {} /\ op.data[b] = dev[b]
DirectInv == pc \in {"flush", "raw"} /\ Invalidating =>
    \A s \in Slots : cache[s].block \in op.first..op.last => pc = "flush" /\ cache[s].dirty
Coherent == CleanMatchesDevice /\ FillInv /\ DirectInv

\* Writing a dirty slot's contents to its block changes the copy of no clean
\* slot, for no other slot holds the block.
LEMMA WriteBackCoherent ==
    ASSUME TypeOK, NoAlias, CleanMatchesDevice,
           NEW s \in Slots, cache[s].dirty, dev' \in {dev, SlotWritten(s)}
    PROVE  /\ \A t \in Slots \ {s} : cache[t].block # NoBlock /\ ~cache[t].dirty =>
                cache[t].buf = dev'[cache[t].block]
           /\ \A b \in Blocks : Hit(b) = {} => dev'[b] = dev[b]
           /\ dev' = SlotWritten(s) => dev'[cache[s].block] = cache[s].buf
<1> cache \in [Slots -> Slot] /\ dev \in [Blocks -> Vals] /\ cache[s].block # NoBlock
  BY DEF TypeOK
<1>1. cache[s].block \in Blocks
  BY DEF Slot
<1>2. \A t \in Slots \ {s} : cache[t].block # cache[s].block
  BY DEF NoAlias
<1>3. \A t \in Slots \ {s} : cache[t].block # NoBlock /\ ~cache[t].dirty =>
        cache[t].buf = dev[cache[t].block] /\ cache[t].block \in Blocks
  BY DEF CleanMatchesDevice, InUse, Slot
<1>4. \A b \in Blocks : Hit(b) = {} => b # cache[s].block
  BY DEF Hit
<1> QED
  BY <1>1, <1>2, <1>3, <1>4 DEF SlotWritten

\* reuse_cache keeps clean slots equal to the device, and writes to the device
\* only blocks that were cached.
LEMMA ReuseCoherent ==
    ASSUME TypeOK, NoAlias, CleanMatchesDevice, NEW s \in Slots, NEW b \in Blocks,
           NEW v \in Vals, NEW d \in BOOLEAN, Hit(b) = {}, ~d => v = dev[b],
           ReuseOk(s, b, v, d) \/ ReuseFail(s)
    PROVE  /\ CleanMatchesDevice'
           /\ \A c \in Blocks : Hit(c) = {} => dev'[c] = dev[c]
<1> cache \in [Slots -> Slot] /\ dev \in [Blocks -> Vals]
  BY DEF TypeOK
<1>1. \A c \in Blocks : Hit(c) = {} => dev'[c] = dev[c]
  BY WriteBackCoherent DEF ReuseOk, ReuseFail
<1>2. \A t \in Slots \ {s} : cache[t].block # NoBlock /\ ~cache[t].dirty =>
        cache[t].buf = dev'[cache[t].block]
  BY WriteBackCoherent DEF ReuseOk, ReuseFail, CleanMatchesDevice, InUse
<1>3. CASE ReuseFail(s)
  <2>1. cache'[s].dirty /\ \A t \in Slots \ {s} : cache'[t] = cache[t]
    BY <1>3 DEF ReuseFail, Slot
  <2>2. \A t \in Slots \ {s} : cache'[t].block # NoBlock /\ ~cache'[t].dirty =>
          cache'[t].buf = dev'[cache'[t].block]
    BY <1>2, <2>1
  <2> QED
    BY <1>1, <2>1, <2>2 DEF CleanMatchesDevice, InUse
<1>4. CASE ReuseOk(s, b, v, d)
  <2>1. /\ cache'[s].block = b /\ cache'[s].buf = v /\ cache'[s].dirty = d
        /\ \A t \in Slots \ {s} : cache'[t] = cache[t]
    BY <1>4 DEF ReuseOk
  <2> QED
    BY <1>1, <1>2, <2>1 DEF CleanMatchesDevice, InUse
<1> QED
  BY <1>1, <1>3, <1>4

\* The strengthening of CleanMatchesDevice, as long as no client writes directly
\* over a block that the cache holds clean.
LEMMA CoherentInvariant ==
    ASSUME ~DirectOverClean
    PROVE  Spec => []Coherent
<1>1. Init => Coherent
  <2> SUFFICES ASSUME Init PROVE Coherent
    OBVIOUS
  <2>1. InUse = {}
    BY Ranges DEF Init, InUse
  <2> QED
    BY <2>1 DEF Init, Coherent, CleanMatchesDevice, FillInv, DirectInv
<1>2. TypeOK /\ NoAlias /\ LoopInv /\ Coherent /\ [Next]_vars => Coherent'
  <2> SUFFICES ASSUME TypeOK, NoAlias, LoopInv, Coherent, [Next]_vars PROVE Coherent'
    OBVIOUS
  <2> cache \in [Slots -> Slot] /\ op \in Op /\ dev \in [Blocks -> Vals]
    BY DEF TypeOK
  <2>1. CASE cache' = EmptyCache /\ pc' \notin {"fill", "flush", "raw"}
    <3>1. InUse' = {}
      BY <2>1, Ranges DEF InUse
    <3> QED
      BY <2>1, <3>1 DEF Coherent, CleanMatchesDevice, FillInv, DirectInv
  <2>2. CASE UNCHANGED <<dev, cache>> /\ pc' \notin {"fill", "flush", "raw"}
    BY <2>2 DEF Coherent, CleanMatchesDevice, FillInv, DirectInv, InUse
  <2>3. CASE Request
    <3>1. ASSUME NEW o, NEW p \in {"read", "store", "flush", "raw"}, Begin(o, p),
                 p \in {"flush", "raw"} /\ o.kind \in {"write", "write_byte"} =>
                   \A s \in Slots : cache[s].block \in o.first..o.last =>
                                      p = "flush" /\ cache[s].dirty
          PROVE  Coherent'
      <4>1. UNCHANGED <<dev, cache>> /\ pc' = p /\ op' = o
        BY <3>1 DEF Begin
      <4>2. CleanMatchesDevice' /\ FillInv'
        BY <4>1 DEF Coherent, CleanMatchesDevice, FillInv, InUse
      <4>3. DirectInv'
        BY <3>1, <4>1 DEF DirectInv, Invalidating
      <4> QED
        BY <4>2, <4>3 DEF Coherent
    <3>2. \A d, c : c \in {"read", "store"} => Entry(d, c) \in {c, "flush", "raw"}
      BY DEF Entry
    <3>3. ASSUME NEW lo, NEW hi, NEW odd, Read(lo, hi, odd)
          PROVE  Coherent'
      BY <3>1, <3>2, <3>3 DEF Read, NoOp
    <3>4. ASSUME NEW lo, NEW hi, NEW d, NEW odd \in BOOLEAN, Write(lo, hi, d, odd)
          PROVE  Coherent'
      <4> DEFINE direct == odd \/ hi - lo >= DirectSize
                 o == [NoOp EXCEPT !.kind = "write", !.first = lo, !.block = lo,
                                   !.last = hi, !.data = d]
                 p == Entry(direct, "store")
      <4>1. /\ p \in {"store", "flush", "raw"}
            /\ p = "flush" => direct /\ ~nocache
            /\ p = "raw" => nocache
        BY DEF Entry
      <4>2. p \in {"flush", "raw"} => MayWriteDirect(lo, hi)
        BY <3>4, <4>1 DEF Write
      <4>3. o.first = lo /\ o.last = hi
        BY DEF NoOp
      <4>4. p \in {"flush", "raw"} =>
              \A s \in Slots : cache[s].block \in lo..hi => p = "flush" /\ cache[s].dirty
        BY <4>1, <4>2 DEF MayWriteDirect
      <4>5. Begin(o, p)
        BY <3>4 DEF Write
      <4> HIDE DEF o, p
      <4> QED
        BY <3>1, <4>1, <4>3, <4>4, <4>5
    <3>5. ASSUME NEW b, NEW v, WriteByte(b, v)
          PROVE  Coherent'
      <4> DEFINE o == [NoOp EXCEPT !.kind = "write_byte", !.first = b, !.block = b,
                                   !.last = b, !.data = [NoOp.data EXCEPT ![b] = v]]
      <4>1. o.first = b /\ o.last = b
        BY DEF NoOp
      <4>2. Begin(o, "flush") /\ \A s \in Slots : cache[s].block \in b..b => cache[s].dirty
        BY <3>5 DEF WriteByte, MayWriteDirect
      <4> HIDE DEF o
      <4> QED
        BY <3>1, <4>1, <4>2
    <3>6. ASSUME NEW kind \in {"flush", "set_blksize", "cache_off", "close"}, FlushFirst(kind)
          PROVE  Coherent'
      BY <3>1, <3>6 DEF FlushFirst, NoOp
    <3>7. CASE CacheOn
      BY <2>2, <3>7 DEF CacheOn
    <3>8. CASE Open
      BY <2>1, <3>8 DEF Open
    <3> QED
      BY <2>3, <3>3, <3>4, <3>5, <3>6, <3>7, <3>8 DEF Request
  <2>4. CASE ReadHit \/ LoopEnd \/ RawRead
    BY <2>2, <2>4 DEF ReadHit, LoopEnd, RawRead, Fail
  <2>5. CASE ReadMiss
    <3>1. CASE Fail
      BY <2>2, <2>5, <3>1 DEF ReadMiss, Fail
    <3>2. ASSUME NEW e \in op.block..op.last, \A b \in op.block..e : Hit(b) = {},
                 op' = [op EXCEPT !.upto = e,
                                  !.data = [b \in Blocks |-> IF b \in op.block..e
                                                             THEN dev[b] ELSE @[b]]],
                 pc' = "fill"
          PROVE  Coherent'
      <4>1. op'.block = op.block /\ op'.upto = e
              /\ \A b \in Blocks : b \in op.block..e => op'.data[b] = dev[b]
        <5>1. op'.block = op.block /\ op'.upto = e
          BY <3>2 DEF Op
        <5>2. op'.data = [b \in Blocks |-> IF b \in op.block..e THEN dev[b] ELSE op.data[b]]
          BY <3>2 DEF Op
        <5> QED
          BY <5>1, <5>2
      <4>2. op.block..e \subseteq Blocks
        BY OpFields, Ranges, SMTT(30) DEF Blocks
      <4>3. UNCHANGED <<dev, cache>>
        BY <2>5 DEF ReadMiss
      <4>4. FillInv'
        BY <3>2, <4>1, <4>2, <4>3 DEF FillInv, Hit
      <4> QED
        BY <3>2, <4>3, <4>4 DEF Coherent, CleanMatchesDevice, DirectInv, InUse
    <3> QED
      BY <2>5, <3>1, <3>2 DEF ReadMiss
  <2>6. CASE ReadFill
    <3>1. op.block \in Blocks /\ op.data[op.block] \in Vals /\ op.upto \in Blocks
            /\ op.block \in op.block..op.upto
      BY <2>6, OpFields, Ranges, SMTT(30) DEF ReadFill, TypeOK, Blocks
    <3>2. op.data[op.block] = dev[op.block]
      BY <2>6, <3>1 DEF ReadFill, Coherent, FillInv
    <3>3. PICK s \in Slots :
            \/ /\ ReuseOk(s, op.block, op.data[op.block], FALSE)
               /\ op' = [op EXCEPT !.block = @ + 1]
               /\ pc' = IF op.block = op.upto THEN "read" ELSE "fill"
            \/ ReuseFail(s) /\ Fail
      BY <2>6, Helpers DEF ReadFill
    <3>4. CleanMatchesDevice' /\ \A c \in Blocks : Hit(c) = {} => dev'[c] = dev[c]
      BY <2>6, <3>1, <3>2, <3>3, ReuseCoherent DEF ReadFill, Coherent
    <3>5. CASE pc' = "fill"
      <4>1. op'.block = op.block + 1 /\ op'.upto = op.upto /\ op'.data = op.data
        BY <3>3, <3>5 DEF Fail, Op
      <4>2. ASSUME NEW b \in (op.block + 1)..op.upto
            PROVE  Hit(b)' = {} /\ op.data[b] = dev'[b]
        <5>1. b \in op.block..op.upto /\ b \in Blocks /\ b # op.block
          BY <3>1, Ranges DEF Blocks
        <5>2. Hit(b) = {} /\ op.data[b] = dev[b]
          BY <2>6, <5>1 DEF ReadFill, Coherent, FillInv
        <5>3. Hit(b)' = {}
          BY <3>3, <3>5, <5>1, <5>2 DEF ReuseOk, Hit, Fail
        <5> QED
          BY <3>4, <5>1, <5>2, <5>3
      <4> QED
        BY <3>4, <3>5, <4>1, <4>2 DEF Coherent, FillInv, DirectInv
    <3>6. CASE pc' \in {"read", "return"}
      BY <3>4, <3>6 DEF Coherent, FillInv, DirectInv
    <3> QED
      BY <3>3, <3>5, <3>6 DEF Fail
  <2>7. CASE WriteHit
    <3>1. PICK s \in Slots :
            cache' = [cache EXCEPT ![s].buf = op.data[op.block], ![s].dirty = TRUE]
      BY <2>7, Helpers DEF WriteHit
    <3>2. cache'[s].dirty /\ \A t \in Slots \ {s} : cache'[t] = cache[t]
      BY <3>1 DEF Slot
    <3>3. CleanMatchesDevice'
      BY <2>7, <3>2 DEF WriteHit, Coherent, CleanMatchesDevice, InUse
    <3> QED
      BY <2>7, <3>3 DEF WriteHit, Coherent, FillInv, DirectInv
  <2>8. CASE WriteMiss
    <3>1. op.block \in Blocks /\ op.data[op.block] \in Vals
      BY <2>8, OpFields DEF WriteMiss
    <3>2. CleanMatchesDevice'
      BY <2>8, <3>1, Helpers, ReuseCoherent DEF WriteMiss, Coherent
    <3> QED
      BY <2>8, <3>2 DEF WriteMiss, Coherent, FillInv, DirectInv
  <2>9. CASE FlushSlot
    <3>1. PICK s \in op.slot..CacheSize :
            /\ cache[s].dirty
            /\ dev' \in {dev, SlotWritten(s)}
            /\ \/ /\ dev' = SlotWritten(s)
                  /\ cache' = [cache EXCEPT ![s] = Cleaned(s)]
                  /\ op' = [op EXCEPT !.slot = s + 1]
               \/ /\ cache' = [cache EXCEPT ![s].write_err = TRUE]
                  /\ op' = [op EXCEPT !.slot = s + 1, !.ok = FALSE]
      BY <2>9 DEF FlushSlot
    <3>2. s \in Slots
      BY <3>1, OpFields, Ranges DEF Slots
    <3>3. /\ pc = "flush" /\ pc' = "flush" /\ op'.kind = op.kind
          /\ op'.first = op.first /\ op'.last = op.last
      BY <2>9, <3>1 DEF FlushSlot, Op
    <3>4. \A t \in Slots \ {s} : cache'[t] = cache[t]
      BY <3>1, <3>2
    <3>5. \A t \in Slots \ {s} : cache[t].block # NoBlock /\ ~cache[t].dirty =>
            cache[t].buf = dev'[cache[t].block]
      BY <3>1, <3>2, WriteBackCoherent DEF Coherent
    <3>6. CASE dev' = SlotWritten(s) /\ cache' = [cache EXCEPT ![s] = Cleaned(s)]
      <4>1. cache'[s] = Cleaned(s) /\ cache[s].buf = dev'[cache[s].block]
        BY <3>1, <3>2, <3>6, WriteBackCoherent DEF Coherent
      <4>2. Cleaned(s).block # NoBlock =>
              Cleaned(s).block = cache[s].block /\ Cleaned(s).buf = cache[s].buf /\ ~Invalidating
        BY <3>2, Ranges DEF Cleaned, Slot
      <4>3. CleanMatchesDevice'
        BY <3>2, <3>4, <3>5, <4>1, <4>2 DEF CleanMatchesDevice, InUse
      <4>4. Invalidating => Cleaned(s).block \notin op.first..op.last
        BY Ranges, OpFields DEF Cleaned, Blocks, NoBlock
      <4>5. DirectInv'
        BY <3>3, <3>4, <4>1, <4>4 DEF Coherent, DirectInv, Invalidating
      <4> QED
        BY <3>3, <4>3, <4>5 DEF Coherent, FillInv
    <3>7. CASE cache' = [cache EXCEPT ![s].write_err = TRUE]
      <4>1. cache'[s].dirty /\ cache'[s].block = cache[s].block
        BY <3>1, <3>2, <3>7 DEF Slot
      <4>2. CleanMatchesDevice'
        BY <3>4, <3>5, <4>1 DEF CleanMatchesDevice, InUse
      <4>3. DirectInv'
        BY <3>3, <3>4, <4>1 DEF Coherent, DirectInv, Invalidating
      <4> QED
        BY <3>3, <4>2, <4>3 DEF Coherent, FillInv
    <3> QED
      BY <3>1, <3>6, <3>7
  <2>10. CASE FlushFailed
    <3>1. /\ UNCHANGED dev /\ pc' = "return"
          /\ \A s \in Slots : /\ cache'[s].block = cache[s].block
                              /\ cache'[s].dirty = cache[s].dirty
                              /\ cache'[s].buf = cache[s].buf
      BY <2>10 DEF FlushFailed, ErrorsCleared, Slot
    <3> QED
      BY <3>1 DEF Coherent, CleanMatchesDevice, FillInv, DirectInv, InUse
  <2>11. CASE Flushed
    <3>1. CASE pc' = "raw"
      <4>1. \A s \in Slots : ~cache[s].dirty
        BY <2>11, NothingDirty DEF Flushed, LoopInv, TypeOK
      <4>2. UNCHANGED <<dev, cache, op>> /\ pc = "flush"
        BY <2>11, <3>1 DEF Flushed, FlushLoopEnd
      <4>3. DirectInv'
        BY <4>1, <4>2 DEF Coherent, DirectInv, Invalidating
      <4> QED
        BY <3>1, <4>2, <4>3 DEF Coherent, CleanMatchesDevice, FillInv, InUse
    <3>2. CASE pc' = "return"
      BY <2>1, <2>2, <2>11, <3>2 DEF Flushed
    <3> QED
      BY <2>11, <3>1, <3>2 DEF Flushed
  <2>12. CASE RawWrite
    <3>1. pc = "raw" /\ pc' = "return" /\ UNCHANGED cache
      BY <2>12 DEF RawWrite
    <3>2. \A b \in Blocks : b \notin op.first..op.last => dev'[b] = dev[b]
      <4>1. op \in Op
        BY DEF TypeOK
      <4>2. PICK k \in 0..NBlocks : k <= op.last + 1
                                   /\ dev' = Overwritten(op.first, k, op.data)
        BY <2>12, <4>1, RawWriteStep
      <4>3. \A b \in Blocks : b \notin op.first..op.last => ~(op.first <= b /\ b < k)
        BY <4>1, <4>2, OpFields, Ranges DEF Blocks
      <4> QED
        BY <4>2, <4>3 DEF Overwritten
    <3>3. Invalidating
      BY <2>12 DEF RawWrite, Invalidating
    <3>4. \A s \in Slots : cache[s].block \notin op.first..op.last
      BY <3>1, <3>3 DEF Coherent, DirectInv
    <3>5. CleanMatchesDevice'
      BY <3>1, <3>2, <3>4 DEF Coherent, CleanMatchesDevice, InUse, Slot
    <3> QED
      BY <3>1, <3>5 DEF Coherent, FillInv, DirectInv
  <2>13. CASE Return \/ Crash
    BY <2>1, <2>2, <2>13 DEF Return, Crash
  <2>14. CASE UNCHANGED vars
    BY <2>14 DEF vars, Coherent, CleanMatchesDevice, FillInv, DirectInv, InUse, Hit, Invalidating
  <2> QED
    BY <2>3, <2>4, <2>5, <2>6, <2>7, <2>8, <2>9, <2>10, <2>11, <2>12, <2>13, <2>14
       DEF Next, Step
<1> QED
  BY <1>1, <1>2, TypeInvariant, AliasInvariant, LoopInvariant, PTL DEF Spec

\* CleanMatchesDevice: as long as no client writes directly over a block that
\* the cache holds clean, whatever transfers fail and wherever a crash comes.
THEOREM Coherence ==
    ASSUME ~DirectOverClean
    PROVE  Spec => []CleanMatchesDevice
<1>1. Coherent => CleanMatchesDevice
  BY DEF Coherent
<1> QED
  BY <1>1, CoherentInvariant, PTL

-----------------------------------------------------------------------------
\* The refinement: what the steps do to the client's view of a block, then the
\* invariant of the handlers, then the simulation, one lemma for each action of
\* BlockStore and one for each way a handler's step is one of those.

\* What a client sees of a block is the copy in the cache, if there is one and
\* it is looked at, and the device's otherwise.
ViewRight ==
    /\ View \in [Blocks -> Vals]
    /\ \A b \in Blocks : nocache \/ Hit(b) = {} => View[b] = dev[b]
    /\ \A s \in Slots : cache[s].block \in Blocks /\ ~nocache => View[cache[s].block] = cache[s].buf

\* As no block is cached twice, View is well defined (find_cached_block).
LEMMA ViewOf == TypeOK /\ NoAlias => ViewRight
<1> SUFFICES ASSUME TypeOK, NoAlias PROVE ViewRight
  OBVIOUS
<1> cache \in [Slots -> Slot] /\ dev \in [Blocks -> Vals]
  BY DEF TypeOK
<1>1. \A b \in Blocks : nocache \/ Hit(b) = {} => View[b] = dev[b]
  BY DEF View
<1>2. ASSUME NEW s \in Slots, cache[s].block \in Blocks, ~nocache
      PROVE  View[cache[s].block] = cache[s].buf
  <2> DEFINE b == cache[s].block
  <2>1. s \in Hit(b) /\ b # NoBlock
    BY <1>2, Ranges DEF Hit
  <2>2. PICK t : t \in Hit(b) /\ t = CHOOSE u \in Hit(b) : TRUE
    BY <2>1
  <2>3. t = s
    BY <2>1, <2>2 DEF Hit, NoAlias
  <2> QED
    BY <1>2, <2>1, <2>2, <2>3 DEF View
<1>3. View \in [Blocks -> Vals]
  <2>1. ASSUME NEW b \in Blocks, ~nocache, Hit(b) # {}
        PROVE  cache[CHOOSE s \in Hit(b) : TRUE].buf \in Vals
    <3>1. PICK t : t \in Hit(b) /\ t = CHOOSE u \in Hit(b) : TRUE
      BY <2>1
    <3> QED
      BY <3>1 DEF Hit, Slot
  <2> QED
    BY <2>1 DEF View
<1> QED
  BY <1>1, <1>2, <1>3 DEF ViewRight

\* The same of the state after a step.
LEMMA ViewOfNext == TypeOK' /\ NoAlias' => ViewRight'
  BY ViewOf, PTL

-----------------------------------------------------------------------------
(* What a handler relies on between its steps.  HandlerInv: which requests    *)
(* are where, and where in them.  BypassInv: the device alone has it all when *)
(* the cache is passed by, and once a flush is through.  ReadInv: what has    *)
(* been read is what the client would see now.                               *)
NoneDirty == \A s \in Slots : ~cache[s].dirty

HandlerInv ==
    /\ pc \in {"idle", "closed"} => op = NoOp
    /\ pc \notin {"idle", "closed"} => op.kind # "none"
    /\ pc \in {"read", "fill"} => op.kind = "read"
    /\ pc = "store" => op.kind = "write"
    /\ pc = "raw" => Transferring
    /\ pc \in {"flush", "raw"} /\ Invalidating => op.block = op.first
    /\ pc = "return" /\ op.ok /\ Invalidating => op.block > op.last

BypassInv ==
    /\ pc \in {"read", "fill", "store"} => ~nocache
    /\ nocache \/ pc = "raw" \/ (pc = "return" /\ op.ok /\ ~Transferring) => NoneDirty
    /\ op.kind = "cache_off" => op.ok

ReadInv ==
    /\ pc = "read" => \A b \in op.first..(op.block - 1) : op.data[b] = View[b]
    /\ pc = "fill" => \A b \in op.first..op.upto : op.data[b] = View[b]
    /\ pc = "return" /\ op.ok /\ op.kind = "read" =>
         \A b \in op.first..op.last : op.data[b] = View[b]

CallInv == HandlerInv /\ BypassInv /\ ReadInv

-----------------------------------------------------------------------------
\* What the steps do to the view

\* With no dirty slot, or no slot at all, the view is the device.
LEMMA CleanView ==
    ASSUME TypeOK, CleanMatchesDevice, ViewRight, NoneDirty
    PROVE  View = dev
<1> cache \in [Slots -> Slot] /\ dev \in [Blocks -> Vals] /\ View \in [Blocks -> Vals]
  BY DEF TypeOK, ViewRight
<1>1. ASSUME NEW b \in Blocks, ~nocache, NEW s \in Hit(b)
      PROVE  View[b] = dev[b]
  <2>1. s \in Slots /\ cache[s].block = b /\ s \in InUse
    BY <1>1, Ranges DEF Hit, InUse
  <2>2. View[b] = cache[s].buf
    BY <1>1, <2>1 DEF ViewRight
  <2> QED
    BY <2>1, <2>2 DEF CleanMatchesDevice, NoneDirty
<1>2. \A b \in Blocks : View[b] = dev[b]
  BY <1>1 DEF ViewRight
<1> QED
  BY <1>2

\* With the cache empty or passed by, the view is the device.
LEMMA BareView ==
    ASSUME ViewRight, dev \in [Blocks -> Vals], nocache \/ cache = EmptyCache
    PROVE  View = dev
<1>1. cache = EmptyCache => \A b \in Blocks : Hit(b) = {}
  BY Ranges DEF Hit
<1>2. \A b \in Blocks : View[b] = dev[b]
  BY <1>1 DEF ViewRight
<1> QED
  BY <1>2 DEF ViewRight

\* The same of the state after a step (xnu_close, a crash, set_blksize).
LEMMA BareViewNext ==
    ASSUME ViewRight', dev' \in [Blocks -> Vals], nocache' \/ cache' = EmptyCache
    PROVE  View' = dev'
<1>1. cache' = EmptyCache => \A b \in Blocks : Hit(b)' = {}
  BY Ranges DEF Hit
<1>2. \A b \in Blocks : View'[b] = dev'[b]
  BY <1>1 DEF ViewRight
<1> QED
  BY <1>2 DEF ViewRight

\* Marks and ages of slots are not seen.
LEMMA SameView ==
    ASSUME ViewRight, ViewRight', UNCHANGED <<dev, nocache>>,
           cache \in [Slots -> Slot], cache' \in [Slots -> Slot],
           \A t \in Slots : cache'[t].block = cache[t].block /\ cache'[t].buf = cache[t].buf
    PROVE  View' = View
<1>1. \A b \in Blocks : Hit(b)' = Hit(b)
  BY DEF Hit
<1>2. ASSUME NEW b \in Blocks PROVE View'[b] = View[b]
  <2>1. CASE nocache \/ Hit(b) = {}
    BY <1>1, <2>1 DEF ViewRight
  <2>2. ASSUME ~nocache, NEW s \in Hit(b) PROVE View'[b] = View[b]
    BY <2>2 DEF ViewRight, Hit
  <2> QED
    BY <2>1, <2>2
<1> QED
  BY <1>2 DEF ViewRight

\* A step that changes one slot shows the client nothing of it if the slot
\* keeps its block and contents, or gives the block up after it has been
\* written back.
LEMMA OneSlot ==
    ASSUME TypeOK, TypeOK', NoAlias, CleanMatchesDevice, ViewRight, ViewRight',
           ~nocache, ~nocache', NEW s \in Slots, NEW c \in Blocks,
           \A t \in Slots \ {s} : cache'[t].block = cache[t].block /\ cache'[t].buf = cache[t].buf,
           dev' = dev \/ (cache[s].dirty /\ dev' = SlotWritten(s)),
           cache[s].block = c =>
              \/ cache'[s].block = c /\ cache'[s].buf = cache[s].buf
              \/ cache'[s].block # c /\ (cache[s].dirty => dev' = SlotWritten(s)),
           cache[s].block # c => cache'[s].block # c
    PROVE  View'[c] = View[c]
<1> cache \in [Slots -> Slot] /\ dev \in [Blocks -> Vals] /\ c # NoBlock
  BY Ranges DEF TypeOK
<1>1. CASE cache[s].block = c
  <2>1. View[c] = cache[s].buf
    BY <1>1 DEF ViewRight
  <2>2. CASE cache'[s].block = c
    BY <1>1, <2>1, <2>2 DEF ViewRight
  <2>3. CASE cache'[s].block # c
    <3>1. \A t \in Slots \ {s} : cache[t].block # c
      BY <1>1 DEF NoAlias
    <3>2. Hit(c)' = {}
      BY <2>3, <3>1 DEF Hit
    <3>3. View'[c] = dev'[c]
      BY <3>2 DEF ViewRight
    <3>4. dev'[c] = cache[s].buf
      BY <1>1, <2>3 DEF SlotWritten, CleanMatchesDevice, InUse
    <3> QED
      BY <2>1, <3>3, <3>4
  <2> QED
    BY <2>2, <2>3
<1>2. ASSUME NEW t \in Slots \ {s}, cache[t].block = c
      PROVE  View'[c] = View[c]
  BY <1>2 DEF ViewRight
<1>3. CASE \A t \in Slots : cache[t].block # c
  <2>1. Hit(c) = {} /\ Hit(c)' = {}
    BY <1>3 DEF Hit
  <2>2. dev'[c] = dev[c]
    BY <1>3 DEF SlotWritten
  <2> QED
    BY <2>1, <2>2 DEF ViewRight
<1> QED
  BY <1>1, <1>2, <1>3

\* What a write-back puts on the device is what the client saw all along.
LEMMA WriteBackView ==
    ASSUME TypeOK, ViewRight, ~nocache, NEW s \in Slots,
           dev' = dev \/ (cache[s].dirty /\ dev' = SlotWritten(s))
    PROVE  \E synced \in SUBSET Blocks :
             /\ dev' = [b \in Blocks |-> IF b \in synced THEN View[b] ELSE dev[b]]
             /\ \A b \in synced : cache[s].block = b
<1> cache \in [Slots -> Slot] /\ dev \in [Blocks -> Vals]
  BY DEF TypeOK
<1>1. CASE dev' = dev
  <2> WITNESS {} \in SUBSET Blocks
  <2> QED
    BY <1>1
<1>2. CASE cache[s].dirty /\ dev' = SlotWritten(s)
  <2>1. cache[s].block \in Blocks
    BY <1>2 DEF TypeOK, Slot
  <2>2. View[cache[s].block] = cache[s].buf
    BY <2>1 DEF ViewRight
  <2>3. {cache[s].block} \in SUBSET Blocks
    BY <2>1
  <2> QED
    BY <1>2, <2>1, <2>2, <2>3, ZenonT(30) DEF SlotWritten
<1> QED
  BY <1>1, <1>2

\* reuse_cache, once it has gone through, and when it has failed.
LEMMA ReuseView ==
    ASSUME TypeOK, TypeOK', NoAlias, CleanMatchesDevice, ViewRight, ViewRight',
           ~nocache, UNCHANGED nocache, NEW s \in Slots, NEW b \in Blocks, Hit(b) = {},
           NEW v \in Vals, NEW d \in BOOLEAN
    PROVE  /\ ReuseOk(s, b, v, d) => View' = [View EXCEPT ![b] = v]
           /\ ReuseFail(s) => View' = View
           /\ ReuseOk(s, b, v, d) \/ ReuseFail(s) => dev' = dev \/ (cache[s].dirty /\ dev' = SlotWritten(s))
<1> cache \in [Slots -> Slot] /\ View \in [Blocks -> Vals] /\ View' \in [Blocks -> Vals]
  BY DEF TypeOK, ViewRight
<1> \A t \in Slots : cache[t].block # b
  BY DEF Hit
<1>1. ReuseOk(s, b, v, d) \/ ReuseFail(s) => dev' = dev \/ (cache[s].dirty /\ dev' = SlotWritten(s))
  BY DEF ReuseOk, ReuseFail
<1>2. ASSUME ReuseOk(s, b, v, d) PROVE View' = [View EXCEPT ![b] = v]
  <2>1. /\ cache'[s].block = b /\ cache'[s].buf = v
        /\ \A t \in Slots \ {s} : cache'[t] = cache[t]
        /\ cache[s].dirty => dev' = SlotWritten(s)
    BY <1>2 DEF ReuseOk
  <2>2. View'[b] = v
    BY <2>1 DEF ViewRight
  <2>3. ASSUME NEW c \in Blocks \ {b} PROVE View'[c] = View[c]
    BY <1>1, <1>2, <2>1, OneSlot
  <2> QED
    BY <2>2, <2>3
<1>3. ASSUME ReuseFail(s) PROVE View' = View
  <2>1. /\ cache'[s].block = cache[s].block /\ cache'[s].buf = cache[s].buf
        /\ \A t \in Slots \ {s} : cache'[t] = cache[t]
    BY <1>3 DEF ReuseFail, Slot
  <2>2. ASSUME NEW c \in Blocks PROVE View'[c] = View[c]
    BY <1>1, <1>3, <2>1, OneSlot
  <2> QED
    BY <2>2
<1> QED
  BY <1>1, <1>2, <1>3

-----------------------------------------------------------------------------
\* The clients write directly only where they may, and every failed write-back
\* is reported: none of a victim of a cached write, whose error xnu_write_blk64
\* drops, and none in the flush of cache=off, which switches all the same.
Careful == ~DirectOverClean /\ Faults \subseteq {"transfer"}

\* What XnuIOProofs has proved.
Base == TypeOK /\ NoAlias /\ LoopInv /\ Coherent /\ ViewRight

\* Base holds throughout: the invariants of XnuIOProofs carry over.
LEMMA BaseInvariant ==
    ASSUME Careful
    PROVE  Spec => []Base
<1>1. TypeOK /\ NoAlias /\ LoopInv /\ Coherent => Base
  BY ViewOf DEF Base
<1>2. Spec => []Coherent
  BY CoherentInvariant DEF Careful
<1> QED
  BY <1>1, <1>2, TypeInvariant, AliasInvariant, LoopInvariant, PTL

Quiet == \/ ReadHit \/ ReadMiss \/ ReadFill \/ LoopEnd \/ FlushSlot \/ FlushFailed \/ Flushed
         \/ RawRead \/ (Return /\ op.kind # "close")

\* After a flush without an error nothing is dirty.
LEMMA FlushedClean ==
    ASSUME Base, Flushed
    PROVE  NoneDirty /\ View = dev
<1>1. NoneDirty
  BY NothingDirty DEF Base, Flushed, LoopInv, TypeOK, NoneDirty
<1> QED
  BY <1>1, CleanView DEF Base, Coherent

\* cache=off takes effect only after a flush that has gone through.
LEMMA SwitchOff ==
    ASSUME Base, BypassInv, FlushFailed
    PROVE  UNCHANGED nocache
<1>1. op.kind # "cache_off"
  BY DEF BypassInv, FlushFailed
<1>2. nocache' = (nocache \/ FALSE) /\ nocache \in BOOLEAN
  BY <1>1 DEF FlushFailed, Base, TypeOK
<1> QED
  BY <1>2

\* A write-back is only ever done while the cache is looked at.
LEMMA FlushSlotStep ==
    ASSUME Base, BypassInv, FlushSlot
    PROVE  \E s \in Slots :
             /\ ~nocache /\ cache[s].dirty
             /\ dev' = dev \/ dev' = SlotWritten(s)
             /\ \/ dev' = SlotWritten(s) /\ cache' = [cache EXCEPT ![s] = Cleaned(s)]
                     /\ op' = [op EXCEPT !.slot = s + 1]
                \/ cache' = [cache EXCEPT ![s].write_err = TRUE]
                     /\ op' = [op EXCEPT !.slot = s + 1, !.ok = FALSE]
                     /\ (IF op.kind = "cache_off" THEN "switch" ELSE "transfer") \in Faults
<1>1. PICK s \in op.slot..CacheSize :
        /\ cache[s].dirty
        /\ \/ /\ dev' = SlotWritten(s)
              /\ cache' = [cache EXCEPT ![s] = Cleaned(s)]
              /\ op' = [op EXCEPT !.slot = s + 1]
           \/ /\ (IF op.kind = "cache_off" THEN "switch" ELSE "transfer") \in Faults
              /\ dev' \in {dev, SlotWritten(s)}
              /\ cache' = [cache EXCEPT ![s].write_err = TRUE]
              /\ op' = [op EXCEPT !.slot = s + 1, !.ok = FALSE]
  BY DEF FlushSlot
<1>2. s \in Slots
  BY <1>1, OpFields, Ranges DEF Slots, Base, TypeOK
<1>3. ~nocache
  BY <1>1, <1>2 DEF BypassInv, NoneDirty
<1> QED
  BY <1>1, <1>2, <1>3

\* A block that was read is put in the cache as the client sees it already.
LEMMA ReadFillStep ==
    ASSUME Base, BypassInv, ReadFill
    PROVE  /\ op.block \in Blocks /\ op.block <= op.upto /\ ~nocache /\ UNCHANGED nocache
           /\ op.data[op.block] = View[op.block] /\ op.data[op.block] \in Vals
           /\ \E s \in Slots :
                \/ /\ ReuseOk(s, op.block, op.data[op.block], FALSE)
                   /\ op' = [op EXCEPT !.block = @ + 1]
                   /\ pc' = IF op.block = op.upto THEN "read" ELSE "fill"
                \/ ReuseFail(s) /\ Fail
<1>1. op.block \in Blocks /\ op.block <= op.upto /\ op.block \in op.block..op.upto
  BY OpFields, Ranges DEF ReadFill, Base, TypeOK, Blocks
<1>2. op.data[op.block] = dev[op.block] /\ Hit(op.block) = {}
  BY <1>1 DEF ReadFill, Base, Coherent, FillInv
<1>3. op.data[op.block] = View[op.block] /\ op.data[op.block] \in Vals
  BY <1>1, <1>2, OpFields DEF Base, ViewRight, TypeOK
<1>4. ~nocache /\ UNCHANGED nocache
  BY DEF ReadFill, BypassInv
<1> QED
  BY <1>1, <1>3, <1>4, Helpers DEF ReadFill, Base

\* Nothing but a write changes what a client sees.
LEMMA QuietView ==
    ASSUME Careful, Base, Base', BypassInv, Quiet
    PROVE  View' = View
<1> /\ cache \in [Slots -> Slot] /\ cache' \in [Slots -> Slot] /\ dev' \in [Blocks -> Vals]
    /\ View \in [Blocks -> Vals] /\ View' \in [Blocks -> Vals]
  BY DEF Base, TypeOK, ViewRight
<1> USE DEF Base
<1>1. CASE UNCHANGED <<dev, cache, nocache>>
  BY <1>1, SameView
<1>2. CASE ReadHit \/ ReadMiss \/ LoopEnd \/ RawRead \/ (Return /\ op.kind # "close")
  BY <1>1, <1>2 DEF ReadHit, ReadMiss, LoopEnd, RawRead, Return
<1>3. CASE ReadFill
  <2>1. PICK s \in Slots : ReuseOk(s, op.block, op.data[op.block], FALSE) \/ ReuseFail(s)
    BY <1>3, ReadFillStep
  <2>2. Hit(op.block) = {}
    BY <1>3 DEF ReadFill
  <2>3. View' \in {[View EXCEPT ![op.block] = op.data[op.block]], View}
    BY <1>3, <2>1, <2>2, ReuseView, ReadFillStep DEF Coherent
  <2> QED
    BY <1>3, <2>3, ReadFillStep
<1>4. CASE FlushSlot
  <2>1. PICK s \in Slots :
          /\ ~nocache /\ cache[s].dirty
          /\ dev' = dev \/ dev' = SlotWritten(s)
          /\ \/ dev' = SlotWritten(s) /\ cache' = [cache EXCEPT ![s] = Cleaned(s)]
             \/ cache' = [cache EXCEPT ![s].write_err = TRUE]
    BY <1>4, FlushSlotStep
  <2>2. UNCHANGED nocache
    BY <1>4 DEF FlushSlot
  <2>3. \A t \in Slots \ {s} : cache'[t] = cache[t]
    BY <2>1
  <2>4. CASE dev' = SlotWritten(s) /\ cache' = [cache EXCEPT ![s] = Cleaned(s)]
    <3>1. \/ cache'[s].block = cache[s].block /\ cache'[s].buf = cache[s].buf
          \/ cache'[s].block = NoBlock
      BY <2>4, Ranges DEF Cleaned, Slot
    <3>2. ASSUME NEW c \in Blocks PROVE View'[c] = View[c]
      BY <2>1, <2>2, <2>3, <2>4, <3>1, OneSlot, Ranges DEF Coherent
    <3> QED
      BY <3>2
  <2>5. CASE cache' = [cache EXCEPT ![s].write_err = TRUE]
    <3>1. cache'[s].block = cache[s].block /\ cache'[s].buf = cache[s].buf
      BY <2>5 DEF Slot
    <3>2. ASSUME NEW c \in Blocks PROVE View'[c] = View[c]
      BY <2>1, <2>2, <2>3, <3>1, OneSlot DEF Coherent
    <3> QED
      BY <3>2
  <2> QED
    BY <2>1, <2>4, <2>5
<1>5. CASE FlushFailed
  <2>1. \A t \in Slots : cache'[t].block = cache[t].block /\ cache'[t].buf = cache[t].buf
    BY <1>5 DEF FlushFailed, ErrorsCleared, Slot
  <2>2. UNCHANGED <<dev, nocache>>
    BY <1>5, SwitchOff DEF FlushFailed
  <2> QED
    BY <2>1, <2>2, SameView
<1>6. CASE Flushed
  <2>1. CASE op.kind \in {"set_blksize", "cache_off"}
    <3>1. View' = dev' /\ dev' = dev
      BY <1>6, <2>1, BareViewNext DEF Flushed
    <3> QED
      BY <1>6, <3>1, FlushedClean
  <2>2. CASE op.kind \notin {"set_blksize", "cache_off"}
    <3>1. UNCHANGED <<dev, cache>> /\ nocache' = nocache
      BY <1>6, <2>2 DEF Flushed, TypeOK
    <3> QED
      BY <1>1, <3>1
  <2> QED
    BY <2>1, <2>2
<1> QED
  BY <1>2, <1>3, <1>4, <1>5, <1>6 DEF Quiet

\* A write through the cache changes the block it has come to; what the slot it
\* takes had is on the device before.
LEMMA StoreStep ==
    ASSUME Careful, Base, Base', HandlerInv, BypassInv, WriteHit \/ WriteMiss
    PROVE  /\ op.block \in Blocks /\ op.block <= op.last /\ op.kind = "write"
           /\ op' = [op EXCEPT !.block = @ + 1] /\ pc' = "store" /\ UNCHANGED <<nocache, reply>>
           /\ View' = [View EXCEPT ![op.block] = op.data[op.block]]
           /\ \E synced \in SUBSET Blocks :
                /\ dev' = [b \in Blocks |-> IF b \in synced THEN View[b] ELSE dev[b]]
                /\ op.block \notin synced
<1> DEFINE b == op.block
<1> /\ cache \in [Slots -> Slot] /\ cache' \in [Slots -> Slot] /\ dev \in [Blocks -> Vals]
    /\ View \in [Blocks -> Vals] /\ View' \in [Blocks -> Vals]
  BY DEF Base, TypeOK, ViewRight
<1>1. /\ b \in Blocks /\ b <= op.last /\ op.data[b] \in Vals /\ pc = "store"
  BY OpFields DEF WriteHit, WriteMiss, Base, TypeOK
<1>2. op.kind = "write" /\ ~nocache /\ UNCHANGED <<nocache, reply>>
  BY <1>1 DEF HandlerInv, BypassInv, WriteHit, WriteMiss
<1>3. CASE WriteHit
  <2>1. PICK s \in Hit(b) :
          cache' = [cache EXCEPT ![s].buf = op.data[b], ![s].dirty = TRUE]
    BY <1>3 DEF WriteHit
  <2>2. /\ s \in Slots /\ cache[s].block = b
        /\ cache'[s].block = b /\ cache'[s].buf = op.data[b]
        /\ \A t \in Slots \ {s} : cache'[t] = cache[t]
    BY <2>1 DEF Hit, Slot
  <2>3. View'[b] = op.data[b]
    BY <1>1, <1>2, <2>2 DEF Base, ViewRight
  <2>4. UNCHANGED dev
    BY <1>3 DEF WriteHit
  <2>5. ASSUME NEW c \in Blocks \ {b} PROVE View'[c] = View[c]
    BY <1>2, <2>2, <2>4, OneSlot DEF Base, Coherent
  <2>6. View' = [View EXCEPT ![b] = op.data[b]]
    BY <2>3, <2>5
  <2>7. /\ dev' = [c \in Blocks |-> IF c \in {} THEN View[c] ELSE dev[c]]
        /\ {} \in SUBSET Blocks /\ b \notin {}
    BY <2>4
  <2> QED
    BY <1>1, <1>2, <1>3, <2>6, <2>7 DEF WriteHit
<1>4. CASE WriteMiss
  <2>1. PICK s \in Slots :
          /\ ReuseOk(s, b, op.data[b], TRUE)
          /\ op' = [op EXCEPT !.block = @ + 1]
          /\ UNCHANGED pc
    BY <1>4, Helpers DEF WriteMiss, Careful, Base
  <2>2. Hit(b) = {}
    BY <1>4 DEF WriteMiss
  <2>3. View' = [View EXCEPT ![b] = op.data[b]]
    <3>1. /\ TypeOK /\ TypeOK' /\ NoAlias /\ CleanMatchesDevice /\ ViewRight /\ ViewRight'
          /\ ~nocache /\ UNCHANGED nocache /\ b \in Blocks /\ op.data[b] \in Vals
      BY <1>1, <1>2 DEF Base, Coherent
    <3> QED
      BY <2>1, <2>2, <3>1, ReuseView
  <2>4. dev' = dev \/ (cache[s].dirty /\ dev' = SlotWritten(s))
    BY <2>1 DEF ReuseOk
  <2>5. PICK synced \in SUBSET Blocks :
          /\ dev' = [c \in Blocks |-> IF c \in synced THEN View[c] ELSE dev[c]]
          /\ \A c \in synced : cache[s].block = c
    BY <1>2, <2>4, WriteBackView DEF Base
  <2>6. b \notin synced
    BY <2>2, <2>5 DEF Hit
  <2>7. op' = [op EXCEPT !.block = @ + 1] /\ pc' = "store"
    BY <1>1, <2>1
  <2> HIDE DEF b
  <2> QED
    BY <1>1, <1>2, <2>3, <2>5, <2>6, <2>7, Zenon DEF b
<1> QED
  BY <1>3, <1>4

\* A direct write changes the blocks it has reached, for the client as well.
LEMMA RawWriteView ==
    ASSUME Base, Base', RawWrite
    PROVE  \E k \in 0..NBlocks :
             /\ k <= op.last + 1
             /\ dev' = Overwritten(op.first, k, op.data)
             /\ View' = [b \in Blocks |-> IF op.first <= b /\ b < k THEN op.data[b] ELSE View[b]]
             /\ op' \in {[op EXCEPT !.block = k], [op EXCEPT !.block = k, !.ok = FALSE]}
<1> /\ cache \in [Slots -> Slot] /\ cache' \in [Slots -> Slot]
    /\ dev \in [Blocks -> Vals] /\ dev' \in [Blocks -> Vals] /\ op \in Op
    /\ View \in [Blocks -> Vals] /\ View' \in [Blocks -> Vals]
  BY DEF Base, TypeOK, ViewRight
<1>1. PICK k \in 0..NBlocks :
        /\ k <= op.last + 1
        /\ dev' = Overwritten(op.first, k, op.data)
        /\ op' \in {[op EXCEPT !.block = k], [op EXCEPT !.block = k, !.ok = FALSE]}
  BY RawWriteStep
<1>2. pc = "raw" /\ Invalidating /\ UNCHANGED <<cache, nocache>>
  BY DEF RawWrite
<1>3. CASE nocache
  <2>1. View = dev /\ View' = dev'
    BY <1>2, <1>3, BareView, BareViewNext DEF Base
  <2> QED
    BY <1>1, <2>1 DEF Overwritten
<1>4. CASE ~nocache
  <2>1. \A b \in op.first..op.last : Hit(b) = {}
    BY <1>2 DEF Base, Coherent, DirectInv, Hit
  <2>2. \A b \in Blocks : Hit(b)' = Hit(b)
    BY <1>2 DEF Hit
  <2>3. ASSUME NEW b \in Blocks, op.first <= b, b < k
        PROVE  View'[b] = op.data[b]
    <3>1. b \in op.first..op.last
      BY <1>1, <2>3, OpFields, Ranges DEF Blocks
    <3>2. View'[b] = dev'[b]
      BY <2>1, <2>2, <3>1 DEF Base, ViewRight
    <3> QED
      BY <1>1, <2>3, <3>2 DEF Overwritten
  <2>4. ASSUME NEW b \in Blocks, ~(op.first <= b /\ b < k)
        PROVE  View'[b] = View[b]
    <3>1. dev'[b] = dev[b]
      BY <1>1, <2>4 DEF Overwritten
    <3>2. CASE Hit(b) = {}
      BY <2>2, <3>1, <3>2 DEF Base, ViewRight
    <3>3. ASSUME NEW t \in Hit(b) PROVE View'[b] = View[b]
      <4>1. t \in Slots /\ cache[t].block = b /\ cache'[t] = cache[t]
        BY <1>2, <3>3 DEF Hit
      <4> QED
        BY <1>2, <1>4, <4>1 DEF Base, ViewRight
    <3> QED
      BY <3>2, <3>3
  <2>5. View' = [b \in Blocks |-> IF op.first <= b /\ b < k THEN op.data[b] ELSE View[b]]
    BY <2>3, <2>4
  <2> QED
    BY <1>1, <2>5
<1> QED
  BY <1>3, <1>4

-----------------------------------------------------------------------------
\* The handler's invariant

\* How a request begins.
LEMMA Begun ==
    ASSUME Base, Base', BypassInv, NEW o, NEW p \in {"read", "store", "flush", "raw"}, Begin(o, p),
           o.kind # "none", o.ok, o.block = o.first, o.first \in Int,
           p \in {"read", "store"} => ~nocache,
           p = "raw" => nocache /\ o.kind \in {"read", "write"},
           p = "read" => o.kind = "read",
           p = "store" => o.kind = "write"
    PROVE  CallInv' /\ View' = View
<1>1. UNCHANGED <<dev, cache, nocache>> /\ pc' = p /\ op' = o
  BY DEF Begin
<1>2. View' = View
  BY <1>1, SameView DEF Base, TypeOK
<1>3. HandlerInv'
  BY <1>1 DEF HandlerInv, Transferring
<1>4. BypassInv'
  BY <1>1 DEF BypassInv, NoneDirty
<1>5. o.first..(o.block - 1) = {}
  OBVIOUS
<1>6. ReadInv'
  BY <1>1, <1>5 DEF ReadInv
<1> QED
  BY <1>2, <1>3, <1>4, <1>6 DEF CallInv

\* A request establishes the invariant of its handler.
LEMMA CallRequest ==
    ASSUME Base, Base', HandlerInv, BypassInv, Request
    PROVE  CallInv'
<1>1. \A lo \in Blocks : lo \in Int
  BY Ranges
<1>2. \A d, c : c \in {"read", "store"} /\ Entry(d, c) = "raw" => nocache
  BY DEF Entry
<1>3. \A d, c : c \in {"read", "store"} =>
         Entry(d, c) \in {c, "flush", "raw"} /\ (Entry(d, c) = c => ~nocache)
  BY DEF Entry
<1>4. ASSUME NEW lo \in Blocks, NEW hi, NEW odd, Read(lo, hi, odd)
      PROVE  CallInv'
  <2> DEFINE o == [NoOp EXCEPT !.kind = "read", !.first = lo, !.block = lo, !.last = hi]
             p == Entry(odd \/ hi - lo >= DirectSize, "read")
  <2>1. o.kind = "read" /\ o.ok /\ o.block = o.first /\ o.first = lo
    BY DEF NoOp
  <2>2. Begin(o, p) /\ p \in {"read", "flush", "raw"} /\ (p = "raw" => nocache) /\ (p = "read" => ~nocache)
    BY <1>2, <1>3, <1>4 DEF Read
  <2> HIDE DEF o, p
  <2> QED
    BY <1>1, <2>1, <2>2, Begun
<1>5. ASSUME NEW lo \in Blocks, NEW hi, NEW d, NEW odd, Write(lo, hi, d, odd)
      PROVE  CallInv'
  <2> DEFINE o == [NoOp EXCEPT !.kind = "write", !.first = lo, !.block = lo, !.last = hi, !.data = d]
             p == Entry(odd \/ hi - lo >= DirectSize, "store")
  <2>1. o.kind = "write" /\ o.ok /\ o.block = o.first /\ o.first = lo
    BY DEF NoOp
  <2>2. Begin(o, p) /\ p \in {"store", "flush", "raw"} /\ (p = "raw" => nocache) /\ (p = "store" => ~nocache)
    BY <1>2, <1>3, <1>5 DEF Write
  <2> HIDE DEF o, p
  <2> QED
    BY <1>1, <2>1, <2>2, Begun
<1>6. ASSUME NEW b \in Blocks, NEW v, WriteByte(b, v)
      PROVE  CallInv'
  <2> DEFINE o == [NoOp EXCEPT !.kind = "write_byte", !.first = b, !.block = b, !.last = b,
                               !.data = [NoOp.data EXCEPT ![b] = v]]
  <2>1. o.kind = "write_byte" /\ o.ok /\ o.block = o.first /\ o.first = b
    BY DEF NoOp
  <2>2. Begin(o, "flush")
    BY <1>6 DEF WriteByte
  <2> HIDE DEF o
  <2> QED
    BY <1>1, <2>1, <2>2, Begun
<1>7. ASSUME NEW kind \in {"flush", "set_blksize", "cache_off", "close"}, FlushFirst(kind)
      PROVE  CallInv'
  <2> DEFINE o == [NoOp EXCEPT !.kind = kind]
  <2>1. o.kind = kind /\ o.ok /\ o.block = o.first /\ o.first \in Int
    BY DEF NoOp
  <2>2. Begin(o, "flush")
    BY <1>7 DEF FlushFirst
  <2> HIDE DEF o
  <2> QED
    BY <2>1, <2>2, Begun
<1>8. CASE CacheOn
  BY <1>8 DEF CacheOn, CallInv, HandlerInv, BypassInv, ReadInv, NoneDirty, NoOp, Transferring, Invalidating
<1>9. CASE Open
  BY <1>9, Ranges DEF Open, CallInv, HandlerInv, BypassInv, ReadInv, NoneDirty, NoOp, Transferring, Invalidating
<1> QED
  BY <1>4, <1>5, <1>6, <1>7, <1>8, <1>9 DEF Request

\* Each step of a handler keeps the invariant.
LEMMA CallStep ==
    ASSUME Careful, Base, Base', CallInv, Step
    PROVE  CallInv'
<1> /\ cache \in [Slots -> Slot] /\ cache' \in [Slots -> Slot] /\ dev \in [Blocks -> Vals]
    /\ View \in [Blocks -> Vals] /\ op \in Op /\ nocache \in BOOLEAN
  BY DEF Base, TypeOK, ViewRight
<1> USE DEF CallInv
<1>0. op.first \in Int /\ op.block \in Int /\ op.last \in Int /\ op.upto \in Int
  <2>1. \A b \in Blocks : b \in Int
    BY Ranges
  <2> QED
    BY <2>1, OpFields
<1>1. Quiet => View' = View
  BY QuietView
<1>2. CASE ReadHit
  <2>1. PICK s \in Hit(op.block) :
          op' = [op EXCEPT !.data[op.block] = cache[s].buf, !.block = @ + 1]
    BY <1>2 DEF ReadHit
  <2>2. /\ op.block \in Blocks /\ op.block \in Int /\ op.first \in Int
        /\ pc = "read" /\ ~nocache /\ op.kind = "read"
    BY <1>2, OpFields, Ranges DEF ReadHit, HandlerInv, BypassInv
  <2>3. View[op.block] = cache[s].buf
    BY <2>1, <2>2 DEF Hit, Base, ViewRight
  <2>4. /\ op'.kind = op.kind /\ op'.first = op.first /\ op'.last = op.last
        /\ op'.block = op.block + 1
        /\ op'.data = [op.data EXCEPT ![op.block] = View[op.block]]
    BY <2>1, <2>3 DEF Op
  <2>5. \A b \in op.first..op.block : b \in Blocks /\ op'.data[b] = View[b]
    <3>1. \A b \in op.first..op.block : b \in Blocks
      BY <2>2, OpFields, Ranges, SMTT(30) DEF Blocks
    <3>2. \A b \in op.first..(op.block - 1) : op.data[b] = View[b] /\ b # op.block
      BY <2>2 DEF ReadInv
    <3>3. \A b \in op.first..op.block : b = op.block \/ b \in op.first..(op.block - 1)
      BY <2>2
    <3>4. op.data \in [Blocks -> Vals]
      BY OpFields
    <3> QED
      BY <2>4, <3>1, <3>2, <3>3, <3>4
  <2>6. op.first..(op'.block - 1) = op.first..op.block
    BY <2>2, <2>4
  <2>7. UNCHANGED <<dev, cache, nocache, pc>>
    BY <1>2 DEF ReadHit
  <2>8. HandlerInv' /\ BypassInv'
    BY <2>2, <2>4, <2>7 DEF HandlerInv, BypassInv, Transferring, Invalidating
  <2>9. ReadInv'
    BY <1>1, <1>2, <2>2, <2>4, <2>5, <2>6, <2>7 DEF Quiet, ReadInv
  <2> QED
    BY <2>8, <2>9
<1>3. CASE ReadMiss
  <2>1. pc = "read" /\ ~nocache /\ op.kind = "read" /\ UNCHANGED <<dev, cache, nocache>>
    BY <1>3 DEF ReadMiss, HandlerInv, BypassInv
  <2>2. CASE Fail
    <3>1. op'.kind = "read" /\ ~op'.ok /\ pc' = "return"
      BY <2>1, <2>2 DEF Fail, Op
    <3> QED
      BY <2>1, <3>1 DEF HandlerInv, BypassInv, ReadInv, Transferring, Invalidating
  <2>3. ASSUME NEW e \in op.block..op.last,
               \A b \in op.block..e : Hit(b) = {},
               op' = [op EXCEPT !.upto = e,
                                !.data = [b \in Blocks |-> IF b \in op.block..e
                                                           THEN dev[b] ELSE @[b]]],
               pc' = "fill"
        PROVE  CallInv'
    <3>1. /\ op'.kind = "read" /\ op'.first = op.first /\ op'.upto = e /\ op'.block = op.block
          /\ \A b \in Blocks : op'.data[b] = IF b \in op.block..e THEN dev[b] ELSE op.data[b]
      BY <2>1, <2>3 DEF Op
    <3>2. \A b \in op.first..e : b \in Blocks
      BY OpFields, Ranges, SMTT(30) DEF Blocks
    <3>3. \A b \in op.first..e : b \in op.block..e \/ b \in op.first..(op.block - 1)
      BY OpFields, Ranges
    <3>4. \A b \in op.block..e : b \in Blocks => dev[b] = View[b]
      BY <2>3 DEF Base, ViewRight
    <3>5. \A b \in op.first..e : op'.data[b] = View[b]
      BY <2>1, <3>1, <3>2, <3>3, <3>4, <1>3 DEF ReadMiss, ReadInv
    <3> QED
      BY <1>1, <1>3, <2>1, <2>3, <3>1, <3>5
         DEF Quiet, HandlerInv, BypassInv, ReadInv, Transferring, Invalidating
  <2> QED
    BY <1>3, <2>2, <2>3 DEF ReadMiss
<1>4. CASE ReadFill
  <2>1. /\ ~nocache /\ UNCHANGED nocache /\ op.kind = "read" /\ pc = "fill"
    BY <1>4, ReadFillStep DEF ReadFill, HandlerInv
  <2>2. CASE Fail
    <3>1. op'.kind = "read" /\ ~op'.ok /\ pc' = "return"
      BY <2>1, <2>2 DEF Fail, Op
    <3> QED
      BY <2>1, <3>1 DEF HandlerInv, BypassInv, ReadInv, Transferring, Invalidating
  <2>3. CASE /\ op' = [op EXCEPT !.block = @ + 1]
             /\ pc' = IF op.block = op.upto THEN "read" ELSE "fill"
    <3>1. /\ op'.kind = "read" /\ op'.first = op.first /\ op'.upto = op.upto
          /\ op'.data = op.data /\ op'.block = op.block + 1
      BY <2>1, <2>3 DEF Op
    <3>2. op.block = op.upto => op'.block - 1 = op.upto
      BY <1>0, <3>1
    <3> QED
      BY <1>1, <1>4, <2>1, <2>3, <3>1, <3>2
         DEF Quiet, HandlerInv, BypassInv, ReadInv, Transferring, Invalidating
  <2> QED
    BY <1>4, <2>2, <2>3, ReadFillStep
<1>5. CASE WriteHit \/ WriteMiss
  <2>1. op' = [op EXCEPT !.block = @ + 1] /\ pc' = "store" /\ op.kind = "write" /\ UNCHANGED nocache
    BY <1>5, StoreStep
  <2>2. op'.kind = "write" /\ ~nocache'
    BY <1>5, <2>1 DEF Op, BypassInv, WriteHit, WriteMiss
  <2> QED
    BY <2>1, <2>2 DEF HandlerInv, BypassInv, ReadInv, Transferring, Invalidating
<1>6. CASE LoopEnd
  <2>1. /\ UNCHANGED <<dev, cache, nocache, op>> /\ pc \in {"read", "store"} /\ pc' = "return"
        /\ op.block > op.last /\ ~nocache
    BY <1>6 DEF LoopEnd, BypassInv
  <2>2. op.kind = "read" => pc = "read" /\ \A b \in op.first..op.last : b \in op.first..(op.block - 1)
    BY <1>0, <2>1 DEF HandlerInv
  <2> QED
    BY <1>1, <1>6, <2>1, <2>2
       DEF Quiet, HandlerInv, BypassInv, ReadInv, Transferring, Invalidating
<1>7. CASE FlushSlot
  <2>1. PICK s \in Slots :
          \/ op' = [op EXCEPT !.slot = s + 1]
          \/ op' = [op EXCEPT !.slot = s + 1, !.ok = FALSE]
               /\ (IF op.kind = "cache_off" THEN "switch" ELSE "transfer") \in Faults
    BY <1>7, FlushSlotStep
  <2>2. /\ op'.kind = op.kind /\ op'.first = op.first /\ op'.block = op.block
        /\ op.kind = "cache_off" => op'.ok = op.ok
    BY <2>1 DEF Op, Careful
  <2>3. ~nocache
    BY <1>7, FlushSlotStep
  <2>4. UNCHANGED <<nocache, pc>> /\ pc = "flush"
    BY <1>7 DEF FlushSlot
  <2> QED
    BY <2>2, <2>3, <2>4 DEF HandlerInv, BypassInv, ReadInv, Transferring, Invalidating
<1>8. CASE FlushFailed
  <2>1. /\ UNCHANGED <<dev, nocache, op>> /\ pc = "flush" /\ pc' = "return" /\ ~op.ok
        /\ \A t \in Slots : cache'[t].dirty = cache[t].dirty
    BY <1>8, SwitchOff DEF FlushFailed, FlushLoopEnd, ErrorsCleared, Slot
  <2> QED
    BY <2>1 DEF HandlerInv, BypassInv, ReadInv, NoneDirty, Transferring, Invalidating
<1>9. CASE Flushed
  <2>1. NoneDirty
    BY <1>9, FlushedClean
  <2>2. cache' = cache \/ cache' = EmptyCache
    BY <1>9 DEF Flushed
  <2>3. NoneDirty'
    BY <2>1, <2>2, Ranges DEF NoneDirty
  <2>4. /\ UNCHANGED op /\ pc = "flush" /\ op.ok
        /\ pc' = IF op.kind \in {"read", "write", "write_byte"} THEN "raw" ELSE "return"
    BY <1>9 DEF Flushed, FlushLoopEnd
  <2> QED
    BY <2>3, <2>4 DEF HandlerInv, BypassInv, ReadInv, Transferring, Invalidating
<1>10. CASE RawRead
  <2>1. /\ UNCHANGED <<dev, cache, nocache>> /\ pc = "raw" /\ pc' = "return" /\ op.kind = "read"
    BY <1>10 DEF RawRead, Fail
  <2>2. NoneDirty /\ NoneDirty' /\ View = dev
    BY <2>1, CleanView DEF BypassInv, NoneDirty, Base, Coherent
  <2>3. op'.kind = "read" /\ (op'.ok => \A b \in op'.first..op'.last : op'.data[b] = dev[b])
    <3>1. CASE Fail
      BY <2>1, <3>1 DEF Fail, Op
    <3>2. CASE op' = [op EXCEPT !.block = op.last + 1,
                                !.data = [b \in Blocks |-> IF b \in op.first..op.last
                                                           THEN dev[b] ELSE Zero]]
      <4>1. \A b \in op.first..op.last : b \in Blocks
        BY OpFields, Ranges DEF Blocks
      <4> QED
        BY <2>1, <3>2, <4>1 DEF Op
    <3> QED
      BY <1>10, <3>1, <3>2 DEF RawRead
  <2> QED
    BY <1>1, <1>10, <2>1, <2>2, <2>3
       DEF Quiet, HandlerInv, BypassInv, ReadInv, Transferring, Invalidating
<1>11. CASE RawWrite
  <2>1. /\ UNCHANGED <<cache, nocache>> /\ pc = "raw" /\ pc' = "return" /\ Invalidating
    BY <1>11 DEF RawWrite
  <2>2. NoneDirty'
    BY <2>1 DEF BypassInv, NoneDirty
  <2>3. op'.kind = op.kind /\ op'.last = op.last /\ (op'.ok => op'.block = op.last + 1)
    BY <1>11 DEF RawWrite, Op
  <2>4. op'.ok => op'.block > op'.last
    BY <1>0, <2>3
  <2> QED
    BY <2>1, <2>2, <2>3, <2>4
       DEF HandlerInv, BypassInv, ReadInv, Transferring, Invalidating
<1>12. CASE Return
  <2>1. op' = NoOp /\ pc' \in {"idle", "closed"} /\ UNCHANGED nocache
          /\ cache' \in {cache, EmptyCache}
    BY <1>12 DEF Return
  <2>2. nocache' => NoneDirty'
    BY <2>1, Ranges DEF BypassInv, NoneDirty
  <2> QED
    BY <2>1, <2>2 DEF HandlerInv, BypassInv, ReadInv, NoOp, Transferring, Invalidating
<1> QED
  BY <1>2, <1>3, <1>4, <1>5, <1>6, <1>7, <1>8, <1>9, <1>10, <1>11, <1>12 DEF Step

\* The invariant of the handlers holds throughout.
LEMMA CallInvariant ==
    ASSUME Careful
    PROVE  Spec => []CallInv
<1>1. Init => CallInv
  <2> SUFFICES ASSUME Init PROVE CallInv
    OBVIOUS
  <2> QED
    BY Ranges DEF Init, CallInv, HandlerInv, BypassInv, ReadInv, NoneDirty, NoOp, Transferring, Invalidating
<1>2. Base /\ Base' /\ CallInv /\ [Next]_vars => CallInv'
  <2> SUFFICES ASSUME Base, Base', CallInv, [Next]_vars PROVE CallInv'
    OBVIOUS
  <2>1. CASE Request
    BY <2>1, CallRequest DEF CallInv
  <2>2. CASE Step
    BY <2>2, CallStep
  <2>3. CASE Crash
    <3>1. cache' = EmptyCache /\ pc' = "closed" /\ op' = NoOp
      BY <2>3 DEF Crash
    <3> QED
      BY <3>1, Ranges
         DEF CallInv, HandlerInv, BypassInv, ReadInv, NoneDirty, NoOp, Transferring, Invalidating
  <2>4. CASE UNCHANGED vars
    <3>1. UNCHANGED <<dev, cache, nocache, pc, op>>
      BY <2>4 DEF vars
    <3>2. View' = View
      BY <3>1, SameView DEF Base, TypeOK
    <3> QED
      BY <3>1, <3>2 DEF CallInv, HandlerInv, BypassInv, ReadInv, NoneDirty, Transferring, Invalidating
  <2> QED
    BY <2>1, <2>2, <2>3, <2>4 DEF Next
<1> QED
  BY <1>1, <1>2, BaseInvariant, PTL DEF Spec

-----------------------------------------------------------------------------
(* The refinement mapping.  AReq and AReply are the expressions that Abstract *)
(* substitutes for req and reply; one lemma for each action of BlockStore     *)
(* says what shows that a step of XnuIO is one of those.                      *)
AReq == [kind |-> AbstractKind(op.kind),
         at   |-> IF Transferring THEN op.first..op.last ELSE {},
         todo |-> IF Invalidating THEN [b \in op.block..op.last |-> op.data[b]] ELSE <<>>]
AReply == [kind |-> AbstractKind(reply.kind),
           ok   |-> reply.ok,
           data |-> IF reply.kind = "read"
                    THEN [b \in reply.at |-> reply.data[b]] ELSE <<>>]

ANoReq   == [kind |-> "none", at |-> {}, todo |-> <<>>]
ANoReply == [kind |-> "none", ok |-> TRUE, data |-> <<>>]

Simulated == [Abstract!Next]_(Abstract!vars)

\* A step BlockStore does not see.
LEMMA Kept ==
    ASSUME UNCHANGED <<View, dev, AReq, AReply>>
    PROVE  Simulated
BY DEF Simulated, Abstract!vars, AReq, AReply

\* A step that BlockStore sees as a client asking.
LEMMA Submitted ==
    ASSUME NEW kind \in {"read", "write", "sync", "close"}, NEW at \in SUBSET Blocks,
           NEW todo \in [at -> Vals] \cup {<<>>},
           AReq = ANoReq, AReq' = [kind |-> kind, at |-> at, todo |-> todo],
           AReply' = ANoReply, UNCHANGED <<View, dev>>
    PROVE  Simulated
<1>1. Abstract!Submit(kind, at, todo)
  BY DEF Abstract!Submit, Abstract!NoReq, Abstract!NoReply, AReq, AReply, ANoReq, ANoReply
<1> QED
  BY <1>1 DEF Simulated, Abstract!Next, Abstract!Kinds

\* A step that BlockStore sees as part of a write, or as blocks reaching the disk.
LEMMA Progressed ==
    ASSUME NEW done \in SUBSET Blocks, NEW synced \in SUBSET Blocks,
           done \subseteq DOMAIN AReq.todo,
           View' = [b \in Blocks |-> IF b \in done THEN AReq.todo[b] ELSE View[b]],
           dev' = [b \in Blocks |-> IF b \in synced THEN View'[b] ELSE dev[b]],
           AReq' = [AReq EXCEPT !.todo = [b \in DOMAIN AReq.todo \ done |-> AReq.todo[b]]],
           UNCHANGED AReply
    PROVE  Simulated
<1>1. Abstract!Progress(done, synced)
  BY DEF Abstract!Progress, AReq, AReply
<1> QED
  BY <1>1 DEF Simulated, Abstract!Next

\* A step that BlockStore sees as the answer.
LEMMA Replied ==
    ASSUME NEW ok \in BOOLEAN, NEW at \in SUBSET Blocks, NEW data \in [at -> Vals],
           AReq # ANoReq,
           ok => CASE AReq.kind = "read" ->
                        DOMAIN data = AReq.at /\ \A b \in AReq.at : data[b] = View[b]
                   [] AReq.kind = "write" -> DOMAIN AReq.todo = {}
                   [] OTHER -> dev = View,
           AReply' = [kind |-> AReq.kind, ok |-> ok, data |-> data],
           View' = IF AReq.kind = "close" THEN dev ELSE View,
           AReq' = ANoReq, UNCHANGED dev
    PROVE  Simulated
<1>1. Abstract!Answer(ok, data)
  BY DEF Abstract!Answer, Abstract!NoReq, AReq, AReply, ANoReq
<1> QED
  BY <1>1 DEF Simulated, Abstract!Next

\* A step that BlockStore sees as a crash: opening again, and cache=on, look the
\* same, for nothing is pending and the disk has it all.
LEMMA Crashed ==
    ASSUME View' = dev, AReq' = ANoReq, AReply' = ANoReply, UNCHANGED dev
    PROVE  Simulated
<1>1. Abstract!Crash
  BY DEF Abstract!Crash, Abstract!NoReq, Abstract!NoReply, AReq, AReply, ANoReq, ANoReply
<1> QED
  BY <1>1 DEF Simulated, Abstract!Next

\* The requests of xnu_io.c in the terms of BlockStore.
LEMMA AbstractKinds ==
    /\ AbstractKind("none") = "none" /\ AbstractKind("read") = "read" /\ AbstractKind("close") = "close"
    /\ \A k \in {"write", "write_byte"} : AbstractKind(k) = "write"
    /\ \A k \in {"flush", "set_blksize", "cache_off"} : AbstractKind(k) = "sync"
BY DEF AbstractKind

\* No request and no reply.
LEMMA NothingAsked ==
    /\ op = NoOp => AReq = ANoReq
    /\ op' = NoOp => AReq' = ANoReq
    /\ reply' = NoReply => AReply' = ANoReply
<1>1. NoOp.kind = "none" /\ NoReply.kind = "none" /\ NoReply.ok = TRUE
  BY DEF NoOp, NoReply
<1>2. op = NoOp => AReq = ANoReq
  BY <1>1, AbstractKinds DEF AReq, ANoReq, Transferring, Invalidating
<1>3. op' = NoOp => AReq' = ANoReq
  BY <1>1, AbstractKinds DEF AReq, ANoReq, Transferring, Invalidating
<1>4. reply' = NoReply => AReply' = ANoReply
  BY <1>1, AbstractKinds DEF AReply, ANoReply
<1> QED
  BY <1>2, <1>3, <1>4

\* A request begins.
LEMMA BeginSimulated ==
    ASSUME Base, Base', HandlerInv, NEW o, NEW p, Begin(o, p), o.kind # "none",
           o.kind \in {"write", "write_byte"} => o.block = o.first
    PROVE  Simulated
<1>1. /\ op = NoOp /\ op' = o /\ reply' = NoReply /\ UNCHANGED <<dev, cache, nocache>>
  BY DEF Begin, HandlerInv
<1>2. View' = View
  BY <1>1, SameView DEF Base, TypeOK
<1>3. AReq = ANoReq /\ AReply' = ANoReply
  BY <1>1, NothingAsked
<1>4. /\ o.kind \in Kinds /\ o.first \in Blocks /\ o.last \in Blocks
      /\ o.data \in [Blocks -> Vals]
  BY <1>1 DEF Base, TypeOK, Op
<1>5. o.first..o.last \in SUBSET Blocks
  BY <1>4, Ranges DEF Blocks
<1>6. CASE o.kind \in {"write", "write_byte"}
  <2> DEFINE todo == [b \in o.first..o.last |-> o.data[b]]
  <2>1. AReq' = [kind |-> "write", at |-> o.first..o.last, todo |-> todo]
    BY <1>1, <1>6, AbstractKinds DEF AReq, Transferring, Invalidating
  <2>2. todo \in [o.first..o.last -> Vals]
    BY <1>4, <1>5
  <2> HIDE DEF todo
  <2> QED
    BY <1>1, <1>2, <1>3, <1>5, <2>1, <2>2, Submitted
<1>7. CASE o.kind = "read"
  <2>1. AReq' = [kind |-> "read", at |-> o.first..o.last, todo |-> <<>>]
    BY <1>1, <1>7, AbstractKinds DEF AReq, Transferring, Invalidating
  <2> QED
    BY <1>1, <1>2, <1>3, <1>5, <2>1, Submitted
<1>8. CASE o.kind \in {"flush", "set_blksize", "cache_off", "close"}
  <2>1. /\ AReq' = [kind |-> AbstractKind(o.kind), at |-> {}, todo |-> <<>>]
        /\ AbstractKind(o.kind) \in {"sync", "close"}
    BY <1>1, <1>8, AbstractKinds DEF AReq, Transferring, Invalidating
  <2> QED
    BY <1>1, <1>2, <1>3, <2>1, Submitted
<1> QED
  BY <1>4, <1>6, <1>7, <1>8 DEF Kinds

\* Every request is a request to BlockStore.
LEMMA RequestSimulated ==
    ASSUME Base, Base', CallInv, Request
    PROVE  Simulated
<1> USE DEF CallInv
<1>1. ASSUME NEW lo, NEW hi, NEW odd, Read(lo, hi, odd)
      PROVE  Simulated
  <2> DEFINE o == [NoOp EXCEPT !.kind = "read", !.first = lo, !.block = lo, !.last = hi]
  <2>1. o.kind = "read" /\ \E p : Begin(o, p)
    BY <1>1 DEF NoOp, Read
  <2> HIDE DEF o
  <2> QED
    BY <2>1, BeginSimulated
<1>2. ASSUME NEW lo, NEW hi, NEW d, NEW odd, Write(lo, hi, d, odd)
      PROVE  Simulated
  <2> DEFINE o == [NoOp EXCEPT !.kind = "write", !.first = lo, !.block = lo, !.last = hi, !.data = d]
  <2>1. o.kind = "write" /\ o.block = o.first /\ \E p : Begin(o, p)
    BY <1>2 DEF NoOp, Write
  <2> HIDE DEF o
  <2> QED
    BY <2>1, BeginSimulated
<1>3. ASSUME NEW b, NEW v, WriteByte(b, v)
      PROVE  Simulated
  <2> DEFINE o == [NoOp EXCEPT !.kind = "write_byte", !.first = b, !.block = b, !.last = b,
                               !.data = [NoOp.data EXCEPT ![b] = v]]
  <2>1. o.kind = "write_byte" /\ o.block = o.first /\ Begin(o, "flush")
    BY <1>3 DEF NoOp, WriteByte
  <2> HIDE DEF o
  <2> QED
    BY <2>1, BeginSimulated
<1>4. ASSUME NEW kind \in {"flush", "set_blksize", "cache_off", "close"}, FlushFirst(kind)
      PROVE  Simulated
  <2> DEFINE o == [NoOp EXCEPT !.kind = kind]
  <2>1. o.kind = kind /\ Begin(o, "flush")
    BY <1>4 DEF NoOp, FlushFirst
  <2> HIDE DEF o
  <2> QED
    BY <1>4, <2>1, BeginSimulated
<1>5. CASE CacheOn
  <2>1. NoneDirty /\ NoneDirty'
    BY <1>5 DEF CacheOn, BypassInv, NoneDirty
  <2>2. View = dev
    BY <2>1, CleanView DEF Base, Coherent
  <2>3. CleanMatchesDevice' /\ ViewRight' /\ dev' = dev /\ cache' = cache
    BY <1>5 DEF CacheOn, Base, Coherent
  <2>4. View' = dev'
    <3>1. \A b \in Blocks, s \in Slots : cache'[s].block = b /\ ~nocache' => View'[b] = cache'[s].buf
      BY <2>3 DEF ViewRight
    <3>2. \A s \in Slots : cache'[s].block \in Blocks => cache'[s].buf = dev'[cache'[s].block]
      BY <2>1, <2>3, Ranges DEF CleanMatchesDevice, InUse, NoneDirty
    <3>3. \A b \in Blocks : View'[b] = dev'[b]
      BY <1>5, <2>3, <3>1, <3>2 DEF CacheOn, ViewRight, Hit
    <3>4. View' \in [Blocks -> Vals] /\ dev' \in [Blocks -> Vals]
      BY <2>3 DEF ViewRight, Base, TypeOK
    <3> QED
      BY <3>3, <3>4
  <2>5. op' = NoOp /\ reply' = NoReply
    BY <1>5 DEF CacheOn, HandlerInv
  <2> QED
    BY <2>3, <2>4, <2>5, NothingAsked, Crashed
<1>6. CASE Open
  <2>1. View' = dev' /\ dev' = dev
    BY <1>6, BareViewNext DEF Open, Base, TypeOK
  <2>2. op' = NoOp /\ reply' = NoReply
    BY <1>6 DEF Open, HandlerInv
  <2> QED
    BY <2>1, <2>2, NothingAsked, Crashed
<1> QED
  BY <1>1, <1>2, <1>3, <1>4, <1>5, <1>6 DEF Request

\* Between the steps of a handler the request is the same but for what is left
\* of a write.
LEMMA SameRequest ==
    ASSUME op \in Op, op' \in Op, op'.kind = op.kind, op'.first = op.first, op'.last = op.last,
           Invalidating => op'.block = op.block /\ op'.data = op.data
    PROVE  AReq' = AReq
BY DEF AReq, Transferring, Invalidating

\* A handler answers only when it returns.
LEMMA SameReply == UNCHANGED reply => UNCHANGED AReply
BY DEF AReply

\* What a write-back of a step that shows the client nothing is to BlockStore.
LEMMA WriteBackSimulated ==
    ASSUME Base, Base', ~nocache, UNCHANGED <<View, AReq, AReply>>, NEW s \in Slots,
           dev' = dev \/ (cache[s].dirty /\ dev' = SlotWritten(s))
    PROVE  Simulated
<1>1. PICK synced \in SUBSET Blocks :
        dev' = [b \in Blocks |-> IF b \in synced THEN View[b] ELSE dev[b]]
  BY WriteBackView DEF Base
<1>2. View \in [Blocks -> Vals]
  BY DEF Base, ViewRight
<1>3. View' = [b \in Blocks |-> IF b \in {} THEN AReq.todo[b] ELSE View[b]]
  BY <1>2
<1>4. AReq' = [AReq EXCEPT !.todo = [b \in DOMAIN AReq.todo \ {} |-> AReq.todo[b]]]
  <2>1. AReq.todo = [b \in DOMAIN AReq.todo \ {} |-> AReq.todo[b]]
    <3>1. CASE Invalidating
      <4>1. AReq.todo = [b \in op.block..op.last |-> op.data[b]]
        BY <3>1 DEF AReq
      <4> QED
        BY <4>1
    <3>2. CASE ~Invalidating
      <4>1. AReq.todo = <<>>
        BY <3>2 DEF AReq
      <4> QED
        BY <4>1
    <3> QED
      BY <3>1, <3>2
  <2>2. AReq = [AReq EXCEPT !.todo = AReq.todo]
    BY DEF AReq
  <2> QED
    BY <2>1, <2>2
<1>5. dev' = [b \in Blocks |-> IF b \in synced THEN View'[b] ELSE dev[b]]
  BY <1>1
<1>6. {} \in SUBSET Blocks /\ {} \subseteq DOMAIN AReq.todo /\ UNCHANGED AReply
  OBVIOUS
<1> QED
  BY <1>3, <1>4, <1>5, <1>6, Progressed

\* A block of a write, or the blocks a direct write has reached, are done.
LEMMA WriteSimulated ==
    ASSUME Base, Base', op.kind \in {"write", "write_byte"}, UNCHANGED reply,
           NEW k \in Int, k <= op.last + 1, op.block <= k \/ k = op.last + 1,
           op'.kind = op.kind, op'.first = op.first, op'.last = op.last,
           op'.data = op.data, op'.block = k,
           View' = [b \in Blocks |-> IF op.block <= b /\ b < k THEN op.data[b] ELSE View[b]],
           NEW synced \in SUBSET Blocks,
           dev' = [b \in Blocks |-> IF b \in synced THEN View'[b] ELSE dev[b]]
    PROVE  Simulated
<1> DEFINE todo == [b \in op.block..op.last |-> op.data[b]]
           done == op.block..(k - 1)
<1>1. op.block \in Int /\ op.last \in Int /\ \A b \in Blocks : b \in Int
  <2>1. \A b \in Blocks : b \in Int
    BY Ranges
  <2> QED
    BY <2>1, OpFields DEF Base, TypeOK
<1>2. AReq = [kind |-> "write", at |-> op.first..op.last, todo |-> todo]
  BY AbstractKinds DEF AReq, Transferring, Invalidating
<1>3. AReq' = [kind |-> "write", at |-> op.first..op.last,
               todo |-> [b \in k..op.last |-> op.data[b]]]
  BY AbstractKinds DEF AReq, Transferring, Invalidating
<1>4. done \subseteq op.block..op.last /\ (op.block..op.last) \ done = k..op.last
  BY <1>1
<1>5. done \in SUBSET Blocks
  <2>1. op.block..op.last \subseteq Blocks
    BY OpFields DEF Base, TypeOK
  <2> QED
    BY <1>4, <2>1
<1>6. \A b \in Blocks : (b \in done <=> op.block <= b /\ b < k)
  BY <1>1
<1>7. AReq.todo = todo /\ DOMAIN AReq.todo = op.block..op.last
  BY <1>2
<1>8. \A b \in done : AReq.todo[b] = op.data[b]
  BY <1>4, <1>7
<1>9. View' = [b \in Blocks |-> IF b \in done THEN AReq.todo[b] ELSE View[b]]
  BY <1>6, <1>8
<1>10. AReq' = [AReq EXCEPT !.todo = [b \in DOMAIN AReq.todo \ done |-> AReq.todo[b]]]
  <2>1. [b \in k..op.last |-> op.data[b]] = [b \in (op.block..op.last) \ done |-> todo[b]]
    BY <1>4
  <2>2. \A f : [AReq EXCEPT !.todo = f] = [kind |-> "write", at |-> op.first..op.last, todo |-> f]
    BY <1>2
  <2> HIDE DEF todo, done
  <2>3. [b \in DOMAIN AReq.todo \ done |-> AReq.todo[b]] = [b \in (op.block..op.last) \ done |-> todo[b]]
    BY <1>7
  <2> QED
    BY <1>3, <2>1, <2>2, <2>3
<1> HIDE DEF done
<1> QED
  BY <1>4, <1>5, <1>7, <1>9, <1>10, SameReply, Progressed

\* The handler returns.
LEMMA ReturnSimulated ==
    ASSUME Careful, Base, Base', CallInv, Return
    PROVE  Simulated
<1> DEFINE at == IF op.kind = "read" THEN op.first..op.last ELSE {}
           data == IF op.kind = "read" THEN [b \in op.first..op.last |-> reply'.data[b]] ELSE <<>>
<1> USE DEF CallInv
<1>1. /\ op \in Op /\ op.kind \in Kinds /\ op.kind # "none" /\ op.ok \in BOOLEAN
      /\ op.data \in [Blocks -> Vals] /\ op.first..op.last \subseteq Blocks
  <2>1. op \in Op /\ op.kind # "none"
    BY DEF Return, HandlerInv, Base, TypeOK
  <2>2. op.first..op.last \subseteq Blocks
    BY <2>1, OpFields, Ranges, SMTT(30) DEF Blocks
  <2> QED
    BY <2>1, <2>2 DEF Op
<1>2. /\ reply'.kind = op.kind /\ reply'.ok = op.ok /\ reply'.at = op.first..op.last
      /\ reply'.data = IF op.kind = "read" /\ op.ok THEN op.data ELSE NoReply.data
  BY DEF Return
<1>3. reply'.data \in [Blocks -> Vals]
  BY <1>1, <1>2, ZeroAssumption DEF NoReply
<1>4. at \in SUBSET Blocks /\ data \in [at -> Vals]
  BY <1>1, <1>3
<1>5. AReq.kind = AbstractKind(op.kind) /\ AReq # ANoReq
  BY <1>1, AbstractKinds DEF AReq, ANoReq, Kinds
<1>6. AReply' = [kind |-> AReq.kind, ok |-> op.ok, data |-> data]
  BY <1>2, <1>5 DEF AReply
<1>7. View' = IF AReq.kind = "close" THEN dev ELSE View
  <2>1. CASE op.kind = "close"
    BY <1>5, <2>1, BareViewNext, AbstractKinds DEF Return, Base, TypeOK
  <2>2. CASE op.kind # "close"
    <3>1. AReq.kind # "close"
      BY <1>1, <1>5, <2>2, AbstractKinds DEF Kinds
    <3> QED
      BY <2>2, <3>1, QuietView DEF Quiet
  <2> QED
    BY <2>1, <2>2
<1>8. ASSUME op.ok
      PROVE  CASE AReq.kind = "read" ->
                    DOMAIN data = AReq.at /\ \A b \in AReq.at : data[b] = View[b]
               [] AReq.kind = "write" -> DOMAIN AReq.todo = {}
               [] OTHER -> dev = View
  <2>1. CASE op.kind = "read"
    <3>1. AReq.kind = "read" /\ AReq.at = op.first..op.last
      BY <2>1, AbstractKinds DEF AReq, Transferring
    <3>2. \A b \in op.first..op.last : op.data[b] = View[b]
      BY <1>8, <2>1 DEF Return, ReadInv
    <3> QED
      BY <1>2, <1>8, <2>1, <3>1, <3>2
  <2>2. CASE op.kind \in {"write", "write_byte"}
    <3>1. AReq.kind = "write" /\ DOMAIN AReq.todo = op.block..op.last
      BY <2>2, AbstractKinds DEF AReq, Invalidating
    <3>2. op.block > op.last
      BY <1>8, <2>2 DEF Return, HandlerInv, Invalidating
    <3>3. op.block..op.last = {}
      <4>1. \A b \in Blocks : b \in Int
        BY Ranges
      <4>2. op.block \in Int /\ op.last \in Int
        BY <1>1, <4>1, OpFields
      <4> QED
        BY <3>2, <4>2
    <3> QED
      BY <3>1, <3>3
  <2>3. CASE op.kind \in {"flush", "set_blksize", "cache_off", "close"}
    <3>1. AReq.kind \in {"sync", "close"}
      BY <1>5, <2>3, AbstractKinds
    <3>2. NoneDirty
      BY <1>8, <2>3 DEF Return, BypassInv, Transferring
    <3>3. dev = View
      BY <3>2, CleanView DEF Base, Coherent
    <3> QED
      BY <3>1, <3>3
  <2> QED
    BY <1>1, <2>1, <2>2, <2>3 DEF Kinds
<1>9. op' = NoOp /\ UNCHANGED dev
  BY DEF Return
<1> HIDE DEF at, data
<1> QED
  BY <1>1, <1>4, <1>5, <1>6, <1>7, <1>8, <1>9, NothingAsked, Replied

\* Every step of a handler is a step of BlockStore, or none.
LEMMA StepSimulated ==
    ASSUME Careful, Base, Base', CallInv, Step
    PROVE  Simulated
<1> USE DEF CallInv
<1> op \in Op /\ op' \in Op /\ dev \in [Blocks -> Vals] /\ View \in [Blocks -> Vals]
  BY DEF Base, TypeOK, ViewRight
<1>1. Quiet => View' = View
  BY QuietView
<1>2. CASE ReadHit \/ ReadMiss \/ LoopEnd \/ FlushFailed \/ Flushed \/ RawRead
  <2>1. View' = View /\ UNCHANGED <<dev, reply>>
    BY <1>1, <1>2 DEF Quiet, ReadHit, ReadMiss, LoopEnd, FlushFailed, Flushed, RawRead
  <2>2. AReq' = AReq
    <3>1. CASE UNCHANGED op
      BY <3>1, SameRequest
    <3>2. CASE Fail
      BY <3>2, SameRequest DEF Fail, Op
    <3>3. CASE ReadHit
      <4>1. ~Invalidating
        BY <3>3 DEF ReadHit, HandlerInv, Invalidating
      <4>2. op'.kind = op.kind /\ op'.first = op.first /\ op'.last = op.last
        BY <3>3 DEF ReadHit, Op
      <4> QED
        BY <4>1, <4>2, SameRequest
    <3>4. CASE ReadMiss
      <4>1. ~Invalidating
        BY <3>4 DEF ReadMiss, HandlerInv, Invalidating
      <4>2. op'.kind = op.kind /\ op'.first = op.first /\ op'.last = op.last
        BY <3>4 DEF ReadMiss, Fail, Op
      <4> QED
        BY <4>1, <4>2, SameRequest
    <3>5. CASE RawRead
      <4>1. ~Invalidating
        BY <3>5 DEF RawRead, Invalidating
      <4>2. op'.kind = op.kind /\ op'.first = op.first /\ op'.last = op.last
        BY <3>5 DEF RawRead, Fail, Op
      <4> QED
        BY <4>1, <4>2, SameRequest
    <3> QED
      BY <1>2, <3>1, <3>3, <3>4, <3>5 DEF LoopEnd, FlushFailed, Flushed
  <2> QED
    BY <2>1, <2>2, SameReply, Kept
<1>3. CASE ReadFill
  <2>1. PICK s \in Slots :
          \/ /\ ReuseOk(s, op.block, op.data[op.block], FALSE)
             /\ op' = [op EXCEPT !.block = @ + 1]
          \/ ReuseFail(s) /\ Fail
    BY <1>3, ReadFillStep
  <2>2. dev' = dev \/ (cache[s].dirty /\ dev' = SlotWritten(s))
    BY <2>1 DEF ReuseOk, ReuseFail
  <2>3. ~Invalidating /\ op'.kind = op.kind /\ op'.first = op.first /\ op'.last = op.last
    BY <1>3, <2>1 DEF ReadFill, HandlerInv, Invalidating, Fail, Op
  <2>4. View' = View /\ AReq' = AReq /\ AReply' = AReply /\ ~nocache
    BY <1>1, <1>3, <2>3, SameRequest, SameReply, ReadFillStep DEF Quiet, ReadFill
  <2> QED
    BY <2>2, <2>4, WriteBackSimulated
<1>4. CASE FlushSlot
  <2>1. PICK s \in Slots :
          /\ ~nocache /\ cache[s].dirty
          /\ dev' = dev \/ dev' = SlotWritten(s)
          /\ \/ op' = [op EXCEPT !.slot = s + 1]
             \/ op' = [op EXCEPT !.slot = s + 1, !.ok = FALSE]
    BY <1>4, FlushSlotStep
  <2>2. /\ op'.kind = op.kind /\ op'.first = op.first /\ op'.last = op.last
        /\ op'.block = op.block /\ op'.data = op.data
    BY <2>1 DEF Op
  <2>3. View' = View /\ AReq' = AReq /\ AReply' = AReply
    BY <1>1, <1>4, <2>2, SameRequest, SameReply DEF Quiet, FlushSlot
  <2> QED
    BY <2>1, <2>3, WriteBackSimulated
<1>5. CASE WriteHit \/ WriteMiss
  <2> DEFINE k == op.block + 1
  <2>1. /\ op.block \in Blocks /\ op.block <= op.last /\ op.kind = "write"
        /\ op' = [op EXCEPT !.block = @ + 1] /\ UNCHANGED reply
        /\ View' = [View EXCEPT ![op.block] = op.data[op.block]]
    BY <1>5, StoreStep
  <2>2. PICK synced \in SUBSET Blocks :
          /\ dev' = [b \in Blocks |-> IF b \in synced THEN View[b] ELSE dev[b]]
          /\ op.block \notin synced
    BY <1>5, StoreStep
  <2>3. \A b \in Blocks : b \in Int
    BY Ranges
  <2>4. op.block \in Int /\ op.last \in Int
    BY <2>3, OpFields
  <2>5. k \in Int /\ op.block <= k /\ k <= op.last + 1 /\ \A b \in Blocks : (op.block <= b /\ b < k <=> b = op.block)
    BY <2>1, <2>3, <2>4
  <2>6. View' = [b \in Blocks |-> IF op.block <= b /\ b < k THEN op.data[b] ELSE View[b]]
    BY <2>1, <2>5
  <2>7. dev' = [b \in Blocks |-> IF b \in synced THEN View'[b] ELSE dev[b]]
    BY <2>1, <2>2
  <2>8. /\ op'.kind = op.kind /\ op'.first = op.first /\ op'.last = op.last
        /\ op'.data = op.data /\ op'.block = k
    BY <2>1 DEF Op
  <2> HIDE DEF k
  <2> QED
    BY <2>1, <2>5, <2>6, <2>7, <2>8, WriteSimulated
<1>6. CASE RawWrite
  <2>1. op.block = op.first /\ op.kind \in {"write", "write_byte"} /\ UNCHANGED reply
    BY <1>6 DEF RawWrite, HandlerInv, Invalidating
  <2>2. PICK k \in 0..NBlocks :
          /\ k <= op.last + 1
          /\ dev' = Overwritten(op.first, k, op.data)
          /\ View' = [b \in Blocks |-> IF op.first <= b /\ b < k THEN op.data[b] ELSE View[b]]
          /\ op' \in {[op EXCEPT !.block = k], [op EXCEPT !.block = k, !.ok = FALSE]}
    BY <1>6, RawWriteView
  <2>3. /\ op'.kind = op.kind /\ op'.first = op.first /\ op'.last = op.last
        /\ op'.data = op.data /\ op'.block = k
    BY <2>2 DEF Op
  <2> DEFINE synced == {b \in Blocks : op.first <= b /\ b < k}
  <2>4. dev' = [b \in Blocks |-> IF b \in synced THEN View'[b] ELSE dev[b]]
    BY <2>2 DEF Overwritten
  <2>5. k \in Int /\ (op.block <= k \/ k = op.last + 1)
    <3>1. op'.block = op.last + 1 \/ op'.block \in op.first..(op.last + 1)
      BY <1>6 DEF RawWrite, Op
    <3> QED
      BY <2>1, <2>2, <2>3, <3>1
  <2>6. synced \in SUBSET Blocks
    OBVIOUS
  <2> HIDE DEF synced
  <2> QED
    BY <2>1, <2>2, <2>3, <2>4, <2>5, <2>6, WriteSimulated
<1>7. CASE Return
  BY <1>7, ReturnSimulated
<1> QED
  BY <1>2, <1>3, <1>4, <1>5, <1>6, <1>7 DEF Step

\* ImplementsBlockStore, for every number of blocks and of slots: the channel is
\* the array of blocks that struct_io_manager (ext2_io.h) promises, as long as
\* the clients write directly only where the cache holds no clean copy and the
\* failures of the write-backs that xnu_io.c loses (that of a victim of a cached
\* write, and the flush of cache=off) do not come.
THEOREM Refinement ==
    ASSUME Careful
    PROVE  Spec => ImplementsBlockStore
<1>1. Init /\ Base => Abstract!Init
  <2> SUFFICES ASSUME Init, Base PROVE Abstract!Init
    OBVIOUS
  <2>1. View = dev /\ View \in [Blocks -> Vals]
    BY BareView DEF Init, Base, TypeOK, ViewRight
  <2>2. AReq = ANoReq
    BY NothingAsked DEF Init
  <2>3. AReply = ANoReply
    BY AbstractKinds DEF Init, AReply, ANoReply, NoReply
  <2> QED
    BY <2>1, <2>2, <2>3
       DEF Abstract!Init, Abstract!NoReq, Abstract!NoReply, AReq, AReply, ANoReq, ANoReply
<1>2. Base /\ Base' /\ CallInv /\ [Next]_vars => Simulated
  <2> SUFFICES ASSUME Base, Base', CallInv, [Next]_vars PROVE Simulated
    OBVIOUS
  <2>1. CASE Request
    BY <2>1, RequestSimulated
  <2>2. CASE Step
    BY <2>2, StepSimulated
  <2>3. CASE Crash
    <3>1. View' = dev' /\ dev' = dev
      BY <2>3, BareViewNext DEF Crash, Base, TypeOK
    <3>2. op' = NoOp /\ reply' = NoReply
      BY <2>3 DEF Crash
    <3> QED
      BY <3>1, <3>2, NothingAsked, Crashed
  <2>4. CASE UNCHANGED vars
    <3>1. UNCHANGED <<dev, cache, nocache, op, reply>>
      BY <2>4 DEF vars
    <3>2. View' = View
      BY <3>1, SameView DEF Base, TypeOK
    <3>3. AReq' = AReq
      BY <3>1, SameRequest DEF Base, TypeOK
    <3> QED
      BY <3>1, <3>2, <3>3, SameReply, Kept
  <2> QED
    BY <2>1, <2>2, <2>3, <2>4 DEF Next
<1> QED
  BY <1>1, <1>2, BaseInvariant, CallInvariant, PTL DEF Spec, Simulated, ImplementsBlockStore, Abstract!Spec
==============================================================================
