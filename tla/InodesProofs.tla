------------------------------ MODULE InodesProofs ------------------------------
(* Proofs about the inode cache and the scan of Inodes, for any number of      *)
(* inodes, blocks, groups and slots.                                           *)
EXTENDS Inodes, SequenceTheorems, FiniteSetTheorems, WellFoundedInduction, TLAPS

-----------------------------------------------------------------------------
\* The invariant.  m is what clients may find, c a cache, d the inode tables.

\* Reads do not fail, and nobody reads an inode with a wrong checksum: the cache
\* is not right after either (inode.c:829-869, 838-843).
Careful == "read" \notin Faults /\ "damaged" \notin Uses

Shape(c) == /\ c = [slots |-> c.slots, last |-> c.last, blk |-> c.blk, buf |-> c.buf]
            /\ c.last \in 0..CacheSize
            /\ c.slots = [s \in 1..CacheSize |->
                             [ino |-> c.slots[s].ino, inode |-> c.slots[s].inode]]
            /\ c.buf = [k \in 1..InodesPerBlock |-> c.buf[k]]

\* A slot has an inode as its client may find it.
SlotsHold(c, m) == \A s \in 1..CacheSize :
    c.slots[s].ino # 0 => /\ c.slots[s].ino \in Clients
                          /\ c.slots[s].inode \in m[c.slots[s].ino]

\* So does the buffer, for each inode of its block, and the table.
BufferHolds(c, m) == \A j \in Inos : BlockOf(j) = c.blk => c.buf[Offset(j)] \in m[j]
TableHolds(d, m)  == \A j \in Inos : d[j] \in m[j]

MayInv == /\ may = [i \in Inos |-> may[i]]
          /\ \A i \in Clients : may[i] # {} /\ \A n \in may[i] : n.sum

CacheInv == Shape(cache) /\ SlotsHold(cache, may) /\ BufferHolds(cache, may)

IInv == MayInv /\ CacheInv /\ TableHolds(dev, may) /\ ReadsRight

-----------------------------------------------------------------------------
\* Where an inode is

LEMMA Sizes ==
    /\ InodesPerBlock \in Nat \ {0} /\ CacheSize \in Nat \ {0}
    /\ Inos \subseteq Nat \ {0} /\ Clients \subseteq Inos /\ Clients \cap Damaged = {}
  BY InodesAssumption DEF Inos

LEMMA Address ==
    ASSUME NEW i \in Inos
    PROVE  /\ BlockOf(i) \in Nat \ {0} /\ Offset(i) \in 1..InodesPerBlock
           /\ (BlockOf(i) - 1) * InodesPerBlock + Offset(i) = i
  <1>1. PICK x \in Nat : x = i - 1 BY Sizes
  <1>2. PICK r \in Nat \ {0} : r = InodesPerBlock BY Sizes
  <1>3. /\ x \div r \in Nat /\ x % r \in 0..(r - 1)
        /\ x = r * (x \div r) + (x % r)
    OBVIOUS
  <1>4. PICK q \in Nat, m \in 0..(r - 1) : x \div r = q /\ x % r = m BY <1>3
  <1>5. x = r * q + m BY <1>3, <1>4
  <1>6. r * q = q * r /\ q * r \in Nat OBVIOUS
  <1>7. BlockOf(i) = q + 1 /\ Offset(i) = m + 1 BY <1>1, <1>2, <1>4 DEF BlockOf, Offset
  <1>8. (q + 1) - 1 = q /\ q * r + (m + 1) = i
    <2>1. i \in Nat \ {0} BY Sizes
    <2> QED BY <1>1, <1>5, <1>6, <2>1
  <1> QED BY <1>2, <1>7, <1>8

LEMMA OneAddress ==
    ASSUME NEW i \in Inos, NEW j \in Inos, BlockOf(i) = BlockOf(j), Offset(i) = Offset(j)
    PROVE  i = j
  BY Address

-----------------------------------------------------------------------------
\* The cache

\* read_block of the inode table
LEMMA LoadsGood ==
    ASSUME Careful, NEW c, NEW m, Shape(c), BufferHolds(c, m), TableHolds(dev, m),
           NEW i \in Inos, NEW l \in Loads(c, BlockOf(i))
    PROVE  /\ l.ret = "ok" /\ Shape(l.cache) /\ l.cache.slots = c.slots
           /\ BufferHolds(l.cache, m) /\ l.cache.blk = BlockOf(i)
  <1>1. CASE c.blk = BlockOf(i)
    <2>1. l = [ret |-> "ok", cache |-> c] BY <1>1 DEF Loads
    <2> QED BY <1>1, <2>1
  <1>2. CASE c.blk # BlockOf(i)
    <2>a. PICK b : b = BlockOf(i) OBVIOUS
    <2>1. l = [ret |-> "ok", cache |-> WithBlock(c, b)] BY <1>2, <2>a DEF Loads, Careful
    <2>2. PICK d : d = l.cache OBVIOUS
    <2>3. d = [slots |-> c.slots, last |-> c.last, blk |-> b, buf |-> Content(b)]
      BY <2>1, <2>2 DEF WithBlock
    <2>4. d.slots = c.slots /\ d.last = c.last /\ d.blk = b /\ d.buf = Content(b) BY <2>3
    <2>5. d.buf = [k \in 1..InodesPerBlock |-> d.buf[k]] BY <2>4 DEF Content
    <2>6. Shape(d) BY <2>3, <2>4, <2>5 DEF Shape
    <2>7. ASSUME NEW j \in Inos, BlockOf(j) = b PROVE d.buf[Offset(j)] \in m[j]
      <3>1. d.buf[Offset(j)] = dev[(b - 1) * InodesPerBlock + Offset(j)]
        BY <2>4, Address DEF Content
      <3>2. d.buf[Offset(j)] = dev[j] BY <2>7, <3>1, Address
      <3> QED BY <3>2 DEF TableHolds
    <2>8. BufferHolds(d, m) BY <2>4, <2>7 DEF BufferHolds
    <2> QED BY <2>1, <2>2, <2>4, <2>6, <2>8, <2>a
  <1> QED BY <1>1, <1>2

LEMMA CachedGood ==
    ASSUME NEW c, NEW m, Shape(c), SlotsHold(c, m), BufferHolds(c, m),
           NEW i \in Clients, c.blk = BlockOf(i), \A n \in m[i] : n.sum
    PROVE  Shape(Cached(c, i)) /\ SlotsHold(Cached(c, i), m) /\ BufferHolds(Cached(c, i), m)
  <1>1. i \in Inos /\ i # 0 BY Sizes
  <1>2. PICK n : n = c.buf[Offset(i)] OBVIOUS
  <1>3. n \in m[i] /\ n.sum BY <1>1, <1>2 DEF BufferHolds
  <1>4. PICK s \in 1..CacheSize : s = NextSlot(c)
    <2>1. c.last \in Nat /\ CacheSize \in Nat \ {0} BY Sizes DEF Shape
    <2>2. c.last % CacheSize \in 0..(CacheSize - 1) BY <2>1
    <2> QED BY <2>1, <2>2 DEF NextSlot
  <1>5. PICK d : d = Cached(c, i) OBVIOUS
  <1>6. d = [slots |-> [c.slots EXCEPT ![s] = [ino |-> i, inode |-> n]],
             last |-> s, blk |-> c.blk, buf |-> c.buf]
    BY <1>2, <1>3, <1>4, <1>5 DEF Cached
  <1>7. /\ d.slots = [c.slots EXCEPT ![s] = [ino |-> i, inode |-> n]]
        /\ d.last = s /\ d.blk = c.blk /\ d.buf = c.buf
    BY <1>6
  <1>8. c.slots = [t \in 1..CacheSize |-> [ino |-> c.slots[t].ino, inode |-> c.slots[t].inode]]
    BY DEF Shape
  <1>9. DOMAIN c.slots = 1..CacheSize BY <1>8
  <1>10. \A t \in 1..CacheSize :
           d.slots[t] = IF t = s THEN [ino |-> i, inode |-> n] ELSE c.slots[t]
    BY <1>7, <1>9, ZenonT(30)
  <1>11. d.slots[s].ino = i /\ d.slots[s].inode = n BY <1>10
  <1>12. d.slots = [t \in 1..CacheSize |-> [ino |-> d.slots[t].ino, inode |-> d.slots[t].inode]]
    <2>1. d.slots = [t \in 1..CacheSize |-> d.slots[t]] BY <1>7, <1>9
    <2>2. \A t \in 1..CacheSize : d.slots[t] = [ino |-> d.slots[t].ino, inode |-> d.slots[t].inode]
      <3> TAKE t \in 1..CacheSize
      <3>1. c.slots[t] = [ino |-> c.slots[t].ino, inode |-> c.slots[t].inode] BY <1>8
      <3> QED BY <1>10, <1>11, <3>1
    <2> QED BY <2>1, <2>2
  <1>13. Shape(d)
    <2>1. s \in 0..CacheSize BY Sizes
    <2> QED BY <1>6, <1>7, <1>12, <2>1 DEF Shape
  <1>14. SlotsHold(d, m) BY <1>3, <1>10, <1>11 DEF SlotsHold
  <1>15. BufferHolds(d, m) BY <1>7 DEF BufferHolds
  <1> QED BY <1>5, <1>13, <1>14, <1>15

\* ext2fs_read_inode2
LEMMA ReadsGood ==
    ASSUME Careful, NEW c, NEW m, Shape(c), SlotsHold(c, m), BufferHolds(c, m), TableHolds(dev, m),
           NEW i \in Clients, \A n \in m[i] : n.sum,
           NEW nocsum \in BOOLEAN, NEW o \in Reads(c, i, nocsum)
    PROVE  /\ Shape(o.cache) /\ SlotsHold(o.cache, m) /\ BufferHolds(o.cache, m)
           /\ o.ret = "ok" => o.inode \in m[i]
  <1>1. i \in Inos /\ i # 0 BY Sizes
  <1>2. CASE Slot(c, i) # {}
    <2>1. PICK s \in Slot(c, i) : s = CHOOSE t \in Slot(c, i) : TRUE BY <1>2
    <2>2. o = [ret |-> "ok", cache |-> c, inode |-> c.slots[s].inode] BY <1>2, <2>1 DEF Reads
    <2>3. c.slots[s].inode \in m[i] BY <1>1, <2>1 DEF Slot, SlotsHold
    <2> QED BY <2>2, <2>3
  <1>3. CASE Slot(c, i) = {} /\ GroupOf(i) \in layout.missing
    <2>1. o = [ret |-> "missing", cache |-> c, inode |-> Zero] BY <1>3 DEF Reads
    <2> QED BY <2>1
  <1>4. CASE Slot(c, i) = {} /\ GroupOf(i) \notin layout.missing
    <2>1. PICK l \in Loads(c, BlockOf(i)) :
            o = IF l.ret # "ok" THEN [ret |-> l.ret, cache |-> l.cache, inode |-> Zero]
                ELSE [ret   |-> IF l.cache.buf[Offset(i)].sum \/ nocsum THEN "ok" ELSE "csum",
                      cache |-> Cached(l.cache, i), inode |-> l.cache.buf[Offset(i)]]
      BY <1>4 DEF Reads
    <2>2. /\ l.ret = "ok" /\ Shape(l.cache) /\ l.cache.slots = c.slots
          /\ BufferHolds(l.cache, m) /\ l.cache.blk = BlockOf(i)
      BY <1>1, LoadsGood
    <2>3. SlotsHold(l.cache, m) BY <2>2 DEF SlotsHold
    <2>4. o.cache = Cached(l.cache, i) /\ o.inode = l.cache.buf[Offset(i)] BY <2>1, <2>2
    <2>5. Shape(o.cache) /\ SlotsHold(o.cache, m) /\ BufferHolds(o.cache, m)
      BY <2>2, <2>3, <2>4, CachedGood
    <2>6. o.inode \in m[i] BY <1>1, <2>2, <2>4 DEF BufferHolds
    <2> QED BY <2>5, <2>6
  <1> QED BY <1>2, <1>3, <1>4

\* The change of an inode: what clients find turns from m to p.
Changes(m, p, i, new) == /\ new \subseteq p[i]
                         /\ \A j \in Inos : j # i => p[j] = m[j]

\* The first step of ext2fs_write_inode2: the cached inode
LEMMA UpdatedGood ==
    ASSUME NEW c, NEW m, NEW p, Shape(c), SlotsHold(c, m), BufferHolds(c, m),
           NEW i \in Clients, NEW v, NEW full \in BOOLEAN,
           NEW new, \A n \in m[i] : Overlaid(n, v, full) \in new, Changes(m, p, i, new)
    PROVE  Shape(Updated(c, i, v, full)) /\ SlotsHold(Updated(c, i, v, full), p)
           /\ BufferHolds(Updated(c, i, v, full), m) /\ Updated(c, i, v, full).blk = c.blk
  <1>1. i \in Inos /\ i # 0 BY Sizes
  <1>2. PICK d : d = Updated(c, i, v, full) OBVIOUS
  <1>3. PICK w : w = [s \in 1..CacheSize |->
            IF s \in Slot(c, i) THEN [ino |-> i, inode |-> Overlaid(c.slots[s].inode, v, full)]
            ELSE c.slots[s]]
    OBVIOUS
  <1>4. d = [c EXCEPT !.slots = w] BY <1>2, <1>3 DEF Updated
  <1>5. c = [slots |-> c.slots, last |-> c.last, blk |-> c.blk, buf |-> c.buf] BY DEF Shape
  <1>6. d = [slots |-> w, last |-> c.last, blk |-> c.blk, buf |-> c.buf] BY <1>4, <1>5
  <1>7. d.slots = w /\ d.last = c.last /\ d.blk = c.blk /\ d.buf = c.buf BY <1>6
  <1>8. \A s \in 1..CacheSize :
          c.slots[s] = [ino |-> c.slots[s].ino, inode |-> c.slots[s].inode]
    <2>1. c.slots = [s \in 1..CacheSize |-> [ino |-> c.slots[s].ino, inode |-> c.slots[s].inode]]
      BY DEF Shape
    <2> QED BY <2>1
  <1>9. w = [s \in 1..CacheSize |-> [ino |-> w[s].ino, inode |-> w[s].inode]]
    <2>1. \A s \in 1..CacheSize : w[s] = [ino |-> w[s].ino, inode |-> w[s].inode]
      BY <1>3, <1>8
    <2>2. w = [s \in 1..CacheSize |-> w[s]] BY <1>3
    <2> QED BY <2>1, <2>2
  <1>10. Shape(d) BY <1>6, <1>7, <1>9 DEF Shape
  <1>11. ASSUME NEW s \in 1..CacheSize, w[s].ino # 0
         PROVE  w[s].ino \in Clients /\ w[s].inode \in p[w[s].ino]
    <2>1. CASE s \in Slot(c, i)
      <3>1. c.slots[s].inode \in m[i] BY <1>1, <2>1 DEF Slot, SlotsHold
      <3>2. w[s].ino = i /\ w[s].inode = Overlaid(c.slots[s].inode, v, full) BY <1>3, <2>1
      <3>3. Overlaid(c.slots[s].inode, v, full) \in p[i] BY <3>1 DEF Changes
      <3> QED BY <3>2, <3>3
    <2>2. CASE s \notin Slot(c, i)
      <3>1. w[s] = c.slots[s] /\ c.slots[s].ino # i BY <1>3, <2>2 DEF Slot
      <3>2. c.slots[s].ino \in Clients /\ c.slots[s].inode \in m[c.slots[s].ino]
        BY <1>11, <3>1 DEF SlotsHold
      <3>3. p[c.slots[s].ino] = m[c.slots[s].ino] BY <3>1, <3>2, Sizes DEF Changes
      <3> QED BY <3>1, <3>2, <3>3
    <2> QED BY <2>1, <2>2
  <1>12. SlotsHold(d, p) BY <1>7, <1>11 DEF SlotsHold
  <1>13. BufferHolds(d, m) BY <1>7 DEF BufferHolds
  <1> QED BY <1>2, <1>7, <1>10, <1>12, <1>13

\* What is left of ext2fs_write_inode2: the block of the table
LEMMA StoredGood ==
    ASSUME NEW c, NEW m, NEW p, Shape(c), SlotsHold(c, p), BufferHolds(c, m), TableHolds(dev, m),
           NEW i \in Clients, c.blk = BlockOf(i), NEW n \in p[i],
           \A j \in Inos : j # i => p[j] = m[j],
           NEW o \in Stored(c, i, n), o.ret # "ok" => m[i] \subseteq p[i]
    PROVE  Shape(o.cache) /\ SlotsHold(o.cache, p) /\ BufferHolds(o.cache, p) /\ TableHolds(o.dev, p)
  <1>1. i \in Inos /\ Offset(i) \in 1..InodesPerBlock BY Sizes, Address
  <1>2. PICK b : b = [c.buf EXCEPT ![Offset(i)] = n] OBVIOUS
  <1>3. PICK k : k = [c EXCEPT !.buf[Offset(i)] = n] OBVIOUS
  <1>4. k = [slots |-> c.slots, last |-> c.last, blk |-> c.blk, buf |-> b]
    <2>1. c = [slots |-> c.slots, last |-> c.last, blk |-> c.blk, buf |-> c.buf] BY DEF Shape
    <2>2. k = [c EXCEPT !.buf = b] BY <1>2, <1>3
    <2> QED BY <2>1, <2>2
  <1>5. k.slots = c.slots /\ k.last = c.last /\ k.blk = c.blk /\ k.buf = b BY <1>4
  <1>6. c.buf = [q \in 1..InodesPerBlock |-> c.buf[q]] BY DEF Shape
  <1>7. \A q \in 1..InodesPerBlock : b[q] = IF q = Offset(i) THEN n ELSE c.buf[q] BY <1>2, <1>6
  <1>8. b = [q \in 1..InodesPerBlock |-> b[q]] BY <1>2, <1>6
  <1>9. Shape(k) BY <1>4, <1>5, <1>8 DEF Shape
  <1>10. SlotsHold(k, p) BY <1>5 DEF SlotsHold
  <1>11. ASSUME NEW j \in Inos, BlockOf(j) = BlockOf(i) PROVE b[Offset(j)] \in p[j]
    <2>1. CASE j = i BY <1>1, <1>7, <2>1
    <2>2. CASE j # i
      <3>1. Offset(j) # Offset(i) BY <1>1, <1>11, <2>2, OneAddress
      <3>2. b[Offset(j)] = c.buf[Offset(j)] BY <1>7, <3>1, Address
      <3> QED BY <1>11, <2>2, <3>2 DEF BufferHolds
    <2> QED BY <2>1, <2>2
  <1>12. BufferHolds(k, p) BY <1>5, <1>11 DEF BufferHolds
  <1>13. PICK after : after = [j \in Inos |-> IF BlockOf(j) = BlockOf(i) THEN k.buf[Offset(j)] ELSE dev[j]]
    OBVIOUS
  <1>14. TableHolds(after, p)
    <2>1. ASSUME NEW j \in Inos PROVE after[j] \in p[j]
      <3>1. CASE BlockOf(j) = BlockOf(i) BY <1>5, <1>11, <1>13, <3>1
      <3>2. CASE BlockOf(j) # BlockOf(i)
        <4>1. after[j] = dev[j] /\ j # i BY <1>13, <3>2
        <4> QED BY <4>1 DEF TableHolds
      <3> QED BY <3>1, <3>2
    <2> QED BY <2>1 DEF TableHolds
  <1>15. \/ o = [ret |-> "ok", cache |-> k, dev |-> after]
         \/ o = [ret |-> "io", cache |-> k, dev |-> dev]
    <2>1. o \in {[ret |-> "ok", cache |-> k, dev |-> after]}
                \cup {[ret |-> "io", cache |-> k, dev |-> dev]}
      BY <1>3, <1>13 DEF Stored
    <2> QED BY <2>1
  <1>16. CASE o.ret = "ok"
    <2>1. o.cache = k /\ o.dev = after BY <1>15, <1>16
    <2> QED BY <1>9, <1>10, <1>12, <1>14, <2>1
  <1>17. CASE o.ret # "ok"
    <2>1. o.cache = k /\ o.dev = dev BY <1>15, <1>17
    <2>2. TableHolds(dev, p) BY <1>17 DEF TableHolds
    <2> QED BY <1>9, <1>10, <1>12, <2>1, <2>2
  <1> QED BY <1>16, <1>17

\* What clients may find has only grown.
LEMMA MoreHolds ==
    ASSUME NEW m, NEW p, NEW i \in Clients, m[i] \subseteq p[i],
           \A j \in Inos : j # i => p[j] = m[j],
           NEW c, NEW d
    PROVE  /\ SlotsHold(c, m) => SlotsHold(c, p)
           /\ BufferHolds(c, m) => BufferHolds(c, p)
           /\ TableHolds(d, m) => TableHolds(d, p)
  <1>1. \A j \in Inos : m[j] \subseteq p[j] OBVIOUS
  <1>2. SlotsHold(c, m) => SlotsHold(c, p) BY <1>1, Sizes DEF SlotsHold
  <1>3. BufferHolds(c, m) => BufferHolds(c, p) BY <1>1 DEF BufferHolds
  <1>4. TableHolds(d, m) => TableHolds(d, p) BY <1>1 DEF TableHolds
  <1> QED BY <1>2, <1>3, <1>4

LEMMA StoredInGood ==
    ASSUME Careful,
           NEW c, NEW m, NEW p, Shape(c), SlotsHold(c, p), BufferHolds(c, m), TableHolds(dev, m),
           NEW i \in Clients, NEW n \in p[i], \A j \in Inos : j # i => p[j] = m[j],
           NEW o \in StoredIn(c, i, n), o.ret # "ok" => m[i] \subseteq p[i]
    PROVE  Shape(o.cache) /\ SlotsHold(o.cache, p) /\ BufferHolds(o.cache, p) /\ TableHolds(o.dev, p)
  <1>1. i \in Inos BY Sizes
  <1>2. CASE GroupOf(i) \in layout.missing
    <2>1. o = [ret |-> "missing", cache |-> c, dev |-> dev] BY <1>2 DEF StoredIn
    <2>2. m[i] \subseteq p[i] BY <2>1
    <2> QED BY <2>1, <2>2, MoreHolds
  <1>3. CASE GroupOf(i) \notin layout.missing
    <2>1. PICK l \in Loads(c, BlockOf(i)) :
            o \in IF l.ret # "ok" THEN {[ret |-> l.ret, cache |-> l.cache, dev |-> dev]}
                  ELSE Stored(l.cache, i, n)
      BY <1>3 DEF StoredIn
    <2>2. /\ l.ret = "ok" /\ Shape(l.cache) /\ l.cache.slots = c.slots
          /\ BufferHolds(l.cache, m) /\ l.cache.blk = BlockOf(i)
      BY <1>1, LoadsGood
    <2>3. o \in Stored(l.cache, i, n) BY <2>1, <2>2
    <2>4. SlotsHold(l.cache, p) BY <2>2 DEF SlotsHold
    <2> QED BY <2>2, <2>3, <2>4, StoredGood
  <1> QED BY <1>2, <1>3

LEMMA WritesGood ==
    ASSUME Careful,
           NEW c, NEW m, NEW p, Shape(c), SlotsHold(c, m), BufferHolds(c, m), TableHolds(dev, m),
           NEW i \in Clients, m[i] # {}, \A n \in m[i] : n.sum,
           NEW v, NEW full \in BOOLEAN, NEW o \in Writes(c, i, v, full),
           NEW new, \A n \in m[i] : Overlaid(n, v, full) \in new, Changes(m, p, i, new),
           o.ret # "ok" => m[i] \subseteq p[i]
    PROVE  Shape(o.cache) /\ SlotsHold(o.cache, p) /\ BufferHolds(o.cache, p) /\ TableHolds(o.dev, p)
  <1>1. PICK r : /\ r \in IF full THEN {[ret |-> "ok", cache |-> c, inode |-> Zero]}
                          ELSE Reads(c, i, TRUE)
                 /\ o \in IF r.ret # "ok" THEN {[ret |-> r.ret, cache |-> r.cache, dev |-> dev]}
                          ELSE StoredIn(Updated(r.cache, i, v, full), i, Overlaid(r.inode, v, full))
    BY DEF Writes
  <1>2. Shape(r.cache) /\ SlotsHold(r.cache, m) /\ BufferHolds(r.cache, m)
    <2>1. CASE full
      <3>1. r.cache = c BY <1>1, <2>1
      <3> QED BY <3>1
    <2>2. CASE ~full
      <3>1. r \in Reads(c, i, TRUE) BY <1>1, <2>2
      <3> QED BY <3>1, ReadsGood
    <2> QED BY <2>1, <2>2
  <1>3. \A j \in Inos : j # i => p[j] = m[j] BY DEF Changes
  <1>4. CASE r.ret # "ok"
    <2>1. o = [ret |-> r.ret, cache |-> r.cache, dev |-> dev] BY <1>1, <1>4
    <2>2. o.ret = r.ret /\ o.cache = r.cache /\ o.dev = dev BY <2>1
    <2>3. m[i] \subseteq p[i] BY <1>4, <2>2
    <2> QED BY <1>2, <1>3, <2>2, <2>3, MoreHolds
  <1>5. CASE r.ret = "ok"
    <2>1. o \in StoredIn(Updated(r.cache, i, v, full), i, Overlaid(r.inode, v, full))
      BY <1>1, <1>5
    <2>2. PICK n \in m[i] : Overlaid(r.inode, v, full) = Overlaid(n, v, full)
      <3>1. CASE full
        <4>1. PICK n \in m[i] : TRUE OBVIOUS
        <4>2. Overlaid(r.inode, v, full) = Overlaid(n, v, full) BY <3>1 DEF Overlaid
        <4> QED BY <4>2
      <3>2. CASE ~full
        <4>1. r \in Reads(c, i, TRUE) BY <1>1, <3>2
        <4>2. r.inode \in m[i] BY <1>5, <4>1, ReadsGood
        <4> QED BY <4>2
      <3> QED BY <3>1, <3>2
    <2>3. Overlaid(r.inode, v, full) \in p[i] BY <2>2 DEF Changes
    <2>4. /\ Shape(Updated(r.cache, i, v, full)) /\ SlotsHold(Updated(r.cache, i, v, full), p)
          /\ BufferHolds(Updated(r.cache, i, v, full), m)
      BY <1>2, UpdatedGood
    <2> QED BY <1>3, <2>1, <2>3, <2>4, StoredInGood
  <1> QED BY <1>4, <1>5

-----------------------------------------------------------------------------
\* The invariant is inductive

LEMMA InitHolds == ASSUME Init PROVE IInv
  <1>1. MayInv
    <2>1. may = [i \in Inos |-> {Start(i)}] BY DEF Init
    <2>2. may = [i \in Inos |-> may[i]] BY <2>1
    <2>3. ASSUME NEW i \in Clients PROVE may[i] # {} /\ \A n \in may[i] : n.sum
      <3>1. i \in Inos /\ i \notin Damaged BY Sizes
      <3>2. may[i] = {Start(i)} BY <2>1, <3>1
      <3>3. Start(i).sum = (i \notin Damaged) BY DEF Start
      <3> QED BY <3>1, <3>2, <3>3
    <2> QED BY <2>2, <2>3 DEF MayInv
  <1>2. cache = [slots |-> [s \in 1..CacheSize |-> [ino |-> 0, inode |-> Zero]],
                 last |-> 0, blk |-> 0, buf |-> [n \in 1..InodesPerBlock |-> Zero]]
    BY DEF Init, EmptyCache, NoBlock
  <1>3. /\ cache.slots = [s \in 1..CacheSize |-> [ino |-> 0, inode |-> Zero]]
        /\ cache.last = 0 /\ cache.blk = 0 /\ cache.buf = [n \in 1..InodesPerBlock |-> Zero]
    BY <1>2
  <1>4. Shape(cache)
    <2>1. cache.slots = [s \in 1..CacheSize |-> [ino |-> cache.slots[s].ino,
                                                 inode |-> cache.slots[s].inode]]
      BY <1>3
    <2>2. cache.buf = [k \in 1..InodesPerBlock |-> cache.buf[k]] BY <1>3
    <2>3. cache.last \in 0..CacheSize BY <1>3, Sizes
    <2> QED BY <1>2, <1>3, <2>1, <2>2, <2>3 DEF Shape
  <1>5. SlotsHold(cache, may) BY <1>3 DEF SlotsHold
  <1>6. BufferHolds(cache, may) BY <1>3, Address DEF BufferHolds
  <1>7. TableHolds(dev, may) BY DEF Init, TableHolds
  <1>8. ReadsRight BY DEF Init, NoAnswer, Answer, ReadsRight
  <1> QED BY <1>1, <1>4, <1>5, <1>6, <1>7, <1>8 DEF IInv, CacheInv

\* The steps that leave the cache and the table alone: they answer no client.
LEMMA OthersHold ==
    ASSUME IInv, UNCHANGED <<dev, cache, may>>,
           answer'.ret = "none" \/ answer'.scanned \/ answer' = answer
    PROVE  IInv'
  <1>1. ReadsRight' BY DEF IInv, ReadsRight
  <1>2. MayInv' BY DEF IInv, MayInv
  <1>3. CacheInv' BY DEF IInv, CacheInv
  <1>4. TableHolds(dev, may)' BY DEF IInv
  <1> QED BY <1>1, <1>2, <1>3, <1>4 DEF IInv

LEMMA ReadHolds ==
    ASSUME Careful, IInv, NEW i \in Clients, ReadInode(i)
    PROVE  IInv'
  <1>1. PICK o \in Reads(cache, i, FALSE) : cache' = o.cache /\ answer' = Answer(o.ret, i, o.inode)
    BY DEF ReadInode
  <1>2. dev' = dev /\ may' = may BY DEF ReadInode
  <1>3. \A n \in may[i] : n.sum BY DEF IInv, MayInv
  <1>4. /\ Shape(o.cache) /\ SlotsHold(o.cache, may) /\ BufferHolds(o.cache, may)
        /\ o.ret = "ok" => o.inode \in may[i]
    BY <1>3, ReadsGood DEF IInv, CacheInv
  <1>5. CacheInv' BY <1>1, <1>2, <1>4 DEF CacheInv
  <1>6. ReadsRight'
    <2>1. answer'.ret = o.ret /\ answer'.ino = i /\ answer'.inode = o.inode BY <1>1 DEF Answer
    <2> QED BY <1>2, <1>4, <2>1 DEF ReadsRight
  <1>7. MayInv' /\ TableHolds(dev, may)' BY <1>2 DEF IInv, MayInv
  <1> QED BY <1>5, <1>6, <1>7 DEF IInv

LEMMA WriteHolds ==
    ASSUME Careful, IInv, NEW i \in Clients, NEW v \in Vals, NEW full \in BOOLEAN,
           WriteInode(i, v, full)
    PROVE  IInv'
  <1>1. PICK new : new = {Overlaid(n, v, full) : n \in may[i]} OBVIOUS
  <1>2. PICK o \in Writes(cache, i, v, full) :
          /\ cache' = o.cache /\ dev' = o.dev /\ answer' = Answer(o.ret, 0, Zero)
          /\ may' = [may EXCEPT ![i] = IF o.ret = "ok" THEN new ELSE @ \cup new]
    BY <1>1 DEF WriteInode
  <1>3. i \in Inos BY Sizes
  <1>4. may = [j \in Inos |-> may[j]] /\ may[i] # {} /\ \A n \in may[i] : n.sum
    BY DEF IInv, MayInv
  <1>5. /\ may'[i] = IF o.ret = "ok" THEN new ELSE may[i] \cup new
        /\ \A j \in Inos : j # i => may'[j] = may[j]
        /\ may' = [j \in Inos |-> may'[j]]
    BY <1>2, <1>3, <1>4
  <1>6. Changes(may, may', i, new) /\ \A n \in may[i] : Overlaid(n, v, full) \in new
    BY <1>1, <1>5 DEF Changes
  <1>7. o.ret # "ok" => may[i] \subseteq may'[i] BY <1>5
  <1>8. /\ Shape(o.cache) /\ SlotsHold(o.cache, may') /\ BufferHolds(o.cache, may')
        /\ TableHolds(o.dev, may')
    <2>1. Shape(cache) /\ SlotsHold(cache, may) /\ BufferHolds(cache, may) /\ TableHolds(dev, may)
      BY DEF IInv, CacheInv
    <2> QED BY <1>4, <1>6, <1>7, <2>1, WritesGood
  <1>9. CacheInv' BY <1>2, <1>8 DEF CacheInv
  <1>10. TableHolds(dev, may)' BY <1>2, <1>8
  <1>11. MayInv'
    <2>1. new # {} BY <1>1, <1>4
    <2>3. ASSUME NEW n \in new PROVE n.sum
      <3>1. PICK k \in may[i] : n = Overlaid(k, v, full) BY <1>1
      <3>2. Overlaid(k, v, full).sum = TRUE BY DEF Overlaid
      <3> QED BY <3>1, <3>2
    <2>2. may'[i] # {} /\ \A n \in may'[i] : n.sum BY <1>4, <1>5, <2>1, <2>3
    <2>4. \A j \in Clients : may'[j] # {} /\ \A n \in may'[j] : n.sum
      BY <1>5, <2>2, Sizes DEF IInv, MayInv
    <2> QED BY <1>5, <2>4 DEF MayInv
  <1>12. ReadsRight'
    <2>1. answer'.ino = 0 BY <1>2 DEF Answer
    <2>2. 0 \notin Clients BY Sizes
    <2> QED BY <2>1, <2>2 DEF ReadsRight
  <1> QED BY <1>9, <1>10, <1>11, <1>12 DEF IInv

LEMMA FlushHolds == ASSUME IInv, FlushIcache PROVE IInv'
  <1>1. dev' = dev /\ may' = may /\ cache' = Flushed(cache) /\ answer' = NoAnswer
    BY DEF FlushIcache
  <1>2. PICK w : w = [s \in 1..CacheSize |-> [cache.slots[s] EXCEPT !.ino = 0]] OBVIOUS
  <1>3. cache' = [slots |-> w, last |-> cache.last, blk |-> 0, buf |-> cache.buf]
    BY <1>1, <1>2 DEF Flushed
  <1>4. cache'.slots = w /\ cache'.last = cache.last /\ cache'.blk = 0 /\ cache'.buf = cache.buf
    BY <1>3
  <1>5. cache.slots = [s \in 1..CacheSize |->
            [ino |-> cache.slots[s].ino, inode |-> cache.slots[s].inode]]
    BY DEF IInv, CacheInv, Shape
  <1>6. \A s \in 1..CacheSize : w[s] = [ino |-> 0, inode |-> cache.slots[s].inode]
    <2> TAKE s \in 1..CacheSize
    <2>1. cache.slots[s] = [ino |-> cache.slots[s].ino, inode |-> cache.slots[s].inode] BY <1>5
    <2>2. w[s] = [cache.slots[s] EXCEPT !.ino = 0] BY <1>2
    <2> QED BY <2>1, <2>2
  <1>7. w = [s \in 1..CacheSize |-> [ino |-> w[s].ino, inode |-> w[s].inode]]
    <2>1. w = [s \in 1..CacheSize |-> w[s]] BY <1>2
    <2>2. \A s \in 1..CacheSize : w[s] = [ino |-> w[s].ino, inode |-> w[s].inode]
      <3> TAKE s \in 1..CacheSize
      <3>1. w[s] = [ino |-> 0, inode |-> cache.slots[s].inode] BY <1>6
      <3>2. w[s].ino = 0 /\ w[s].inode = cache.slots[s].inode BY <3>1
      <3> QED BY <3>1, <3>2
    <2> QED BY <2>1, <2>2
  <1>8. Shape(cache')
    <2>1. cache.last \in 0..CacheSize /\ cache.buf = [k \in 1..InodesPerBlock |-> cache.buf[k]]
      BY DEF IInv, CacheInv, Shape
    <2> QED BY <1>3, <1>4, <1>7, <2>1 DEF Shape
  <1>9. SlotsHold(cache', may')
    <2>1. ASSUME NEW s \in 1..CacheSize PROVE w[s].ino = 0
      <3>1. w[s] = [ino |-> 0, inode |-> cache.slots[s].inode] BY <1>6
      <3> QED BY <3>1
    <2> QED BY <1>4, <2>1 DEF SlotsHold
  <1>10. BufferHolds(cache', may') BY <1>4, Address DEF BufferHolds
  <1>11. ReadsRight' BY <1>1 DEF ReadsRight, NoAnswer, Answer
  <1>12. MayInv' /\ TableHolds(dev, may)' BY <1>1 DEF IInv, MayInv
  <1> QED BY <1>8, <1>9, <1>10, <1>11, <1>12 DEF IInv, CacheInv

\* A step of a scan: what it returns is no answer to a client.
LEMMA NextInodeHolds == ASSUME IInv, NextInode PROVE IInv'
  <1>1. PICK ret, i : answer' = Scanned(ret, i) BY DEF NextInode
  <1>2. answer'.scanned BY <1>1 DEF Scanned
  <1> QED BY <1>2, OthersHold DEF NextInode

LEMMA StepHolds == ASSUME Careful, IInv, [Next]_vars PROVE IInv'
  <1>1. CASE \E i \in Read : ReadInode(i)
    <2>1. Read = Clients BY DEF Read, Careful
    <2> QED BY <1>1, <2>1, ReadHolds
  <1>2. CASE \E i \in Clients, v \in Vals, full \in BOOLEAN : WriteInode(i, v, full)
    BY <1>2, WriteHolds
  <1>3. CASE FlushIcache BY <1>3, FlushHolds
  <1>4. CASE NextInode BY <1>4, NextInodeHolds
  <1>5. CASE OpenScan \/ CloseScan \/ \E g \in 0..(Groups - 1) : GotoGroup(g)
    <2>1. answer' = NoAnswer /\ UNCHANGED <<dev, cache, may>>
      BY <1>5 DEF OpenScan, CloseScan, GotoGroup
    <2>2. answer'.ret = "none" BY <2>1 DEF NoAnswer, Answer
    <2> QED BY <2>1, <2>2, OthersHold
  <1>6. CASE UNCHANGED vars
    <2>1. UNCHANGED <<dev, cache, may, answer>> BY <1>6 DEF vars
    <2> QED BY <2>1, OthersHold
  <1> QED BY <1>1, <1>2, <1>3, <1>4, <1>5, <1>6 DEF Next

LEMMA Inductive == ASSUME Careful PROVE Spec => []IInv
  <1>1. Init => IInv BY InitHolds
  <1>2. IInv /\ [Next]_vars => IInv' BY StepHolds
  <1> QED BY <1>1, <1>2, PTL DEF Spec

-----------------------------------------------------------------------------
\* The cache's theorems.  Both are about reads that do not fail, of inodes whose
\* checksum is right.  Writes may fail, any number of times.

\* Each inode of the tables is the last one written or, where a write failed, one
\* that was: ext2fs_write_inode2 writes a whole block of inodes out of the cache's
\* buffer, over the others of that block.
THEOREM TablesAreKept == ASSUME Careful PROVE Spec => []TableKept
  <1>1. IInv => TableKept BY DEF IInv, TableHolds, TableKept
  <1> QED BY <1>1, Inductive, PTL

\* ext2fs_read_inode2 returns what was last written, or one whose write failed
\* since, be it in a slot of the cache, in its buffer or on the device.
THEOREM ReadsAreRight == ASSUME Careful PROVE Spec => []ReadsRight
  <1>1. IInv => ReadsRight BY DEF IInv
  <1> QED BY <1>1, Inductive, PTL

-----------------------------------------------------------------------------
\* The scan

\* Where bad blocks cut the buffer short, the status of a block is another's, and a
\* scan that has gone back to a group does not look for bad blocks any more.
Straight == "rewind" \notin Uses /\ \A l \in Layouts : l.warn => l.bad = {}

IsScan(s) == s = [open |-> s.open, current |-> s.current, group |-> s.group, inodes |-> s.inodes,
                  blocks |-> s.blocks, block |-> s.block, ahead |-> s.ahead, check |-> s.check,
                  bad |-> s.bad, buf |-> s.buf, status |-> s.status]

\* How many inodes of its group a scan has returned, and blocks it has read.
Gone(s)  == InodesLeft(layout, s.group) - s.inodes
Gotten(s) == BlocksLeft(layout, s.group) - s.blocks
Place(s) == s.group * BlocksPerGroup + 1 + Gotten(s)

InGroup(s) ==
    /\ s.group \in 0..(Groups - 1)
    /\ s.inodes \in 0..InodesLeft(layout, s.group) /\ s.blocks \in 0..BlocksLeft(layout, s.group)
    /\ s.current = s.group * InodesPerGroup + Gone(s)
    /\ s.block = IF s.group \in layout.missing THEN 0 ELSE Place(s)
    /\ s.group \in layout.missing => Gone(s) = 0 /\ Gotten(s) = 0
    /\ layout.warn => Gotten(s) % BufferBlocks = 0 \/ s.blocks = 0

\* The bad blocks that it will look for are those that are still to come.
Beyond(S, p) == {b \in S : b >= p}
AheadIs(s, p) == /\ s.ahead \subseteq Blocks
                 /\ Beyond(layout.bad, p) = IF s.check THEN Beyond(s.ahead, p) ELSE {}
AheadRight(s) == AheadIs(s, Place(s))

\* What is in the buffer and not yet returned, and is said of it
Marks(s, i) == s.status[(((i - 1) % InodesPerGroup) \div InodesPerBlock) % BufferBlocks]
MarksRight(st, i) == /\ "insane" \in st <=> (layout.warn /\ Garbage(i))
                     /\ "csums_ok" \in st => i \notin Damaged
HeldRight(s, n) == LET i == s.current + n IN
    /\ s.bad <=> BlockOf(i) \in layout.bad
    /\ ~s.bad => s.buf[n] = Seen(Start(i))
    /\ n <= s.inodes => MarksRight(Marks(s, i), i)
BufferRight(s) ==
    /\ s.buf \in Seq({Seen(Start(i)) : i \in Inos} \cup {Seen(Zero)})
    /\ Len(s.buf) = Gotten(s) * InodesPerBlock - Gone(s)
    /\ \A n \in 1..Len(s.buf) : HeldRight(s, n)
    /\ ~layout.warn => s.status = NoStatus

AtEnd(s) == /\ s.group = Groups /\ s.inodes = 0 /\ s.buf = <<>>
            /\ \A i \in Wanted : i <= s.current
            /\ ~layout.warn => s.status = NoStatus
ScanOk(s) == /\ IsScan(s) /\ s.open = TRUE /\ s.current \in Nat
             /\ AtEnd(s) \/ (InGroup(s) /\ AheadRight(s) /\ BufferRight(s))
ScanInv == layout \in Layouts /\ (scan = NoScan \/ ScanOk(scan))

-----------------------------------------------------------------------------
\* Numbers

LEMMA Times ==
    ASSUME NEW a \in Nat, NEW b \in Nat, NEW r \in Nat
    PROVE  a * r \in Nat /\ (a + b) * r = a * r + b * r /\ (a + 1) * r = a * r + r
  OBVIOUS

LEMMA Monotone ==
    ASSUME NEW a \in Nat, NEW b \in Nat, NEW r \in Nat, a <= b
    PROVE  a * r <= b * r
  OBVIOUS

LEMMA Division ==
    ASSUME NEW x \in Nat, NEW r \in Nat \ {0}
    PROVE  \E q \in Nat, m \in 0..(r - 1) :
             x \div r = q /\ x % r = m /\ x = q * r + m /\ q * r \in Nat
  <1>1. /\ x \div r \in Nat /\ x % r \in 0..(r - 1)
        /\ x = r * (x \div r) + (x % r)
    OBVIOUS
  <1>2. PICK q \in Nat, m \in 0..(r - 1) : x \div r = q /\ x % r = m BY <1>1
  <1>3. x = r * q + m BY <1>1, <1>2
  <1>4. r * q = q * r /\ q * r \in Nat OBVIOUS
  <1> QED BY <1>2, <1>3, <1>4

LEMMA DivisionIs ==
    ASSUME NEW x \in Nat, NEW r \in Nat \ {0}, NEW q \in Nat, NEW m \in 0..(r - 1),
           x = q * r + m
    PROVE  x \div r = q /\ x % r = m
  <1>1. x = r * q + m OBVIOUS
  <1> QED BY <1>1

\* A place below n pieces of r lies in one of them.
LEMMA PieceOf ==
    ASSUME NEW x \in Nat, NEW r \in Nat \ {0}, NEW n \in Nat, x < n * r
    PROVE  x \div r \in Nat /\ x \div r < n
  <1>1. PICK q \in Nat, m \in 0..(r - 1) : x \div r = q /\ x = q * r + m /\ q * r \in Nat
    BY Division
  <1>2. SUFFICES ASSUME n <= q PROVE FALSE BY <1>1
  <1>3. n * r <= q * r BY <1>2, Monotone
  <1>4. n * r \in Nat BY Times
  <1> QED BY <1>1, <1>3, <1>4

LEMMA ScanSizes ==
    /\ InodesPerGroup \in Nat \ {0} /\ InodesPerBlock \in Nat \ {0} /\ BlocksPerGroup \in Nat \ {0}
    /\ Groups \in Nat \ {0} /\ BufferBlocks \in Nat \ {0}
    /\ InodesPerGroup = BlocksPerGroup * InodesPerBlock
    /\ Inos = 1..(Groups * InodesPerGroup) /\ Blocks = 1..(Groups * BlocksPerGroup)
  <1>1. PICK p, r, n \in Nat \ {0} : p = InodesPerGroup /\ r = InodesPerBlock /\ n = Groups
    BY InodesAssumption
  <1>2. PICK q \in Nat, m \in 0..(r - 1) : p \div r = q /\ p % r = m /\ p = q * r + m
    BY Division
  <1>3. p % r = 0 BY <1>1, InodesAssumption
  <1>4. p = q * r BY <1>2, <1>3
  <1>5. q # 0 BY <1>4
  <1>6. (n * p) \div r = n * q
    <2>1. n * p = (n * q) * r + 0 BY <1>4
    <2>2. n * p \in Nat /\ n * q \in Nat /\ 0 \in 0..(r - 1) OBVIOUS
    <2> QED BY <2>1, <2>2, DivisionIs
  <1>7. BlocksPerGroup = q BY <1>1, <1>2 DEF BlocksPerGroup
  <1>8. BufferBlocks \in Nat \ {0} BY InodesAssumption
  <1>9. Blocks = 1..(n * q) BY <1>1, <1>6 DEF Blocks
  <1> QED BY <1>1, <1>4, <1>5, <1>7, <1>8, <1>9 DEF Inos

\* The n-th inode of group g, from 0
LEMMA InodeAt ==
    ASSUME NEW g \in 0..(Groups - 1), NEW n \in 0..(InodesPerGroup - 1),
           NEW i, i = g * InodesPerGroup + n + 1
    PROVE  /\ i \in Inos /\ GroupOf(i) = g /\ (i - 1) % InodesPerGroup = n
           /\ n \div InodesPerBlock \in 0..(BlocksPerGroup - 1)
           /\ BlockOf(i) = g * BlocksPerGroup + 1 + (n \div InodesPerBlock)
  <1>1. PICK p, r, k, b \in Nat \ {0} : p = InodesPerGroup /\ r = InodesPerBlock /\ k = Groups
                                        /\ b = BlocksPerGroup
    BY ScanSizes
  <1>2. p = b * r BY <1>1, ScanSizes
  <1>3. g \in Nat /\ g + 1 <= k /\ n \in 0..(p - 1) BY <1>1
  <1>4. g * p \in Nat /\ (g + 1) * p <= k * p /\ (g + 1) * p = g * p + p /\ k * p \in Nat
    BY <1>3, Monotone, Times
  <1>5. i \in 1..(k * p) BY <1>1, <1>3, <1>4
  <1>6. PICK x \in Nat : x = i - 1 /\ x = g * p + n BY <1>1, <1>3, <1>4
  <1>7. x \div p = g /\ x % p = n BY <1>3, <1>6, DivisionIs
  <1>8. PICK q \in Nat, m \in 0..(r - 1) : n \div r = q /\ n = q * r + m /\ q * r \in Nat
    BY <1>3, Division, SMTT(30)
  <1>9. q < b
    <2>1. n \in Nat /\ n < b * r BY <1>2, <1>3
    <2> QED BY <1>8, <2>1, PieceOf
  <1>10. x \div r = g * b + q
    <2>1. g * p = (g * b) * r BY <1>2
    <2>2. g * b \in Nat /\ g * b + q \in Nat BY <1>3, Times
    <2>3. (g * b + q) * r = (g * b) * r + q * r BY <2>2, Times
    <2>4. x = (g * b + q) * r + m BY <1>6, <1>8, <2>1, <2>3
    <2> QED BY <2>2, <2>4, DivisionIs
  <1>11. i \in Inos BY <1>1, <1>5, ScanSizes
  <1>12. GroupOf(i) = g /\ (i - 1) % InodesPerGroup = n BY <1>1, <1>6, <1>7 DEF GroupOf
  <1>13. BlockOf(i) = g * BlocksPerGroup + 1 + q
    <2>1. BlockOf(i) = (g * b + q) + 1 BY <1>1, <1>6, <1>10 DEF BlockOf
    <2>2. g * b \in Nat BY <1>3, Times
    <2> QED BY <1>1, <2>1, <2>2
  <1> QED BY <1>1, <1>8, <1>9, <1>11, <1>12, <1>13

LEMMA EachInode ==
    ASSUME NEW i \in Inos
    PROVE  \E g \in 0..(Groups - 1), n \in 0..(InodesPerGroup - 1) :
             i = g * InodesPerGroup + n + 1
  <1>1. PICK p, k \in Nat \ {0} : p = InodesPerGroup /\ k = Groups BY ScanSizes
  <1>2. k * p \in Nat /\ i \in 1..(k * p) BY <1>1, ScanSizes
  <1>3. PICK x \in Nat : x = i - 1 /\ x < k * p BY <1>2
  <1>4. PICK g \in Nat, n \in 0..(p - 1) : x \div p = g /\ x = g * p + n /\ g * p \in Nat
    BY Division
  <1>5. g < k BY <1>3, <1>4, PieceOf
  <1>6. i = g * p + n + 1 BY <1>2, <1>3, <1>4
  <1>7. g \in 0..(Groups - 1) /\ n \in 0..(InodesPerGroup - 1) BY <1>1, <1>4, <1>5
  <1>8. i = g * InodesPerGroup + n + 1 BY <1>1, <1>6
  <1> QED BY <1>7, <1>8

\* Inodes of different groups
LEMMA Apart ==
    ASSUME NEW g \in Nat, NEW h \in Nat, NEW n \in 0..InodesPerGroup, g < h
    PROVE  g * InodesPerGroup + n <= h * InodesPerGroup
  <1>1. PICK p \in Nat : p = InodesPerGroup BY ScanSizes
  <1>2. (g + 1) * p <= h * p BY Monotone
  <1>3. (g + 1) * p = g * p + p /\ g * p \in Nat /\ h * p \in Nat BY Times
  <1> QED BY <1>1, <1>2, <1>3

\* How many inodes and blocks of a group are to be read
LEMMA LeftSizes ==
    ASSUME layout \in Layouts, NEW g \in 0..(Groups - 1)
    PROVE  /\ InodesLeft(layout, g) \in 0..InodesPerGroup
           /\ BlocksLeft(layout, g) \in 0..BlocksPerGroup
           /\ InodesLeft(layout, g) <= BlocksLeft(layout, g) * InodesPerBlock
           /\ BlocksLeft(layout, g) * InodesPerBlock < InodesLeft(layout, g) + InodesPerBlock
  <1>1. PICK p, r, b \in Nat \ {0} : p = InodesPerGroup /\ r = InodesPerBlock /\ b = BlocksPerGroup
    BY ScanSizes
  <1>2. p = b * r BY <1>1, ScanSizes
  <1>3. layout.unused[g] \in 0..p
    <2>1. layout.unused \in [0..(Groups - 1) -> 0..InodesPerGroup] BY InodesAssumption
    <2> QED BY <1>1, <2>1
  <1>4. InodesLeft(layout, g) \in 0..p BY <1>1, <1>3 DEF InodesLeft
  <1>5. PICK l \in 0..p : l = InodesLeft(layout, g) BY <1>4
  <1>6. PICK x \in Nat : x = l + r - 1 BY <1>5
  <1>7. PICK q \in Nat, m \in 0..(r - 1) : x \div r = q /\ x = q * r + m /\ q * r \in Nat
    BY Division
  <1>8. BlocksLeft(layout, g) = q BY <1>1, <1>5, <1>6, <1>7 DEF BlocksLeft
  <1>9. l <= q * r /\ q * r < l + r BY <1>6, <1>7
  <1>10. q <= b
    <2>1. SUFFICES ASSUME b + 1 <= q PROVE FALSE BY <1>7
    <2>2. (b + 1) * r <= q * r /\ (b + 1) * r = b * r + r BY <2>1, Monotone, Times
    <2> QED BY <1>2, <1>5, <1>9, <2>2, <1>7
  <1> QED BY <1>1, <1>5, <1>8, <1>9, <1>10

LEMMA WantedAt ==
    ASSUME NEW g \in 0..(Groups - 1), NEW n \in 0..(InodesPerGroup - 1),
           NEW i, i = g * InodesPerGroup + n + 1
    PROVE  i \in Wanted <=> ~Passed(g) /\ n < InodesLeft(layout, g)
  <1>1. i \in Inos /\ GroupOf(i) = g /\ (i - 1) % InodesPerGroup = n BY InodeAt
  <1> QED BY <1>1 DEF Wanted

\* The inodes of a block
LEMMA InBlock ==
    ASSUME NEW g \in 0..(Groups - 1), NEW q \in 0..(BlocksPerGroup - 1), NEW j \in Inos,
           BlockOf(j) = g * BlocksPerGroup + 1 + q
    PROVE  \E m \in 0..(InodesPerBlock - 1) :
             /\ j = g * InodesPerGroup + (q * InodesPerBlock + m) + 1
             /\ q * InodesPerBlock + m \in 0..(InodesPerGroup - 1)
  <1>1. PICK h \in 0..(Groups - 1), n \in 0..(InodesPerGroup - 1) : j = h * InodesPerGroup + n + 1
    BY EachInode
  <1>2. /\ n \div InodesPerBlock \in 0..(BlocksPerGroup - 1)
        /\ BlockOf(j) = h * BlocksPerGroup + 1 + (n \div InodesPerBlock)
    BY <1>1, InodeAt
  <1>3. PICK b, r \in Nat \ {0} : b = BlocksPerGroup /\ r = InodesPerBlock BY ScanSizes
  <1>4. PICK t \in 0..(b - 1) : t = n \div InodesPerBlock BY <1>2, <1>3
  <1>5. g \in Nat /\ h \in Nat /\ q \in 0..(b - 1) BY <1>3
  <1>6. h * b \in Nat /\ g * b \in Nat BY <1>5, Times
  <1>7. h * b + t = g * b + q BY <1>2, <1>3, <1>4, <1>5, <1>6
  <1>8. h = g /\ t = q
    <2>1. PICK x \in Nat : x = h * b + t BY <1>6
    <2>2. x \div b = h /\ x % b = t BY <1>5, <2>1, DivisionIs
    <2>3. x \div b = g /\ x % b = q BY <1>5, <1>7, <2>1, DivisionIs
    <2> QED BY <2>2, <2>3
  <1>9. n \in Nat BY <1>1, ScanSizes
  <1>10. PICK k \in Nat, m \in 0..(r - 1) : n \div r = k /\ n = k * r + m
    <2>1. PICK k \in Nat, m \in 0..(r - 1) : n \div r = k /\ n % r = m /\ n = k * r + m /\ k * r \in Nat
      BY <1>9, Division
    <2> QED BY <2>1
  <1>11. n = q * r + m BY <1>3, <1>4, <1>8, <1>10
  <1>12. /\ j = g * InodesPerGroup + (q * r + m) + 1
         /\ q * r + m \in 0..(InodesPerGroup - 1)
    BY <1>1, <1>8, <1>11
  <1> QED BY <1>3, <1>12

\* An inode as Init and every later write leave its checksum
SeenRight == \A j \in Inos : Seen(dev[j]) = Seen(Start(j))

LEMMA SeenIs ==
    ASSUME NEW i
    PROVE  /\ Seen(Start(i)).sum = (i \notin Damaged)
           /\ Seen(Start(i)).sane = (i \notin Insane)
  <1>1. Seen(Start(i)) = [sum |-> i \notin Damaged, sane |-> i \notin Insane] BY Zenon DEF Seen, Start
  <1> QED BY <1>1

\* A counting of one set by another
LEMMA SameCount ==
    ASSUME NEW S, NEW T, IsFiniteSet(S), NEW f, f \in [S -> T],
           \A x, y \in S : f[x] = f[y] => x = y, \A t \in T : \E x \in S : f[x] = t
    PROVE  Cardinality(S) = Cardinality(T)
  <1>1. DOMAIN f = S OBVIOUS
  <1>2. IsInjective(f) BY <1>1 DEF IsInjective
  <1>3. f \in Bijection(S, T) BY <1>2 DEF Bijection, Injection, Surjection
  <1>4. ExistsBijection(S, T) BY <1>3 DEF ExistsBijection
  <1> QED BY <1>4, FS_Bijection

\* check_inode_block_sanity: block k of a buffer that begins with the v-th block of
\* group g
LEMMA StatusRight ==
    ASSUME layout \in Layouts, layout.warn, NEW g \in 0..(Groups - 1), ~Passed(g),
           NEW v \in Nat, NEW c \in Nat, v + c <= BlocksPerGroup, NEW k \in 0..(c - 1),
           NEW s, s.inodes = InodesLeft(layout, g) - v * InodesPerBlock,
           NEW base, base = g * InodesPerGroup + v * InodesPerBlock,
           NEW inodes, Len(inodes) = c * InodesPerBlock,
           \A n \in 1..(c * InodesPerBlock) : inodes[n] = Seen(Start(base + n)),
           NEW n \in Nat, k * InodesPerBlock < n, n <= (k + 1) * InodesPerBlock, n <= s.inodes
    PROVE  MarksRight(BlockStatus(s, inodes, k), base + n)
  <1>1. PICK p, r, b \in Nat \ {0} : p = InodesPerGroup /\ r = InodesPerBlock /\ b = BlocksPerGroup
    BY ScanSizes
  <1>2. PICK l \in 0..p : l = InodesLeft(layout, g) BY <1>1, LeftSizes
  <1>3. PICK B : B = g * BlocksPerGroup + 1 + (v + k) OBVIOUS
  <1>4. v + k \in 0..(b - 1) /\ k + 1 <= c /\ k \in Nat /\ c \in Nat BY <1>1
  <1>5. /\ v * r \in Nat /\ k * r \in Nat /\ (k + 1) * r = k * r + r /\ (k + 1) * r <= c * r
        /\ c * r \in Nat /\ (v + k) * r = v * r + k * r
    BY <1>4, Times, Monotone
  <1>6. g \in Nat /\ g * p \in Nat BY Times
  <1>7. base = g * p + v * r /\ base \in Nat BY <1>1, <1>5, <1>6
  \* the m-th inode of the buffer, if it is one of the block's
  <1>8. ASSUME NEW m \in Nat, k * r < m, m <= (k + 1) * r
        PROVE  /\ m \in 1..(c * r) /\ base + m \in Inos
               /\ BlockOf(base + m) = B
               /\ base + m \in Wanted <=> m <= s.inodes
    <2>1. PICK w \in 0..(r - 1) : m = k * r + w + 1
      <3>1. m - 1 - k * r \in 0..(r - 1) BY <1>5, <1>8
      <3> QED BY <1>5, <3>1
    <2>y. PICK y \in Nat : y = v + k BY <1>4
    <2>z. PICK a, d, e \in Nat : a = v * r /\ d = k * r /\ e = g * p BY <1>5, <1>6
    <2>2. PICK x \in Nat : x = y * r + w /\ y * r = a + d BY <1>5, <2>y, <2>z, SMTT(30)
    <2>3. x < p
      <3>1. (v + k + 1) * r <= b * r BY <1>4, Monotone
      <3>2. (v + k + 1) * r = (v + k) * r + r BY <1>4, Times
      <3>3. p = b * r BY <1>1, ScanSizes
      <3>4. PICK z \in Nat : z = y * r BY <2>2, <2>z
      <3>5. x = z + w /\ z + r <= p BY <2>2, <2>y, <3>1, <3>2, <3>3, <3>4
      <3> QED BY <3>4, <3>5
    <2>4. x \in 0..(InodesPerGroup - 1) BY <1>1, <2>3
    <2>5. base + m = g * p + x + 1
      <3>1. base = e + a /\ m = d + w + 1 BY <1>7, <2>1, <2>z
      <3>2. x = a + d + w BY <2>2
      <3> QED BY <2>z, <3>1, <3>2, SMTT(30)
    <2>6. base + m = g * InodesPerGroup + x + 1 BY <1>1, <2>5
    <2>7. x \div r = v + k
      <3>1. x = y * r + w BY <2>2
      <3>2. x \div r = y BY <3>1, DivisionIs
      <3> QED BY <2>y, <3>2
    <2>8. base + m \in Inos /\ BlockOf(base + m) = B
      <3>1. PICK i : i = base + m OBVIOUS
      <3>2. i = g * InodesPerGroup + x + 1 BY <2>6, <3>1
      <3>3. /\ i \in Inos
            /\ BlockOf(i) = g * BlocksPerGroup + 1 + (x \div InodesPerBlock)
        BY <2>4, <3>2, InodeAt
      <3>4. x \div InodesPerBlock = v + k BY <1>1, <2>7
      <3> QED BY <1>3, <3>1, <3>3, <3>4
    <2>9. base + m \in Wanted <=> x < l BY <1>2, <2>4, <2>6, WantedAt
    <2>10. s.inodes = l - v * r BY <1>1, <1>2
    <2>11. x < l <=> m <= s.inodes
      <3>1. s.inodes = l - a /\ m = d + w + 1 /\ x = a + d + w BY <2>1, <2>2, <2>10, <2>z
      <3>2. l \in Nat /\ w \in Nat OBVIOUS
      <3> QED BY <2>z, <3>1, <3>2
    <2>12. m \in 1..(c * r)
      <3>1. m <= c * r /\ c * r \in Nat /\ k * r \in Nat BY <1>5, <1>8
      <3> QED BY <1>8, <3>1
    <2> QED BY <2>8, <2>9, <2>11, <2>12
  <1> DEFINE block  == (k * InodesPerBlock + 1)..((k + 1) * InodesPerBlock)
             looked == {m \in block : m <= Len(inodes) /\ m <= s.inodes}
             amiss  == {m \in looked : ~inodes[m].sum \/ ~inodes[m].sane}
             wrong  == {j \in Wanted \cap (Damaged \cup Insane) : BlockOf(j) = BlockOf(base + n)}
             st     == BlockStatus(s, inodes, k)
  <1>9. BlockOf(base + n) = B BY <1>1, <1>8
  <1>10. ASSUME NEW m \in block
         PROVE  /\ m \in Nat /\ k * r < m /\ m <= (k + 1) * r /\ m <= Len(inodes)
                /\ base + m \in Inos /\ BlockOf(base + m) = B /\ (base + m \in Wanted <=> m <= s.inodes)
                /\ inodes[m].sum = (base + m \notin Damaged) /\ inodes[m].sane = (base + m \notin Insane)
    <2>1. m \in Nat /\ k * r < m /\ m <= (k + 1) * r BY <1>1, <1>5, <1>10
    <2>2. /\ m \in 1..(c * r) /\ base + m \in Inos /\ BlockOf(base + m) = B
          /\ (base + m \in Wanted <=> m <= s.inodes)
      BY <2>1, <1>8
    <2>3. inodes[m] = Seen(Start(base + m)) BY <1>1, <2>2
    <2>4. m <= Len(inodes) BY <1>1, <1>5, <2>2
    <2> QED BY <2>1, <2>2, <2>3, <2>4, SeenIs, SMTT(30)
  <1>11. Cardinality(amiss) = Cardinality(wrong)
    <2> DEFINE f == [m \in amiss |-> base + m]
    <2>1. IsFiniteSet(block)
      <3>1. k * InodesPerBlock + 1 \in Int /\ (k + 1) * InodesPerBlock \in Int BY <1>1, <1>5
      <3> QED BY <3>1, FS_Interval
    <2>2. IsFiniteSet(amiss)
      <3>1. amiss \subseteq block OBVIOUS
      <3> QED BY <2>1, <3>1, FS_Subset
    <2>3. ASSUME NEW m \in amiss PROVE base + m \in wrong /\ m \in Nat
      <3>1. m \in block /\ m <= s.inodes /\ (~inodes[m].sum \/ ~inodes[m].sane) OBVIOUS
      <3> HIDE DEF amiss, looked, block
      <3>2. base + m \in Wanted /\ BlockOf(base + m) = B /\ m \in Nat BY <3>1, <1>10
      <3>3. base + m \in Damaged \cup Insane BY <3>1, <1>10
      <3> QED BY <1>9, <3>2, <3>3
    <2>4. ASSUME NEW j \in wrong PROVE \E m \in amiss : base + m = j
      <3>1. j \in Wanted /\ j \in Damaged \cup Insane /\ BlockOf(j) = B BY <1>9
      <3>2. j \in Inos BY <3>1 DEF Wanted
      <3>3. v + k \in 0..(BlocksPerGroup - 1) BY <1>1, <1>4
      <3>4. PICK w \in 0..(InodesPerBlock - 1) :
              j = g * InodesPerGroup + ((v + k) * InodesPerBlock + w) + 1
        BY <1>3, <3>1, <3>2, <3>3, InBlock, SMTT(30)
      <3>5. PICK m \in Nat : m = k * r + w + 1 BY <1>1, <1>5, SMTT(30)
      <3>6. base + m = j BY <1>1, <1>5, <1>6, <1>7, <3>4, <3>5
      <3>7. m \in block BY <1>1, <1>5, <3>5
      <3> HIDE DEF block
      <3>8. m <= Len(inodes) /\ m <= s.inodes BY <1>10, <3>1, <3>6, <3>7
      <3>9. ~inodes[m].sum \/ ~inodes[m].sane BY <1>10, <3>1, <3>6, <3>7
      <3> QED BY <3>6, <3>7, <3>8, <3>9
    <2> HIDE DEF amiss, wrong
    <2>5. f \in [amiss -> wrong] BY <2>3
    <2>6. \A x, y \in amiss : f[x] = f[y] => x = y BY <1>7, <2>3, SMTT(30)
    <2>7. \A t \in wrong : \E x \in amiss : f[x] = t BY <2>4
    <2> HIDE DEF f
    <2> QED BY <2>2, <2>5, <2>6, <2>7, SameCount, SMTT(30)
  <1>12. Garbage(base + n) <=> 2 * Cardinality(amiss) > InodesPerBlock BY <1>11 DEF Garbage
  <1>13. st = IF 2 * Cardinality(amiss) > InodesPerBlock THEN {"insane"}
              ELSE IF Cardinality(looked) = InodesPerBlock /\ \A m \in looked : inodes[m].sum
              THEN {"csums_ok"} ELSE {}
    BY DEF BlockStatus
  <1>14. n \in looked
    <2>1. n \in block BY <1>1, <1>5
    <2>2. n <= Len(inodes) BY <1>10, <2>1
    <2> QED BY <2>1, <2>2
  <1>15. inodes[n].sum = (base + n \notin Damaged)
    <2>1. n \in block BY <1>1, <1>5
    <2> QED BY <1>10, <2>1
  <1> HIDE DEF amiss, looked, st
  <1>16. "insane" \in st <=> 2 * Cardinality(amiss) > InodesPerBlock BY <1>13
  <1>17. "csums_ok" \in st => inodes[n].sum BY <1>13, <1>14
  <1>18. MarksRight(st, base + n) BY <1>12, <1>15, <1>16, <1>17 DEF MarksRight
  <1> QED BY <1>18 DEF st

\* The least member of a set of numbers, by way of the intervals 1..x, which
\* are finite sets and so well ordered by inclusion.
LEMMA Least ==
    ASSUME NEW S \in SUBSET Nat, S # {}
    PROVE  \E x \in S : \A y \in S : x <= y
  <1> DEFINE T == {1..x : x \in S}
             R == StrictSubsetOrdering(Nat)
  <1>1. IsWellFoundedOn(R, FiniteSubsetsOf(Nat)) BY FS_StrictSubsetOrderingWellFounded
  <1>2. \A x \in S : 1..x \in FiniteSubsetsOf(Nat)
    <2> TAKE x \in S
    <2>1. IsFiniteSet(1..x) BY FS_Interval
    <2>2. 1..x \in SUBSET Nat OBVIOUS
    <2> QED BY <2>1, <2>2 DEF FiniteSubsetsOf
  <1>3. T \subseteq FiniteSubsetsOf(Nat) /\ T # {} BY <1>2
  <1>4. ASSUME NEW x \in S, NEW y \in S, y < x PROVE <<1..y, 1..x>> \in R
    <2>1. 1..y \subseteq 1..x /\ x \in 1..x /\ x \notin 1..y BY <1>4
    <2>2. 1..y \in SUBSET Nat /\ 1..x \in SUBSET Nat OBVIOUS
    <2> QED BY <2>1, <2>2 DEF StrictSubsetOrdering
  <1> HIDE DEF R
  <1>5. \E t \in T : \A u \in T : <<u, t>> \notin R
    <2> HIDE DEF T
    <2> QED BY <1>1, <1>3, WFMin
  <1>6. PICK x \in S : \A u \in T : <<u, 1..x>> \notin R BY <1>5
  <1>7. ASSUME NEW y \in S PROVE x <= y
    <2>1. 1..y \in T OBVIOUS
    <2>2. ~(y < x) BY <1>4, <1>6, <2>1
    <2> QED BY <2>2
  <1> QED BY <1>7

LEMMA SmallestIs ==
    ASSUME NEW S \in SUBSET Nat, S # {}
    PROVE  Smallest(S) \in S /\ \A y \in S : Smallest(S) <= y
  BY Least DEF Smallest

LEMMA SmallestOf ==
    ASSUME NEW S \in SUBSET Nat, NEW x \in S, \A y \in S : x <= y
    PROVE  Smallest(S) = x
  <1>1. Smallest(S) \in S /\ \A y \in S : Smallest(S) <= y BY SmallestIs
  <1>2. Smallest(S) <= x /\ x <= Smallest(S) /\ x \in Nat /\ Smallest(S) \in Nat BY <1>1
  <1> QED BY <1>2

\* Fields that check_for_inode_bad_blocks leaves alone
SameBut(s, t) == /\ IsScan(t) /\ t.open = s.open /\ t.current = s.current /\ t.group = s.group
                 /\ t.inodes = s.inodes /\ t.blocks = s.blocks /\ t.block = s.block
                 /\ t.buf = s.buf /\ t.status = s.status

LEMMA BadsAreNumbers ==
    ASSUME layout \in Layouts
    PROVE  layout.bad \subseteq Blocks /\ Blocks \subseteq Nat
  <1>1. layout.bad \subseteq Blocks BY InodesAssumption
  <1>2. Blocks \subseteq Nat BY ScanSizes
  <1> QED BY <1>1, <1>2

\* check_for_inode_bad_blocks, for w blocks from p on
LEMMA BadCheckedOk ==
    ASSUME layout \in Layouts, NEW s, IsScan(s), NEW p \in Nat, s.block = p, AheadIs(s, p),
           NEW w \in Nat \ {0}, NEW c, c = BadChecked(s, w)
    PROVE  /\ c.n \in 1..w /\ SameBut(s, c.s) /\ AheadIs(c.s, p + c.n)
           /\ \A x \in p..(p + c.n - 1) : c.s.bad <=> x \in layout.bad
           /\ layout.bad = {} => c.n = w
  <1>1. PICK A : A = {b \in s.ahead : b >= s.block} OBVIOUS
  <1>2. A = Beyond(s.ahead, p) /\ A \subseteq s.ahead BY <1>1 DEF Beyond
  <1>3. layout.bad \subseteq Nat /\ s.ahead \subseteq Blocks /\ Blocks \subseteq Nat
    BY BadsAreNumbers DEF AheadIs
  <1>4. CASE ~s.check \/ A = {}
    <2>1. c = [s |-> [s EXCEPT !.check = FALSE, !.bad = FALSE], n |-> w]
      BY <1>1, <1>4 DEF BadChecked
    <2>2. PICK t : t = [s EXCEPT !.check = FALSE, !.bad = FALSE] OBVIOUS
    <2>3. c.s = t /\ c.n = w BY <2>1, <2>2
    <2>4. SameBut(s, t) /\ t.check = FALSE /\ t.bad = FALSE /\ t.ahead = s.ahead
      BY <2>2 DEF IsScan, SameBut
    <2>5. Beyond(layout.bad, p) = {} BY <1>2, <1>4 DEF AheadIs
    <2>6. \A x \in layout.bad : x < p BY <1>3, <2>5 DEF Beyond
    <2>7. Beyond(layout.bad, p + w) = {} BY <1>3, <2>6 DEF Beyond
    <2>8. AheadIs(t, p + w) BY <1>3, <2>4, <2>7 DEF AheadIs
    <2>9. \A x \in p..(p + w - 1) : ~(t.bad) /\ x \notin layout.bad BY <2>4, <2>6
    <2> QED BY <2>3, <2>4, <2>8, <2>9
  <1>5. CASE s.check /\ A # {}
    <2>1. Beyond(layout.bad, p) = A BY <1>2, <1>5 DEF AheadIs
    <2>2. A \in SUBSET Nat BY <1>2, <1>3
    <2>3. PICK m \in A : m = Smallest(A) /\ \A y \in A : m <= y BY <1>5, <2>2, SmallestIs
    <2>4. m \in Nat /\ m >= p /\ m \in layout.bad BY <1>1, <2>1, <2>2 DEF Beyond
    <2>5. CASE m = p
      <3>1. c = [s |-> [s EXCEPT !.ahead = A \ {s.block}, !.check = A # {s.block}, !.bad = TRUE],
                 n |-> 1]
        BY <1>1, <1>5, <2>3, <2>5 DEF BadChecked
      <3>2. PICK t : t = [s EXCEPT !.ahead = A \ {s.block}, !.check = A # {s.block}, !.bad = TRUE]
        OBVIOUS
      <3>3. c.s = t /\ c.n = 1 BY <3>1, <3>2
      <3>4. SameBut(s, t) /\ t.check = (A # {p}) /\ t.bad = TRUE /\ t.ahead = A \ {p}
        BY <3>2 DEF IsScan, SameBut
      <3>5. Beyond(layout.bad, p + 1) = A \ {p}
        <4>1. \A x \in layout.bad : x >= p + 1 <=> x >= p /\ x # p BY <1>3
        <4> QED BY <2>1, <4>1 DEF Beyond
      <3>6. Beyond(A \ {p}, p + 1) = A \ {p}
        <4>1. \A x \in A : x # p => x >= p + 1 BY <2>2, <2>3, <2>5
        <4> QED BY <4>1 DEF Beyond
      <3>7. A = {p} => A \ {p} = {} OBVIOUS
      <3>8. AheadIs(t, p + 1) BY <1>2, <1>3, <3>4, <3>5, <3>6, <3>7 DEF AheadIs
      <3>9. \A x \in p..(p + 1 - 1) : t.bad /\ x \in layout.bad BY <2>4, <2>5, <3>4
      <3> QED BY <2>4, <3>3, <3>4, <3>8, <3>9
    <2>6. CASE m # p
      <3>1. PICK n : n = IF p + w > m THEN m - p ELSE w OBVIOUS
      <3>2. n \in 1..w /\ p + n <= m BY <2>4, <2>6, <3>1
      <3>3. c = [s |-> [s EXCEPT !.ahead = A, !.bad = FALSE], n |-> n]
        BY <1>1, <1>5, <2>3, <2>6, <3>1 DEF BadChecked
      <3>4. PICK t : t = [s EXCEPT !.ahead = A, !.bad = FALSE] OBVIOUS
      <3>5. c.s = t /\ c.n = n BY <3>3, <3>4
      <3>6. SameBut(s, t) /\ t.check = s.check /\ t.bad = FALSE /\ t.ahead = A
        BY <3>4 DEF IsScan, SameBut
      <3>7. Beyond(layout.bad, p + n) = Beyond(A, p + n)
        <4>1. \A x \in layout.bad : x >= p + n => x >= p BY <1>3, <3>2
        <4> QED BY <2>1, <4>1 DEF Beyond
      <3>8. AheadIs(t, p + n) BY <1>2, <1>3, <1>5, <3>6, <3>7 DEF AheadIs
      <3>9. \A x \in p..(p + n - 1) : ~t.bad /\ x \notin layout.bad
        <4> TAKE x \in p..(p + n - 1)
        <4>1. x < m /\ x >= p BY <2>4, <3>2
        <4>2. x \notin A BY <2>2, <2>3, <4>1
        <4> QED BY <2>1, <3>6, <4>1, <4>2 DEF Beyond
      <3> QED BY <2>4, <3>2, <3>5, <3>6, <3>8, <3>9
    <2> QED BY <2>5, <2>6
  <1> QED BY <1>4, <1>5

\* A scan at the beginning of group g
LEMMA GroupBegins ==
    ASSUME layout \in Layouts, NEW g \in 0..(Groups - 1), NEW t, IsScan(t), t.open = TRUE,
           t.current = g * InodesPerGroup, t.group = g, t.inodes = InodesLeft(layout, g),
           t.blocks = BlocksLeft(layout, g), t.block = TableLoc(layout, g), t.buf = <<>>,
           AheadIs(t, g * BlocksPerGroup + 1), ~layout.warn => t.status = NoStatus
    PROVE  ScanOk(t)
  <1>1. PICK l \in 0..InodesPerGroup : l = InodesLeft(layout, g) BY LeftSizes
  <1>2. PICK b \in 0..BlocksPerGroup : b = BlocksLeft(layout, g) BY LeftSizes
  <1>3. l \in Nat /\ b \in Nat BY ScanSizes
  <1>4. Gone(t) = 0 /\ Gotten(t) = 0
    <2>1. Gone(t) = l - l BY <1>1 DEF Gone
    <2>2. Gotten(t) = b - b BY <1>2 DEF Gotten
    <2> QED BY <1>3, <2>1, <2>2
  <1>5. g * BlocksPerGroup \in Nat /\ g * InodesPerGroup \in Nat /\ g \in Nat BY ScanSizes, Times
  <1>6. Place(t) = g * BlocksPerGroup + 1 BY <1>4, <1>5 DEF Place
  <1>7. BufferBlocks \in Nat \ {0} /\ 0 % BufferBlocks = 0 BY ScanSizes
  <1>8. InGroup(t)
    <2>1. t.current = t.group * InodesPerGroup + Gone(t) BY <1>4, <1>5
    <2>2. t.block = IF t.group \in layout.missing THEN 0 ELSE Place(t) BY <1>6 DEF TableLoc
    <2>3. t.inodes \in 0..InodesLeft(layout, t.group) /\ t.blocks \in 0..BlocksLeft(layout, t.group)
      BY <1>1, <1>2, <1>3
    <2> QED BY <1>4, <1>7, <2>1, <2>2, <2>3 DEF InGroup
  <1>9. AheadRight(t) BY <1>6 DEF AheadRight
  <1>10. BufferRight(t)
    <2>1. Len(t.buf) = 0 OBVIOUS
    <2>2. Gotten(t) * InodesPerBlock - Gone(t) = 0 BY <1>4, ScanSizes
    <2>3. \A n \in 1..Len(t.buf) : HeldRight(t, n) BY <2>1
    <2>4. t.buf \in Seq({Seen(Start(i)) : i \in Inos} \cup {Seen(Zero)}) OBVIOUS
    <2> QED BY <2>1, <2>2, <2>3, <2>4 DEF BufferRight
  <1> QED BY <1>5, <1>8, <1>9, <1>10 DEF ScanOk

\* What bad_block_ptr knows of later blocks
LEMMA AheadLater ==
    ASSUME layout \in Layouts, NEW s, NEW p \in Nat, NEW q \in Nat, AheadIs(s, p), p <= q
    PROVE  AheadIs(s, q)
  <1>1. layout.bad \subseteq Nat /\ s.ahead \subseteq Nat BY BadsAreNumbers DEF AheadIs
  <1>2. \A S \in SUBSET Nat : Beyond(S, q) = {b \in Beyond(S, p) : b >= q}
    <2> TAKE S \in SUBSET Nat
    <2>1. \A x \in S : x >= q => x >= p OBVIOUS
    <2> QED BY <2>1 DEF Beyond
  <1>3. Beyond(layout.bad, q) = {b \in Beyond(layout.bad, p) : b >= q}
        /\ Beyond(s.ahead, q) = {b \in Beyond(s.ahead, p) : b >= q}
    BY <1>1, <1>2
  <1>4. CASE s.check BY <1>3, <1>4 DEF AheadIs
  <1>5. CASE ~s.check
    <2>1. Beyond(layout.bad, p) = {} BY <1>5 DEF AheadIs
    <2>2. Beyond(layout.bad, q) = {} BY <1>3, <2>1
    <2> QED BY <1>5, <2>2 DEF AheadIs
  <1> QED BY <1>4, <1>5

LEMMA PlaceIs ==
    ASSUME layout \in Layouts, NEW s, InGroup(s)
    PROVE  /\ Gone(s) \in 0..InodesPerGroup /\ Gotten(s) \in 0..BlocksPerGroup
           /\ s.inodes \in Nat /\ s.blocks \in Nat /\ s.current \in Nat
           /\ InodesLeft(layout, s.group) = Gone(s) + s.inodes
           /\ BlocksLeft(layout, s.group) = Gotten(s) + s.blocks
           /\ Place(s) \in Nat /\ Place(s) <= (s.group + 1) * BlocksPerGroup + 1
  <1>1. PICK g \in 0..(Groups - 1) : g = s.group BY DEF InGroup
  <1>2. PICK l \in 0..InodesPerGroup : l = InodesLeft(layout, g) BY LeftSizes
  <1>3. PICK b \in 0..BlocksPerGroup : b = BlocksLeft(layout, g) BY LeftSizes
  <1>4. l \in Nat /\ b \in Nat /\ InodesPerGroup \in Nat /\ BlocksPerGroup \in Nat /\ g \in Nat
    BY ScanSizes
  <1>5. s.inodes \in 0..l /\ s.blocks \in 0..b BY <1>1, <1>2, <1>3 DEF InGroup
  <1>6. Gone(s) = l - s.inodes /\ Gotten(s) = b - s.blocks BY <1>1, <1>2, <1>3 DEF Gone, Gotten
  <1>7. g * BlocksPerGroup \in Nat /\ (g + 1) * BlocksPerGroup = g * BlocksPerGroup + BlocksPerGroup
        /\ g * InodesPerGroup \in Nat
    BY <1>4, Times
  <1>8. s.current = g * InodesPerGroup + Gone(s) BY <1>1 DEF InGroup
  <1>9. Place(s) = g * BlocksPerGroup + 1 + Gotten(s) BY <1>1 DEF Place
  <1>10. Gone(s) \in 0..InodesPerGroup /\ Gotten(s) \in 0..BlocksPerGroup BY <1>4, <1>5, <1>6
  <1>11. Place(s) \in Nat /\ Place(s) <= (g + 1) * BlocksPerGroup + 1 BY <1>4, <1>7, <1>9, <1>10
  <1>12. s.current \in Nat BY <1>4, <1>7, <1>8, <1>10
  <1>13. l = Gone(s) + s.inodes /\ b = Gotten(s) + s.blocks BY <1>4, <1>5, <1>6
  <1> QED BY <1>1, <1>2, <1>3, <1>5, <1>10, <1>11, <1>12, <1>13

\* Where the inodes are that a scan has still to return
LEMMA LaterWanted ==
    ASSUME layout \in Layouts, NEW s, InGroup(s), NEW i \in Wanted, i > s.current
    PROVE  \E h \in s.group..(Groups - 1), n \in 0..(InodesPerGroup - 1) :
             /\ i = h * InodesPerGroup + n + 1 /\ ~Passed(h)
             /\ h = s.group => s.inodes > 0
  <1>1. i \in Inos BY DEF Wanted
  <1>2. PICK h \in 0..(Groups - 1), n \in 0..(InodesPerGroup - 1) : i = h * InodesPerGroup + n + 1
    BY <1>1, EachInode
  <1>3. ~Passed(h) /\ n < InodesLeft(layout, h) BY <1>2, WantedAt
  <1>4. PICK g \in 0..(Groups - 1) : g = s.group BY DEF InGroup
  <1>5. PICK u \in 0..InodesPerGroup : u = Gone(s) BY PlaceIs
  <1>6. s.current = g * InodesPerGroup + u BY <1>4, <1>5 DEF InGroup
  <1>7. g \in Nat /\ h \in Nat /\ InodesPerGroup \in Nat /\ n + 1 \in 0..InodesPerGroup /\ n \in Nat
    BY ScanSizes
  <1>8. g * InodesPerGroup \in Nat /\ h * InodesPerGroup \in Nat BY <1>7, Times
  <1>9. ~(h < g)
    <2>1. SUFFICES ASSUME h < g PROVE FALSE OBVIOUS
    <2>2. PICK m \in 0..InodesPerGroup : m = n + 1 BY <1>7
    <2>3. h * InodesPerGroup + m <= g * InodesPerGroup BY <1>7, <2>1, Apart
    <2> QED BY <1>2, <1>5, <1>6, <1>7, <1>8, <2>2, <2>3
  <1>10. ASSUME h = g PROVE s.inodes > 0
    <2>1. n + 1 > u
      <3>1. i = g * InodesPerGroup + n + 1 BY <1>2, <1>10
      <3> QED BY <1>5, <1>6, <1>7, <1>8, <3>1
    <2>2. n < u + s.inodes BY <1>3, <1>4, <1>5, <1>10, PlaceIs
    <2>3. s.inodes \in Nat BY PlaceIs
    <2> QED BY <1>5, <1>7, <2>1, <2>2, <2>3
  <1>11. h \in g..(Groups - 1) BY <1>7, <1>9, ScanSizes
  <1>12. h \in s.group..(Groups - 1) BY <1>4, <1>11
  <1>13. h = s.group => s.inodes > 0 BY <1>4, <1>10
  <1> QED BY <1>2, <1>3, <1>12, <1>13

\* The groups that ext2fs_get_next_inode_full goes over
LEMMA AtGroupOk ==
    ASSUME layout \in Layouts, NEW s, ScanOk(s), NEW t, t = AtGroup(s)
    PROVE  /\ ScanOk(t)
           /\ \/ t.group = Groups /\ \A i \in Wanted : i <= s.current
              \/ /\ InGroup(t) /\ AheadRight(t) /\ BufferRight(t)
                 /\ t.inodes > 0 /\ ~Passed(t.group) /\ s.current <= t.current
                 /\ \A i \in Wanted : i > s.current => i > t.current
  <1>1. CASE s.inodes > 0 /\ ~Passed(s.group)
    <2>1. t = s BY <1>1 DEF AtGroup
    <2>2. ~AtEnd(s) BY <1>1 DEF AtEnd
    <2>3. InGroup(s) /\ AheadRight(s) /\ BufferRight(s) BY <2>2 DEF ScanOk
    <2>4. s.current \in Nat BY DEF ScanOk
    <2> QED BY <1>1, <2>1, <2>3, <2>4
  <1>2. CASE ~(s.inodes > 0 /\ ~Passed(s.group))
    <2>1. PICK later : later = {g \in (s.group + 1)..(Groups - 1) : ~Passed(g)} OBVIOUS
    <2>2. t = IF later = {} THEN [s EXCEPT !.group = Groups, !.inodes = 0, !.buf = <<>>]
              ELSE NextGroup(s, CHOOSE g \in later : \A h \in later : g <= h)
      BY <1>2, <2>1 DEF AtGroup
    <2>3. IsScan(s) /\ s.open = TRUE /\ s.current \in Nat BY DEF ScanOk
    <2>4. ASSUME NEW i \in Wanted, i > s.current
          PROVE  \E h \in later, n \in 0..(InodesPerGroup - 1) : i = h * InodesPerGroup + n + 1
      <3>1. InGroup(s)
        <4>1. SUFFICES ASSUME AtEnd(s) PROVE FALSE BY DEF ScanOk
        <4>2. i <= s.current BY <4>1 DEF AtEnd
        <4>3. i \in Nat BY Sizes DEF Wanted
        <4> QED BY <2>3, <2>4, <4>2, <4>3
      <3>2. PICK h \in s.group..(Groups - 1), n \in 0..(InodesPerGroup - 1) :
              /\ i = h * InodesPerGroup + n + 1 /\ ~Passed(h)
              /\ h = s.group => s.inodes > 0
        BY <2>4, <3>1, LaterWanted
      <3>3. h # s.group BY <1>2, <3>2
      <3>4. s.group \in Nat BY <3>1 DEF InGroup
      <3>5. h \in (s.group + 1)..(Groups - 1) BY <3>2, <3>3, <3>4, ScanSizes
      <3> QED BY <2>1, <3>2, <3>5
    <2>5. CASE later = {}
      <3>1. t = [s EXCEPT !.group = Groups, !.inodes = 0, !.buf = <<>>] BY <2>2, <2>5
      <3>2. IsScan(t) /\ t.open = TRUE /\ t.current = s.current /\ t.group = Groups
            /\ t.inodes = 0 /\ t.buf = <<>>
        BY <2>3, <3>1 DEF IsScan
      <3>3. ASSUME NEW i \in Wanted PROVE i <= s.current
        <4>1. ~(i > s.current) BY <2>4, <2>5
        <4>2. i \in Nat BY Sizes DEF Wanted
        <4> QED BY <2>3, <4>1, <4>2
      <3>s. ~layout.warn => t.status = NoStatus
        <4>1. ~layout.warn => s.status = NoStatus BY DEF ScanOk, AtEnd, BufferRight
        <4>2. t.status = s.status BY <2>3, <3>1 DEF IsScan
        <4> QED BY <4>1, <4>2
      <3>4. AtEnd(t) BY <3>2, <3>3, <3>s DEF AtEnd
      <3> QED BY <2>3, <3>2, <3>3, <3>4 DEF ScanOk
    <2>6. CASE later # {}
      <3>0. s.group \in Nat
        <4>1. CASE AtEnd(s) BY <4>1, ScanSizes DEF AtEnd
        <4>2. CASE InGroup(s) BY <4>2 DEF InGroup
        <4> QED BY <4>1, <4>2 DEF ScanOk
      <3>1. InGroup(s) /\ AheadRight(s) /\ BufferRight(s)
        <4>1. SUFFICES ASSUME AtEnd(s) PROVE FALSE BY DEF ScanOk
        <4>2. s.group = Groups /\ Groups \in Nat BY <4>1, ScanSizes DEF AtEnd
        <4>3. (s.group + 1)..(Groups - 1) = {} BY <4>2
        <4> QED BY <2>1, <2>6, <4>3
      <3>2. later \in SUBSET Nat BY <2>1, <3>0, ScanSizes
      <3>3. PICK g \in later : g = (CHOOSE x \in later : \A h \in later : x <= h)
                               /\ \A h \in later : g <= h
        <4>1. \E x \in later : \A y \in later : x <= y BY <2>6, <3>2, Least
        <4> QED BY <4>1
      <3>4. t = NextGroup(s, g) BY <2>2, <2>6, <3>3
      <3>5. /\ IsScan(t) /\ t.open = TRUE /\ t.current = g * InodesPerGroup /\ t.group = g
            /\ t.inodes = InodesLeft(layout, g) /\ t.blocks = BlocksLeft(layout, g)
            /\ t.block = TableLoc(layout, g) /\ t.buf = <<>>
        BY <2>3, <3>4 DEF IsScan, NextGroup
      <3>6. t.ahead = s.ahead /\ t.check = s.check /\ t.status = s.status
        BY <2>3, <3>4 DEF IsScan, NextGroup
      <3>7. g \in 0..(Groups - 1) /\ s.group < g /\ ~Passed(g) /\ g \in Nat
        BY <2>1, <3>0, <3>2, <3>3, ScanSizes
      <3>8. AheadIs(t, g * BlocksPerGroup + 1)
        <4>1. PICK p \in Nat : p = Place(s) /\ p <= (s.group + 1) * BlocksPerGroup + 1
          BY <3>1, PlaceIs
        <4>2. PICK h \in Nat : h = s.group + 1 /\ h <= g BY <3>0, <3>7
        <4>3. h * BlocksPerGroup <= g * BlocksPerGroup /\ h * BlocksPerGroup \in Nat
              /\ g * BlocksPerGroup \in Nat
          BY <3>7, <4>2, Monotone, Times, ScanSizes
        <4>4. PICK q \in Nat : q = g * BlocksPerGroup + 1 BY <4>3
        <4>5. p <= q BY <4>1, <4>2, <4>3, <4>4
        <4>6. AheadIs(s, p) BY <3>1, <4>1 DEF AheadRight
        <4>7. AheadIs(s, q) BY <4>5, <4>6, AheadLater
        <4> QED BY <3>6, <4>4, <4>7 DEF AheadIs
      <3>9. ~layout.warn => t.status = NoStatus BY <3>1, <3>6 DEF BufferRight
      <3>10. ScanOk(t) BY <3>5, <3>7, <3>8, <3>9, GroupBegins
      <3>11. ~AtEnd(t) BY <3>5, <3>7, ScanSizes DEF AtEnd
      <3>12. InGroup(t) /\ AheadRight(t) /\ BufferRight(t) BY <3>10, <3>11 DEF ScanOk
      <3>13. t.inodes > 0
        <4>1. InodesLeft(layout, g) # 0 BY <3>7 DEF Passed
        <4>2. t.inodes \in Nat BY <3>12, PlaceIs
        <4> QED BY <3>5, <4>1, <4>2
      <3>14. ASSUME NEW i \in Wanted, i > s.current PROVE i > t.current
        <4>1. PICK h \in later, n \in 0..(InodesPerGroup - 1) : i = h * InodesPerGroup + n + 1
          BY <2>4, <3>14
        <4>2. h \in Nat /\ g <= h /\ n \in Nat BY <3>2, <3>3, <4>1, ScanSizes
        <4>3. g * InodesPerGroup <= h * InodesPerGroup /\ g * InodesPerGroup \in Nat
              /\ h * InodesPerGroup \in Nat
          BY <3>7, <4>2, Monotone, Times, ScanSizes
        <4> QED BY <3>5, <4>1, <4>2, <4>3
      <3>15. s.current <= t.current
        <4>1. PICK u \in 0..InodesPerGroup : u = Gone(s) BY <3>1, PlaceIs
        <4>2. s.current = s.group * InodesPerGroup + u BY <3>1, <4>1 DEF InGroup
        <4>3. s.group * InodesPerGroup + u <= g * InodesPerGroup BY <3>0, <3>7, Apart
        <4> QED BY <3>5, <4>2, <4>3
      <3> QED BY <3>5, <3>7, <3>10, <3>12, <3>13, <3>14, <3>15
    <2> QED BY <2>5, <2>6
  <1> QED BY <1>1, <1>2

\* The n-th inode of d blocks of group g, from its v-th block on
LEMMA InBuffer ==
    ASSUME NEW g \in 0..(Groups - 1), NEW v \in Nat, NEW d \in Nat, v + d <= BlocksPerGroup,
           NEW n \in 1..(d * InodesPerBlock),
           NEW i, i = g * InodesPerGroup + v * InodesPerBlock + n
    PROVE  \E k \in 0..(d - 1) :
             /\ i \in Inos /\ BlockOf(i) = g * BlocksPerGroup + 1 + v + k
             /\ ((i - 1) % InodesPerGroup) \div InodesPerBlock = v + k
             /\ k * InodesPerBlock < n /\ n <= (k + 1) * InodesPerBlock
  <1>1. PICK p, r, b \in Nat \ {0} : p = InodesPerGroup /\ r = InodesPerBlock /\ b = BlocksPerGroup
    BY ScanSizes
  <1>2. n \in 1..(d * r) /\ d * r \in Nat BY <1>1, Times
  <1>3. PICK y \in Nat : y = n - 1 /\ y < d * r BY <1>2
  <1>4. PICK k \in Nat, m \in 0..(r - 1) : y \div r = k /\ y % r = m /\ y = k * r + m /\ k * r \in Nat
    BY Division
  <1>5. k < d BY <1>3, <1>4, PieceOf
  <1>6. k * r < n /\ n <= (k + 1) * r
    <2>1. (k + 1) * r = k * r + r BY Times
    <2>2. n = k * r + m + 1 BY <1>2, <1>3, <1>4
    <2> QED BY <1>4, <2>1, <2>2
  <1>7. PICK w \in Nat : w = v + k BY <1>4
  <1>8. w * r = v * r + k * r /\ v * r \in Nat /\ w * r \in Nat BY <1>7, Times
  <1>9. PICK x \in Nat : x = w * r + m BY <1>8
  <1>10. x \div r = w BY <1>9, DivisionIs
  <1>11. x < p
    <2>1. w + 1 <= b BY <1>1, <1>5, <1>7
    <2>2. (w + 1) * r <= b * r /\ (w + 1) * r = w * r + r BY <2>1, Monotone, Times
    <2>3. p = b * r BY <1>1, ScanSizes
    <2> QED BY <1>8, <1>9, <2>2, <2>3
  <1>12. x \in 0..(InodesPerGroup - 1) BY <1>1, <1>11
  <1>13. i = g * InodesPerGroup + x + 1
    <2>1. PICK e \in Nat : e = g * InodesPerGroup
      <3>1. g \in Nat /\ InodesPerGroup \in Nat BY ScanSizes
      <3> QED BY <3>1, Times
    <2>2. PICK a, c \in Nat : a = v * r /\ c = k * r BY <1>4, <1>8
    <2>3. i = e + a + n BY <1>1, <2>1, <2>2
    <2>4. n = c + m + 1 BY <1>2, <1>3, <1>4, <2>2
    <2>5. x = a + c + m BY <1>8, <1>9, <2>2
    <2> QED BY <2>1, <2>2, <2>3, <2>4, <2>5
  <1>14. /\ i \in Inos /\ (i - 1) % InodesPerGroup = x
         /\ BlockOf(i) = g * BlocksPerGroup + 1 + (x \div InodesPerBlock)
    BY <1>12, <1>13, InodeAt
  <1>15. x \div InodesPerBlock = v + k BY <1>1, <1>7, <1>10
  <1>16. BlockOf(i) = g * BlocksPerGroup + 1 + v + k
    <2>1. PICK e \in Nat : e = g * BlocksPerGroup
      <3>1. g \in Nat /\ BlocksPerGroup \in Nat BY ScanSizes
      <3> QED BY <3>1, Times
    <2>2. BlockOf(i) = e + 1 + (v + k) BY <1>14, <1>15, <2>1
    <2> QED BY <1>4, <2>1, <2>2
  <1>17. ((i - 1) % InodesPerGroup) \div InodesPerBlock = v + k BY <1>14, <1>15
  <1>18. k \in 0..(d - 1) BY <1>4, <1>5
  <1>19. k * InodesPerBlock < n /\ n <= (k + 1) * InodesPerBlock BY <1>1, <1>6
  <1> QED BY <1>14, <1>16, <1>17, <1>18, <1>19

\* get_next_blocks
LEMMA FilledOk ==
    ASSUME SeenRight, layout \in Layouts, layout.warn => layout.bad = {},
           NEW s, IsScan(s), s.open = TRUE, InGroup(s), AheadRight(s), BufferRight(s),
           s.inodes > 0, ~Passed(s.group), s.block # 0, s.buf = <<>>, NEW f, f = Filled(s)
    PROVE  /\ IsScan(f) /\ f.open = TRUE /\ InGroup(f) /\ AheadRight(f) /\ BufferRight(f)
           /\ f.buf # <<>> /\ f.group = s.group /\ f.inodes = s.inodes /\ f.current = s.current
  <1>1. PICK p, r, b, B \in Nat \ {0} : /\ p = InodesPerGroup /\ r = InodesPerBlock
                                        /\ b = BlocksPerGroup /\ B = BufferBlocks
    BY ScanSizes
  <1>2. PICK g \in 0..(Groups - 1) : g = s.group BY DEF InGroup
  <1>3. PICK u, v, left, todo \in Nat : /\ u = Gone(s) /\ v = Gotten(s)
                                        /\ left = s.inodes /\ todo = s.blocks
    BY PlaceIs, ScanSizes, SMTT(30)
  <1>4. /\ InodesLeft(layout, g) = u + left /\ BlocksLeft(layout, g) = v + todo
        /\ v + todo <= b /\ u + left <= (v + todo) * r
    <2>1. InodesLeft(layout, g) = u + left /\ BlocksLeft(layout, g) = v + todo
      BY <1>2, <1>3, PlaceIs
    <2>2. /\ BlocksLeft(layout, g) \in 0..b
          /\ InodesLeft(layout, g) <= BlocksLeft(layout, g) * r
      BY <1>1, LeftSizes
    <2> QED BY <2>1, <2>2
  <1>5. u = v * r /\ v * r \in Nat
    <2>1. Len(s.buf) = 0 OBVIOUS
    <2>2. Len(s.buf) = v * r - u BY <1>1, <1>3 DEF BufferRight
    <2>3. v * r \in Nat BY Times
    <2> QED BY <1>3, <2>1, <2>2, <2>3, SMTT(30)
  <1>6. todo # 0
    <2>1. SUFFICES ASSUME todo = 0 PROVE FALSE OBVIOUS
    <2>2. u + left <= v * r BY <1>4, <2>1
    <2> QED BY <1>3, <1>5, <2>2
  <1>7. PICK P \in Nat : P = g * b + 1 + v /\ P = Place(s) /\ P = s.block /\ P >= 1
    <2>1. s.block = Place(s) BY DEF InGroup
    <2>2. Place(s) = g * b + 1 + v BY <1>1, <1>2, <1>3 DEF Place
    <2>3. g \in Nat /\ g * b \in Nat BY Times
    <2> QED BY <2>1, <2>2, <2>3
  <1>8. PICK w \in Nat \ {0} : w = (IF s.blocks < BufferBlocks THEN s.blocks ELSE BufferBlocks)
                               /\ w <= todo /\ w <= B /\ (w = todo \/ w = B)
    BY <1>1, <1>3, <1>6
  <1>9. PICK c : c = BadChecked(s, w) OBVIOUS
  <1>10. /\ c.n \in 1..w /\ SameBut(s, c.s) /\ AheadIs(c.s, P + c.n)
         /\ \A x \in P..(P + c.n - 1) : c.s.bad <=> x \in layout.bad
         /\ layout.bad = {} => c.n = w
    <2>1. s.block = P /\ AheadIs(s, P) BY <1>7 DEF AheadRight
    <2> QED BY <1>9, <2>1, BadCheckedOk
  <1>11. PICK d \in 1..w : d = c.n BY <1>10
  <1>12. d \in Nat /\ d >= 1 /\ d <= todo /\ d <= B /\ v + d <= b BY <1>4, <1>8, <1>11, SMTT(30)
  <1>13. PICK e : e = c.s OBVIOUS
  <1>14. PICK inodes : inodes = [n \in 1..(c.n * InodesPerBlock) |->
                          Seen(IF c.s.bad THEN Zero ELSE dev[(s.block - 1) * InodesPerBlock + n])]
    OBVIOUS
  <1>15. f = [e EXCEPT !.buf = inodes, !.status = Checked(s, inodes), !.blocks = @ - d, !.block = @ + d]
    BY <1>8, <1>9, <1>11, <1>13, <1>14 DEF Filled
  <1>16. /\ IsScan(e) /\ e.open = TRUE /\ e.current = s.current /\ e.group = g
         /\ e.inodes = left /\ e.blocks = todo /\ e.block = P /\ e.status = s.status
    BY <1>2, <1>3, <1>7, <1>10, <1>13 DEF SameBut
  <1>17. /\ IsScan(f) /\ f.open = TRUE /\ f.current = s.current /\ f.group = g /\ f.inodes = left
         /\ f.blocks = todo - d /\ f.block = P + d /\ f.buf = inodes /\ f.status = Checked(s, inodes)
         /\ f.ahead = e.ahead /\ f.check = e.check /\ f.bad = e.bad
    <2> HIDE <1>10
    <2> QED BY <1>15, <1>16, ZenonT(30) DEF IsScan
  <1>18. Gone(f) = u /\ Gotten(f) = v + d
    <2>1. Gone(f) = (u + left) - left BY <1>4, <1>17 DEF Gone
    <2>2. Gotten(f) = (v + todo) - (todo - d) BY <1>4, <1>17 DEF Gotten
    <2> QED BY <1>12, <2>1, <2>2, SMTT(30)
  <1>19. Place(f) = P + d
    <2>1. g \in Nat /\ g * b \in Nat BY Times
    <2>2. Place(f) = g * b + 1 + (v + d) BY <1>1, <1>17, <1>18 DEF Place
    <2> QED BY <1>7, <1>12, <2>1, <2>2, SMTT(30)
  <1>20. AheadRight(f)
    <2>1. AheadIs(e, P + d) BY <1>10, <1>11, <1>13
    <2>2. AheadIs(f, P + d) BY <1>17, <2>1 DEF AheadIs
    <2> QED BY <1>19, <2>2 DEF AheadRight
  \* the first inode of the buffer
  <1>21. s.current = g * p + v * r BY <1>1, <1>2, <1>3, <1>5 DEF InGroup
  <1>22. g * p \in Nat /\ g * p + v * r = (P - 1) * r
    <2>1. g \in Nat /\ g * b \in Nat /\ g * p \in Nat BY Times
    <2>2. g * p = (g * b) * r
      <3>1. p = b * r BY <1>1, ScanSizes
      <3> QED BY <2>1, <3>1
    <2>3. P - 1 = g * b + v BY <1>7, <2>1
    <2>4. (g * b + v) * r = (g * b) * r + v * r BY <2>1, Times
    <2> QED BY <2>1, <2>2, <2>3, <2>4
  <1>23. d * r \in Nat /\ d * r >= 1
    <2>1. 1 * r <= d * r BY <1>12, Monotone
    <2>2. d * r \in Nat BY <1>12, Times
    <2> QED BY <2>1, <2>2
  <1>24. ASSUME NEW n \in 1..(d * r)
         PROVE  inodes[n] = IF e.bad THEN Seen(Zero) ELSE Seen(dev[s.current + n])
    <2>1. (P - 1) * r + n = s.current + n BY <1>21, <1>22
    <2>2. n \in 1..(c.n * InodesPerBlock) BY <1>1, <1>11
    <2>3. inodes[n] = Seen(IF e.bad THEN Zero ELSE dev[(P - 1) * r + n])
      BY <1>1, <1>7, <1>13, <1>14, <2>2
    <2> QED BY <2>1, <2>3
  <1>25. inodes = [n \in 1..(d * r) |-> inodes[n]] /\ Len(inodes) = d * r
    <2>1. inodes = [n \in 1..(d * r) |->
                      Seen(IF c.s.bad THEN Zero ELSE dev[(s.block - 1) * InodesPerBlock + n])]
      BY <1>1, <1>11, <1>14
    <2>2. inodes = [n \in 1..(d * r) |-> inodes[n]] BY <2>1
    <2>3. DOMAIN inodes = 1..(d * r) BY <2>2
    <2>4. inodes \in Seq({inodes[n] : n \in 1..(d * r)})
      <3>1. PICK x \in Nat : x = d * r BY <1>23
      <3>2. PICK S : S = {inodes[n] : n \in 1..x} OBVIOUS
      <3>3. inodes \in [1..x -> S] BY <2>2, <3>1, <3>2, Zenon
      <3>4. inodes \in Seq(S) BY <3>3
      <3> QED BY <3>1, <3>2, <3>4
    <2>5. Len(inodes) \in Nat /\ DOMAIN inodes = 1..Len(inodes) BY <2>4, LenProperties
    <2> QED BY <1>23, <2>2, <2>3, <2>5
  <1>26. ASSUME NEW n \in 1..(d * r), NEW i, i = s.current + n
         PROVE  \E k \in 0..(d - 1) :
                  /\ i \in Inos /\ BlockOf(i) = P + k
                  /\ ((i - 1) % InodesPerGroup) \div InodesPerBlock = v + k
                  /\ k * r < n /\ n <= (k + 1) * r
    <2>1. i = g * InodesPerGroup + v * InodesPerBlock + n BY <1>1, <1>21, <1>26
    <2>2. n \in 1..(d * InodesPerBlock) /\ v + d <= BlocksPerGroup BY <1>1, <1>12
    <2>3. PICK k \in 0..(d - 1) :
            /\ i \in Inos /\ BlockOf(i) = g * BlocksPerGroup + 1 + v + k
            /\ ((i - 1) % InodesPerGroup) \div InodesPerBlock = v + k
            /\ k * InodesPerBlock < n /\ n <= (k + 1) * InodesPerBlock
      BY <1>12, <2>1, <2>2, InBuffer
    <2>4. BlockOf(i) = P + k BY <1>1, <1>7, <2>3
    <2>5. k * r < n /\ n <= (k + 1) * r BY <1>1, <2>3
    <2> QED BY <2>3, <2>4, <2>5
  <1>27. ASSUME NEW n \in 1..(d * r)
         PROVE  /\ e.bad <=> BlockOf(s.current + n) \in layout.bad
                /\ ~e.bad => inodes[n] = Seen(Start(s.current + n))
                /\ s.current + n \in Inos
    <2>1. PICK i : i = s.current + n OBVIOUS
    <2>2. PICK k \in 0..(d - 1) : i \in Inos /\ BlockOf(i) = P + k BY <1>26, <2>1
    <2>3. P + k \in P..(P + d - 1) BY <1>12, <2>2, SMTT(30)
    <2>4. e.bad <=> P + k \in layout.bad BY <1>10, <1>11, <1>13, <2>3
    <2>5. Seen(dev[i]) = Seen(Start(i)) BY <2>2 DEF SeenRight
    <2> QED BY <1>24, <2>1, <2>2, <2>4, <2>5
  <1>28. layout.warn => v % B = 0 /\ d = w /\ ~e.bad
    <2>1. SUFFICES ASSUME layout.warn PROVE v % B = 0 /\ d = w /\ ~e.bad OBVIOUS
    <2>2. layout.bad = {} BY <2>1
    <2>3. v % B = 0 BY <1>1, <1>3, <1>6, <2>1 DEF InGroup
    <2>4. 1 \in 1..(d * r) BY <1>23
    <2>5. ~e.bad BY <1>27, <2>2, <2>4
    <2> QED BY <1>10, <1>11, <2>2, <2>3, <2>5
  <1>29. InGroup(f)
    <2>1. f.group \in 0..(Groups - 1) /\ f.inodes \in 0..InodesLeft(layout, f.group)
      BY <1>3, <1>4, <1>17, SMTT(30)
    <2>2. f.blocks \in 0..BlocksLeft(layout, f.group)
      <3>1. todo - d \in 0..(v + todo) BY <1>3, <1>12, SMTT(30)
      <3> QED BY <1>4, <1>17, <3>1
    <2>3. f.current = f.group * InodesPerGroup + Gone(f)
      BY <1>1, <1>5, <1>17, <1>18, <1>21
    <2>4. g \notin layout.missing BY <1>2 DEF InGroup
    <2>5. f.block = IF f.group \in layout.missing THEN 0 ELSE Place(f) BY <1>17, <1>19, <2>4
    <2>6. layout.warn => Gotten(f) % BufferBlocks = 0 \/ f.blocks = 0
      <3>1. SUFFICES ASSUME layout.warn PROVE (v + d) % B = 0 \/ todo - d = 0
        BY <1>1, <1>17, <1>18
      <3>2. d = todo \/ d = B BY <1>8, <1>28, <3>1
      <3>3. CASE d = todo BY <3>3
      <3>4. CASE d = B
        <4>1. PICK q \in Nat, m \in 0..(B - 1) : v \div B = q /\ v % B = m /\ v = q * B + m /\ q * B \in Nat
          BY Division
        <4>2. v = q * B BY <1>28, <3>1, <4>1
        <4>3. v + d = (q + 1) * B + 0
          <5>1. (q + 1) * B = q * B + B BY Times
          <5> QED BY <3>4, <4>1, <4>2, <5>1
        <4>4. PICK z, y \in Nat : z = v + d /\ y = q + 1 BY <1>12, <4>1
        <4>5. z = y * B + 0 /\ 0 \in 0..(B - 1) BY <4>3, <4>4
        <4>6. z % B = 0 BY <4>5, DivisionIs
        <4> QED BY <4>4, <4>6
      <3> QED BY <3>2, <3>3, <3>4
    <2>7. f.group \in layout.missing => Gone(f) = 0 /\ Gotten(f) = 0 BY <1>17, <2>4
    <2> QED BY <2>1, <2>2, <2>3, <2>5, <2>6, <2>7 DEF InGroup
  <1>30. ASSUME NEW n \in 1..(d * r), n <= left
         PROVE  MarksRight(Marks(f, s.current + n), s.current + n)
    <2>1. PICK i : i = s.current + n OBVIOUS
    <2>2. PICK k \in 0..(d - 1) :
            /\ ((i - 1) % InodesPerGroup) \div InodesPerBlock = v + k
            /\ k * r < n /\ n <= (k + 1) * r
      BY <1>26, <2>1
    <2>3. Marks(f, i) = f.status[(v + k) % B] BY <1>1, <2>2 DEF Marks
    <2>4. CASE layout.warn
      <3>1. (v + k) % B = k
        <4>1. PICK q \in Nat, m \in 0..(B - 1) : v \div B = q /\ v % B = m /\ v = q * B + m /\ q * B \in Nat
          BY Division
        <4>2. v = q * B BY <1>28, <2>4, <4>1
        <4>3. v + k = q * B + k /\ v + k \in Nat BY <1>12, <4>2
        <4>4. k \in 0..(B - 1) BY <1>12
        <4> QED BY <4>3, <4>4, DivisionIs
      <3>2. k \in 0..(BufferBlocks - 1) BY <1>1, <1>12
      <3>3. Marks(f, i) = BlockStatus(s, inodes, k)
        <4>1. f.status = [j \in 0..(BufferBlocks - 1) |-> BlockStatus(s, inodes, j)]
          BY <1>17, <2>4 DEF Checked
        <4> QED BY <2>3, <3>1, <3>2, <4>1
      <3>4. /\ s.inodes = InodesLeft(layout, g) - v * InodesPerBlock
            /\ s.current = g * InodesPerGroup + v * InodesPerBlock
        <4>1. PICK z \in Nat : z = v * r BY <1>5
        <4>2. InodesLeft(layout, g) = z + left /\ s.inodes = left BY <1>3, <1>4, <1>5, <4>1
        <4>3. s.inodes = InodesLeft(layout, g) - z BY <4>2
        <4>4. v * InodesPerBlock = z /\ g * InodesPerGroup = g * p BY <1>1, <4>1
        <4> QED BY <1>21, <4>1, <4>3, <4>4
      <3>5. \A m \in 1..(d * InodesPerBlock) : inodes[m] = Seen(Start(s.current + m))
        BY <1>1, <1>27, <1>28, <2>4
      <3>6. /\ n \in Nat /\ k * InodesPerBlock < n /\ n <= (k + 1) * InodesPerBlock /\ n <= s.inodes
            /\ Len(inodes) = d * InodesPerBlock /\ v + d <= BlocksPerGroup
        BY <1>1, <1>3, <1>12, <1>23, <1>25, <1>30, <2>2, SMTT(30)
      <3>7. ~Passed(g) /\ d \in Nat BY <1>2, <1>12
      <3>8. MarksRight(BlockStatus(s, inodes, k), s.current + n)
        BY <2>4, <3>4, <3>5, <3>6, <3>7, StatusRight
      <3> QED BY <2>1, <3>3, <3>8
    <2>5. CASE ~layout.warn
      <3>1. f.status = NoStatus BY <1>17, <2>5 DEF Checked, BufferRight
      <3>2. (v + k) % B \in 0..(BufferBlocks - 1)
        <4>1. v + k \in Nat BY <1>12
        <4> QED BY <1>1, <4>1
      <3>3. Marks(f, i) = {} BY <2>3, <3>1, <3>2 DEF NoStatus
      <3> QED BY <2>1, <2>5, <3>3 DEF MarksRight
    <2> QED BY <2>4, <2>5
  <1>31. BufferRight(f)
    <2>1. Len(f.buf) = Gotten(f) * InodesPerBlock - Gone(f)
      <3>1. (v + d) * r = v * r + d * r BY <1>12, Times
      <3>2. PICK x, y \in Nat : x = v * r /\ y = d * r BY <1>5, <1>23
      <3>3. (x + y) - x = y OBVIOUS
      <3>4. Gotten(f) * InodesPerBlock = (v + d) * r /\ Gone(f) = x BY <1>1, <1>5, <1>18, <3>2
      <3> QED BY <1>17, <1>25, <3>1, <3>2, <3>3, <3>4
    <2>2. ASSUME NEW n \in 1..Len(f.buf) PROVE HeldRight(f, n)
      <3>1. n \in 1..(d * r) BY <1>17, <1>25
      <3> QED BY <1>17, <1>27, <1>30, <3>1 DEF HeldRight
    <2>3. f.buf \in Seq({Seen(Start(i)) : i \in Inos} \cup {Seen(Zero)})
      <3> DEFINE U == {Seen(Start(i)) : i \in Inos} \cup {Seen(Zero)}
      <3>1. \A n \in 1..(d * r) : inodes[n] \in U BY <1>24, <1>27
      <3> HIDE DEF U
      <3>2. inodes \in [1..(d * r) -> U] BY <1>25, <3>1
      <3>3. inodes \in Seq(U) BY <1>23, <3>2
      <3> QED BY <1>17, <3>3 DEF U
    <2>4. ~layout.warn => f.status = NoStatus BY <1>17 DEF Checked, BufferRight
    <2> QED BY <2>1, <2>2, <2>3, <2>4 DEF BufferRight
  <1>32. f.buf # <<>>
    <2>1. Len(<<>>) = 0 OBVIOUS
    <2> QED BY <1>17, <1>23, <1>25, <2>1
  <1> QED BY <1>2, <1>3, <1>17, <1>20, <1>29, <1>31, <1>32

\* The next inode of the group
LEMMA NextWanted ==
    ASSUME layout \in Layouts, NEW s, InGroup(s), s.inodes > 0, ~Passed(s.group)
    PROVE  /\ s.current + 1 \in Wanted /\ s.current + 1 \in Inos
           /\ GroupOf(s.current + 1) = s.group
  <1>1. PICK g \in 0..(Groups - 1) : g = s.group BY DEF InGroup
  <1>2. PICK u, l \in Nat : u = Gone(s) /\ l = s.inodes BY PlaceIs, ScanSizes
  <1>3. InodesLeft(layout, g) = u + l BY <1>1, <1>2, PlaceIs
  <1>4. u + l \in 0..InodesPerGroup BY <1>3, LeftSizes
  <1>5. u \in 0..(InodesPerGroup - 1) BY <1>2, <1>4, ScanSizes
  <1>6. PICK i : i = s.current + 1 OBVIOUS
  <1>7. i = g * InodesPerGroup + u + 1 BY <1>1, <1>2, <1>6 DEF InGroup
  <1>8. i \in Inos /\ GroupOf(i) = g BY <1>5, <1>7, InodeAt
  <1>9. u < InodesLeft(layout, g) BY <1>2, <1>3
  <1>10. ~Passed(g) BY <1>1
  <1>11. i \in Wanted BY <1>5, <1>7, <1>9, <1>10, WantedAt
  <1> QED BY <1>1, <1>6, <1>8, <1>11

LEMMA VerdictRight ==
    ASSUME layout \in Layouts, NEW f, InGroup(f), BufferRight(f), f.inodes > 0, ~Passed(f.group),
           f.group \notin layout.missing, f.buf # <<>>
    PROVE  Verdict(f) = Truth(f.current + 1)
  <1>1. PICK i : i = f.current + 1 OBVIOUS
  <1>2. i \in Inos /\ GroupOf(i) = f.group /\ f.current \in Nat BY <1>1, NextWanted, PlaceIs
  <1>3. i - 1 = f.current BY <1>1, <1>2
  <1>4. PICK st : st = f.status[StatusAt(f)] OBVIOUS
  <1>5. st = Marks(f, i) BY <1>3, <1>4 DEF StatusAt, Marks
  <1>6. Len(f.buf) \in Nat /\ Len(f.buf) # 0 /\ Head(f.buf) = f.buf[1]
    <2>1. PICK S : f.buf \in Seq(S) BY DEF BufferRight
    <2>2. f.buf # <<>> OBVIOUS
    <2> QED BY <2>1, <2>2, EmptySeq, LenProperties
  <1>7. HeldRight(f, 1)
    <2>1. 1 \in 1..Len(f.buf) BY <1>6
    <2> QED BY <2>1 DEF BufferRight
  <1>8. 1 <= f.inodes
    <2>1. f.inodes \in Nat BY PlaceIs
    <2> QED BY <2>1
  <1>9. /\ f.bad <=> BlockOf(i) \in layout.bad
        /\ ~f.bad => f.buf[1] = Seen(Start(i))
        /\ MarksRight(st, i)
    BY <1>1, <1>5, <1>7, <1>8 DEF HeldRight
  <1>10. GroupOf(i) \notin layout.missing BY <1>2
  <1>11. CASE f.bad
    <2>1. Verdict(f) = "bad_block" BY <1>11 DEF Verdict
    <2>2. Truth(i) = "bad_block" BY <1>9, <1>10, <1>11 DEF Truth
    <2> QED BY <1>1, <2>1, <2>2
  <1>12. CASE ~f.bad
    <2>1. PICK ret : ret = IF ~("csums_ok" \in st) /\ ~Head(f.buf).sum THEN "csum" ELSE "ok" OBVIOUS
    <2>2. Verdict(f) = IF "insane" \in st /\ ret # "bad_block" THEN "garbage" ELSE ret
      BY <1>4, <1>12, <2>1 DEF Verdict
    <2>3. Head(f.buf).sum = (i \notin Damaged) BY <1>6, <1>9, <1>12, SeenIs
    <2>4. "csums_ok" \in st => i \notin Damaged BY <1>9 DEF MarksRight
    <2>5. ret = IF i \in Damaged THEN "csum" ELSE "ok" BY <2>1, <2>3, <2>4
    <2>6. "insane" \in st <=> (layout.warn /\ Garbage(i)) BY <1>9 DEF MarksRight
    <2>7. Truth(i) = IF layout.warn /\ Garbage(i) THEN "garbage" ELSE ret
      BY <1>9, <1>10, <1>12, <2>5 DEF Truth
    <2>8. ret # "bad_block" BY <2>5
    <2>9. Verdict(f) = Truth(i)
      <3>1. CASE "insane" \in st BY <2>2, <2>6, <2>7, <2>8, <3>1
      <3>2. CASE "insane" \notin st BY <2>2, <2>6, <2>7, <3>2
      <3> QED BY <3>1, <3>2
    <2> QED BY <1>1, <2>9
  <1> QED BY <1>11, <1>12

\* An inode is returned
LEMMA ReturnedOk ==
    ASSUME layout \in Layouts, NEW f, IsScan(f), f.open = TRUE, InGroup(f), AheadRight(f),
           BufferRight(f), f.inodes > 0, f.buf # <<>>,
           NEW t, t = [f EXCEPT !.buf = Tail(@), !.inodes = @ - 1, !.current = @ + 1]
    PROVE  ScanOk(t)
  <1>1. /\ IsScan(t) /\ t.open = TRUE /\ t.current = f.current + 1 /\ t.group = f.group
        /\ t.inodes = f.inodes - 1 /\ t.blocks = f.blocks /\ t.block = f.block /\ t.ahead = f.ahead
        /\ t.check = f.check /\ t.bad = f.bad /\ t.buf = Tail(f.buf) /\ t.status = f.status
    BY DEF IsScan
  <1>2. PICK u, v, l, b, c \in Nat : /\ u = Gone(f) /\ v = Gotten(f) /\ l = f.inodes /\ b = f.blocks
                                     /\ c = f.current
    <2>1. Gone(f) \in 0..InodesPerGroup /\ Gotten(f) \in 0..BlocksPerGroup BY PlaceIs
    <2>2. InodesPerGroup \in Nat /\ BlocksPerGroup \in Nat BY ScanSizes
    <2>3. Gone(f) \in Nat /\ Gotten(f) \in Nat BY <2>1, <2>2
    <2>4. f.inodes \in Nat /\ f.blocks \in Nat /\ f.current \in Nat BY PlaceIs
    <2> QED BY <2>3, <2>4
  <1>3. PICK g \in 0..(Groups - 1) : g = f.group BY DEF InGroup
  <1>4. InodesLeft(layout, g) = u + l /\ BlocksLeft(layout, g) = v + b BY <1>2, <1>3, PlaceIs
  <1>5. Gone(t) = u + 1 /\ Gotten(t) = v
    <2>1. Gone(t) = (u + l) - (l - 1) BY <1>1, <1>2, <1>3, <1>4 DEF Gone
    <2>2. Gotten(t) = (v + b) - b BY <1>1, <1>2, <1>3, <1>4 DEF Gotten
    <2> QED BY <2>1, <2>2
  <1>6. Place(t) = Place(f) BY <1>1, <1>2, <1>5 DEF Place
  <1>7. PICK k \in Nat : k = Len(f.buf) /\ k # 0 /\ Len(t.buf) = k - 1
                         /\ \A n \in 1..(k - 1) : t.buf[n] = f.buf[n + 1]
    <2>1. PICK S : f.buf \in Seq(S) BY DEF BufferRight
    <2>2. f.buf # <<>> OBVIOUS
    <2>3. PICK k \in Nat : k = Len(f.buf) /\ k # 0 BY <2>1, <2>2, EmptySeq, LenProperties
    <2>4. Len(Tail(f.buf)) = k - 1 /\ \A n \in 1..(k - 1) : Tail(f.buf)[n] = f.buf[n + 1]
      BY <2>1, <2>2, <2>3, HeadTailProperties
    <2> QED BY <1>1, <2>3, <2>4, SMTT(30)
  <1>8. PICK r \in Nat \ {0} : r = InodesPerBlock BY ScanSizes
  <1>9. k = v * r - u BY <1>2, <1>7, <1>8 DEF BufferRight
  <1>10. f.group \notin layout.missing
    <2>1. SUFFICES ASSUME f.group \in layout.missing PROVE FALSE OBVIOUS
    <2>2. u = 0 /\ v = 0 BY <1>2, <2>1 DEF InGroup
    <2>3. 0 * r - 0 = 0 OBVIOUS
    <2> QED BY <1>7, <1>9, <2>2, <2>3
  <1>11. InGroup(t)
    <2>1. t.inodes \in 0..InodesLeft(layout, t.group)
      <3>1. l - 1 \in 0..(u + l) BY <1>2, SMTT(30)
      <3> QED BY <1>1, <1>2, <1>3, <1>4, <3>1
    <2>2. t.current = t.group * InodesPerGroup + Gone(t)
      <3>a. PICK p \in Nat : p = InodesPerGroup BY ScanSizes
      <3>b. g \in Nat BY ScanSizes
      <3>c. g * p \in Nat BY <3>a, <3>b, Times
      <3>1. PICK e \in Nat : e = g * InodesPerGroup BY <3>a, <3>c
      <3>2. c = e + u BY <1>2, <1>3, <3>1 DEF InGroup
      <3>3. c + 1 = e + (u + 1) BY <1>2, <3>1, <3>2
      <3> QED BY <1>1, <1>2, <1>3, <1>5, <3>1, <3>3
    <2>3. t.block = IF t.group \in layout.missing THEN 0 ELSE Place(t) BY <1>1, <1>6 DEF InGroup
    <2>4. layout.warn => Gotten(t) % BufferBlocks = 0 \/ t.blocks = 0 BY <1>1, <1>2, <1>5 DEF InGroup
    <2>5. t.group \in 0..(Groups - 1) /\ t.blocks \in 0..BlocksLeft(layout, t.group)
      BY <1>1 DEF InGroup
    <2>6. t.group \notin layout.missing BY <1>1, <1>10
    <2> QED BY <2>1, <2>2, <2>3, <2>4, <2>5, <2>6 DEF InGroup
  <1>12. AheadRight(t) BY <1>1, <1>6 DEF AheadRight, AheadIs
  <1>13. ASSUME NEW n \in 1..(k - 1) PROVE HeldRight(t, n)
    <2>1. n + 1 \in 1..k BY <1>7, SMTT(30)
    <2>2. HeldRight(f, n + 1) BY <1>7, <2>1 DEF BufferRight
    <2>n. n \in Nat BY <1>7
    <2>c. t.current = c + 1 /\ f.current = c BY <1>1, <1>2
    <2>d. (c + 1) + n = c + (n + 1) BY <2>n
    <2>3. t.current + n = f.current + (n + 1) BY <2>c, <2>d
    <2>4. PICK i : i = t.current + n OBVIOUS
    <2>5. /\ f.bad <=> BlockOf(i) \in layout.bad
          /\ ~f.bad => f.buf[n + 1] = Seen(Start(i))
          /\ n + 1 <= f.inodes => MarksRight(Marks(f, i), i)
      BY <2>2, <2>3, <2>4 DEF HeldRight
    <2>6. Marks(t, i) = Marks(f, i) BY <1>1 DEF Marks
    <2>7. n <= t.inodes <=> n + 1 <= f.inodes BY <1>1, <1>2, SMTT(30)
    <2> QED BY <1>1, <1>7, <2>4, <2>5, <2>6, <2>7 DEF HeldRight
  <1>14. BufferRight(t)
    <2>1. Len(t.buf) = Gotten(t) * InodesPerBlock - Gone(t)
      <3>1. v * r \in Nat BY Times
      <3> QED BY <1>2, <1>5, <1>7, <1>8, <1>9, <3>1
    <2>2. \A n \in 1..Len(t.buf) : HeldRight(t, n) BY <1>7, <1>13
    <2>3. PICK S : S = {Seen(Start(i)) : i \in Inos} \cup {Seen(Zero)} OBVIOUS
    <2>4. f.buf \in Seq(S) /\ f.buf # <<>> BY <2>3 DEF BufferRight
    <2>5. t.buf \in Seq(S) BY <1>1, <2>4, HeadTailProperties
    <2>6. ~layout.warn => t.status = NoStatus BY <1>1 DEF BufferRight
    <2> QED BY <2>1, <2>2, <2>3, <2>5, <2>6 DEF BufferRight
  <1>15. t.current \in Nat BY <1>1, <1>2
  <1> QED BY <1>1, <1>11, <1>12, <1>14, <1>15 DEF ScanOk

\* ext2fs_get_next_inode_full
LEMMA NextInodeOk ==
    ASSUME SeenRight, layout \in Layouts, layout.warn => layout.bad = {}, ScanOk(scan), NextInode,
           NEW ahead, ahead = {i \in Wanted : i > scan.current}
    PROVE  /\ ScanOk(scan')
           /\ IF ahead = {} THEN answer'.ret = "end"
              ELSE /\ answer'.ret = Truth(Smallest(ahead))
                   /\ answer'.ino \in {0, Smallest(ahead)}
  <1>1. PICK s : s = AtGroup(scan) OBVIOUS
  <1>2. PICK f : f = IF s.buf = <<>> THEN Filled(s) ELSE s OBVIOUS
  <1>3. IF s.group = Groups
        THEN scan' = s /\ answer' = Scanned("end", 0)
        ELSE IF s.block = 0
        THEN scan' = s /\ answer' = Scanned("missing_table", 0)
        ELSE /\ scan' = [f EXCEPT !.buf = Tail(@), !.inodes = @ - 1, !.current = @ + 1]
             /\ answer' = Scanned(Verdict(f), f.current + 1)
    BY <1>1, <1>2 DEF NextInode
  <1>4. \A r, i : Scanned(r, i).ret = r /\ Scanned(r, i).ino = i BY DEF Scanned
  <1>5. /\ ScanOk(s)
        /\ \/ s.group = Groups /\ \A i \in Wanted : i <= scan.current
           \/ /\ InGroup(s) /\ AheadRight(s) /\ BufferRight(s)
              /\ s.inodes > 0 /\ ~Passed(s.group) /\ scan.current <= s.current
              /\ \A i \in Wanted : i > scan.current => i > s.current
    BY <1>1, AtGroupOk
  <1>6. Wanted \subseteq Nat /\ ahead \subseteq Wanted BY Sizes DEF Wanted
  <1>7. scan.current \in Nat BY DEF ScanOk
  <1>8. CASE s.group = Groups
    <2>1. ~InGroup(s) BY <1>8, ScanSizes DEF InGroup
    <2>2. \A i \in Wanted : i <= scan.current BY <1>5, <2>1
    <2>3. ASSUME NEW i \in ahead PROVE FALSE
      <3>1. i \in Wanted /\ i > scan.current OBVIOUS
      <3>2. i \in Nat /\ i <= scan.current BY <1>6, <2>2, <3>1
      <3> QED BY <1>7, <3>1, <3>2
    <2>4. ahead = {} BY <2>3
    <2> QED BY <1>3, <1>4, <1>5, <1>8, <2>4
  <1>9. CASE s.group # Groups
    <2>1. /\ InGroup(s) /\ AheadRight(s) /\ BufferRight(s)
          /\ s.inodes > 0 /\ ~Passed(s.group) /\ scan.current <= s.current
          /\ \A i \in Wanted : i > scan.current => i > s.current
      BY <1>5, <1>9
    <2>2. PICK i : i = s.current + 1 OBVIOUS
    <2>3. i \in Wanted /\ GroupOf(i) = s.group BY <1>5, <2>1, <2>2, NextWanted
    <2>4. s.current \in Nat BY <2>1, PlaceIs
    <2>5. i \in ahead /\ \A j \in ahead : i <= j
      <3>1. i > scan.current BY <1>7, <2>1, <2>2, <2>4
      <3>2. ASSUME NEW j \in ahead PROVE i <= j
        <4>1. j > s.current /\ j \in Nat BY <1>6, <2>1
        <4> QED BY <2>2, <2>4, <4>1
      <3> QED BY <2>3, <3>1, <3>2
    <2>6. Smallest(ahead) = i /\ ahead # {} BY <1>6, <2>5, SmallestOf
    <2>7. IsScan(s) /\ s.open = TRUE BY <1>5 DEF ScanOk
    <2>8. CASE s.block = 0
      <3>1. s.group \in layout.missing
        <4>1. PICK g, v \in Nat : g = s.group /\ v = Gotten(s) BY <2>1, PlaceIs, ScanSizes, SMTT(30) DEF InGroup
        <4>2. g * BlocksPerGroup \in Nat BY <4>1, ScanSizes, Times
        <4>3. Place(s) # 0 BY <4>1, <4>2 DEF Place
        <4> QED BY <2>1, <2>8, <4>3 DEF InGroup
      <3>2. Truth(i) = "missing_table" BY <2>3, <3>1 DEF Truth
      <3>3. answer'.ret = "missing_table" /\ answer'.ino = 0 /\ scan' = s BY <1>3, <1>4, <1>9, <2>8
      <3> QED BY <1>5, <2>6, <3>2, <3>3
    <2>9. CASE s.block # 0
      <3>1. s.group \notin layout.missing BY <2>1, <2>9 DEF InGroup
      <3>2. /\ IsScan(f) /\ f.open = TRUE /\ InGroup(f) /\ AheadRight(f) /\ BufferRight(f)
            /\ f.buf # <<>> /\ f.group = s.group /\ f.inodes = s.inodes /\ f.current = s.current
        <4>1. CASE s.buf = <<>>
          <5>1. f = Filled(s) BY <1>2, <4>1
          <5> QED BY <2>1, <2>7, <2>9, <4>1, <5>1, FilledOk
        <4>2. CASE s.buf # <<>>
          <5>1. f = s BY <1>2, <4>2
          <5> QED BY <2>1, <2>7, <4>2, <5>1
        <4> QED BY <4>1, <4>2
      <3>3. Verdict(f) = Truth(i)
        <4>1. f.inodes > 0 /\ ~Passed(f.group) /\ f.group \notin layout.missing BY <2>1, <3>1, <3>2
        <4>2. Verdict(f) = Truth(f.current + 1) BY <3>2, <4>1, VerdictRight
        <4>3. f.current + 1 = i BY <2>2, <3>2
        <4> QED BY <4>2, <4>3
      <3>4. PICK t : t = [f EXCEPT !.buf = Tail(@), !.inodes = @ - 1, !.current = @ + 1] OBVIOUS
      <3>5. ScanOk(t)
        <4>1. f.inodes > 0 BY <2>1, <3>2
        <4> QED BY <3>2, <3>4, <4>1, ReturnedOk
      <3>6. scan' = t /\ answer' = Scanned(Verdict(f), f.current + 1) BY <1>3, <1>9, <2>9, <3>4
      <3>7. answer'.ret = Truth(i) /\ answer'.ino = i BY <1>4, <2>2, <3>2, <3>3, <3>6
      <3> QED BY <2>6, <3>5, <3>6, <3>7
    <2> QED BY <2>8, <2>9
  <1> QED BY <1>8, <1>9

\* ext2fs_inode_scan_goto_blockgroup
LEMMA GotoOk ==
    ASSUME Straight, layout \in Layouts, ScanOk(scan), NEW g \in 0..(Groups - 1), GotoGroup(g)
    PROVE  ScanOk(scan')
  <1>1. scan' = [NextGroup(scan, g) EXCEPT !.ahead = layout.bad] /\ (scan.check \/ layout.bad = {})
    BY DEF GotoGroup, Straight
  <1>2. PICK t : t = NextGroup(scan, g) OBVIOUS
  <1>3. IsScan(scan) /\ scan.open = TRUE BY DEF ScanOk
  <1>4. /\ IsScan(t) /\ t.open = TRUE /\ t.current = g * InodesPerGroup /\ t.group = g
        /\ t.inodes = InodesLeft(layout, g) /\ t.blocks = BlocksLeft(layout, g)
        /\ t.block = TableLoc(layout, g) /\ t.buf = <<>>
        /\ t.check = scan.check /\ t.status = scan.status
    BY <1>2, <1>3 DEF IsScan, NextGroup
  <1>5. PICK u : u = [t EXCEPT !.ahead = layout.bad] OBVIOUS
  <1>6. /\ IsScan(u) /\ u.open = TRUE /\ u.current = g * InodesPerGroup /\ u.group = g
        /\ u.inodes = InodesLeft(layout, g) /\ u.blocks = BlocksLeft(layout, g)
        /\ u.block = TableLoc(layout, g) /\ u.buf = <<>>
        /\ u.check = scan.check /\ u.status = scan.status /\ u.ahead = layout.bad
    BY <1>4, <1>5 DEF IsScan
  <1>7. AheadIs(u, g * BlocksPerGroup + 1)
    <2>1. layout.bad \subseteq Blocks BY BadsAreNumbers
    <2>2. layout.bad = {} => Beyond(layout.bad, g * BlocksPerGroup + 1) = {} BY DEF Beyond
    <2> QED BY <1>1, <1>6, <2>1, <2>2 DEF AheadIs
  <1>8. ~layout.warn => u.status = NoStatus BY <1>6 DEF ScanOk, AtEnd, BufferRight
  <1>9. ScanOk(u) BY <1>6, <1>7, <1>8, GroupBegins
  <1> QED BY <1>1, <1>2, <1>5, <1>9

\* ext2fs_open_inode_scan
LEMMA OpenOk ==
    ASSUME layout \in Layouts
    PROVE  ScanOk(ScanStart(layout))
  <1>1. PICK u : u = ScanStart(layout) OBVIOUS
  <1>2. 0 \in 0..(Groups - 1) /\ 0 * InodesPerGroup = 0 BY ScanSizes
  <1>3. /\ IsScan(u) /\ u.open = TRUE /\ u.current = 0 /\ u.group = 0
        /\ u.inodes = InodesLeft(layout, 0) /\ u.blocks = BlocksLeft(layout, 0)
        /\ u.block = TableLoc(layout, 0) /\ u.buf = <<>>
        /\ u.check = (layout.bad # {}) /\ u.status = NoStatus /\ u.ahead = layout.bad
    BY <1>1 DEF IsScan, ScanStart
  <1>4. AheadIs(u, 0 * BlocksPerGroup + 1)
    <2>1. layout.bad \subseteq Blocks BY BadsAreNumbers
    <2>2. PICK p : p = 0 * BlocksPerGroup + 1 OBVIOUS
    <2>3. layout.bad = {} => Beyond(layout.bad, p) = {} BY DEF Beyond
    <2>4. AheadIs(u, p) BY <1>3, <2>1, <2>3 DEF AheadIs
    <2> QED BY <2>2, <2>4
  <1>5. u.current = 0 * InodesPerGroup BY <1>2, <1>3
  <1>6. ScanOk(u)
    <2>1. PICK g \in 0..(Groups - 1) : g = 0 BY <1>2
    <2>2. u.current = g * InodesPerGroup /\ AheadIs(u, g * BlocksPerGroup + 1) BY <1>4, <1>5, <2>1
    <2> QED BY <1>3, <2>1, <2>2, GroupBegins
  <1> QED BY <1>1, <1>6

LEMMA SameLayout ==
    ASSUME layout' = layout, NEW t
    PROVE  ScanOk(t)' = ScanOk(t)
  BY DEF Passed, InodesLeft, Wanted, Garbage, ScanOk, AtEnd, InGroup, Gone, Gotten, Place, AheadRight,
         AheadIs, BufferRight, HeldRight, Marks, MarksRight, BlocksLeft, Beyond

\* The inodes that clients may find have the checksums that Init gives them.
MaySeen  == \A i \in Inos : \A n \in may[i] : Seen(n) = Seen(Start(i))
FullInv  == IInv /\ MaySeen /\ ScanInv

LEMMA TableSeen == ASSUME IInv, MaySeen PROVE SeenRight
  BY DEF IInv, TableHolds, MaySeen, SeenRight

LEMMA MaySeenKept ==
    ASSUME IInv, MaySeen, NEW i \in Clients, NEW v, NEW full, WriteInode(i, v, full)
    PROVE  MaySeen'
  <1>1. PICK new : new = {Overlaid(n, v, full) : n \in may[i]} OBVIOUS
  <1>2. PICK o : may' = [may EXCEPT ![i] = IF o.ret = "ok" THEN new ELSE @ \cup new]
    BY <1>1 DEF WriteInode
  <1>3. \A j \in Inos : may'[j] \subseteq may[j] \cup (IF j = i THEN new ELSE {})
    BY <1>2 DEF IInv, MayInv
  <1>4. ASSUME NEW n \in new PROVE Seen(n) = Seen(Start(i))
    <2>1. PICK m : n = Overlaid(m, v, full) BY <1>1
    <2>2. Overlaid(m, v, full).sum = TRUE /\ Overlaid(m, v, full).sane = TRUE BY DEF Overlaid
    <2>3. Start(i).sum = TRUE /\ Start(i).sane = TRUE
      <3>1. i \notin Damaged /\ i \notin Insane BY InodesAssumption
      <3> QED BY <3>1 DEF Start
    <2> QED BY <2>1, <2>2, <2>3 DEF Seen
  <1>5. ASSUME NEW j \in Inos, NEW n \in may'[j] PROVE Seen(n) = Seen(Start(j))
    <2>1. n \in may[j] \/ (j = i /\ n \in new) BY <1>3, <1>5
    <2> QED BY <1>4, <2>1 DEF MaySeen
  <1> QED BY <1>5 DEF MaySeen

LEMMA FullInit == ASSUME Init PROVE FullInv
  <1>1. IInv BY InitHolds
  <1>2. MaySeen BY DEF Init, MaySeen
  <1>3. ScanInv BY DEF Init, ScanInv
  <1> QED BY <1>1, <1>2, <1>3 DEF FullInv

LEMMA NotOpen == NoScan.open = FALSE BY DEF NoScan

LEMMA FullStep == ASSUME Careful, Straight, FullInv, [Next]_vars PROVE FullInv'
  <1>1. IInv' BY StepHolds DEF FullInv
  <1>2. layout \in Layouts /\ layout' = layout /\ (layout.warn => layout.bad = {})
    BY DEF FullInv, ScanInv, Next, ReadInode, WriteInode, FlushIcache, OpenScan, NextInode, CloseScan,
           GotoGroup, vars, Straight
  <1>3. MaySeen'
    <2>1. CASE \E i \in Clients, v \in Vals, full \in BOOLEAN : WriteInode(i, v, full)
      BY <2>1, MaySeenKept DEF FullInv
    <2>2. CASE may' = may BY <2>2 DEF FullInv, MaySeen
    <2> QED BY <2>1, <2>2 DEF Next, ReadInode, FlushIcache, OpenScan, NextInode, CloseScan, GotoGroup, vars
  <1>4. scan' = NoScan \/ ScanOk(scan')
    <2>1. scan = NoScan \/ ScanOk(scan) BY DEF FullInv, ScanInv
    <2>2. CASE NextInode
      <3>1. ScanOk(scan) BY <2>1, <2>2, NotOpen DEF NextInode
      <3> QED BY <1>2, <2>2, <3>1, NextInodeOk, TableSeen DEF FullInv
    <2>3. CASE \E g \in 0..(Groups - 1) : GotoGroup(g)
      <3>1. PICK g \in 0..(Groups - 1) : GotoGroup(g) BY <2>3
      <3>2. ScanOk(scan) BY <2>1, <3>1, NotOpen DEF GotoGroup
      <3> QED BY <1>2, <3>1, <3>2, GotoOk
    <2>4. CASE OpenScan BY <1>2, <2>4, OpenOk DEF OpenScan
    <2>5. CASE CloseScan BY <2>5 DEF CloseScan
    <2>6. CASE scan' = scan BY <2>1, <2>6
    <2> QED BY <2>2, <2>3, <2>4, <2>5, <2>6 DEF Next, ReadInode, WriteInode, FlushIcache, vars
  <1>5. ScanInv'
    <2>1. ScanOk(scan)' \/ scan' = NoScan
      <3>1. PICK t : t = scan' OBVIOUS
      <3>2. CASE ScanOk(t)
        <4>1. ScanOk(t)' BY <1>2, <3>2, SameLayout
        <4> QED BY <3>1, <4>1
      <3> QED BY <1>4, <3>1, <3>2
    <2> QED BY <1>2, <2>1 DEF ScanInv
  <1> QED BY <1>1, <1>3, <1>5 DEF FullInv

\* ext2fs_get_next_inode_full meets the inodes of the groups in order, each once,
\* whichever get_next_blocks read ahead and check_for_inode_bad_blocks cut short,
\* and says of each what is so of its block, its block's inodes and its checksum.
THEOREM ScansAreRight == ASSUME Careful, Straight PROVE Spec => ScanRight
  <1>1. Init => FullInv BY FullInit
  <1>2. FullInv /\ [Next]_vars => FullInv' BY FullStep
  <1>3. FullInv /\ [Next]_vars =>
          [NextInode => LET ahead == {i \in Wanted : i > scan.current} IN
             IF ahead = {} THEN answer'.ret = "end"
             ELSE /\ answer'.ret = Truth(Smallest(ahead))
                  /\ answer'.ino \in {0, Smallest(ahead)}]_vars
    <2>1. SUFFICES ASSUME FullInv, NextInode
                   PROVE  LET ahead == {i \in Wanted : i > scan.current} IN
                            IF ahead = {} THEN answer'.ret = "end"
                            ELSE /\ answer'.ret = Truth(Smallest(ahead))
                                 /\ answer'.ino \in {0, Smallest(ahead)}
      OBVIOUS
    <2>2. ScanOk(scan) BY <2>1, NotOpen DEF FullInv, ScanInv, NextInode
    <2>3. layout \in Layouts /\ (layout.warn => layout.bad = {}) BY <2>1 DEF FullInv, ScanInv, Straight
    <2>4. SeenRight BY <2>1, TableSeen DEF FullInv
    <2> QED BY <2>1, <2>2, <2>3, <2>4, NextInodeOk
  <1> QED BY <1>1, <1>2, <1>3, PTL DEF Spec, ScanRight
===============================================================================
