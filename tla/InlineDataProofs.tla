--------------------------- MODULE InlineDataProofs ---------------------------
(* Theorems of InlineData: whatever the inodes, the names, the lengths and the *)
(* room, references are counted and reads are right where a call can fail only *)
(* before it has changed anything in use (Careful), and inline data is whole.  *)
EXTENDS InlineData, XattrsProofs

-----------------------------------------------------------------------------
\* The invariant

PerName(w) == w = [i \in Inodes |-> [name \in Names |-> w[i][name]]]

\* What every inode holds is what the calls that returned 0 have stored.
Promised(d, w) ==
    /\ PerName(w)
    /\ \A i \in Inodes, name \in Names : SameTo(name, Held(ReadHandle(d, i), name), w[i][name])

\* The disk is in order, and inline data is never in a value inode.
Sound(d, w) == DiskInv(d) /\ (\A i \in Inodes : DataBeside(ReadHandle(d, i))) /\ Promised(d, w)

\* A handle that can be used is what would be read now.
HandleRight(d, h) == h = Closed \/ (h.ino \in Inodes /\ h = ReadHandle(d, h.ino))

\* No block is lost before a failure.
NoLoss(d, k) == k \in Nat /\ (k = 0 => NoneLost(d))

NodeShape(x) == x = [kind |-> x.kind, head |-> x.head, tail |-> x.tail, size |-> x.size]

\* An inline file's attribute block is its own, so that a copy of its inode stays
\* true of it, and only a file that was made inline has the attribute.
NodesRight(d, n, w) ==
    /\ n = [i \in Inodes |-> n[i]]
    /\ \A i \in Inodes : /\ NodeShape(n[i])
                         /\ n[i].kind = "inline" => Own(d, i) /\ n[i].size \in Nat
                         /\ n[i].kind = "none" => w[i]["system.data"] = None

\* The open file has the inode's fields, and nobody else is at work.
FileRight(d, n, f, h) ==
    \/ f = NoFile
    \/ /\ f.open = TRUE /\ f.ino \in Inodes /\ n[f.ino].kind = "inline" /\ h = Closed
       /\ f = [open |-> TRUE, ino |-> f.ino, acl |-> d.inode[f.ino].acl,
               iblocks |-> d.inode[f.ino].iblocks, size |-> f.size]
       /\ f.size \in Nat

AttrInv == /\ Sound(disk, want) /\ HandleRight(disk, handle) /\ NoLoss(disk, faults)
           /\ NodesRight(disk, node, want) /\ FileRight(disk, node, file, handle)

\* The contents by the calls that returned 0 are of the head and of the promised tail.
NodeWhole(x, p, y) ==
    /\ x.kind = "inline" => y = [head |-> x.head, tail |-> InlineTail(p)]
    /\ x.kind \notin {"none", "inline"} => y = [head |-> x.head, tail |-> x.tail]
WholeRight(n, w, dt) == /\ dt = [i \in Inodes |-> dt[i]]
                        /\ \A i \in Inodes : NodeWhole(n[i], w[i]["system.data"], dt[i])
WholePart == WholeRight(node, want, data)

-----------------------------------------------------------------------------
\* Values

\* An access control list comes back as it was given, but for ids that it has not.
LEMMA ListReturns ==
    ASSUME NEW a, IsSeq(a), NEW v, v = [len |-> 4 + 8 * Len(a), tag |-> a]
    PROVE  SameTo("system.posix_acl_access", FromDisk(ToDisk(v)), v) /\ ToDisk(v).len \in Nat
  <1>1. PICK l \in Nat : l = Len(a) BY DEF IsSeq
  <1>2. PICK sizes : sizes = [n \in 1..l |-> IF HasId(a[n]) THEN 8 ELSE 4] OBVIOUS
  <1>3. PICK t : t = [n \in 1..l |-> IF HasId(a[n]) THEN a[n] ELSE <<a[n][1]>>] OBVIOUS
  <1>4. v.tag = a BY <1>1
  <1>5. ToDisk(v).len = 4 + Total(sizes) /\ ToDisk(v).tag = t
    BY <1>1, <1>2, <1>3, <1>4 DEF ToDisk
  <1>6. Numbers(sizes)
    <2>1. sizes = [n \in 1..l |-> sizes[n]] BY <1>2
    <2>2. IsSeq(sizes) /\ Len(sizes) = l BY <2>1, MadeSeq
    <2>3. \A n \in 1..l : sizes[n] \in Nat BY <1>2
    <2> QED BY <2>2, <2>3 DEF Numbers
  <1>7. ToDisk(v).len \in Nat BY <1>5, <1>6, TotalNat
  <1>8. IsSeq(t) /\ Len(t) = l
    <2>1. t = [n \in 1..l |-> t[n]] BY <1>3
    <2> QED BY <2>1, MadeSeq
  <1>9. PICK g : g = FromDisk(ToDisk(v)) OBVIOUS
  <1>10. g.len = 4 + 8 * l /\ g.tag = [n \in 1..l |-> IF HasId(t[n]) THEN t[n] ELSE <<t[n][1], 0>>]
    BY <1>5, <1>8, <1>9 DEF FromDisk
  <1>11. IsSeq(g.tag) /\ Len(g.tag) = l
    <2>1. g.tag = [n \in 1..l |-> g.tag[n]] BY <1>10
    <2> QED BY <2>1, MadeSeq
  <1>12. \A n \in 1..l : g.tag[n][1] = a[n][1] /\ (HasId(g.tag[n]) => g.tag[n] = a[n])
    <2> TAKE n \in 1..l
    <2>1. CASE HasId(a[n])
      <3>1. t[n] = a[n] BY <1>3, <2>1
      <3> QED BY <1>10, <2>1, <3>1
    <2>2. CASE ~HasId(a[n])
      <3>1. t[n] = <<a[n][1]>> BY <1>3, <2>2
      <3>2. t[n][1] = a[n][1] BY <3>1
      <3>3. ~HasId(t[n]) BY <2>2, <3>2 DEF HasId
      <3>4. g.tag[n] = <<a[n][1], 0>> BY <1>10, <3>2, <3>3
      <3>5. g.tag[n][1] = a[n][1] BY <3>4
      <3>6. ~HasId(g.tag[n]) BY <2>2, <3>5 DEF HasId
      <3> QED BY <3>5, <3>6
    <2> QED BY <2>1, <2>2
  <1>13. v.len = 4 + 8 * l BY <1>1
  <1>14. g # None /\ v # None
    <2>1. None.len = 0 BY DEF None
    <2> QED BY <1>10, <1>13, <2>1
  <1>15. SameTo("system.posix_acl_access", g, v)
    BY <1>1, <1>4, <1>10, <1>11, <1>12, <1>13, <1>14 DEF SameTo
  <1> QED BY <1>7, <1>9, <1>15

LEMMA PlainLength == ASSUME NEW v \in Plain PROVE v.len \in Nat
  BY Constants DEF Plain

LEMMA AclIsSeq == ASSUME NEW a \in Acls PROVE IsSeq(a)
  <1>1. \/ a = << <<"user_obj", 5>> >> \/ a = << <<"user_obj", 0>>, <<"user", 7>>, <<"mask", 0>> >>
    BY DEF Acls
  <1>2. PICK p, q, r : p = <<"user_obj", 0>> /\ q = <<"user", 7>> /\ r = <<"mask", 0>> OBVIOUS
  <1>3. PICK s : s = <<"user_obj", 5>> OBVIOUS
  <1>4. a = <<s>> \/ a = <<p, q, r>> BY <1>1, <1>2, <1>3
  <1>5. <<s>> \in Seq({s}) /\ <<p, q, r>> \in Seq({p, q, r}) OBVIOUS
  <1> QED BY <1>4, <1>5, SeqIs

LEMMA StoredIs ==
    ASSUME NEW name, NEW value \in Values(name)
    PROVE  SameTo(name, Got(name, Stored(name, value)), value) /\ Stored(name, value).len \in Nat
  <1>1. CASE name = "system.posix_acl_access"
    <2>1. PICK a \in Acls : value = [len |-> 4 + 8 * Len(a), tag |-> a] BY <1>1 DEF Values
    <2>2. IsSeq(a) BY AclIsSeq
    <2>3. SameTo("system.posix_acl_access", FromDisk(ToDisk(value)), value) /\ ToDisk(value).len \in Nat
      BY <2>1, <2>2, ListReturns
    <2> QED BY <1>1, <2>3 DEF Got, Stored
  <1>2. CASE name # "system.posix_acl_access"
    <2>1. value \in Plain BY <1>2 DEF Values
    <2> QED BY <1>2, <2>1, PlainLength DEF Got, Stored, SameTo
  <1> QED BY <1>1, <1>2

LEMMA SameNone == ASSUME NEW name PROVE SameTo(name, None, None)
  BY DEF SameTo

\* The part of a file that goes to the attribute.
LEMMA RestIs ==
    ASSUME NEW n \in Sizes, NEW t
    PROVE  /\ n \in Nat /\ n >= 60 /\ Rest(n, t).len = n - 60 /\ Rest(n, t) # None
           /\ Stored("system.data", Rest(n, t)) = Rest(n, t)
           /\ Got("system.data", Rest(n, t)) = Rest(n, t)
           /\ SameTo("system.data", Rest(n, t), Rest(n, t))
  <1>1. n \in Nat /\ n >= 60 BY InlineAssumption
  <1>2. Rest(n, t).len = n - 60
    <2>1. CASE n <= 60
      <3>1. Rest(n, t) = [len |-> 0, tag |-> <<"empty">>] BY <2>1 DEF Rest, MinInline
      <3> QED BY <1>1, <2>1, <3>1
    <2>2. CASE ~(n <= 60)
      <3>1. Rest(n, t) = [len |-> n - 60, tag |-> <<t>>] BY <2>2 DEF Rest, MinInline
      <3> QED BY <3>1
    <2> QED BY <2>1, <2>2
  <1>3. Rest(n, t) # None
    <2>1. None.tag = <<>> BY DEF None
    <2>2. \E x : Rest(n, t).tag = <<x>>
      <3>1. CASE n <= 60
        <4>1. Rest(n, t) = [len |-> 0, tag |-> <<"empty">>] BY <3>1 DEF Rest, MinInline
        <4> QED BY <4>1
      <3>2. CASE ~(n <= 60)
        <4>1. Rest(n, t) = [len |-> n - 60, tag |-> <<t>>] BY <3>2 DEF Rest, MinInline
        <4> QED BY <4>1
      <3> QED BY <3>1, <3>2
    <2> QED BY <2>1, <2>2
  <1> QED BY <1>1, <1>2, <1>3 DEF Stored, Got, SameTo
-----------------------------------------------------------------------------
\* The initial states

NoHandle(i) == Handle(i, <<>>, 0)

LEMMA NoHandleOk ==
    ASSUME NEW i
    PROVE  /\ HandleOk(NoHandle(i)) /\ Elems(NoHandle(i).attrs) = {} /\ NoHandle(i).ino = i
           /\ NoHandle(i).attrs = <<>> /\ NoHandle(i).ibody = 0 /\ BlockPart(NoHandle(i)) = <<>>
           /\ IbodyEntries(NoHandle(i)) = <<>> /\ RestEntries(NoHandle(i)) = <<>>
  <1>1. PICK g : g = NoHandle(i) OBVIOUS
  <1>2. g.attrs = <<>> /\ g.ibody = 0 /\ g.ino = i /\ g = Handle(g.ino, g.attrs, g.ibody)
    BY <1>1 DEF NoHandle, Handle
  <1>3. List(g.attrs) /\ Len(g.attrs) = 0 BY <1>2, EmptyIsSeq DEF List
  <1>4. HandleShape(g) BY <1>2, <1>3 DEF HandleShape
  <1>5. IsSeq(IbodyPart(g)) /\ Len(IbodyPart(g)) = 0 /\ IsSeq(BlockPart(g)) /\ Len(BlockPart(g)) = 0
    <2>1. List(IbodyPart(g)) /\ Len(IbodyPart(g)) = g.ibody BY <1>4, HandleParts
    <2>2. List(BlockPart(g)) /\ Len(BlockPart(g)) = Len(g.attrs) - g.ibody BY <1>4, HandleParts
    <2> QED BY <1>2, <1>3, <2>1, <2>2 DEF List
  <1>6. BlockPart(g) = <<>> BY <1>5, EmptyIsSeq, SameSeq
  <1>7. HandleOk(g)
    <2>1. Distinct(g.attrs) BY <1>3 DEF Distinct
    <2>2. Sorted(BlockPart(g)) BY <1>5 DEF Sorted
    <2> QED BY <1>2, <1>4, <1>5, <2>1, <2>2 DEF HandleOk
  <1>8. Elems(g.attrs) = {} BY <1>3 DEF Elems
  <1>9. IbodyEntries(g) = <<>>
    <2>1. PICK q : q = IbodyEntries(g) OBVIOUS
    <2>2. q = [n \in 1..0 |-> q[n]] BY <1>2, <2>1, Zenon DEF IbodyEntries
    <2>3. IsSeq(q) /\ Len(q) = 0 BY <2>2, MadeSeq
    <2> QED BY <2>1, <2>3, EmptyIsSeq, SameSeq
  <1>10. RestEntries(g) = <<>>
    <2>1. PICK q : q = RestEntries(g) OBVIOUS
    <2>2. q = [n \in 1..0 |-> q[n]] BY <1>5, <2>1, Zenon DEF RestEntries
    <2>3. IsSeq(q) /\ Len(q) = 0 BY <2>2, MadeSeq
    <2> QED BY <2>1, <2>3, EmptyIsSeq, SameSeq
  <1> QED BY <1>1, <1>2, <1>6, <1>7, <1>8, <1>9, <1>10

\* What a disk is on which no attribute has its value elsewhere.
Starts(d, w) ==
    /\ DiskInv(d) /\ NoneLost(d) /\ Promised(d, w)
    /\ \A i \in Inodes : /\ DataBeside(ReadHandle(d, i))
                         /\ "system.data" \in Names => w[i]["system.data"] = None

LEMMA EmptyStarts ==
    ASSUME NEW w, w = [i \in Inodes |-> NoAttrs]
    PROVE  Starts(EmptyDisk, w)
  <1>1. PICK d : d = EmptyDisk OBVIOUS
  <1>2. /\ d = [inode |-> d.inode, blk |-> d.blk, ea |-> d.ea, used |-> d.used]
        /\ d.inode = [i \in Inodes |-> PlainInode] /\ d.blk = [b \in EaBlocks |-> FreeBlock]
        /\ d.ea = [e \in EaInodes |-> FreeInode] /\ d.used = {}
    BY <1>1 DEF EmptyDisk
  <1>3. \A i \in Inodes : d.inode[i].ibody = <<>> /\ d.inode[i].acl = NoBlock /\ d.inode[i].iblocks = 0
    BY <1>2 DEF PlainInode
  <1>4. \A b \in EaBlocks : UsersOf(d, b) = {} BY <1>3, Constants DEF UsersOf
  <1>5. EaShape(d)
    <2>1. d.ea = [e \in EaInodes |-> d.ea[e]] BY <1>2
    <2>2. \A e \in EaInodes : d.ea[e].ref \in Nat BY <1>2 DEF FreeInode
    <2> QED BY <1>2, <2>1, <2>2 DEF EaShape
  <1>6. Shape(d)
    <2>1. d.inode = [i \in Inodes |-> d.inode[i]] BY <1>2
    <2>2. \A i \in Inodes : d.inode[i] = [ibody |-> d.inode[i].ibody, acl |-> d.inode[i].acl,
                                          iblocks |-> IF d.inode[i].acl = NoBlock THEN 0 ELSE 1]
      BY <1>2 DEF PlainInode
    <2>3. \A i \in Inodes : IsSeq(d.inode[i].ibody) /\ d.inode[i].acl \in EaBlocks \cup {NoBlock}
      BY <1>3, EmptyIsSeq
    <2>4. d.blk = [b \in EaBlocks |-> d.blk[b]] BY <1>2
    <2> QED BY <1>2, <1>4, <1>5, <2>1, <2>2, <2>3, <2>4 DEF Shape
  <1>7. \A i \in Inodes : ReadHandle(d, i) = NoHandle(i) /\ Good(d, i)
    <2> TAKE i \in Inodes
    <2>1. PICK h : h = NoHandle(i) OBVIOUS
    <2>2. HandleOk(h) /\ h.ino = i /\ Elems(h.attrs) = {} BY <2>1, NoHandleOk
    <2>3. EaFits(d, h) BY <2>2 DEF EaFits
    <2>4. d.inode[i].ibody = IbodyEntries(h) BY <1>3, <2>1, NoHandleOk
    <2>5. BlockEntries(d, i) = RestEntries(h) BY <1>3, <1>6, <2>1, NoHandleOk, BlockOf
    <2> QED BY <2>1, <2>2, <2>3, <2>4, <2>5, WrittenReads
  <1>8. \A i \in Inodes : Elems(ReadHandle(d, i).attrs) = {} BY <1>7, NoHandleOk
  <1>9. DiskInv(d) BY <1>6, <1>7, <1>8 DEF DiskInv, Apart
  <1>10. \A i \in Inodes, name \in Names : Held(ReadHandle(d, i), name) = None
    <2> TAKE i \in Inodes, name \in Names
    <2>1. HandleOk(ReadHandle(d, i)) BY <1>7, NoHandleOk
    <2> QED BY <1>8, <2>1, HeldIs
  <1>11. \A i \in Inodes, name \in Names : w[i][name] = None BY DEF NoAttrs
  <1>12. w = [i \in Inodes |-> [name \in Names |-> w[i][name]]] BY DEF NoAttrs
  <1>13. Promised(d, w) BY <1>10, <1>11, <1>12, SameNone DEF Promised, PerName
  <1>14. NoneLost(d) BY <1>2 DEF NoneLost
  <1>15. \A i \in Inodes : DataBeside(ReadHandle(d, i)) BY <1>8 DEF DataBeside
  <1> QED BY <1>1, <1>9, <1>11, <1>13, <1>14, <1>15 DEF Starts
\* A handle whose one attribute, beside its entry, is in the block.
OneAttr(i, v) == Handle(i, <<Attr("user.a", v, 0)>>, 0)

LEMMA OneAttrOk ==
    ASSUME NEW i, NEW v, v.len \in Nat, v.len <= MinLargeEaSize
    PROVE  /\ HandleOk(OneAttr(i, v)) /\ Elems(OneAttr(i, v).attrs) = {Attr("user.a", v, 0)}
           /\ OneAttr(i, v).ino = i
           /\ IbodyEntries(OneAttr(i, v)) = <<>>
           /\ RestEntries(OneAttr(i, v)) = <<SharedEntry(v, 0)>>
  <1>1. PICK a : a = Attr("user.a", v, 0) OBVIOUS
  <1>2. a.name = "user.a" /\ a.value = v /\ a.ea = 0 BY <1>1 DEF Attr
  <1>3. AttrOk(a) BY <1>1, <1>2 DEF AttrOk, AllNames
  <1>4. PICK g : g = NoHandle(i) OBVIOUS
  <1>5. /\ HandleOk(g) /\ Elems(g.attrs) = {} /\ g.ino = i /\ g.attrs = <<>> /\ g.ibody = 0
        /\ BlockPart(g) = <<>>
    BY <1>4, NoHandleOk
  <1>6. AttrSize(a) = 20 + Round4(v.len)
    <2>1. NameLen("user.a") = 20 BY DEF NameLen, Key, Round4
    <2> QED BY <1>2, <2>1 DEF AttrSize, Needed
  <1>7. SpaceUsed(BlockPart(g)) = 0
    <2>1. List(<<>>) BY EmptyIsSeq DEF List
    <2> QED BY <1>5, <2>1, SpaceIs
  <1>8. Round4(v.len) + 56 <= BlockSize
    <2>1. v.len + 56 <= BlockSize BY Constants DEF MinLargeEaSize
    <2>2. PICK r : r = Round4(v.len) OBVIOUS
    <2>3. r \in Nat /\ r % 4 = 0 /\ r <= v.len + 3 BY <2>2, Rounded
    <2> QED BY <2>1, <2>2, <2>3, Constants
  <1>9. SpaceUsed(BlockPart(g)) + AttrSize(a) + 4 <= BlockRoom
    <2>1. PICK r : r = Round4(v.len) /\ r \in Nat BY Rounded
    <2> QED BY <1>6, <1>7, <1>8, <2>1, Constants DEF BlockRoom
  <1>10. GoesAt(g, 1, 1, a)
    <2>1. Len(BlockPart(g)) = 0 /\ Len(g.attrs) = 0 BY <1>5, EmptyIsSeq
    <2>2. Splits(BlockPart(g), 1, a.name) BY <2>1 DEF Splits
    <2> QED BY <1>2, <1>3, <1>5, <1>9, <2>1, <2>2 DEF GoesAt
  <1>11. InsertAt(<<>>, 1, a) = <<a>>
    <2>1. PICK q : q = InsertAt(<<>>, 1, a) OBVIOUS
    <2>2. IsSeq(q) /\ Len(q) = 1 /\ q[1] = a
      <3>1. PICK e : e = <<>> OBVIOUS
      <3>2. IsSeq(e) BY <3>1, EmptyIsSeq
      <3>l. PICK l \in Nat : l = Len(e) BY <3>2 DEF IsSeq
      <3>0. l = 0 BY <3>1, <3>l, EmptyIsSeq
      <3>k. PICK k : k = 1 OBVIOUS
      <3>3. k \in 1..(l + 1) BY <3>k, <3>l
      <3>4. PICK p : p = InsertAt(e, k, a) OBVIOUS
      <3>5. /\ IsSeq(p) /\ Len(p) = l + 1
            /\ \A j \in 1..(l + 1) : p[j] = IF j < k THEN e[j] ELSE IF j = k THEN a ELSE e[j - 1]
        BY <3>l, <3>2, <3>3, <3>4, Inserted
      <3>6. p = q BY <2>1, <3>1, <3>k, <3>4
      <3>7. p[1] = a BY <3>l, <3>k, <3>3, <3>5
      <3> QED BY <3>0, <3>5, <3>6, <3>7
    <2>3. <<a>> \in Seq({a}) OBVIOUS
    <2>4. IsSeq(<<a>>) /\ Len(<<a>>) = 1 /\ <<a>>[1] = a BY <2>3, SeqIs
    <2> QED BY <2>1, <2>2, <2>4, SameSeq
  <1>12. PICK h : h = OneAttr(i, v) OBVIOUS
  <1>13. h = Handle(g.ino, InsertAt(g.attrs, 1, a), g.ibody)
    BY <1>1, <1>5, <1>11, <1>12 DEF OneAttr
  <1>14. HandleOk(h) /\ h.ino = i /\ Elems(h.attrs) = {a}
    <2>1. HandleOk(h) /\ h.ino = g.ino /\ Elems(h.attrs) = Elems(g.attrs) \cup {a}
      <3>1. PICK k : k = 1 OBVIOUS
      <3>2. GoesAt(g, k, k, a) BY <1>10, <3>1
      <3>3. h = Handle(g.ino, InsertAt(g.attrs, k, a), g.ibody) BY <1>13, <3>1
      <3>4. HandleOk(g) BY <1>5
      <3> QED BY <3>2, <3>3, <3>4, PutBlockOk
    <2> QED BY <1>5, <2>1
  <1>15. h.attrs = <<a>> /\ h.ibody = 0 BY <1>1, <1>12 DEF OneAttr, Handle
  <1>16. /\ IsSeq(BlockPart(h)) /\ Len(BlockPart(h)) = 1 /\ BlockPart(h)[1] = a
    <2>1. HandleShape(h) BY <1>14 DEF HandleOk
    <2>2. List(BlockPart(h)) /\ Len(BlockPart(h)) = Len(h.attrs) - h.ibody
          /\ \A j \in 1..(Len(h.attrs) - h.ibody) : BlockPart(h)[j] = h.attrs[h.ibody + j]
      BY <2>1, HandleParts
    <2>3. Len(h.attrs) - h.ibody = 1 BY <1>15
    <2>4. BlockPart(h)[1] = h.attrs[1] BY <1>15, <2>2, <2>3
    <2> QED BY <1>15, <2>2, <2>3, <2>4 DEF List
  <1>17. IbodyEntries(h) = <<>>
    <2>1. PICK q : q = IbodyEntries(h) OBVIOUS
    <2>2. q = [n \in 1..0 |-> q[n]] BY <1>15, <2>1, Zenon DEF IbodyEntries
    <2>3. IsSeq(q) /\ Len(q) = 0 BY <2>2, MadeSeq
    <2> QED BY <2>1, <2>3, EmptyIsSeq, SameSeq
  <1>18. RestEntries(h) = <<SharedEntry(v, 0)>>
    <2>1. PICK q : q = RestEntries(h) OBVIOUS
    <2>2. PICK y : y = SharedEntry(v, 0) OBVIOUS
    <2>3. q = [n \in 1..1 |-> q[n]] BY <1>16, <2>1, Zenon DEF RestEntries
    <2>4. q[1] = Entry(BlockPart(h)[1], TRUE)
      <3>1. \A n \in 1..1 : q[n] = Entry(BlockPart(h)[n], TRUE) BY <1>16, <2>1, Zenon DEF RestEntries
      <3>2. 1 \in 1..1 OBVIOUS
      <3> QED BY <3>1, <3>2, Zenon
    <2>5. q[1] = y BY <1>1, <1>16, <2>2, <2>4 DEF SharedEntry
    <2>6. IsSeq(q) /\ Len(q) = 1 BY <2>3, MadeSeq
    <2>7. <<y>> \in Seq({y}) OBVIOUS
    <2>8. IsSeq(<<y>>) /\ Len(<<y>>) = 1 /\ <<y>>[1] = y BY <2>7, SeqIs
    <2>9. q = <<y>> BY <2>5, <2>6, <2>8, SameSeq
    <2> QED BY <2>1, <2>2, <2>9
  <1> QED BY <1>1, <1>12, <1>14, <1>17, <1>18

LEMMA SharedStarts ==
    ASSUME NEW b \in EaBlocks, NEW v \in Plain, v.len <= MinLargeEaSize,
           NEW w, w = [i \in Inodes |-> [NoAttrs EXCEPT !["user.a"] = v]]
    PROVE  Starts(SharedDisk(b, v, 0), w)
  <1>1. PICK d : d = SharedDisk(b, v, 0) OBVIOUS
  <1>2. PICK block : block = [ref |-> Cardinality(Inodes), entries |-> <<SharedEntry(v, 0)>>] OBVIOUS
  <1>3. PICK ino : ino = [ibody |-> <<>>, acl |-> b, iblocks |-> 1] OBVIOUS
  <1>4. /\ d = [inode |-> d.inode, blk |-> d.blk, ea |-> d.ea, used |-> d.used]
        /\ d.inode = [i \in Inodes |-> ino]
        /\ d.blk = [EmptyDisk.blk EXCEPT ![b] = block]
        /\ d.ea = [f \in EaInodes |-> IF f = 0 THEN [ref |-> 1, value |-> v] ELSE FreeInode]
        /\ d.used = {b}
    BY <1>1, <1>2, <1>3 DEF SharedDisk
  <1>5. v.len \in Nat BY PlainLength
  <1>6. ino.ibody = <<>> /\ ino.acl = b /\ ino.iblocks = 1 BY <1>3
  <1>7. \A i \in Inodes : d.inode[i] = ino BY <1>4
  <1>8. b # NoBlock BY Constants
  <1>9. UsersOf(d, b) = Inodes BY <1>6, <1>7 DEF UsersOf
  <1>10. \A c \in EaBlocks : c # b => UsersOf(d, c) = {} BY <1>6, <1>7 DEF UsersOf
  <1>11. d.blk[b] = block /\ d.blk = [c \in EaBlocks |-> d.blk[c]]
    <2>1. EmptyDisk.blk = [c \in EaBlocks |-> FreeBlock] BY DEF EmptyDisk
    <2> QED BY <1>4, <2>1
  <1>12. IsSeq(block.entries) /\ block = [ref |-> Cardinality(Inodes), entries |-> block.entries]
    <2>1. PICK y : y = SharedEntry(v, 0) OBVIOUS
    <2>2. <<y>> \in Seq({y}) OBVIOUS
    <2> QED BY <1>2, <2>1, <2>2, SeqIs
  <1>13. EaShape(d)
    <2>1. d.ea = [e \in EaInodes |-> d.ea[e]] BY <1>4
    <2>2. \A e \in EaInodes : d.ea[e] = FreeInode BY <1>4, Constants
    <2>3. FreeInode.ref \in Nat BY DEF FreeInode
    <2> QED BY <1>4, <2>1, <2>2, <2>3 DEF EaShape
  <1>14. Shape(d)
    <2>1. d.inode = [i \in Inodes |-> d.inode[i]] BY <1>4
    <2>2. \A i \in Inodes : d.inode[i] = [ibody |-> d.inode[i].ibody, acl |-> d.inode[i].acl,
                                          iblocks |-> IF d.inode[i].acl = NoBlock THEN 0 ELSE 1]
      BY <1>3, <1>7, <1>8
    <2>3. \A i \in Inodes : IsSeq(d.inode[i].ibody) /\ d.inode[i].acl \in EaBlocks \cup {NoBlock}
      BY <1>6, <1>7, EmptyIsSeq
    <2>4. \A c \in EaBlocks : UsersOf(d, c) # {} =>
            /\ c \in d.used /\ IsSeq(d.blk[c].entries)
            /\ d.blk[c] = [ref |-> Cardinality(UsersOf(d, c)), entries |-> d.blk[c].entries]
      BY <1>4, <1>9, <1>10, <1>11, <1>12
    <2> QED BY <1>4, <1>11, <1>13, <2>1, <2>2, <2>3, <2>4 DEF Shape
  <1>15. \A i \in Inodes : ReadHandle(d, i) = OneAttr(i, v) /\ Good(d, i)
    <2> TAKE i \in Inodes
    <2>1. PICK h : h = OneAttr(i, v) OBVIOUS
    <2>2. /\ HandleOk(h) /\ h.ino = i /\ Elems(h.attrs) = {Attr("user.a", v, 0)}
          /\ IbodyEntries(h) = <<>> /\ RestEntries(h) = <<SharedEntry(v, 0)>>
      BY <1>5, <2>1, OneAttrOk
    <2>3. EaFits(d, h)
      <3>1. Attr("user.a", v, 0).ea = 0 BY DEF Attr
      <3> QED BY <2>2, <3>1 DEF EaFits
    <2>4. d.inode[i].ibody = IbodyEntries(h) BY <1>6, <1>7, <2>2
    <2>5. BlockEntries(d, i) = RestEntries(h)
      <3>1. BlockEntries(d, i) = d.blk[b].entries BY <1>6, <1>7, <1>8, <1>14, BlockOf
      <3>2. block.entries = <<SharedEntry(v, 0)>> BY <1>2
      <3> QED BY <1>11, <2>2, <3>1, <3>2
    <2> QED BY <2>1, <2>2, <2>3, <2>4, <2>5, WrittenReads
  <1>16. PICK a : a = Attr("user.a", v, 0) OBVIOUS
  <1>17. a.name = "user.a" /\ a.value = v /\ a.ea = 0 BY <1>16 DEF Attr
  <1>18. \A i \in Inodes : HandleOk(ReadHandle(d, i)) /\ Elems(ReadHandle(d, i).attrs) = {a}
    <2> TAKE i \in Inodes
    <2>1. HandleOk(OneAttr(i, v)) /\ Elems(OneAttr(i, v).attrs) = {Attr("user.a", v, 0)}
      BY <1>5, OneAttrOk
    <2> QED BY <1>15, <1>16, <2>1
  <1>19. DiskInv(d) BY <1>14, <1>15, <1>17, <1>18 DEF DiskInv, Apart
  <1>20. w = [i \in Inodes |-> [name \in Names |-> w[i][name]]] BY DEF NoAttrs
  <1>21. \A i \in Inodes, name \in Names : w[i][name] = IF name = "user.a" THEN v ELSE None
    BY DEF NoAttrs
  <1>22. \A i \in Inodes, name \in Names : SameTo(name, Held(ReadHandle(d, i), name), w[i][name])
    <2> TAKE i \in Inodes, name \in Names
    <2>1. CASE name = "user.a"
      <3>1. Held(ReadHandle(d, i), name) = Got(name, a.value) BY <1>17, <1>18, <2>1, HeldIs
      <3>2. Held(ReadHandle(d, i), name) = v BY <1>17, <2>1, <3>1 DEF Got
      <3> QED BY <1>21, <2>1, <3>2 DEF SameTo
    <2>2. CASE name # "user.a"
      <3>1. Held(ReadHandle(d, i), name) = None BY <1>17, <1>18, <2>2, HeldIs
      <3>2. w[i][name] = None BY <1>21, <2>2
      <3> QED BY <3>1, <3>2, SameNone
    <2> QED BY <2>1, <2>2
  <1>23. Promised(d, w) BY <1>20, <1>22 DEF Promised, PerName
  <1>24. NoneLost(d) BY <1>4, <1>9, Constants DEF NoneLost
  <1>25. \A i \in Inodes : DataBeside(ReadHandle(d, i)) BY <1>17, <1>18 DEF DataBeside
  <1> QED BY <1>1, <1>19, <1>21, <1>23, <1>24, <1>25 DEF Starts
-----------------------------------------------------------------------------
\* Calls

SetOne(v, i, name, p, w) ==
    /\ PerName(w) /\ w[i][name] = p
    /\ \A j \in Inodes, m \in Names : (j # i \/ m # name) => w[j][m] = v[j][m]

LEMMA WantIs ==
    ASSUME NEW v, PerName(v),
           NEW i \in Inodes, NEW name \in Names, NEW p, NEW w, w = [v EXCEPT ![i][name] = p]
    PROVE  SetOne(v, i, name, p, w)
  <1>1. PICK row : row = [v[i] EXCEPT ![name] = p] OBVIOUS
  <1>2. w = [v EXCEPT ![i] = row] BY <1>1
  <1>0. v = [j \in Inodes |-> [m \in Names |-> v[j][m]]] BY DEF PerName
  <1>3. v[i] = [m \in Names |-> v[i][m]] BY <1>0
  <1>4. row[name] = p /\ (\A m \in Names : m # name => row[m] = v[i][m]) /\ row = [m \in Names |-> row[m]]
    BY <1>1, <1>3
  <1>5. w[i] = row /\ (\A j \in Inodes : j # i => w[j] = v[j]) /\ w = [j \in Inodes |-> w[j]]
    BY <1>0, <1>2
  <1>6. \A j \in Inodes : w[j] = [m \in Names |-> w[j][m]]
    <2> TAKE j \in Inodes
    <2>1. CASE j = i
      <3>1. w[j] = row BY <1>5, <2>1
      <3> QED BY <1>4, <3>1, Zenon
    <2>2. CASE j # i
      <3>1. v[j] = [m \in Names |-> v[j][m]] BY <1>0
      <3>2. w[j] = v[j] BY <1>5, <2>2
      <3> QED BY <3>1, <3>2, Zenon
    <2> QED BY <2>1, <2>2
  <1>7. w = [j \in Inodes |-> [m \in Names |-> w[j][m]]] BY <1>5, <1>6, Zenon
  <1> QED BY <1>0, <1>4, <1>5, <1>7 DEF PerName, SetOne

\* A call on one attribute of an inode, as the promise sees it.
Called(d, i, name, w, p, o) ==
    /\ CallDone(d, i, ReadHandle(d, i), name, w, o) /\ SameTo(name, w, p)

Asked(w, i, name, p, o, q) == q = IF o.err = "ok" THEN [w EXCEPT ![i][name] = p] ELSE w

LEMMA CallKeeps ==
    ASSUME NEW d, NEW v, Sound(d, v), NEW i \in Inodes, NEW name \in Names, NEW w, NEW p, NEW o,
           Called(d, i, name, w, p, o), NEW q, Asked(v, i, name, p, o, q)
    PROVE  Sound(o.d, q)
  <1>1. PICK h : h = ReadHandle(d, i) OBVIOUS
  <1>2. CallDone(d, i, h, name, w, o) /\ SameTo(name, w, p) BY <1>1 DEF Called
  <1>3. DiskInv(o.d) BY <1>2 DEF CallDone
  <1>4. \A j \in Inodes \ {i} : ReadHandle(o.d, j) = ReadHandle(d, j) BY <1>2 DEF CallDone
  <1>5. PerName(v) BY DEF Sound, Promised
  <1>6. \A j \in Inodes, m \in Names : SameTo(m, Held(ReadHandle(d, j), m), v[j][m])
    BY DEF Sound, Promised
  <1>7. \A j \in Inodes : DataBeside(ReadHandle(d, j)) BY DEF Sound
  <1>8. CASE o.err = "ok"
    <2>1. /\ PerName(q) /\ q[i][name] = p
          /\ \A j \in Inodes, m \in Names : (j # i \/ m # name) => q[j][m] = v[j][m]
      <3>1. q = [v EXCEPT ![i][name] = p] BY <1>8 DEF Asked
      <3>2. SetOne(v, i, name, p, q) BY <1>5, <3>1, WantIs
      <3> QED BY <3>2 DEF SetOne
    <2>2. PICK g : g = o.h OBVIOUS
    <2>3. /\ g = ReadHandle(o.d, i) /\ Held(g, name) = w
          /\ \A m : m # name => Held(g, m) = Held(h, m)
          /\ DataBeside(h) => DataBeside(g)
      BY <1>2, <1>8, <2>2 DEF CallDone
    <2>4. \A j \in Inodes : DataBeside(ReadHandle(o.d, j)) BY <1>1, <1>4, <1>7, <2>3
    <2>5. \A j \in Inodes, m \in Names : SameTo(m, Held(ReadHandle(o.d, j), m), q[j][m])
      <3> TAKE j \in Inodes, m \in Names
      <3>1. CASE j # i
        <4>1. ReadHandle(o.d, j) = ReadHandle(d, j) /\ q[j][m] = v[j][m] BY <1>4, <2>1, <3>1
        <4> QED BY <1>6, <4>1
      <3>2. CASE j = i /\ m # name
        <4>1. Held(ReadHandle(o.d, j), m) = Held(ReadHandle(d, j), m) BY <1>1, <2>3, <3>2
        <4>2. q[j][m] = v[j][m] BY <2>1, <3>2
        <4> QED BY <1>6, <4>1, <4>2
      <3>3. CASE j = i /\ m = name BY <1>2, <2>1, <2>3, <3>3
      <3> QED BY <3>1, <3>2, <3>3
    <2> QED BY <1>3, <2>1, <2>4, <2>5 DEF Sound, Promised
  <1>9. CASE o.err # "ok"
    <2>1. q = v BY <1>9 DEF Asked
    <2>2. ReadHandle(o.d, i) = h BY <1>2, <1>9 DEF CallDone
    <2>3. \A j \in Inodes : ReadHandle(o.d, j) = ReadHandle(d, j) BY <1>1, <1>4, <2>2
    <2>4. \A j \in Inodes : DataBeside(ReadHandle(o.d, j)) BY <1>7, <2>3
    <2>5. \A j \in Inodes, m \in Names : SameTo(m, Held(ReadHandle(o.d, j), m), q[j][m])
      BY <1>6, <2>1, <2>3
    <2> QED BY <1>3, <1>5, <2>1, <2>4, <2>5 DEF Sound, Promised
  <1> QED BY <1>8, <1>9

LEMMA CallLoses ==
    ASSUME NEW d, NEW i, NEW name, NEW w, NEW p, NEW o, Called(d, i, name, w, p, o),
           NoLoss(d, faults), NEW k, k = IF o.err = "io" THEN faults + 1 ELSE faults
    PROVE  NoLoss(o.d, k)
  <1>1. o.err # "io" => (NoneLost(d) => NoneLost(o.d)) BY DEF Called, CallDone
  <1>2. faults \in Nat /\ (faults = 0 => NoneLost(d)) BY DEF NoLoss
  <1>3. k \in Nat /\ (k = 0 => o.err # "io" /\ faults = 0) BY <1>2
  <1> QED BY <1>1, <1>2, <1>3 DEF NoLoss

\* What becomes of the nodes when a call changes an attribute of inode i.
LEMMA OthersNodes ==
    ASSUME NEW d, NEW i \in Inodes, NEW name, NEW w, NEW p, NEW o, Called(d, i, name, w, p, o),
           NEW v, PerName(v), name \in Names,
           NodesRight(d, node, v), NEW q, Asked(v, i, name, p, o, q), name # "system.data"
    PROVE  NodesRight(o.d, node, q)
  <1>1. \A j \in Inodes : Own(d, j) => Own(o.d, j) BY DEF Called, CallDone
  <1>2. \A j \in Inodes : q[j]["system.data"] = v[j]["system.data"]
    <2>1. CASE o.err = "ok"
      <3>1. q = [v EXCEPT ![i][name] = p] BY <2>1 DEF Asked
      <3>2. SetOne(v, i, name, p, q) BY <3>1, WantIs
      <3> QED BY <3>2, InlineAssumption DEF SetOne
    <2>2. CASE o.err # "ok" BY <2>2 DEF Asked
    <2> QED BY <2>1, <2>2
  <1> QED BY <1>1, <1>2 DEF NodesRight

\* A node after a call for its data.
NodeRight(d, i, x) == /\ NodeShape(x) /\ x.kind # "none"
                      /\ x.kind = "inline" => Own(d, i) /\ x.size \in Nat

LEMMA DataNodes ==
    ASSUME NEW d, NEW i \in Inodes, NEW w, NEW p, NEW o, Called(d, i, "system.data", w, p, o),
           NEW v, PerName(v),
           NodesRight(d, node, v), NEW q, Asked(v, i, "system.data", p, o, q),
           NEW x, NodeRight(o.d, i, x), NEW n, n = [node EXCEPT ![i] = x]
    PROVE  NodesRight(o.d, n, q)
  <1>1. \A j \in Inodes : Own(d, j) => Own(o.d, j) BY DEF Called, CallDone
  <1>2. \A j \in Inodes : j # i => q[j]["system.data"] = v[j]["system.data"]
    <2>1. CASE o.err = "ok"
      <3>1. q = [v EXCEPT ![i]["system.data"] = p] BY <2>1 DEF Asked
      <3>2. "system.data" \in Names BY InlineAssumption
      <3>3. SetOne(v, i, "system.data", p, q) BY <3>1, <3>2, WantIs
      <3> QED BY <3>2, <3>3 DEF SetOne
    <2>2. CASE o.err # "ok" BY <2>2 DEF Asked
    <2> QED BY <2>1, <2>2
  <1>3. node = [j \in Inodes |-> node[j]] BY DEF NodesRight
  <1>4. n = [j \in Inodes |-> n[j]] /\ n[i] = x /\ \A j \in Inodes : j # i => n[j] = node[j]
    BY <1>3
  <1>5. \A j \in Inodes : /\ NodeShape(n[j])
                          /\ n[j].kind = "inline" => Own(o.d, j) /\ n[j].size \in Nat
                          /\ n[j].kind = "none" => q[j]["system.data"] = None
    <2> TAKE j \in Inodes
    <2>1. CASE j = i BY <1>4, <2>1 DEF NodeRight
    <2>2. CASE j # i
      <3>1. n[j] = node[j] BY <1>4, <2>2
      <3> QED BY <1>1, <1>2, <2>2, <3>1 DEF NodesRight
    <2> QED BY <2>1, <2>2
  <1> QED BY <1>4, <1>5 DEF NodesRight
-----------------------------------------------------------------------------
\* Steps on attributes

LEMMA ClosedIs == Closed.open = FALSE /\ NoFile.open = FALSE /\ \A d, i : ReadHandle(d, i).open = TRUE
  BY DEF Closed, NoFile, ReadHandle, Handle

LEMMA NobodyElse ==
    ASSUME AttrInv
    PROVE  /\ ~handle.open => handle = Closed
           /\ handle.open => handle.ino \in Inodes /\ handle = ReadHandle(disk, handle.ino) /\ file = NoFile
           /\ ~file.open => file = NoFile
  BY ClosedIs DEF AttrInv, HandleRight, FileRight

LEMMA OpenSteps ==
    ASSUME AttrInv, NEW i \in Inodes, XattrsOpen(i) \/ XattrsClose, ~file.open,
           node' = node, file' = file
    PROVE  AttrInv'
  <1>1. disk' = disk /\ want' = want /\ faults' = faults BY DEF XattrsOpen, XattrsClose
  <1>2. file' = NoFile BY NobodyElse
  <1>3. handle' = Closed \/ handle' = ReadHandle(disk, i) BY DEF XattrsOpen, XattrsClose
  <1>4. HandleRight(disk, handle')
    <2>1. ReadHandle(disk, i).ino = i BY DEF ReadHandle, Handle
    <2> QED BY <1>3, <2>1 DEF HandleRight
  <1>5. FileRight(disk, node, file', handle') BY <1>2 DEF FileRight
  <1> QED BY <1>1, <1>4, <1>5 DEF AttrInv

LEMMA EndSteps ==
    ASSUME Careful, AttrInv, handle.open, NEW name \in Names, name # "system.data", NEW w, NEW p, NEW o,
           Called(disk, handle.ino, name, w, p, o), Ends(o, [want EXCEPT ![handle.ino][name] = p]),
           node' = node, file' = file
    PROVE  AttrInv'
  <1>1. PICK i \in Inodes : i = handle.ino /\ handle = ReadHandle(disk, i) BY NobodyElse
  <1>2. Called(disk, i, name, w, p, o) BY <1>1
  <1>3. disk' = o.d BY DEF Ends
  <1>4. Asked(want, i, name, p, o, want') BY <1>1 DEF Ends, Asked
  <1>5. Sound(disk, want) BY DEF AttrInv
  <1>6. Sound(disk', want') BY <1>2, <1>3, <1>4, <1>5, CallKeeps
  <1>7. NoLoss(disk', faults')
    <2>1. faults' = IF o.err = "io" THEN faults + 1 ELSE faults BY DEF Ends
    <2>2. NoLoss(disk, faults) BY DEF AttrInv
    <2> QED BY <1>2, <1>3, <2>1, <2>2, CallLoses
  <1>8. NodesRight(disk', node', want')
    <2>1. NodesRight(disk, node, want) BY DEF AttrInv
    <2>2. PerName(want) BY <1>5 DEF Sound, Promised
    <2>3. NodesRight(o.d, node, want') BY <1>2, <1>4, <2>1, <2>2, OthersNodes
    <2> QED BY <1>3, <2>3
  <1>9. HandleRight(disk', handle')
    <2>1. CASE o.err = "ok"
      <3>1. handle' = o.h BY <2>1 DEF Ends
      <3>2. o.h = ReadHandle(o.d, i) BY <1>2, <2>1 DEF Called, CallDone
      <3>3. ReadHandle(o.d, i).ino = i BY DEF ReadHandle, Handle
      <3> QED BY <1>3, <3>1, <3>2, <3>3 DEF HandleRight
    <2>2. CASE o.err # "ok"
      <3>1. handle' = Closed BY <2>2 DEF Ends, Careful
      <3> QED BY <3>1 DEF HandleRight
    <2> QED BY <2>1, <2>2
  <1>10. FileRight(disk', node', file', handle')
    <2>1. file' = NoFile BY NobodyElse
    <2> QED BY <2>1 DEF FileRight
  <1> QED BY <1>6, <1>7, <1>8, <1>9, <1>10 DEF AttrInv

LEMMA SetSteps ==
    ASSUME Careful, AttrInv, NEW name \in Names, name # "system.data", NEW v \in Values(name),
           XattrSet(name, v), node' = node, file' = file
    PROVE  AttrInv'
  <1>1. handle.open BY DEF XattrSet
  <1>2. PICK o : /\ o \in SetOutcomes(disk, handle, name, v)
                 /\ Ends(o, [want EXCEPT ![handle.ino][name] = v])
    BY DEF XattrSet
  <1>3. PICK i \in Inodes : i = handle.ino /\ handle = ReadHandle(disk, i) BY <1>1, NobodyElse
  <1>4. PICK u : u = Stored(name, v) OBVIOUS
  <1>5. u.len \in Nat /\ SameTo(name, Got(name, u), v) BY <1>4, StoredIs
  <1>6. DiskInv(disk) BY DEF AttrInv, Sound
  <1>7. name \in AllNames BY Constants
  <1>8. CallDone(disk, i, handle, name, Got(name, u), o) BY <1>2, <1>3, <1>4, <1>5, <1>6, <1>7, SetIs
  <1>9. Called(disk, handle.ino, name, Got(name, u), v, o) BY <1>3, <1>5, <1>8 DEF Called
  <1> QED BY <1>1, <1>2, <1>9, EndSteps

LEMMA RemoveSteps ==
    ASSUME Careful, AttrInv, NEW name \in Names, name # "system.data",
           XattrRemove(name), node' = node, file' = file
    PROVE  AttrInv'
  <1>1. handle.open BY DEF XattrRemove
  <1>2. PICK o : /\ o \in RemoveOutcomes(disk, handle, name)
                 /\ Ends(o, [want EXCEPT ![handle.ino][name] = None])
    BY DEF XattrRemove
  <1>3. PICK i \in Inodes : i = handle.ino /\ handle = ReadHandle(disk, i) BY <1>1, NobodyElse
  <1>4. DiskInv(disk) BY DEF AttrInv, Sound
  <1>5. CallDone(disk, i, handle, name, None, o) BY <1>2, <1>3, <1>4, RemoveIs
  <1>6. Called(disk, handle.ino, name, None, None, o) BY <1>3, <1>5, SameNone DEF Called
  <1> QED BY <1>1, <1>2, <1>6, EndSteps

LEMMA FreeSteps ==
    ASSUME AttrInv, NEW i \in Inodes, FreeExtAttr(i), ~IsInline(i), ~file.open, node' = node, file' = file
    PROVE  AttrInv'
  <1>1. /\ handle = Closed /\ disk.inode[i].acl # NoBlock /\ disk' = Freed(disk, i)
        /\ handle' = handle /\ faults' = faults /\ file = NoFile
    BY NobodyElse DEF FreeExtAttr
  <1>2. DiskInv(disk) /\ (\A j \in Inodes : DataBeside(ReadHandle(disk, j))) /\ PerName(want)
        /\ \A j \in Inodes, m \in Names : SameTo(m, Held(ReadHandle(disk, j), m), want[j][m])
    BY DEF AttrInv, Sound, Promised
  <1>3. PICK e : e = disk' OBVIOUS
  <1>4. FreeDone(disk, i, e) BY <1>1, <1>2, <1>3, FreeKeeps
  <1>5. PICK row : row = [m \in Names |-> IF IndexOf(BlockEntries(disk, i), m) # 0 THEN None
                                          ELSE want[i][m]] OBVIOUS
  <1>6. PICK q : q = want' OBVIOUS
  <1>7. q = [want EXCEPT ![i] = row] BY <1>5, <1>6 DEF FreeExtAttr
  <1>8. want = [j \in Inodes |-> [m \in Names |-> want[j][m]]] BY <1>2 DEF PerName
  <1>9. q[i] = row /\ (\A j \in Inodes : j # i => q[j] = want[j]) /\ q = [j \in Inodes |-> q[j]]
    BY <1>7, <1>8
  <1>10. \A m \in Names : row[m] = IF IndexOf(BlockEntries(disk, i), m) # 0 THEN None ELSE want[i][m]
    BY <1>5
  <1>11. row = [m \in Names |-> row[m]] BY <1>5
  <1>12. PerName(q)
    <2>1. \A j \in Inodes : q[j] = [m \in Names |-> q[j][m]]
      <3> TAKE j \in Inodes
      <3>1. CASE j = i
        <4>1. q[j] = row BY <1>9, <3>1
        <4> QED BY <1>11, <4>1, Zenon
      <3>2. CASE j # i
        <4>1. want[j] = [m \in Names |-> want[j][m]] BY <1>8
        <4>2. q[j] = want[j] BY <1>9, <3>2
        <4> QED BY <4>1, <4>2, Zenon
      <3> QED BY <3>1, <3>2
    <2>2. q = [j \in Inodes |-> [m \in Names |-> q[j][m]]] BY <1>9, <2>1, Zenon
    <2> QED BY <2>2 DEF PerName
  <1>13. Sound(e, q)
    <2>1. DiskInv(e) BY <1>4 DEF FreeDone
    <2>2. \A j \in Inodes : DataBeside(ReadHandle(e, j))
      <3> TAKE j \in Inodes
      <3>1. CASE j = i BY <1>2, <1>4, <3>1 DEF FreeDone
      <3>2. CASE j # i
        <4>1. ReadHandle(e, j) = ReadHandle(disk, j) BY <1>4, <3>2 DEF FreeDone
        <4> QED BY <1>2, <4>1
      <3> QED BY <3>1, <3>2
    <2>3. \A j \in Inodes, m \in Names : SameTo(m, Held(ReadHandle(e, j), m), q[j][m])
      <3> TAKE j \in Inodes, m \in Names
      <3>1. CASE j = i
        <4>1. Held(ReadHandle(e, i), m) =
                IF IndexOf(BlockEntries(disk, i), m) # 0 THEN None ELSE Held(ReadHandle(disk, i), m)
          BY <1>4 DEF FreeDone
        <4>2. q[j][m] = row[m] BY <1>9, <3>1
        <4>3. CASE IndexOf(BlockEntries(disk, i), m) # 0
          <5>1. Held(ReadHandle(e, j), m) = None /\ q[j][m] = None BY <1>10, <3>1, <4>1, <4>2, <4>3
          <5> QED BY <5>1, SameNone
        <4>4. CASE IndexOf(BlockEntries(disk, i), m) = 0
          <5>1. Held(ReadHandle(e, j), m) = Held(ReadHandle(disk, j), m) /\ q[j][m] = want[j][m]
            BY <1>10, <3>1, <4>1, <4>2, <4>4
          <5> QED BY <1>2, <5>1
        <4> QED BY <4>3, <4>4
      <3>2. CASE j # i
        <4>1. ReadHandle(e, j) = ReadHandle(disk, j) BY <1>4, <3>2 DEF FreeDone
        <4>2. q[j][m] = want[j][m] BY <1>9, <3>2
        <4> QED BY <1>2, <4>1, <4>2
      <3> QED BY <3>1, <3>2
    <2> QED BY <1>12, <2>1, <2>2, <2>3 DEF Sound, Promised
  <1>14. NoLoss(e, faults') BY <1>1, <1>4 DEF AttrInv, NoLoss, FreeDone
  <1>15. NodesRight(e, node, q)
    <2>1. NodesRight(disk, node, want) BY DEF AttrInv
    <2>2. \A j \in Inodes : Own(disk, j) => Own(e, j) BY <1>4 DEF FreeDone
    <2>3. \A j \in Inodes : want[j]["system.data"] = None => q[j]["system.data"] = None
      <3> TAKE j \in Inodes
      <3>1. CASE j = i
        <4>1. q[j]["system.data"] = row["system.data"] BY <1>9, <3>1
        <4> QED BY <1>10, <3>1, <4>1, InlineAssumption
      <3>2. CASE j # i BY <1>9, <3>2
      <3> QED BY <3>1, <3>2
    <2> QED BY <2>1, <2>2, <2>3 DEF NodesRight
  <1>16. HandleRight(e, handle') BY <1>1 DEF HandleRight
  <1>17. FileRight(e, node, file', handle') BY <1>1 DEF FileRight
  <1> QED BY <1>3, <1>6, <1>13, <1>14, <1>15, <1>16, <1>17 DEF AttrInv
-----------------------------------------------------------------------------
\* Steps on inline data

LEMMA DataSet ==
    ASSUME Careful, AttrInv, NEW i \in Inodes, NEW n \in Sizes, NEW t, NEW o, o \in EaSet(disk, i, Rest(n, t))
    PROVE  Called(disk, i, "system.data", Rest(n, t), Rest(n, t), o)
  <1>1. PICK v : v = Rest(n, t) OBVIOUS
  <1>2. PICK h : h = ReadHandle(disk, i) OBVIOUS
  <1>3. /\ v.len \in Nat /\ v = Stored("system.data", v) /\ Got("system.data", v) = v
        /\ SameTo("system.data", v, v)
    <2>1. /\ n \in Nat /\ n >= 60 /\ v.len = n - 60 /\ v = Stored("system.data", v)
          /\ Got("system.data", v) = v /\ SameTo("system.data", v, v)
      BY <1>1, RestIs
    <2> QED BY <2>1
  <1>4. DiskInv(disk) BY DEF AttrInv, Sound
  <1>5. PICK name \in AllNames : name = "system.data" BY DEF AllNames
  <1>6. o \in SetOutcomes(disk, h, name, v) BY <1>1, <1>2, <1>5 DEF EaSet
  <1>7. CallDone(disk, i, h, name, Got(name, v), o) BY <1>2, <1>3, <1>4, <1>5, <1>6, SetIs
  <1> QED BY <1>1, <1>2, <1>3, <1>5, <1>7 DEF Called

LEMMA DataRemoved ==
    ASSUME Careful, AttrInv, NEW i \in Inodes, NEW o, o \in EaRemove(disk, i)
    PROVE  Called(disk, i, "system.data", None, None, o)
  <1>1. PICK h : h = ReadHandle(disk, i) OBVIOUS
  <1>2. DiskInv(disk) BY DEF AttrInv, Sound
  <1>3. o \in RemoveOutcomes(disk, h, "system.data") BY <1>1 DEF EaRemove
  <1>4. CallDone(disk, i, h, "system.data", None, o) BY <1>1, <1>2, <1>3, RemoveIs
  <1> QED BY <1>1, <1>4, SameNone DEF Called

LEMMA DataSteps ==
    ASSUME AttrInv, handle' = handle, NEW i \in Inodes, NEW w, NEW p, NEW o,
           Called(disk, i, "system.data", w, p, o), handle = Closed,
           disk' = o.d, Asked(want, i, "system.data", p, o, want'), NoLoss(o.d, faults'),
           NEW x, node' = [node EXCEPT ![i] = x], NodeRight(o.d, i, x),
           FileRight(o.d, node', file', Closed)
    PROVE  AttrInv'
  <1>1. Sound(disk, want) /\ NodesRight(disk, node, want) BY DEF AttrInv
  <1>2. "system.data" \in Names BY InlineAssumption
  <1>3. Sound(o.d, want') BY <1>1, <1>2, CallKeeps
  <1>4. PerName(want) BY <1>1 DEF Sound, Promised
  <1>5. NodesRight(o.d, node', want') BY <1>1, <1>4, DataNodes
  <1>6. HandleRight(o.d, Closed) BY DEF HandleRight
  <1> QED BY <1>3, <1>5, <1>6 DEF AttrInv

LEMMA StillOwn ==
    ASSUME NEW d, NEW i \in Inodes, NEW w, NEW p, NEW o, Called(d, i, "system.data", w, p, o), Own(d, i)
    PROVE  Own(o.d, i)
  BY DEF Called, CallDone

LEMMA CreateSteps ==
    ASSUME Careful, AttrInv, NEW i \in Inodes, NEW n \in Sizes, NEW t, CreateInline(i, n, t)
    PROVE  AttrInv'
  <1>1. PICK o : /\ o \in EaSet(disk, i, Rest(n, t)) /\ o.err = "ok" /\ disk' = o.d
                 /\ node' = [node EXCEPT ![i] = Inline(t, n)]
                 /\ want' = [want EXCEPT ![i]["system.data"] = Rest(n, t)]
                 /\ faults' = IF o.err = "io" THEN faults + 1 ELSE faults
    BY DEF CreateInline, Counted
  <1>2. handle' = handle /\ file' = file /\ handle = Closed /\ file = NoFile /\ node[i].kind = "none"
    BY NobodyElse DEF CreateInline, Idle
  <1>3. Called(disk, i, "system.data", Rest(n, t), Rest(n, t), o) BY <1>1, DataSet
  <1>4. Asked(want, i, "system.data", Rest(n, t), o, want') BY <1>1 DEF Asked
  <1>5. NoLoss(o.d, faults')
    <2>1. NoLoss(disk, faults) BY DEF AttrInv
    <2> QED BY <1>1, <1>3, <2>1, CallLoses
  <1>6. Own(o.d, i)
    <2>1. want[i]["system.data"] = None BY <1>2 DEF AttrInv, NodesRight
    <2>2. SameTo("system.data", Held(ReadHandle(disk, i), "system.data"), want[i]["system.data"])
      BY InlineAssumption DEF AttrInv, Sound, Promised
    <2>3. Held(ReadHandle(disk, i), "system.data") = None BY <2>1, <2>2 DEF SameTo
    <2>4. Rest(n, t) # None BY RestIs
    <2>5. Held(ReadHandle(disk, i), "system.data") # Rest(n, t) => Own(o.d, i)
      BY <1>1, <1>3 DEF Called, CallDone
    <2> QED BY <2>3, <2>4, <2>5
  <1>7. NodeRight(o.d, i, Inline(t, n)) BY <1>6, RestIs DEF NodeRight, NodeShape, Inline
  <1>8. FileRight(o.d, node', file', Closed) BY <1>2 DEF FileRight
  <1> QED BY <1>1, <1>2, <1>3, <1>4, <1>5, <1>7, <1>8, DataSteps

LEMMA FileSteps ==
    ASSUME AttrInv, NEW i \in Inodes, FileOpen(i) \/ FileClose
    PROVE  AttrInv'
  <1>1. disk' = disk /\ handle' = handle /\ want' = want /\ faults' = faults /\ node' = node
    BY DEF FileOpen, FileClose
  <1>2. FileRight(disk, node, file', handle)
    <2>1. CASE FileClose BY <2>1 DEF FileClose, FileRight
    <2>2. CASE FileOpen(i)
      <3>1. handle = Closed BY <2>2, NobodyElse DEF FileOpen, Idle
      <3>2. file' = [open |-> TRUE, ino |-> i, acl |-> disk.inode[i].acl,
                     iblocks |-> disk.inode[i].iblocks, size |-> node[i].size]
        BY <2>2 DEF FileOpen
      <3>3. node[i].kind = "inline" /\ node[i].size \in Nat
        BY <2>2 DEF FileOpen, IsInline, AttrInv, NodesRight
      <3> QED BY <3>1, <3>2, <3>3 DEF FileRight
    <2> QED BY <2>1, <2>2
  <1> QED BY <1>1, <1>2 DEF AttrInv

LEMMA ExpandSteps ==
    ASSUME Careful, AttrInv, NEW i \in Inodes, Expand(i)
    PROVE  AttrInv'
  <1>1. PICK o, room :
          /\ o \in Expanded(disk, i) /\ disk' = o.d
          /\ node' = [node EXCEPT ![i] =
                         IF o.err = "ok" /\ room
                         THEN InBlocks(OnDisk(i), MinInline + TailOnDisk(disk, i).len)
                         ELSE [@ EXCEPT !.head = "zero"]]
          /\ want' = IF o.err = "ok" THEN [want EXCEPT ![i]["system.data"] = None] ELSE want
          /\ faults' = IF o.err = "ok" /\ room THEN faults ELSE faults + 1
    BY Zenon DEF Expand
  <1>2. handle' = handle /\ file' = file /\ handle = Closed /\ file = NoFile /\ node[i].kind = "inline"
    BY NobodyElse DEF Expand, Idle, IsInline
  <1>3. Called(disk, i, "system.data", None, None, o) BY <1>1, DataRemoved DEF Expanded
  <1>4. Asked(want, i, "system.data", None, o, want') BY <1>1 DEF Asked
  <1>5. NoLoss(o.d, faults')
    <2>1. faults \in Nat /\ (faults = 0 => NoneLost(disk)) BY DEF AttrInv, NoLoss
    <2>2. faults' \in Nat /\ (faults' = 0 => o.err = "ok" /\ faults = 0) BY <1>1, <2>1
    <2>3. o.err = "ok" => (NoneLost(disk) => NoneLost(o.d)) BY <1>3 DEF Called, CallDone
    <2> QED BY <2>1, <2>2, <2>3 DEF NoLoss
  <1>6. PICK x : x = IF o.err = "ok" /\ room
                     THEN InBlocks(OnDisk(i), MinInline + TailOnDisk(disk, i).len)
                     ELSE [node[i] EXCEPT !.head = "zero"]
    OBVIOUS
  <1>7. node' = [node EXCEPT ![i] = x] BY <1>1, <1>6
  <1>8. Own(disk, i) /\ NodeShape(node[i]) /\ node[i].size \in Nat BY <1>2 DEF AttrInv, NodesRight
  <1>9. Own(o.d, i) BY <1>3, <1>8, StillOwn
  <1>10. NodeRight(o.d, i, x)
    <2>1. CASE o.err = "ok" /\ room
      <3>1. x = InBlocks(OnDisk(i), MinInline + TailOnDisk(disk, i).len) BY <1>6, <2>1
      <3>2. x.kind = "blocks" /\ NodeShape(x) BY <3>1 DEF InBlocks, NodeShape
      <3> QED BY <3>2 DEF NodeRight
    <2>2. CASE ~(o.err = "ok" /\ room)
      <3>1. x = [node[i] EXCEPT !.head = "zero"] BY <1>6, <2>2
      <3>2. x = [kind |-> node[i].kind, head |-> "zero", tail |-> node[i].tail, size |-> node[i].size]
        BY <1>8, <3>1 DEF NodeShape
      <3>3. NodeShape(x) /\ x.kind = "inline" /\ x.size = node[i].size BY <1>2, <3>2 DEF NodeShape
      <3> QED BY <1>8, <1>9, <3>3 DEF NodeRight
    <2> QED BY <2>1, <2>2
  <1>11. FileRight(o.d, node', file', Closed) BY <1>2 DEF FileRight
  <1> QED BY <1>1, <1>2, <1>3, <1>4, <1>5, <1>7, <1>10, <1>11, DataSteps

LEMMA PunchSteps ==
    ASSUME Careful, AttrInv, NEW i \in Inodes, Punch(i)
    PROVE  AttrInv'
  <1>1. PICK o : /\ o \in EaRemove(disk, i) /\ disk' = o.d
                 /\ node' = [node EXCEPT ![i] = Inline("zero", 0)]
                 /\ want' = IF o.err = "ok" THEN [want EXCEPT ![i]["system.data"] = None] ELSE want
                 /\ faults' = IF o.err = "io" THEN faults + 1 ELSE faults
    BY DEF Punch, Counted
  <1>2. handle' = handle /\ file' = file /\ handle = Closed /\ file = NoFile /\ node[i].kind = "inline"
    BY NobodyElse DEF Punch, Idle, IsInline
  <1>3. Called(disk, i, "system.data", None, None, o) BY <1>1, DataRemoved
  <1>4. Asked(want, i, "system.data", None, o, want') BY <1>1 DEF Asked
  <1>5. NoLoss(o.d, faults')
    <2>1. NoLoss(disk, faults) BY DEF AttrInv
    <2> QED BY <1>1, <1>3, <2>1, CallLoses
  <1>6. Own(disk, i) BY <1>2 DEF AttrInv, NodesRight
  <1>7. Own(o.d, i) BY <1>3, <1>6, StillOwn
  <1>8. NodeRight(o.d, i, Inline("zero", 0)) BY <1>7 DEF NodeRight, NodeShape, Inline
  <1>9. FileRight(o.d, node', file', Closed) BY <1>2 DEF FileRight
  <1> QED BY <1>1, <1>2, <1>3, <1>4, <1>5, <1>8, <1>9, DataSteps

\* The copy of an open file's inode says what the inode says.
LEMMA CopyIs ==
    ASSUME NEW d, Shape(d), file.ino \in Inodes, file.acl = d.inode[file.ino].acl,
           file.iblocks = d.inode[file.ino].iblocks
    PROVE  WriteCopy(d) = d
  <1>1. PICK i \in Inodes : i = file.ino OBVIOUS
  <1>2. PICK r : r = [ibody |-> d.inode[i].ibody, acl |-> file.acl, iblocks |-> file.iblocks] OBVIOUS
  <1>3. r = d.inode[i]
    <2>1. d.inode[i] = [ibody |-> d.inode[i].ibody, acl |-> d.inode[i].acl,
                        iblocks |-> IF d.inode[i].acl = NoBlock THEN 0 ELSE 1]
      BY DEF Shape
    <2> QED BY <1>1, <1>2, <2>1
  <1>4. WriteCopy(d) = [d EXCEPT !.inode = [@ EXCEPT ![i] = r]] BY <1>1, <1>2 DEF WriteCopy
  <1>5. [d.inode EXCEPT ![i] = r] = d.inode
    <2>1. d.inode = [j \in Inodes |-> d.inode[j]] BY DEF Shape
    <2>2. PICK f : f = d.inode OBVIOUS
    <2>3. f = [j \in Inodes |-> f[j]] /\ r = f[i] BY <1>3, <2>1, <2>2
    <2>4. [f EXCEPT ![i] = r] = f BY <2>3
    <2> QED BY <2>2, <2>4
  <1>6. d = [inode |-> d.inode, blk |-> d.blk, ea |-> d.ea, used |-> d.used] BY DEF Shape, EaShape
  <1> QED BY <1>4, <1>5, <1>6

\* After a call for the data of an open file its copy is still true.
LEMMA StillCopy ==
    ASSUME NEW d, DiskInv(d), NEW i \in Inodes, Own(d, i), NEW w, NEW p, NEW o,
           Called(d, i, "system.data", w, p, o)
    PROVE  /\ o.d.inode[i].acl = d.inode[i].acl /\ o.d.inode[i].iblocks = d.inode[i].iblocks
           /\ Shape(o.d)
  <1>1. CallDone(d, i, ReadHandle(d, i), "system.data", w, o) BY DEF Called
  <1>2. Shape(d) /\ Shape(o.d) BY <1>1 DEF CallDone, DiskInv
  <1>3. o.d.inode[i].acl = d.inode[i].acl
    <2>1. CASE o.err = "ok" BY <1>1, <2>1 DEF CallDone
    <2>2. CASE o.err # "ok"
      <3>1. o.d.inode = d.inode BY <1>1, <2>2 DEF CallDone
      <3> QED BY <3>1
    <2> QED BY <2>1, <2>2
  <1>4. /\ o.d.inode[i].iblocks = IF o.d.inode[i].acl = NoBlock THEN 0 ELSE 1
        /\ d.inode[i].iblocks = IF d.inode[i].acl = NoBlock THEN 0 ELSE 1
    <2>1. d.inode[i] = [ibody |-> d.inode[i].ibody, acl |-> d.inode[i].acl,
                        iblocks |-> IF d.inode[i].acl = NoBlock THEN 0 ELSE 1] BY <1>2 DEF Shape
    <2>2. o.d.inode[i] = [ibody |-> o.d.inode[i].ibody, acl |-> o.d.inode[i].acl,
                          iblocks |-> IF o.d.inode[i].acl = NoBlock THEN 0 ELSE 1] BY <1>2 DEF Shape
    <2> QED BY <2>1, <2>2
  <1> QED BY <1>2, <1>3, <1>4
LEMMA OpenFile ==
    ASSUME AttrInv, file.open
    PROVE  /\ handle = Closed /\ file.ino \in Inodes /\ node[file.ino].kind = "inline"
           /\ file = [open |-> TRUE, ino |-> file.ino, acl |-> disk.inode[file.ino].acl,
                      iblocks |-> disk.inode[file.ino].iblocks, size |-> file.size]
           /\ file.acl = disk.inode[file.ino].acl /\ file.iblocks = disk.inode[file.ino].iblocks
           /\ file.size \in Nat /\ WriteCopy(disk) = disk
           /\ Own(disk, file.ino) /\ NodeShape(node[file.ino]) /\ node[file.ino].size \in Nat
  <1>1. file # NoFile BY ClosedIs
  <1>2. /\ handle = Closed /\ file.ino \in Inodes /\ node[file.ino].kind = "inline"
        /\ file = [open |-> TRUE, ino |-> file.ino, acl |-> disk.inode[file.ino].acl,
                   iblocks |-> disk.inode[file.ino].iblocks, size |-> file.size]
        /\ file.size \in Nat
    BY <1>1 DEF AttrInv, FileRight
  <1>3. file.acl = disk.inode[file.ino].acl /\ file.iblocks = disk.inode[file.ino].iblocks
    BY <1>2
  <1>4. Shape(disk) BY DEF AttrInv, Sound, DiskInv
  <1>5. WriteCopy(disk) = disk BY <1>2, <1>3, <1>4, CopyIs
  <1>6. Own(disk, file.ino) /\ NodeShape(node[file.ino]) /\ node[file.ino].size \in Nat
    BY <1>2 DEF AttrInv, NodesRight
  <1> QED BY <1>2, <1>3, <1>5, <1>6

LEMMA WriteInlineSteps ==
    ASSUME Careful, AttrInv, NEW n \in Sizes, NEW t, WriteInline(n, t)
    PROVE  AttrInv'
  <1>1. PICK i \in Inodes : i = file.ino BY OpenFile DEF WriteInline
  <1>2. file.open /\ handle' = handle BY DEF WriteInline
  <1>3. WriteCopy(disk) = disk BY <1>2, OpenFile
  <1>4. PICK o, grown :
          /\ o \in EaSet(disk, i, Rest(n, t))
          /\ disk' = IF o.err = "ok" /\ grown THEN WriteCopy(o.d) ELSE o.d
          /\ node' = [node EXCEPT ![i] = Inline(t, IF o.err = "ok" /\ grown THEN n ELSE @.size)]
          /\ file' = [file EXCEPT !.size = IF o.err = "ok" /\ grown THEN n ELSE @]
          /\ want' = IF o.err = "ok" THEN [want EXCEPT ![i]["system.data"] = Rest(n, t)] ELSE want
          /\ faults' = IF o.err = "io" THEN faults + 1 ELSE faults
    <2>1. PICK o : /\ o \in EaSet(WriteCopy(disk), file.ino, Rest(n, t))
                   /\ disk' = IF o.err = "ok" /\ file.size < n THEN WriteCopy(o.d) ELSE o.d
                   /\ node' = [node EXCEPT ![file.ino] =
                                  Inline(t, IF o.err = "ok" /\ file.size < n THEN n ELSE @.size)]
                   /\ file' = [file EXCEPT !.size = IF o.err = "ok" /\ file.size < n THEN n ELSE @]
                   /\ want' = IF o.err = "ok" THEN [want EXCEPT ![file.ino]["system.data"] = Rest(n, t)]
                              ELSE want
                   /\ Counted(o)
      BY Zenon DEF WriteInline
    <2>2. PICK grown : grown = (file.size < n) OBVIOUS
    <2> QED BY <1>1, <1>3, <2>1, <2>2 DEF Counted
  <1>5. Called(disk, i, "system.data", Rest(n, t), Rest(n, t), o) BY <1>4, DataSet
  <1>6. Asked(want, i, "system.data", Rest(n, t), o, want') BY <1>4 DEF Asked
  <1>7. /\ handle = Closed /\ node[i].kind = "inline"
        /\ file = [open |-> TRUE, ino |-> i, acl |-> disk.inode[i].acl,
                   iblocks |-> disk.inode[i].iblocks, size |-> file.size]
        /\ file.acl = disk.inode[i].acl /\ file.iblocks = disk.inode[i].iblocks
        /\ file.size \in Nat /\ Own(disk, i) /\ node[i].size \in Nat
    BY <1>1, <1>2, OpenFile
  <1>8. o.d.inode[i].acl = disk.inode[i].acl /\ o.d.inode[i].iblocks = disk.inode[i].iblocks /\ Shape(o.d)
    <2>1. DiskInv(disk) BY DEF AttrInv, Sound
    <2> QED BY <1>5, <1>7, <2>1, StillCopy
  <1>9. disk' = o.d
    <2>1. WriteCopy(o.d) = o.d BY <1>1, <1>7, <1>8, CopyIs
    <2> QED BY <1>4, <2>1
  <1>10. NoLoss(o.d, faults')
    <2>1. NoLoss(disk, faults) BY DEF AttrInv
    <2> QED BY <1>4, <1>5, <2>1, CallLoses
  <1>11. PICK m : m = IF o.err = "ok" /\ grown THEN n ELSE node[i].size OBVIOUS
  <1>12. node' = [node EXCEPT ![i] = Inline(t, m)] /\ m \in Nat BY <1>4, <1>7, <1>11, RestIs
  <1>13. Own(o.d, i) BY <1>5, <1>7, StillOwn
  <1>14. NodeRight(o.d, i, Inline(t, m)) BY <1>12, <1>13 DEF NodeRight, NodeShape, Inline
  <1>15. PICK k : k = IF o.err = "ok" /\ grown THEN n ELSE file.size OBVIOUS
  <1>16. file' = [open |-> TRUE, ino |-> i, acl |-> disk.inode[i].acl,
                  iblocks |-> disk.inode[i].iblocks, size |-> k] /\ k \in Nat
    <2>1. file' = [file EXCEPT !.size = k] BY <1>4, <1>15
    <2>2. k \in Nat BY <1>7, <1>15, RestIs
    <2>3. PICK a, b, z : a = disk.inode[i].acl /\ b = disk.inode[i].iblocks /\ z = file.size OBVIOUS
    <2>4. file = [open |-> TRUE, ino |-> i, acl |-> a, iblocks |-> b, size |-> z] BY <1>7, <2>3
    <2>5. file' = [open |-> TRUE, ino |-> i, acl |-> a, iblocks |-> b, size |-> k] BY <2>1, <2>4
    <2> QED BY <2>2, <2>3, <2>5
  <1>17. node'[i].kind = "inline"
    <2>1. node = [j \in Inodes |-> node[j]] BY DEF AttrInv, NodesRight
    <2>2. node'[i] = Inline(t, m) BY <1>12, <2>1
    <2> QED BY <2>2 DEF Inline
  <1>18. FileRight(o.d, node', file', Closed) BY <1>8, <1>16, <1>17 DEF FileRight
  <1> QED BY <1>2, <1>5, <1>6, <1>7, <1>9, <1>10, <1>12, <1>14, <1>18, DataSteps

LEMMA WriteExpandSteps ==
    ASSUME Careful, AttrInv, NEW n \in Sizes, NEW t, WriteExpand(n, t)
    PROVE  AttrInv'
  <1>1. PICK i \in Inodes : i = file.ino BY OpenFile DEF WriteExpand
  <1>2. file.open /\ handle' = handle /\ file' = NoFile BY DEF WriteExpand
  <1>3. PICK o : /\ o \in Expanded(disk, i) /\ disk' = o.d
                 /\ node' = [node EXCEPT ![i] = IF o.err = "ok" THEN InBlocks(Whole(n, t), n)
                                                ELSE [@ EXCEPT !.head = "zero"]]
                 /\ want' = IF o.err = "ok" THEN [want EXCEPT ![i]["system.data"] = None] ELSE want
                 /\ faults' = IF o.err = "io" THEN faults + 1 ELSE faults
    BY <1>1 DEF WriteExpand, Counted
  <1>4. Called(disk, i, "system.data", None, None, o) BY <1>3, DataRemoved DEF Expanded
  <1>5. Asked(want, i, "system.data", None, o, want') BY <1>3 DEF Asked
  <1>6. NoLoss(o.d, faults')
    <2>1. NoLoss(disk, faults) BY DEF AttrInv
    <2> QED BY <1>3, <1>4, <2>1, CallLoses
  <1>7. /\ handle = Closed /\ node[i].kind = "inline" /\ Own(disk, i)
        /\ NodeShape(node[i]) /\ node[i].size \in Nat
    BY <1>1, <1>2, OpenFile
  <1>8. PICK x : x = IF o.err = "ok" THEN InBlocks(Whole(n, t), n) ELSE [node[i] EXCEPT !.head = "zero"]
    OBVIOUS
  <1>9. node' = [node EXCEPT ![i] = x] BY <1>3, <1>8
  <1>10. Own(o.d, i) BY <1>4, <1>7, StillOwn
  <1>11. NodeRight(o.d, i, x)
    <2>1. CASE o.err = "ok"
      <3>1. x = InBlocks(Whole(n, t), n) BY <1>8, <2>1
      <3>2. x.kind = "blocks" /\ NodeShape(x) BY <3>1 DEF InBlocks, NodeShape
      <3> QED BY <3>2 DEF NodeRight
    <2>2. CASE o.err # "ok"
      <3>1. x = [node[i] EXCEPT !.head = "zero"] BY <1>8, <2>2
      <3>2. x = [kind |-> node[i].kind, head |-> "zero", tail |-> node[i].tail, size |-> node[i].size]
        BY <1>7, <3>1 DEF NodeShape
      <3>3. NodeShape(x) /\ x.kind = "inline" /\ x.size = node[i].size BY <1>7, <3>2 DEF NodeShape
      <3> QED BY <1>7, <1>10, <3>3 DEF NodeRight
    <2> QED BY <2>1, <2>2
  <1>12. FileRight(o.d, node', file', Closed) BY <1>2 DEF FileRight
  <1> QED BY <1>2, <1>3, <1>4, <1>5, <1>6, <1>7, <1>9, <1>11, <1>12, DataSteps

-----------------------------------------------------------------------------
\* Theorems

LEMMA AttrInit ==
    ASSUME "shared" \notin Uses, ~SharedLarge, InlineInit
    PROVE  AttrInv
  <1>1. Init /\ file = NoFile /\ node = [i \in Inodes |-> NotInline] BY DEF InlineInit
  <1>2. handle = Closed /\ faults = 0 BY <1>1 DEF Init
  <1>3. Starts(disk, want)
    <2>1. CASE disk = EmptyDisk /\ want = [i \in Inodes |-> NoAttrs] BY <2>1, EmptyStarts
    <2>2. CASE \E s \in SharedDisks :
                 disk = s[2] /\ want = [i \in Inodes |-> [NoAttrs EXCEPT !["user.a"] = s[1]]]
      <3>1. PICK s \in SharedDisks :
              disk = s[2] /\ want = [i \in Inodes |-> [NoAttrs EXCEPT !["user.a"] = s[1]]]
        BY <2>2
      <3>2. s \in {<<v, SharedDisk(b, v, 0)>> : b \in EaBlocks, v \in {v \in Plain : v.len <= MinLargeEaSize}}
        BY DEF SharedDisks
      <3>3. PICK b \in EaBlocks, v \in Plain : v.len <= MinLargeEaSize /\ s = <<v, SharedDisk(b, v, 0)>>
        BY <3>2
      <3>4. s[1] = v /\ s[2] = SharedDisk(b, v, 0) BY <3>3
      <3>5. disk = SharedDisk(b, v, 0) /\ want = [i \in Inodes |-> [NoAttrs EXCEPT !["user.a"] = v]]
        BY <3>1, <3>4
      <3> QED BY <3>3, <3>5, SharedStarts
    <2> QED BY <1>1, <2>1, <2>2 DEF Init
  <1>4. NodesRight(disk, node, want)
    <2>1. node = [i \in Inodes |-> node[i]] BY <1>1
    <2>2. \A i \in Inodes : node[i] = NotInline BY <1>1
    <2>3. \A i \in Inodes : want[i]["system.data"] = None BY <1>3, InlineAssumption DEF Starts
    <2>4. NodeShape(NotInline) /\ NotInline.kind = "none" BY DEF NotInline, NodeShape
    <2> QED BY <2>1, <2>2, <2>3, <2>4 DEF NodesRight
  <1>5. Sound(disk, want) BY <1>3 DEF Starts, Sound
  <1>6. NoLoss(disk, faults) BY <1>2, <1>3 DEF Starts, NoLoss
  <1>7. HandleRight(disk, handle) BY <1>2 DEF HandleRight
  <1>8. FileRight(disk, node, file, handle) BY <1>1 DEF FileRight
  <1> QED BY <1>4, <1>5, <1>6, <1>7, <1>8 DEF AttrInv

LEMMA AttrSteps ==
    ASSUME Careful, AttrInv, [InlineNext]_ivars
    PROVE  AttrInv'
  <1>1. CASE UNCHANGED ivars
    BY <1>1 DEF ivars, AttrInv
  <1>2. CASE Attributes
    <2>1. ~file.open /\ node' = node /\ file' = file BY <1>2 DEF Attributes
    <2>2. ASSUME NEW i \in Inodes, XattrsOpen(i) PROVE AttrInv' BY <2>1, <2>2, OpenSteps
    <2>3. ASSUME NEW i \in Inodes, ~IsInline(i), FreeExtAttr(i) PROVE AttrInv' BY <2>1, <2>3, FreeSteps
    <2>4. ASSUME NEW name \in Names \ {"system.data"}, XattrRemove(name) PROVE AttrInv'
      BY <2>1, <2>4, RemoveSteps
    <2>5. ASSUME NEW name \in Names \ {"system.data"}, NEW v \in Values(name), XattrSet(name, v)
          PROVE  AttrInv'
      BY <2>1, <2>5, SetSteps
    <2>6. ASSUME XattrsClose PROVE AttrInv'
      <3>1. PICK i : i \in Inodes BY Constants
      <3> QED BY <2>1, <2>6, <3>1, OpenSteps
    <2> QED BY <1>2, <2>2, <2>3, <2>4, <2>5, <2>6 DEF Attributes
  <1>3. ASSUME NEW i \in InlineInodes, FileOpen(i) \/ Expand(i) \/ Punch(i) PROVE AttrInv'
    <2>1. i \in Inodes BY InlineAssumption
    <2> QED BY <1>3, <2>1, FileSteps, ExpandSteps, PunchSteps
  <1>4. ASSUME NEW i \in InlineInodes, NEW n \in Sizes, NEW t \in Heads, CreateInline(i, n, t) PROVE AttrInv'
    <2>1. i \in Inodes BY InlineAssumption
    <2> QED BY <1>4, <2>1, CreateSteps
  <1>5. ASSUME NEW n \in Sizes, NEW t \in Heads, FileWrite(n, t) PROVE AttrInv'
    BY <1>5, WriteInlineSteps, WriteExpandSteps DEF FileWrite
  <1>6. CASE FileClose
    <2>1. PICK i : i \in Inodes BY Constants
    <2> QED BY <1>6, <2>1, FileSteps
  <1> QED BY <1>1, <1>2, <1>3, <1>4, <1>5, <1>6 DEF InlineNext
LEMMA RefsFollow == ASSUME AttrInv PROVE RefsCounted
  <1>1. DiskInv(disk) /\ NoLoss(disk, faults) BY DEF AttrInv, Sound
  <1>2. Shape(disk) BY <1>1 DEF DiskInv
  <1>3. \A b \in EaBlocks : Users(b) = UsersOf(disk, b) BY DEF Users, UsersOf
  <1>4. \A b \in EaBlocks : Users(b) # {} => /\ b \in disk.used
                                             /\ disk.blk[b].ref = Cardinality(Users(b))
    <2> TAKE b \in EaBlocks
    <2> HAVE Users(b) # {}
    <2>1. PICK c : c = Cardinality(UsersOf(disk, b)) OBVIOUS
    <2>2. /\ b \in disk.used
          /\ disk.blk[b] = [ref |-> Cardinality(UsersOf(disk, b)), entries |-> disk.blk[b].entries]
      BY <1>2, <1>3 DEF Shape
    <2> QED BY <1>3, <2>1, <2>2
  <1>5. faults = 0 => \A b \in disk.used : Users(b) # {}
    BY <1>1, <1>2, <1>3 DEF NoLoss, NoneLost, Shape
  <1>6. \A i \in Inodes : disk.inode[i].iblocks = IF disk.inode[i].acl = NoBlock THEN 0 ELSE 1
    <2> TAKE i \in Inodes
    <2>1. disk.inode[i] = [ibody |-> disk.inode[i].ibody, acl |-> disk.inode[i].acl,
                           iblocks |-> IF disk.inode[i].acl = NoBlock THEN 0 ELSE 1] BY <1>2 DEF Shape
    <2> QED BY <2>1
  <1>7. \A e \in EaInodes : Places(e) <= disk.ea[e].ref BY <1>1, PlacesCounted
  <1> QED BY <1>4, <1>5, <1>6, <1>7 DEF RefsCounted

LEMMA ReadsFollow == ASSUME AttrInv PROVE ReadsRight
  <1>1. DiskInv(disk) BY DEF AttrInv, Sound
  <1>2. Placed BY <1>1, PlacedFollows
  <1>3. \A i \in Inodes : Readable(disk, i) BY <1>1 DEF DiskInv, Good
  <1>4. \A i \in Inodes, name \in Names : SameTo(name, Contents(disk, i)[name], want[i][name])
    <2> TAKE i \in Inodes, name \in Names
    <2>1. SameTo(name, Held(ReadHandle(disk, i), name), want[i][name]) BY DEF AttrInv, Sound, Promised
    <2>2. Contents(disk, i)[name] = Held(ReadHandle(disk, i), name) BY <1>1, ContentsHeld
    <2> QED BY <2>1, <2>2
  <1> QED BY <1>2, <1>3, <1>4 DEF ReadsRight

\* A call that fails has changed nothing in use, a handle is closed when a call on
\* it has failed (ext2fs_xattrs_close), a block that inodes share has no value in an
\* inode, and no file with inline data shares its block at the start.
THEOREM AttributesInOrder ==
    ASSUME Careful, "shared" \notin Uses
    PROVE  InlineSpec => []AttrInv
  <1>1. InlineInit => AttrInv BY AttrInit DEF Careful
  <1>2. AttrInv /\ [InlineNext]_ivars => AttrInv' BY AttrSteps
  <1> QED BY <1>1, <1>2, PTL DEF InlineSpec

\* The counts that ext2fs_adjust_ea_refcount3, xattr_inode_dec_ref, the bitmap and
\* i_blocks keep are true whatever attributes come and go, in whatever order.
THEOREM ReferencesCounted ==
    ASSUME Careful, "shared" \notin Uses
    PROVE  InlineSpec => []RefsCounted
  <1>1. InlineSpec => []AttrInv BY AttributesInOrder
  <1>2. AttrInv => RefsCounted BY RefsFollow
  <1> QED BY <1>1, <1>2, PTL

\* Who reads attributes afresh (ext2fs_xattrs_read) finds what the calls that
\* returned 0 have stored, in the place where the next call looks for it.
THEOREM AttributesRead ==
    ASSUME Careful, "shared" \notin Uses
    PROVE  InlineSpec => []ReadsRight
  <1>1. InlineSpec => []AttrInv BY AttributesInOrder
  <1>2. AttrInv => ReadsRight BY ReadsFollow
  <1> QED BY <1>1, <1>2, PTL
-----------------------------------------------------------------------------
\* Room for inline data

LEMMA SpaceSplit ==
    ASSUME NEW s, List(s)
    PROVE  /\ SpaceUsed(s) = ValueBytes(s) + NameBytes(s)
           /\ ValueBytes(s) \in Nat /\ NameBytes(s) \in Nat
  <1>1. PICK l \in Nat : l = Len(s) BY DEF List, IsSeq
  <1>2. PICK p : p = [n \in 1..l |-> IF s[n].ea = 0 THEN Round4(s[n].value.len) ELSE 0] OBVIOUS
  <1>3. PICK q : q = [n \in 1..l |-> NameLen(s[n].name)] OBVIOUS
  <1>4. PICK r : r = AttrSizesOf(s) OBVIOUS
  <1>5. Numbers(r) /\ Len(r) = l /\ SpaceUsed(s) = Total(r) /\ \A n \in 1..l : r[n] = AttrSize(s[n])
    BY <1>1, <1>4, SizesAreNumbers
  <1>6. \A n \in 1..l : /\ p[n] \in Nat /\ q[n] \in Nat /\ r[n] = p[n] + q[n]
    <2> TAKE n \in 1..l
    <2>1. AttrOk(s[n]) BY <1>1 DEF List
    <2>2. s[n].value.len \in Nat /\ s[n].name \in AllNames BY <2>1 DEF AttrOk
    <2>3. NameLen(s[n].name) \in Nat BY <2>2, NameSizes
    <2>4. Round4(s[n].value.len) \in Nat BY <2>2, Rounded
    <2>5. q[n] = NameLen(s[n].name) BY <1>3
    <2>6. CASE s[n].ea = 0
      <3>1. p[n] = Round4(s[n].value.len) BY <1>2, <2>6
      <3>2. AttrSize(s[n]) = NameLen(s[n].name) + Round4(s[n].value.len) BY <2>6 DEF AttrSize, Needed
      <3> QED BY <1>5, <2>3, <2>4, <2>5, <3>1, <3>2
    <2>7. CASE s[n].ea # 0
      <3>1. p[n] = 0 BY <1>2, <2>7
      <3>2. AttrSize(s[n]) = NameLen(s[n].name) + 0 BY <2>7 DEF AttrSize, Needed
      <3> QED BY <1>5, <2>3, <2>5, <3>1, <3>2
    <2> QED BY <2>6, <2>7
  <1>7. IsSeq(p) /\ Len(p) = l /\ IsSeq(q) /\ Len(q) = l
    <2>1. p = [n \in 1..l |-> p[n]] /\ q = [n \in 1..l |-> q[n]] BY <1>2, <1>3
    <2> QED BY <2>1, MadeSeq
  <1>8. Numbers(p) /\ Numbers(q) BY <1>6, <1>7 DEF Numbers
  <1>9. Total(r) = Total(p) + Total(q) BY <1>5, <1>6, <1>7, <1>8, TotalAdded, ZenonT(30)
  <1>10. Total(p) \in Nat /\ Total(q) \in Nat BY <1>8, TotalNat
  <1>11. ValueBytes(s) = Total(p) BY <1>1, <1>2 DEF ValueBytes
  <1>12. NameBytes(s) = Total(q) BY <1>1, <1>3 DEF NameBytes
  <1> QED BY <1>5, <1>9, <1>10, <1>11, <1>12

\* Whether the attribute's write works is known but for the device.
LEMMA WriteErrors ==
    ASSUME NEW d, NEW i, NEW h, NEW released, NEW o, o \in WriteXattrs(d, i, h, released)
    PROVE  o.err \in {"ok", "io"}
  <1>1. PICK ino : ino = NewInode(d, i, h) OBVIOUS
  <1>2. \A at, e : o \in Stops(at, e) => o.err = "io" BY DEF Stops, Outcome
  <1>3. \A e : o = Outcome("ok", e) => o.err = "ok" BY DEF Outcome
  <1>4. CASE BlockPart(h) = <<>> /\ ino.acl = NoBlock
    <2>1. NoBlockCases(d, i, ino, released, o) BY <1>1, <1>4, WriteCases
    <2> QED BY <1>2, <1>3, <2>1, Zenon DEF NoBlockCases
  <1>5. CASE ~(BlockPart(h) = <<>> /\ ino.acl = NoBlock)
    <2>1. BlockCases(d, i, h, ino, released, o) BY <1>1, <1>5, WriteCases
    <2> QED BY <1>2, <1>3, <2>1, Zenon DEF BlockCases
  <1> QED BY <1>4, <1>5

LEMMA RemoveErrors ==
    ASSUME NEW d, NEW i, NEW o, o \in EaRemove(d, i)
    PROVE  o.err \in {"ok", "io"}
  <1>1. PICK h : h = ReadHandle(d, i) OBVIOUS
  <1>2. PICK n : n = IndexOf(h.attrs, "system.data") OBVIOUS
  <1>3. CASE n = 0
    <2>1. o = [err |-> "ok", d |-> d, h |-> h] BY <1>1, <1>2, <1>3 DEF EaRemove, RemoveOutcomes
    <2> QED BY <2>1
  <1>4. CASE n # 0
    <2>1. PICK u : u = [d |-> DecRef(d, h.attrs[n].ea), h |-> Dropped(h, n)] OBVIOUS
    <2>2. o \in Written(h.ino, u, Releases(h, "system.data"))
      BY <1>1, <1>2, <1>4, <2>1 DEF EaRemove, RemoveOutcomes
    <2>3. PICK w \in WriteXattrs(u.d, h.ino, u.h, Releases(h, "system.data")) :
            o = [err |-> w.err, d |-> w.d, h |-> u.h]
      BY <2>2 DEF Written
    <2>4. w.err \in {"ok", "io"} BY WriteErrors
    <2> QED BY <2>3, <2>4
  <1> QED BY <1>3, <1>4

\* Where the entry of the data is, and what it takes.
DataEntry(h, old, a) ==
    /\ HandleOk(h) /\ old = IndexOf(h.attrs, "system.data") /\ old \in 1..h.ibody /\ a = h.attrs[old]
    /\ a.name = "system.data" /\ a.ea = 0 /\ a.value.len \in Nat
    /\ AttrSize(a) = 20 + Round4(a.value.len) /\ Held(h, "system.data") = a.value

LEMMA EntryOfData ==
    ASSUME AttrInv, NEW i \in Inodes, HasEntry(i), NEW h, h = ReadHandle(disk, i)
    PROVE  \E old, a : DataEntry(h, old, a)
  <1>1. DiskInv(disk) /\ DataBeside(h) BY DEF AttrInv, Sound
  <1>2. Shape(disk) /\ HandleOk(h) BY <1>1 DEF DiskInv, Good
  <1>3. PICK s : s = Entries(disk, i) OBVIOUS
  <1>4. PICK ibody : ibody = disk.inode[i].ibody OBVIOUS
  <1>5. IsSeq(ibody) /\ Lists(disk, i)
    <2>1. IsSeq(BlockEntries(disk, i)) BY <1>2, BlockOf
    <2>2. IsSeq(disk.inode[i].ibody) BY <1>2 DEF Shape
    <2> QED BY <1>4, <2>1, <2>2 DEF Lists
  <1>6. PICK l \in Nat : l = Len(ibody) BY <1>5 DEF IsSeq
  <1>7. PICK k \in Nat : k = Len(h.attrs) BY <1>2 DEF HandleOk, HandleShape, List, IsSeq
  <1>8. /\ h.ibody = l /\ Len(s) = k /\ l <= k
        /\ \A n \in 1..l : s[n] = ibody[n]
        /\ \A n \in 1..k : h.attrs[n] = Attr(s[n].name, EntryValue(disk, s[n]), s[n].ea)
    <2>1. Reading(disk, i, s, h) BY <1>3, <1>5, ReadIs
    <2>2. h.ibody = l /\ Len(s) = k BY <1>4, <1>6, <1>7, <2>1 DEF Reading
    <2>3. h.ibody \in 0..Len(h.attrs) BY <1>2 DEF HandleOk, HandleShape
    <2>4. l <= k BY <1>7, <2>2, <2>3
    <2>5. \A n \in 1..l : s[n] = ibody[n]
      <3> TAKE n \in 1..l
      <3>1. n \in 1..k /\ n <= l BY <2>4
      <3> QED BY <1>4, <1>6, <2>1, <2>2, <3>1 DEF Reading
    <2>6. \A n \in 1..k : h.attrs[n] = Attr(s[n].name, EntryValue(disk, s[n]), s[n].ea)
      BY <2>1, <2>2 DEF Reading
    <2> QED BY <2>2, <2>4, <2>5, <2>6
  <1>9. PICK m \in 1..l : ibody[m].name = "system.data"
    <2>1. IndexOf(ibody, "system.data") # 0 BY <1>4 DEF HasEntry
    <2> QED BY <1>5, <1>6, <2>1, IndexIs
  <1>10. m \in 1..k /\ h.attrs[m].name = "system.data"
    <2>1. m \in 1..k BY <1>8
    <2>2. PICK v : v = EntryValue(disk, s[m]) OBVIOUS
    <2>3. h.attrs[m] = Attr(s[m].name, v, s[m].ea) BY <1>8, <2>1, <2>2
    <2>4. s[m].name = "system.data" BY <1>8, <1>9
    <2> QED BY <2>1, <2>3, <2>4 DEF Attr
  <1>11. PICK old : old = IndexOf(h.attrs, "system.data") OBVIOUS
  <1>12. IsSeq(h.attrs) BY <1>2 DEF HandleOk, HandleShape, List
  <1>13. old \in 1..k /\ h.attrs[old].name = "system.data"
    BY <1>7, <1>10, <1>11, <1>12, IndexIs
  <1>14. old \in 1..h.ibody
    <2>1. HandleShape(h) BY <1>2 DEF HandleOk
    <2>2. /\ Len(BlockPart(h)) = Len(h.attrs) - h.ibody
          /\ \A j \in 1..(Len(h.attrs) - h.ibody) : BlockPart(h)[j] = h.attrs[h.ibody + j]
      BY <2>1, HandleParts, SMTT(30)
    <2>3. ASSUME old > l PROVE FALSE
      <3>1. PICK j \in 1..(k - l) : l + j = old BY <1>8, <1>13, <2>3
      <3>2. BlockPart(h)[j].name = "system.data" BY <1>7, <1>8, <1>13, <2>2, <3>1
      <3>3. \A n \in 1..(k - l) : BlockPart(h)[n].name # "system.data" BY <1>2, <1>7, <1>8, <2>2 DEF HandleOk
      <3> QED BY <3>2, <3>3
    <2> QED BY <1>8, <1>13, <2>3
  <1>15. PICK a : a = h.attrs[old] OBVIOUS
  <1>16. a.name = "system.data" /\ a \in Elems(h.attrs) BY <1>7, <1>13, <1>15 DEF Elems
  <1>17. a.ea = 0 BY <1>1, <1>16 DEF DataBeside
  <1>18. a.value.len \in Nat
    <2>1. AttrOk(a) BY <1>2, <1>16, ElemsOk
    <2> QED BY <2>1 DEF AttrOk
  <1>19. AttrSize(a) = 20 + Round4(a.value.len)
    <2>1. "system.data" \in AllNames BY DEF AllNames
    <2>2. NameLen("system.data") = 20 BY <2>1, NameSizes
    <2> QED BY <1>16, <1>17, <2>2 DEF AttrSize, Needed
  <1>20. Held(h, "system.data") = a.value
    <2>1. Held(h, "system.data") = Got("system.data", a.value) BY <1>2, <1>16, HeldIs
    <2> QED BY <2>1 DEF Got
  <1> QED BY <1>2, <1>11, <1>14, <1>15, <1>16, <1>17, <1>18, <1>19, <1>20 DEF DataEntry
\* The room that ext2fs_inline_data_set has found is the room that
\* xattr_array_update will find.
LEMMA RoomForData ==
    ASSUME AttrInv, NEW i \in Inodes, NEW n \in Sizes, NEW t, Fits(disk, i, n),
           NEW h, h = ReadHandle(disk, i), NEW old, NEW a, DataEntry(h, old, a)
    PROVE  Needed("system.data", Rest(n, t).len, FALSE) <= IbodyFree(h) + AttrSize(a)
  <1>1. DiskInv(disk) BY DEF AttrInv, Sound
  <1>2. HandleOk(h) /\ old \in 1..h.ibody /\ h.ibody # 0 BY DEF DataEntry
  <1>3. PICK q : q = IbodyPart(h) OBVIOUS
  <1>4. List(q) /\ Len(q) = h.ibody
    <2>1. HandleShape(h) BY <1>2 DEF HandleOk
    <2> QED BY <1>3, <2>1, HandleParts
  <1>5. q # <<>> BY <1>2, <1>4, EmptyIsSeq
  <1>6. PICK v, m : v = ValueBytes(q) /\ m = NameBytes(q) OBVIOUS
  <1>7. v \in Nat /\ m \in Nat /\ SpaceUsed(q) = v + m BY <1>4, <1>6, SpaceSplit
  <1>8. InodeMaxSize(disk, i) = (MinOff - v) - m - 4
    <2>1. ReadAttrs(disk, disk.inode[i].ibody) = q BY <1>1, <1>3, PartsRead
    <2> QED BY <1>5, <1>6, <2>1 DEF InodeMaxSize
  <1>9. IbodyFree(h) = IbodyRoom - 4 - (v + m) BY <1>2, <1>3, <1>7, RoomIs
  <1>10. PICK f \in Nat : f = IbodyFree(h) /\ f = InodeMaxSize(disk, i) /\ f % 4 = 0
    <2>1. v + m + 4 <= IbodyRoom BY <1>2, <1>3, <1>7 DEF HandleOk
    <2>2. SpaceUsed(q) % 4 = 0 BY <1>4, SpaceIs
    <2>3. PICK c \in Nat : c = v + m /\ c % 4 = 0 BY <1>7, <2>2
    <2>4. InodeSize \in Nat /\ InodeSize % 4 = 0 BY Constants
    <2>5. IbodyRoom = InodeSize - 164 /\ MinOff = InodeSize - 164
      BY <2>4 DEF IbodyRoom, MinOff, ExtraIsize
    <2>6. PICK g \in Nat : g = InodeSize - 168 - c /\ g % 4 = 0 BY <2>1, <2>3, <2>4, <2>5
    <2>7. IbodyFree(h) = g BY <1>9, <2>3, <2>4, <2>5, <2>6
    <2>8. InodeMaxSize(disk, i) = g BY <1>7, <1>8, <2>3, <2>4, <2>5, <2>6
    <2> QED BY <2>6, <2>7, <2>8
  <1>11. PICK l \in Nat : l = a.value.len BY DEF DataEntry
  <1>12. TailOnDisk(disk, i).len = l
    <2>1. "system.data" \in Names BY InlineAssumption
    <2>2. Contents(disk, i)["system.data"] = Held(h, "system.data") BY <1>1, <2>1, ContentsHeld
    <2>3. Contents(disk, i)["system.data"] = a.value BY <2>2 DEF DataEntry
    <2>4. PICK w : w = a.value OBVIOUS
    <2>5. TailOnDisk(disk, i) = InlineTail(w) BY <2>3, <2>4 DEF TailOnDisk
    <2>6. InlineTail(w).len = w.len
      <3>1. CASE w.len = 0
        <4>1. InlineTail(w) = None BY <3>1 DEF InlineTail
        <4> QED BY <3>1, <4>1 DEF None
      <3>2. CASE w.len # 0 BY <3>2 DEF InlineTail
      <3> QED BY <3>1, <3>2
    <2> QED BY <1>11, <2>4, <2>5, <2>6
  <1>13. PICK k \in Nat : k = Rest(n, t).len /\ n = k + 60 BY RestIs
  <1>14. k <= l + f
    <2>1. n <= 60 \/ n = 60 + l \/ n <= 60 + l + f BY <1>10, <1>12 DEF Fits, MinInline
    <2> QED BY <1>13, <2>1
  <1>15. PICK x \in Nat, y \in Nat : x = Round4(k) /\ y = Round4(l) /\ x <= y + f
    <2>1. PICK x, y : x = Round4(k) /\ y = Round4(l) OBVIOUS
    <2>2. x \in Nat /\ x % 4 = 0 /\ x <= k + 3 BY <2>1, Rounded
    <2>3. y \in Nat /\ y % 4 = 0 /\ l <= y BY <2>1, Rounded
    <2>4. x <= y + f BY <1>10, <1>14, <2>2, <2>3
    <2> QED BY <2>1, <2>2, <2>3, <2>4
  <1>16. Needed("system.data", Rest(n, t).len, FALSE) = 20 + x
    <2>1. "system.data" \in AllNames BY DEF AllNames
    <2>2. NameLen("system.data") = 20 BY <2>1, NameSizes
    <2> QED BY <1>13, <1>15, <2>2 DEF Needed
  <1>17. AttrSize(a) = 20 + y BY <1>11, <1>15 DEF DataEntry
  <1>18. PICK c : c = Needed("system.data", Rest(n, t).len, FALSE) OBVIOUS
  <1>19. c = 20 + x BY <1>16, <1>18
  <1>20. IbodyFree(h) = f /\ f \in Nat /\ x \in Nat /\ y \in Nat /\ x <= y + f BY <1>10, <1>15
  <1>21. c <= IbodyFree(h) + AttrSize(a) BY <1>17, <1>19, <1>20
  <1> QED BY <1>18, <1>21

\* A write that fits can fail only at the device.
LEMMA FittingWrites ==
    ASSUME AttrInv, NEW i \in Inodes, NEW n \in Sizes, NEW t, Fits(disk, i, n), HasEntry(i),
           NEW o, o \in EaSet(disk, i, Rest(n, t))
    PROVE  o.err \in {"ok", "io"}
  <1>1. PICK h : h = ReadHandle(disk, i) OBVIOUS
  <1>2. PICK v : v = Rest(n, t) OBVIOUS
  <1>3. PICK old, a : DataEntry(h, old, a) BY <1>1, EntryOfData
  <1>4. Needed("system.data", v.len, FALSE) <= IbodyFree(h) + AttrSize(a) BY <1>1, <1>2, <1>3, RoomForData
  <1>5. PICK u : u = Updated(disk, h, "system.data", v) OBVIOUS
  <1>6. old = IndexOf(h.attrs, "system.data") /\ old \in 1..h.ibody /\ a = h.attrs[old] /\ h.ibody \in Nat
    BY <1>3 DEF DataEntry, HandleOk, HandleShape, List, IsSeq
  <1>7. u = ArrayUpdate(disk, h, "system.data", v, IbodyFree(h), 0, old, FALSE)
    <2>1. ~(old > h.ibody) BY <1>6
    <2> QED BY <1>5, <1>6, <2>1 DEF Updated
  <1>8. u.err = "ok"
    <2>1. PICK up : up = UpdateEntry(disk, h.attrs[old].ea, "system.data", v, FALSE) OBVIOUS
    <2>2. up.err = "ok" BY <2>1 DEF UpdateEntry
    <2>3. old # 0 BY <1>6
    <2>4. \E g : u = [err |-> up.err, d |-> up.d, h |-> g]
      BY <1>4, <1>6, <1>7, <2>1, <2>3 DEF ArrayUpdate
    <2> QED BY <2>2, <2>4
  <1>9. v = Stored("system.data", v) BY DEF Stored
  <1>10. o \in SetOutcomes(disk, h, "system.data", v) BY <1>1, <1>2 DEF EaSet
  <1>11. CASE SameInHandle(h, old, v)
    <2>1. o = [err |-> "ok", d |-> disk, h |-> h] BY <1>6, <1>9, <1>10, <1>11 DEF SetOutcomes
    <2> QED BY <2>1
  <1>12. CASE ~SameInHandle(h, old, v)
    <2>1. o \in Written(h.ino, u, Releases(h, "system.data"))
      BY <1>5, <1>6, <1>8, <1>9, <1>10, <1>12 DEF SetOutcomes
    <2>2. PICK w \in WriteXattrs(u.d, h.ino, u.h, Releases(h, "system.data")) :
            o = [err |-> w.err, d |-> w.d, h |-> u.h]
      BY <2>1 DEF Written
    <2>3. w.err \in {"ok", "io"} BY WriteErrors
    <2> QED BY <2>2, <2>3
  <1> QED BY <1>11, <1>12

-----------------------------------------------------------------------------
\* Head and tail

\* Faults other than of the whole call, and clients that write less than a file has
\* or to one that was emptied, tear inline data apart.
Undisturbed == Faults \subseteq {"first"} /\ Uses = {}

LEMMA WholeStep ==
    ASSUME WholeRight(node, want, data), NodesRight(disk, node, want), PerName(want),
           NEW i \in Inodes, NEW p, want' = [want EXCEPT ![i]["system.data"] = p],
           NEW x, node' = [node EXCEPT ![i] = x], NEW y, data' = [data EXCEPT ![i] = y],
           NodeWhole(x, p, y)
    PROVE  WholeRight(node', want', data')
  <1>1. "system.data" \in Names BY InlineAssumption
  <1>2. SetOne(want, i, "system.data", p, want') BY <1>1, WantIs
  <1>3. node = [j \in Inodes |-> node[j]] /\ data = [j \in Inodes |-> data[j]]
    BY DEF NodesRight, WholeRight
  <1>4. /\ node'[i] = x /\ (\A j \in Inodes : j # i => node'[j] = node[j])
        /\ data'[i] = y /\ (\A j \in Inodes : j # i => data'[j] = data[j])
        /\ data' = [j \in Inodes |-> data'[j]]
    BY <1>3
  <1>5. \A j \in Inodes : NodeWhole(node'[j], want'[j]["system.data"], data'[j])
    <2> TAKE j \in Inodes
    <2>1. CASE j = i BY <1>2, <1>4, <2>1 DEF SetOne
    <2>2. CASE j # i
      <3>1. node'[j] = node[j] /\ data'[j] = data[j] BY <1>4, <2>2
      <3>2. want'[j]["system.data"] = want[j]["system.data"] BY <1>1, <1>2, <2>2 DEF SetOne
      <3> QED BY <3>1, <3>2 DEF WholeRight
    <2> QED BY <2>1, <2>2
  <1> QED BY <1>4, <1>5 DEF WholeRight

\* What is read of an inline file is what it holds.
LEMMA TailRead ==
    ASSUME AttrInv, NEW i \in Inodes
    PROVE  TailOnDisk(disk, i) = InlineTail(want[i]["system.data"])
  <1>1. "system.data" \in Names BY InlineAssumption
  <1>2. SameTo("system.data", Held(ReadHandle(disk, i), "system.data"), want[i]["system.data"])
    BY <1>1 DEF AttrInv, Sound, Promised
  <1>3. Contents(disk, i)["system.data"] = Held(ReadHandle(disk, i), "system.data")
    BY <1>1, ContentsHeld DEF AttrInv, Sound
  <1>4. Contents(disk, i)["system.data"] = want[i]["system.data"] BY <1>2, <1>3 DEF SameTo
  <1> QED BY <1>4 DEF TailOnDisk

LEMMA WholeFollows == ASSUME AttrInv, WholeRight(node, want, data) PROVE InlineWhole
  <1> SUFFICES ASSUME NEW i \in Inodes, node[i].kind # "none" PROVE OnDisk(i) = data[i]
    BY DEF InlineWhole
  <1>1. NodeWhole(node[i], want[i]["system.data"], data[i]) BY DEF WholeRight
  <1>2. CASE node[i].kind = "inline"
    <2>1. OnDisk(i) = [head |-> node[i].head, tail |-> TailOnDisk(disk, i)] BY <1>2 DEF OnDisk, IsInline
    <2>2. data[i] = [head |-> node[i].head, tail |-> InlineTail(want[i]["system.data"])]
      BY <1>1, <1>2 DEF NodeWhole
    <2> QED BY <2>1, <2>2, TailRead
  <1>3. CASE node[i].kind # "inline"
    <2>1. OnDisk(i) = [head |-> node[i].head, tail |-> node[i].tail] BY <1>3 DEF OnDisk, IsInline
    <2>2. data[i] = [head |-> node[i].head, tail |-> node[i].tail] BY <1>1, <1>3 DEF NodeWhole
    <2> QED BY <2>1, <2>2
  <1> QED BY <1>2, <1>3
LEMMA SameData ==
    ASSUME WholeRight(node, want, data), node' = node, data' = data,
           \A j \in Inodes : node[j].kind = "inline" => want'[j]["system.data"] = want[j]["system.data"]
    PROVE  WholeRight(node', want', data')
  BY DEF WholeRight, NodeWhole

LEMMA WholeAttributes ==
    ASSUME AttrInv, WholeRight(node, want, data), Attributes
    PROVE  WholeRight(node', want', data')
  <1>1. node' = node /\ data' = data BY DEF Attributes
  <1>2. PerName(want) BY DEF AttrInv, Sound, Promised
  <1>3. ASSUME want' = want PROVE WholeRight(node', want', data') BY <1>1, <1>3, SameData
  <1>4. ASSUME NEW i \in Inodes, ~IsInline(i), FreeExtAttr(i) PROVE WholeRight(node', want', data')
    <2>1. want = [j \in Inodes |-> [m \in Names |-> want[j][m]]] BY <1>2 DEF PerName
    <2>2. \A j \in Inodes : j # i => want'[j] = want[j] BY <1>4, <2>1 DEF FreeExtAttr
    <2> QED BY <1>1, <1>4, <2>2, SameData DEF IsInline
  <1>5. ASSUME NEW name \in Names \ {"system.data"}, NEW o, NEW p, handle.open,
               Ends(o, [want EXCEPT ![handle.ino][name] = p])
        PROVE  WholeRight(node', want', data')
    <2>1. CASE o.err = "ok"
      <3>1. PICK i \in Inodes : i = handle.ino BY <1>5, NobodyElse
      <3>2. want' = [want EXCEPT ![i][name] = p] BY <1>5, <2>1, <3>1 DEF Ends
      <3>3. SetOne(want, i, name, p, want') BY <1>2, <3>2, WantIs
      <3>4. \A j \in Inodes : want'[j]["system.data"] = want[j]["system.data"]
        BY <3>3, InlineAssumption DEF SetOne
      <3> QED BY <1>1, <3>4, SameData
    <2>2. CASE o.err # "ok"
      <3>1. want' = want BY <1>5, <2>2 DEF Ends
      <3> QED BY <1>3, <3>1
    <2> QED BY <2>1, <2>2
  <1>6. ASSUME NEW name \in Names \ {"system.data"}, XattrRemove(name) PROVE WholeRight(node', want', data')
    <2>1. PICK o : Ends(o, [want EXCEPT ![handle.ino][name] = None]) BY <1>6 DEF XattrRemove
    <2> QED BY <1>5, <1>6, <2>1 DEF XattrRemove
  <1>7. ASSUME NEW name \in Names \ {"system.data"}, NEW v \in Values(name), XattrSet(name, v)
        PROVE  WholeRight(node', want', data')
    <2>1. PICK o : Ends(o, [want EXCEPT ![handle.ino][name] = v]) BY <1>7 DEF XattrSet
    <2> QED BY <1>5, <1>7, <2>1 DEF XattrSet
  <1>8. ASSUME NEW i \in Inodes, XattrsOpen(i) PROVE WholeRight(node', want', data')
    BY <1>3, <1>8 DEF XattrsOpen
  <1>9. CASE XattrsClose BY <1>3, <1>9 DEF XattrsClose
  <1> QED BY <1>4, <1>6, <1>7, <1>8, <1>9 DEF Attributes

LEMMA NoError ==
    ASSUME Undisturbed, NEW o, Allowed(o), o.err \in {"ok", "io"}
    PROVE  o.err = "ok"
  <1>1. "head" \notin Faults BY DEF Undisturbed
  <1> QED BY <1>1 DEF Allowed

LEMMA WholeCreate ==
    ASSUME AttrInv, WholeRight(node, want, data), NEW i \in Inodes, NEW n \in Sizes, NEW t,
           CreateInline(i, n, t)
    PROVE  WholeRight(node', want', data')
  <1>1. PICK x, y, p : x = Inline(t, n) /\ y = [head |-> t, tail |-> InlineTail(p)] /\ p = Rest(n, t)
    OBVIOUS
  <1>2. node' = [node EXCEPT ![i] = x] /\ data' = [data EXCEPT ![i] = y]
        /\ want' = [want EXCEPT ![i]["system.data"] = p]
    BY <1>1 DEF CreateInline
  <1>3. NodeWhole(x, p, y) BY <1>1 DEF NodeWhole, Inline
  <1>4. NodesRight(disk, node, want) /\ PerName(want) BY DEF AttrInv, Sound, Promised
  <1> QED BY <1>2, <1>3, <1>4, WholeStep

LEMMA WholeExpand ==
    ASSUME Undisturbed, AttrInv, WholeRight(node, want, data), NEW i \in Inodes, Expand(i)
    PROVE  WholeRight(node', want', data')
  <1>1. node[i].kind = "inline" /\ data' = data BY DEF Expand, IsInline
  <1>2. PICK o, room :
          /\ o \in Expanded(disk, i) /\ room \in {TRUE, ~("head" \in Faults /\ faults < MaxFaults)}
          /\ node' = [node EXCEPT ![i] =
                         IF o.err = "ok" /\ room
                         THEN InBlocks(OnDisk(i), MinInline + TailOnDisk(disk, i).len)
                         ELSE [@ EXCEPT !.head = "zero"]]
          /\ want' = IF o.err = "ok" THEN [want EXCEPT ![i]["system.data"] = None] ELSE want
    BY Zenon DEF Expand
  <1>3. o.err = "ok"
    <2>1. Allowed(o) /\ o \in EaRemove(disk, i) BY <1>2 DEF Expanded
    <2> QED BY <2>1, RemoveErrors, NoError
  <1>4. room
    <2>1. "head" \notin Faults BY DEF Undisturbed
    <2> QED BY <1>2, <2>1
  <1>5. PICK x : x = InBlocks(OnDisk(i), MinInline + TailOnDisk(disk, i).len) OBVIOUS
  <1>6. node' = [node EXCEPT ![i] = x] /\ want' = [want EXCEPT ![i]["system.data"] = None]
    BY <1>2, <1>3, <1>4, <1>5
  <1>7. PICK y : y = data[i] OBVIOUS
  <1>8. data' = [data EXCEPT ![i] = y]
    <2>1. data = [j \in Inodes |-> data[j]] BY DEF WholeRight
    <2> QED BY <1>1, <1>7, <2>1
  <1>9. NodeWhole(x, None, y)
    <2>1. NodeWhole(node[i], want[i]["system.data"], y) BY <1>7 DEF WholeRight
    <2>2. y = [head |-> node[i].head, tail |-> InlineTail(want[i]["system.data"])]
      BY <1>1, <2>1 DEF NodeWhole
    <2>3. OnDisk(i) = [head |-> node[i].head, tail |-> TailOnDisk(disk, i)] BY <1>1 DEF OnDisk, IsInline
    <2>4. OnDisk(i) = y BY <2>2, <2>3, TailRead
    <2>5. x.kind = "blocks" /\ x.head = y.head /\ x.tail = y.tail BY <1>5, <2>4 DEF InBlocks
    <2>6. y = [head |-> y.head, tail |-> y.tail] BY <2>2
    <2> QED BY <2>5, <2>6 DEF NodeWhole
  <1>10. NodesRight(disk, node, want) /\ PerName(want) BY DEF AttrInv, Sound, Promised
  <1> QED BY <1>6, <1>8, <1>9, <1>10, WholeStep

LEMMA WholePunch ==
    ASSUME Undisturbed, AttrInv, WholeRight(node, want, data), NEW i \in Inodes, Punch(i)
    PROVE  WholeRight(node', want', data')
  <1>1. PICK o : /\ o \in EaRemove(disk, i) /\ Allowed(o)
                 /\ node' = [node EXCEPT ![i] = Inline("zero", 0)]
                 /\ data' = IF o.err = "ok" THEN [data EXCEPT ![i] = NoData] ELSE data
                 /\ want' = IF o.err = "ok" THEN [want EXCEPT ![i]["system.data"] = None] ELSE want
    BY DEF Punch
  <1>2. o.err = "ok" BY <1>1, RemoveErrors, NoError
  <1>3. NodeWhole(Inline("zero", 0), None, NoData)
    <2>1. InlineTail(None) = None BY DEF InlineTail
    <2> QED BY <2>1 DEF NodeWhole, Inline, NoData
  <1>4. NodesRight(disk, node, want) /\ PerName(want) BY DEF AttrInv, Sound, Promised
  <1>5. want' = [want EXCEPT ![i]["system.data"] = None] BY <1>1, <1>2
  <1>6. data' = [data EXCEPT ![i] = NoData] BY <1>1, <1>2
  <1> QED BY <1>1, <1>3, <1>4, <1>5, <1>6, WholeStep

LEMMA WholeWrite ==
    ASSUME Undisturbed, AttrInv, WholeRight(node, want, data), NEW n \in Sizes, NEW t, file.open,
           ~(n < file.size), HasEntry(file.ino), WriteInline(n, t)
    PROVE  WholeRight(node', want', data')
  <1>1. PICK i \in Inodes : i = file.ino BY OpenFile
  <1>2. WriteCopy(disk) = disk /\ file.size \in Nat BY OpenFile
  <1>3. Fits(disk, i, n) BY <1>1 DEF WriteInline
  <1>4. PICK o :
          /\ o \in EaSet(WriteCopy(disk), file.ino, Rest(n, t)) /\ Allowed(o)
          /\ node' = [node EXCEPT ![file.ino] =
                         Inline(t, IF o.err = "ok" /\ file.size < n THEN n ELSE @.size)]
          /\ data' = IF o.err # "ok" THEN data
                     ELSE [data EXCEPT ![file.ino] = IF file.size < n \/ n = file.size THEN Whole(n, t)
                                                     ELSE [@ EXCEPT !.head = t]]
          /\ want' = IF o.err = "ok" THEN [want EXCEPT ![file.ino]["system.data"] = Rest(n, t)] ELSE want
    BY Zenon DEF WriteInline
  <1>5. o.err = "ok"
    <2>1. o \in EaSet(disk, i, Rest(n, t)) BY <1>1, <1>2, <1>4
    <2>2. HasEntry(i) BY <1>1
    <2>3. o.err \in {"ok", "io"} BY <1>3, <2>1, <2>2, FittingWrites
    <2> QED BY <1>4, <2>3, NoError
  <1>6. file.size < n \/ n = file.size
    <2>1. n \in Nat BY RestIs
    <2> QED BY <1>2, <2>1
  <1>7. PICK m : m = IF o.err = "ok" /\ file.size < n THEN n ELSE node[i].size OBVIOUS
  <1>8. node' = [node EXCEPT ![i] = Inline(t, m)] BY <1>1, <1>4, <1>7
  <1>9. PICK p : p = Rest(n, t) OBVIOUS
  <1>10. PICK y : y = [head |-> t, tail |-> InlineTail(p)] OBVIOUS
  <1>11. data' = [data EXCEPT ![i] = y] BY <1>1, <1>4, <1>5, <1>6, <1>9, <1>10 DEF Whole
  <1>12. want' = [want EXCEPT ![i]["system.data"] = p] BY <1>1, <1>4, <1>5, <1>9
  <1>13. NodeWhole(Inline(t, m), p, y) BY <1>10 DEF NodeWhole, Inline
  <1>14. NodesRight(disk, node, want) /\ PerName(want) BY DEF AttrInv, Sound, Promised
  <1> QED BY <1>8, <1>11, <1>12, <1>13, <1>14, WholeStep

LEMMA WholeWriteExpand ==
    ASSUME Undisturbed, AttrInv, WholeRight(node, want, data), NEW n \in Sizes, NEW t, file.open,
           WriteExpand(n, t)
    PROVE  WholeRight(node', want', data')
  <1>1. PICK i \in Inodes : i = file.ino BY OpenFile
  <1>2. PICK o :
          /\ o \in Expanded(disk, file.ino)
          /\ node' = [node EXCEPT ![file.ino] = IF o.err = "ok" THEN InBlocks(Whole(n, t), n)
                                                ELSE [@ EXCEPT !.head = "zero"]]
          /\ data' = IF o.err = "ok" THEN [data EXCEPT ![file.ino] = Whole(n, t)] ELSE data
          /\ want' = IF o.err = "ok" THEN [want EXCEPT ![file.ino]["system.data"] = None] ELSE want
    BY Zenon DEF WriteExpand
  <1>3. o.err = "ok"
    <2>1. Allowed(o) /\ o \in EaRemove(disk, i) BY <1>1, <1>2 DEF Expanded
    <2> QED BY <2>1, RemoveErrors, NoError
  <1>4. PICK x : x = InBlocks(Whole(n, t), n) OBVIOUS
  <1>5. PICK y : y = Whole(n, t) OBVIOUS
  <1>6. node' = [node EXCEPT ![i] = x] BY <1>1, <1>2, <1>3, <1>4
  <1>7. data' = [data EXCEPT ![i] = y] BY <1>1, <1>2, <1>3, <1>5
  <1>8. want' = [want EXCEPT ![i]["system.data"] = None] BY <1>1, <1>2, <1>3
  <1>9. NodeWhole(x, None, y)
    <2>1. x.kind = "blocks" /\ x.head = y.head /\ x.tail = y.tail BY <1>4, <1>5 DEF InBlocks
    <2>2. y = [head |-> y.head, tail |-> y.tail] BY <1>5 DEF Whole
    <2> QED BY <2>1, <2>2 DEF NodeWhole
  <1>10. NodesRight(disk, node, want) /\ PerName(want) BY DEF AttrInv, Sound, Promised
  <1> QED BY <1>6, <1>7, <1>8, <1>9, <1>10, WholeStep

LEMMA WholeSteps ==
    ASSUME Undisturbed, AttrInv, WholeRight(node, want, data), [InlineNext]_ivars
    PROVE  WholeRight(node', want', data')
  <1>1. ASSUME want' = want, node' = node, data' = data PROVE WholeRight(node', want', data')
    BY <1>1
  <1>2. CASE UNCHANGED ivars BY <1>1, <1>2 DEF ivars
  <1>3. CASE Attributes BY <1>3, WholeAttributes
  <1>4. ASSUME NEW i \in InlineInodes, FileOpen(i) \/ Expand(i) \/ Punch(i)
        PROVE  WholeRight(node', want', data')
    <2>1. i \in Inodes BY InlineAssumption
    <2>2. CASE FileOpen(i) BY <1>1, <2>2 DEF FileOpen
    <2> QED BY <1>4, <2>1, <2>2, WholeExpand, WholePunch
  <1>5. ASSUME NEW i \in InlineInodes, NEW n \in Sizes, NEW t \in Heads, CreateInline(i, n, t)
        PROVE  WholeRight(node', want', data')
    <2>1. i \in Inodes BY InlineAssumption
    <2> QED BY <1>5, <2>1, WholeCreate
  <1>6. ASSUME NEW n \in Sizes, NEW t \in Heads, FileWrite(n, t)
        PROVE  WholeRight(node', want', data')
    <2>1. file.open /\ ~(n < file.size) /\ HasEntry(file.ino) BY <1>6 DEF FileWrite, Undisturbed
    <2> QED BY <1>6, <2>1, WholeWrite, WholeWriteExpand DEF FileWrite
  <1>7. CASE FileClose BY <1>1, <1>7 DEF FileClose
  <1> QED BY <1>2, <1>3, <1>4, <1>5, <1>6, <1>7 DEF InlineNext

\* The head in i_block and the tail in the attribute are of the same write, however
\* the other attributes fill the inode: a write that ext2fs_inline_data_set lets
\* through finds the room that was found, and a file that moves to blocks keeps
\* all of its bytes.
THEOREM InlineDataWhole ==
    ASSUME Undisturbed, ~KeepHandle, ~SharedLarge
    PROVE  InlineSpec => []InlineWhole
  <1>1. Careful /\ "shared" \notin Uses BY DEF Undisturbed, Careful
  <1>2. InlineSpec => []AttrInv BY <1>1, AttributesInOrder
  <1>3. InlineInit => WholePart
    <2> HAVE InlineInit
    <2>1. node = [i \in Inodes |-> NotInline] /\ data = [i \in Inodes |-> NoData]
      BY <1>1 DEF InlineInit
    <2>2. NotInline.kind = "none" BY DEF NotInline
    <2> QED BY <2>1, <2>2 DEF WholePart, WholeRight, NodeWhole
  <1>4. AttrInv /\ WholePart /\ [InlineNext]_ivars => WholePart'
    BY WholeSteps DEF WholePart
  <1>5. AttrInv /\ WholePart => InlineWhole BY WholeFollows DEF WholePart
  <1> QED BY <1>2, <1>3, <1>4, <1>5, PTL DEF InlineSpec
=============================================================================
