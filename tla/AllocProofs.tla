---------------------------- MODULE AllocProofs ----------------------------
(* Proofs about Alloc, for any volume.                                       *)
EXTENDS Alloc, FiniteSetTheorems, WellFoundedInduction, TLAPS

-----------------------------------------------------------------------------
\* The invariant

CountsRight ==
    /\ \A g \in Groups : /\ bg[g].free = Cardinality(InGroup(g) \ used)
                         /\ bg[g].ifree = Cardinality(InodesOf(g) \ iused)
    /\ sb.free = Cardinality(Blocks \ used)
    /\ sb.ifree = Cardinality(Inodes \ iused)

\* An uninitialised block bitmap has nothing of a client in it.
UninitKept == \A g \in Groups : bg[g].block_uninit => used \cap InGroup(g) \subseteq Reserved

MapTypes == /\ used \subseteq Blocks /\ iused \subseteq Inodes
            /\ bg \in [Groups -> Descriptor]
            /\ sb \in [free : 0..Count, ifree : 0..MaxInode]
            /\ dirty \subseteq {"super", "bb", "ib"}
            /\ stored \in [Groups -> SUBSET {"bb", "ib"}]

MapsInv == MapTypes /\ CountsRight /\ UnusedTail /\ UninitKept

\* What a search has returned is still free.
ReplyHolds ==
    reply.err = "none" =>
      /\ reply.kind \in {"range", "free"} => FreeRun(reply.at, reply.len)
      /\ reply.kind = "inode" => reply.at \in FirstInode..MaxInode \ iused

\* Where a search has been it has found nothing: between the place from which
\* it set out and where it is, or, having come round, also in all that follows
\* that place.
Hopeless(i)       == i \notin Suitable(op)
PassedTo(from)    == \A i \in Nat : from <= i /\ i < op.at => Hopeless(i)
PassedRound(from) == \A i \in Nat : from <= i \/ i < op.at => Hopeless(i)

InodesPassed ==
    op.kind = "inode" =>
      /\ {op.goal, op.at} \subseteq FirstInode..MaxInode
      /\ IF op.at >= op.goal THEN PassedTo(op.goal) ELSE PassedRound(op.goal)

FreePassed ==
    op.kind = "free" =>
      /\ op.len \in 1..MaxLen /\ op.from \in Blocks /\ op.at \in FirstBlock..Count
      /\ IF op.fixed THEN op.at >= op.from /\ PassedTo(op.from)
         ELSE /\ op.goal <= op.from
              /\ (op.at >= op.from /\ PassedTo(op.from)) \/ PassedRound(op.from)

RangesPassed ==
    op.kind \in {"range", "alloc"} =>
      /\ op.len \in 1..MaxLen /\ op.goal \in Blocks /\ op.at \in Blocks
      /\ op.kind = "alloc" => op.min
      /\ IF op.fixed THEN op.at = op.goal
         ELSE (~op.looped /\ op.at >= op.goal /\ PassedTo(op.goal)) \/ PassedRound(op.goal)

ReplyType == [kind : {"none", "block"} \cup Kinds, err : {"none", "full", "io"},
              at : 0..(Count + MaxInode), len : 0..(MaxLen + Count)]
SearchInv == /\ op \in Op /\ reply \in ReplyType
             /\ ReplyHolds /\ InodesPassed /\ FreePassed /\ RangesPassed

AllocInv == MapsInv /\ SearchInv

-----------------------------------------------------------------------------
\* The least member of a set of numbers, by way of the intervals 1..x, which
\* are finite sets and so well ordered by inclusion.

LEMMA Least ==
    ASSUME NEW S \in SUBSET Nat, S # {}
    PROVE  \E x \in S : \A y \in S : x <= y
  <1> DEFINE T == {1..x : x \in S}
             R == StrictSubsetOrdering(Nat)
  <1>1. IsWellFoundedOn(R, FiniteSubsetsOf(Nat)) BY FS_StrictSubsetOrderingWellFounded
  <1>2. \A x \in S : 1..x \in FiniteSubsetsOf(Nat)
    <2> TAKE x \in S
    <2>1. IsFiniteSet(1..x) BY FS_Interval
    <2>2. 1..x \in SUBSET Nat OBVIOUS
    <2> QED BY <2>1, <2>2 DEF FiniteSubsetsOf
  <1>3. T \subseteq FiniteSubsetsOf(Nat) /\ T # {} BY <1>2
  <1>4. ASSUME NEW x \in S, NEW y \in S, y < x PROVE <<1..y, 1..x>> \in R
    <2>1. 1..y \subseteq 1..x /\ x \in 1..x /\ x \notin 1..y BY <1>4
    <2>2. 1..y \in SUBSET Nat /\ 1..x \in SUBSET Nat OBVIOUS
    <2> QED BY <2>1, <2>2 DEF StrictSubsetOrdering
  <1> HIDE DEF R
  <1>5. \E t \in T : \A u \in T : <<u, t>> \notin R
    <2> HIDE DEF T
    <2> QED BY <1>1, <1>3, WFMin
  <1>6. PICK x \in S : \A u \in T : <<u, 1..x>> \notin R BY <1>5
  <1>7. ASSUME NEW y \in S PROVE x <= y
    <2>1. 1..y \in T OBVIOUS
    <2>2. ~(y < x) BY <1>4, <1>6, <2>1
    <2> QED BY <2>2
  <1> QED BY <1>7

LEMMA MinIsLeast ==
    ASSUME NEW S \in SUBSET Nat, S # {}
    PROVE  Min(S) \in S /\ \A y \in S : Min(S) <= y
  BY Least DEF Min

LEMMA MaxOfTwo ==
    ASSUME NEW a \in Int, NEW b \in Int
    PROVE  Max({a, b}) \in {a, b} /\ Max({a, b}) >= a /\ Max({a, b}) >= b
  <1>1. \E x \in {a, b} : \A y \in {a, b} : x >= y
    <2>1. CASE a >= b BY <2>1
    <2>2. CASE b >= a BY <2>2
    <2> QED BY <2>1, <2>2
  <1> QED BY <1>1 DEF Max

-----------------------------------------------------------------------------
\* Arithmetic.

LEMMA MultMonotone ==
    ASSUME NEW a \in Int, NEW b \in Int, NEW c \in Nat, a <= b
    PROVE  c * a <= c * b
  OBVIOUS

LEMMA Division ==
    ASSUME NEW x \in Nat, NEW d \in Nat \ {0}
    PROVE  /\ x \div d \in Nat /\ x % d \in 0..(d - 1)
           /\ x = d * (x \div d) + (x % d)
  OBVIOUS

LEMMA Quotient ==
    ASSUME NEW d \in Nat \ {0}, NEW q \in Nat, NEW r \in 0..(d - 1)
    PROVE  (d * q + r) \div d = q
  OBVIOUS

\* How many pieces of d cover n.
LEMMA Pieces ==
    ASSUME NEW n \in Nat \ {0}, NEW d \in Nat \ {0}, NEW q, q = (n + d - 1) \div d
    PROVE  q \in Nat \ {0} /\ \A x \in 0..(n - 1) : x \div d \in 0..(q - 1)
  <1>1. n + d - 1 \in Nat OBVIOUS
  <1>2. q \in Nat BY <1>1, Division
  <1>3. d * q <= n + d - 1 /\ n + d - 1 < d * q + d BY <1>1, <1>2, Division
  <1>4. ASSUME NEW x \in 0..(n - 1) PROVE x \div d \in 0..(q - 1)
    <2>1. PICK k \in Nat : k = x \div d BY Division
    <2>2. d * k <= x BY <2>1, Division
    <2>3. SUFFICES ASSUME k >= q PROVE FALSE BY <1>2, <2>1
    <2>4. d * q <= d * k BY <1>2, <2>3, MultMonotone
    <2> QED BY <1>2, <1>3, <2>2, <2>4
  <1>5. q # 0 BY <1>2, <1>3
  <1> QED BY <1>2, <1>4, <1>5

-----------------------------------------------------------------------------
\* The groups.

LEMMA Sizes ==
    /\ FirstBlock \in {0, 1} /\ Count \in Nat /\ Count > FirstBlock
    /\ GroupBlocks \in Nat \ {0} /\ Reserved \subseteq Blocks
    /\ GroupInodes \in Nat \ {0} /\ FirstInode \in 1..GroupInodes
    /\ MaxLen \in 1..(Count - FirstBlock) /\ MaxLen \in Nat /\ MaxLen > 0
    /\ Kinds \subseteq {"range", "alloc", "free", "inode"}
    /\ NGroups \in Nat \ {0}
    /\ \A b \in Blocks : b \in Nat /\ b >= FirstBlock /\ b < Count /\ GroupOf(b) \in Groups
  <1>1. /\ FirstBlock \in {0, 1} /\ Count \in Nat /\ Count > FirstBlock
        /\ GroupBlocks \in Nat \ {0} /\ Reserved \subseteq Blocks
        /\ GroupInodes \in Nat \ {0} /\ FirstInode \in 1..GroupInodes
        /\ MaxLen \in 1..(Count - FirstBlock) /\ MaxLen \in Nat /\ MaxLen > 0
        /\ Kinds \subseteq {"range", "alloc", "free", "inode"}
    BY BlocksAssumption, InodesAssumption, ClientAssumption
  <1>2. PICK n \in Nat \ {0} : n = Count - FirstBlock BY <1>1
  <1>3. NGroups = (n + GroupBlocks - 1) \div GroupBlocks BY <1>2 DEF NGroups
  <1>4. NGroups \in Nat \ {0} /\ \A x \in 0..(n - 1) : x \div GroupBlocks \in Groups
    BY <1>1, <1>3, Pieces DEF Groups
  <1>5. ASSUME NEW b \in Blocks
        PROVE  b \in Nat /\ b >= FirstBlock /\ b < Count /\ GroupOf(b) \in Groups
    <2>1. b \in Nat /\ b >= FirstBlock /\ b < Count BY <1>1 DEF Blocks
    <2>2. b - FirstBlock \in 0..(n - 1) BY <1>1, <1>2, <2>1
    <2> QED BY <1>4, <2>1, <2>2 DEF GroupOf
  <1> QED BY <1>1, <1>4, <1>5

LEMMA BlocksFinite ==
    /\ IsFiniteSet(Blocks) /\ Cardinality(Blocks) <= Count
    /\ \A g \in Groups : IsFiniteSet(InGroup(g)) /\ Cardinality(InGroup(g)) <= GroupBlocks
  <1>1. IsFiniteSet(Blocks) /\ Cardinality(Blocks) <= Count
    BY Sizes, FS_Interval DEF Blocks
  <1>2. ASSUME NEW g \in Groups
        PROVE  IsFiniteSet(InGroup(g)) /\ Cardinality(InGroup(g)) <= GroupBlocks
    <2> DEFINE lo == FirstBlock + GroupBlocks * g
    <2>1. lo \in Nat /\ g \in Nat BY Sizes DEF Groups
    <2>2. InGroup(g) \subseteq lo..(lo + GroupBlocks - 1)
      <3> SUFFICES ASSUME NEW b \in InGroup(g) PROVE b \in lo..(lo + GroupBlocks - 1)
        OBVIOUS
      <3>1. b \in Blocks /\ (b - FirstBlock) \div GroupBlocks = g BY DEF InGroup
      <3>2. PICK x \in Nat : x = b - FirstBlock BY <3>1, Sizes
      <3>3. x \div GroupBlocks = g BY <3>1, <3>2
      <3>4. x = GroupBlocks * g + (x % GroupBlocks) /\ x % GroupBlocks \in 0..(GroupBlocks - 1)
        BY <3>3, Division, Sizes
      <3>5. b = FirstBlock + x BY <3>2, <3>1, Sizes
      <3> QED BY <2>1, <3>4, <3>5, Sizes
    <2> HIDE DEF lo
    <2>3. /\ IsFiniteSet(lo..(lo + GroupBlocks - 1))
          /\ Cardinality(lo..(lo + GroupBlocks - 1)) = GroupBlocks
      BY <2>1, FS_Interval, Sizes
    <2> QED BY <2>2, <2>3, FS_Subset, ZenonT(30)
  <1> QED BY <1>1, <1>2

LEMMA InodeGroups ==
    /\ MaxInode \in Nat /\ FirstInode \in 1..MaxInode
    /\ \A g \in Groups : /\ InodesOf(g) \subseteq Inodes
                         /\ IsFiniteSet(InodesOf(g)) /\ Cardinality(InodesOf(g)) = GroupInodes
    /\ \A i \in Inodes : /\ GroupOfInode(i) \in Groups
                         /\ \A g \in Groups : i \in InodesOf(g) <=> g = GroupOfInode(i)
    /\ IsFiniteSet(Inodes) /\ Cardinality(Inodes) = MaxInode
  <1>1. MaxInode = GroupInodes * NGroups /\ MaxInode \in Nat BY Sizes DEF MaxInode
  <1>2. GroupInodes * 1 <= MaxInode BY <1>1, Sizes, MultMonotone
  <1>3. FirstInode \in 1..MaxInode BY <1>1, <1>2, Sizes
  <1>4. ASSUME NEW g \in Groups
        PROVE  /\ InodesOf(g) \subseteq Inodes
               /\ IsFiniteSet(InodesOf(g)) /\ Cardinality(InodesOf(g)) = GroupInodes
               /\ g \in Nat /\ (g + 1) * GroupInodes = GroupInodes * g + GroupInodes
               /\ g * GroupInodes = GroupInodes * g /\ GroupInodes * g \in Nat
    <2>1. g \in Nat /\ g + 1 <= NGroups BY Sizes DEF Groups
    <2>2. /\ (g + 1) * GroupInodes = GroupInodes * g + GroupInodes
          /\ g * GroupInodes = GroupInodes * g /\ GroupInodes * g \in Nat
      BY <2>1, Sizes
    <2>3. GroupInodes * (g + 1) <= MaxInode BY <1>1, <2>1, Sizes, MultMonotone
    <2>4. GroupInodes * (g + 1) = GroupInodes * g + GroupInodes BY <2>1, Sizes
    <2>5. InodesOf(g) = (GroupInodes * g + 1)..(GroupInodes * g + GroupInodes)
      BY <2>2 DEF InodesOf
    <2>6. PICK a \in Nat : a = GroupInodes * g BY <2>2
    <2>7. InodesOf(g) \subseteq Inodes
      <3>1. InodesOf(g) = (a + 1)..(a + GroupInodes) BY <2>5, <2>6
      <3>2. a + GroupInodes <= MaxInode BY <2>3, <2>4, <2>6
      <3> QED BY <1>1, <3>1, <3>2, Sizes DEF Inodes
    <2>8. IsFiniteSet((a + 1)..(a + GroupInodes))
          /\ Cardinality((a + 1)..(a + GroupInodes)) = GroupInodes
      BY FS_Interval, Sizes
    <2> QED BY <2>1, <2>2, <2>5, <2>6, <2>7, <2>8
  <1>5. ASSUME NEW i \in Inodes
        PROVE  /\ GroupOfInode(i) \in Groups
               /\ \A g \in Groups : i \in InodesOf(g) <=> g = GroupOfInode(i)
    <2>1. PICK x \in Nat : x = i - 1 /\ i = x + 1 BY <1>1 DEF Inodes
    <2>a. PICK d \in Nat \ {0} : d = GroupInodes BY Sizes
    <2>b. PICK q \in Nat : q = x \div d BY Division
    <2>c. PICK r \in 0..(d - 1) : x = d * q + r BY <2>b, Division
    <2>2. q = x \div GroupInodes BY <2>a, <2>b
    <2>3. r \in 0..(GroupInodes - 1) /\ x = GroupInodes * q + r BY <2>a, <2>c
    <2>4. GroupOfInode(i) = q BY <2>1, <2>2 DEF GroupOfInode
    <2>5. x < MaxInode BY <1>1, <2>1 DEF Inodes
    <2>6. q < NGroups
      <3> SUFFICES ASSUME q >= NGroups PROVE FALSE BY Sizes
      <3>1. GroupInodes * NGroups <= GroupInodes * q BY Sizes, MultMonotone
      <3> QED BY <1>1, <2>3, <2>5, <3>1, Sizes
    <2>7. ASSUME NEW g \in Groups PROVE i \in InodesOf(g) <=> g = q
      <3>1. /\ InodesOf(g) = (GroupInodes * g + 1)..(GroupInodes * g + GroupInodes)
            /\ g \in Nat /\ GroupInodes * g \in Nat /\ GroupInodes * q \in Nat
        BY <1>4, Sizes DEF InodesOf
      <3>2. ASSUME g = q PROVE i \in InodesOf(g) BY <2>1, <2>3, <3>1, <3>2, Sizes
      <3>3. ASSUME g < q PROVE i \notin InodesOf(g)
        <4>1. GroupInodes * (g + 1) <= GroupInodes * q BY <3>1, <3>3, Sizes, MultMonotone
        <4>2. GroupInodes * (g + 1) = GroupInodes * g + GroupInodes BY <3>1, Sizes
        <4> QED BY <2>1, <2>3, <3>1, <4>1, <4>2, Sizes
      <3>4. ASSUME q < g PROVE i \notin InodesOf(g)
        <4>1. GroupInodes * (q + 1) <= GroupInodes * g BY <3>1, <3>4, Sizes, MultMonotone
        <4>2. GroupInodes * (q + 1) = GroupInodes * q + GroupInodes BY Sizes
        <4> QED BY <2>1, <2>3, <3>1, <4>1, <4>2, Sizes
      <3> QED BY <3>1, <3>2, <3>3, <3>4
    <2> QED BY <2>4, <2>6, <2>7, Sizes DEF Groups
  <1>6. IsFiniteSet(Inodes) /\ Cardinality(Inodes) = MaxInode
    BY <1>1, FS_Interval DEF Inodes
  <1> QED BY <1>1, <1>3, <1>4, <1>5, <1>6

-----------------------------------------------------------------------------
\* Counting.

LEMMA CountTaken ==
    ASSUME NEW S, IsFiniteSet(S), NEW old, NEW bs, bs \cap old = {}
    PROVE  Cardinality(S \ (old \cup bs)) = Cardinality(S \ old) - Cardinality(bs \cap S)
  <1> DEFINE A == S \ old
             X == bs \cap S
  <1>1. IsFiniteSet(A) BY FS_Difference
  <1>2. Cardinality(A \ X) = Cardinality(A) - Cardinality(A \cap X) BY <1>1, FS_Difference
  <1>3. A \ X = S \ (old \cup bs) /\ A \cap X = X OBVIOUS
  <1> QED BY <1>2, <1>3

LEMMA CountGiven ==
    ASSUME NEW S, IsFiniteSet(S), NEW old, NEW bs, bs \subseteq old
    PROVE  Cardinality(S \ (old \ bs)) = Cardinality(S \ old) + Cardinality(bs \cap S)
  <1> DEFINE A == S \ old
             X == bs \cap S
  <1>1. IsFiniteSet(A) /\ IsFiniteSet(X) BY FS_Difference, FS_Intersection
  <1>2. Cardinality(A \cup X) = Cardinality(A) + Cardinality(X) - Cardinality(A \cap X)
    BY <1>1, FS_Union
  <1>3. A \cup X = S \ (old \ bs) /\ A \cap X = {} OBVIOUS
  <1>4. Cardinality({}) = 0 BY FS_EmptySet
  <1>5. Cardinality(A) \in Nat /\ Cardinality(X) \in Nat BY <1>1, FS_CardinalityType
  <1>6. Cardinality(A \cup X) = Cardinality(A) + Cardinality(X)
    <2> HIDE DEF A, X
    <2>1. Cardinality(A \cap X) = 0 BY <1>3, <1>4
    <2> QED BY <1>2, <1>5, <2>1
  <1> QED BY <1>3, <1>6

LEMMA CountFree ==
    ASSUME NEW S, IsFiniteSet(S), NEW old
    PROVE  Cardinality(S \ old) \in Nat /\ Cardinality(S \ old) <= Cardinality(S)
  BY FS_Difference, FS_Subset, FS_CardinalityType

-----------------------------------------------------------------------------
\* What the operations do to the maps.

LEMMA InitMaps == Init => MapsInv
  <1> SUFFICES ASSUME Init PROVE MapsInv OBVIOUS
  <1>1. PICK b \in SUBSET Groups, i \in SUBSET Groups, tail \in BOOLEAN :
          /\ bg = [g \in Groups |->
                     [free   |-> Cardinality(InGroup(g) \ Reserved),
                      ifree  |-> Cardinality(InodesOf(g) \ iused),
                      unused |-> IF g \in i \/ tail THEN Cardinality(InodesOf(g) \ iused) ELSE 0,
                      block_uninit |-> g \in b, inode_uninit |-> g \in i]]
          /\ 0 \notin b \cup i
          /\ stored = [g \in Groups |-> {m \in {"bb", "ib"} : g \notin IF m = "bb" THEN b ELSE i}]
    BY DEF Init
  <1>2. /\ used = Reserved /\ iused = 1..(FirstInode - 1) /\ dirty = {}
        /\ sb = [free |-> Cardinality(Blocks \ Reserved), ifree |-> Cardinality(Inodes \ iused)]
    BY DEF Init
  <1>3. iused \subseteq Inodes /\ used \subseteq Blocks
    BY <1>2, InodeGroups, Sizes DEF Inodes
  <1>4. ASSUME NEW g \in Groups
        PROVE  /\ Cardinality(InGroup(g) \ Reserved) \in 0..GroupBlocks
               /\ Cardinality(InodesOf(g) \ iused) \in 0..GroupInodes
    <2>1. Cardinality(InGroup(g) \ Reserved) \in Nat
          /\ Cardinality(InGroup(g) \ Reserved) <= Cardinality(InGroup(g))
          /\ Cardinality(InGroup(g)) \in Nat
      BY BlocksFinite, CountFree, FS_CardinalityType
    <2>2. Cardinality(InodesOf(g) \ iused) \in Nat
          /\ Cardinality(InodesOf(g) \ iused) <= Cardinality(InodesOf(g))
      BY InodeGroups, CountFree
    <2> QED BY <2>1, <2>2, BlocksFinite, InodeGroups, Sizes
  <1>5. /\ Cardinality(Blocks \ Reserved) \in 0..Count
        /\ Cardinality(Inodes \ iused) \in 0..MaxInode
    <2>1. Cardinality(Blocks \ Reserved) \in Nat
          /\ Cardinality(Blocks \ Reserved) <= Cardinality(Blocks)
          /\ Cardinality(Blocks) \in Nat
      BY BlocksFinite, CountFree, FS_CardinalityType
    <2>2. Cardinality(Inodes \ iused) \in Nat
          /\ Cardinality(Inodes \ iused) <= Cardinality(Inodes)
      BY InodeGroups, CountFree
    <2> QED BY <2>1, <2>2, BlocksFinite, InodeGroups, Sizes
  <1>6. bg \in [Groups -> Descriptor]
    <2>1. ASSUME NEW g \in Groups
          PROVE  [free   |-> Cardinality(InGroup(g) \ Reserved),
                  ifree  |-> Cardinality(InodesOf(g) \ iused),
                  unused |-> IF g \in i \/ tail THEN Cardinality(InodesOf(g) \ iused) ELSE 0,
                  block_uninit |-> g \in b, inode_uninit |-> g \in i] \in Descriptor
      BY <1>4, Sizes DEF Descriptor
    <2> QED BY <1>1, <2>1
  <1>7. MapTypes BY <1>1, <1>2, <1>3, <1>5, <1>6 DEF MapTypes
  <1>8. CountsRight BY <1>1, <1>2 DEF CountsRight
  <1>9. UnusedTail
    <2> SUFFICES ASSUME NEW g \in Groups, NEW k \in iused \cap InodesOf(g)
                 PROVE  ~bg[g].inode_uninit /\ k <= (g + 1) * GroupInodes - bg[g].unused
      BY DEF UnusedTail
    <2>1. k \in 1..GroupInodes /\ k < FirstInode BY <1>2, Sizes
    <2>2. g = 0
      <3>1. 0 \in Groups /\ k \in Inodes BY <1>3, Sizes DEF Groups
      <3>2. k \in InodesOf(0) BY <2>1, Sizes DEF InodesOf
      <3> QED BY <3>1, <3>2, InodeGroups
    <2>3. ~bg[g].inode_uninit BY <1>1, <2>2
    <2>4. bg[g].unused = 0 \/ bg[g].unused = Cardinality(InodesOf(g) \ iused) BY <1>1
    <2>5. InodesOf(0) = 1..GroupInodes BY Sizes DEF InodesOf
    <2>6. InodesOf(0) \ iused = FirstInode..GroupInodes BY <1>2, <2>5, Sizes
    <2>7. Cardinality(FirstInode..GroupInodes) = GroupInodes - FirstInode + 1
      BY FS_Interval, Sizes
    <2>8. (0 + 1) * GroupInodes = GroupInodes BY Sizes
    <2>9. k <= GroupInodes - bg[g].unused
      <3>1. CASE bg[g].unused = 0 BY <2>1, <3>1, Sizes
      <3>2. CASE bg[g].unused = GroupInodes - FirstInode + 1 BY <2>1, <3>2, Sizes
      <3> QED BY <2>2, <2>4, <2>6, <2>7, <3>1, <3>2
    <2> QED BY <2>2, <2>3, <2>8, <2>9
  <1>10. UninitKept BY <1>2 DEF UninitKept
  <1> QED BY <1>7, <1>8, <1>9, <1>10 DEF MapsInv

\* Blocks are taken or given back; d has lost some flags already.
LEMMA BlockStatsKeep ==
    ASSUME MapsInv, NEW d, NEW bs \in SUBSET Blocks, NEW sign \in {1, -1},
           sign = 1 => bs \cap used = {},
           sign = -1 => bs \subseteq used,
           d = bg \/ \E gs : d = Initialised(bg, gs),
           BlockStats(d, bs, sign)
    PROVE  MapsInv'
  <1>0. /\ used \subseteq Blocks /\ iused \subseteq Inodes /\ bg \in [Groups -> Descriptor]
        /\ iused' = iused
    BY DEF MapsInv, MapTypes, BlockStats
  <1>1. /\ used' \subseteq Blocks
        /\ sign = 1 => used' = used \cup bs
        /\ sign = -1 => used' = used \ bs
    BY <1>0 DEF BlockStats
  <1>2. ASSUME NEW S, IsFiniteSet(S)
        PROVE  /\ Cardinality(S \ used') = Cardinality(S \ used) - sign * Cardinality(bs \cap S)
               /\ Cardinality(S \ used') \in Nat /\ Cardinality(S \ used') <= Cardinality(S)
    <2>1. Cardinality(bs \cap S) \in Nat BY <1>2, FS_Intersection, FS_CardinalityType
    <2>2. CASE sign = 1
      <3>1. Cardinality(S \ used') = Cardinality(S \ used) - Cardinality(bs \cap S)
        BY <1>1, <1>2, <2>2, CountTaken
      <3>2. Cardinality(S \ used) \in Nat BY <1>2, CountFree
      <3>3. Cardinality(S \ used') \in Nat /\ Cardinality(S \ used') <= Cardinality(S)
        BY <1>2, CountFree
      <3>4. sign * Cardinality(bs \cap S) = Cardinality(bs \cap S) BY <2>1, <2>2
      <3> QED BY <2>1, <3>1, <3>2, <3>3, <3>4
    <2>3. CASE sign = -1
      <3>1. Cardinality(S \ used') = Cardinality(S \ used) + Cardinality(bs \cap S)
        BY <1>1, <1>2, <2>3, CountGiven
      <3>2. Cardinality(S \ used) \in Nat BY <1>2, CountFree
      <3>3. Cardinality(S \ used') \in Nat /\ Cardinality(S \ used') <= Cardinality(S)
        BY <1>2, CountFree
      <3>4. sign * Cardinality(bs \cap S) = -Cardinality(bs \cap S) BY <2>1, <2>3
      <3> QED BY <2>1, <3>1, <3>2, <3>3, <3>4
    <2> QED BY <2>2, <2>3
  <1>3. ASSUME NEW g \in Groups
        PROVE  /\ d[g] \in Descriptor /\ d[g].free = bg[g].free /\ d[g].ifree = bg[g].ifree
               /\ d[g].unused = bg[g].unused /\ d[g].inode_uninit = bg[g].inode_uninit
               /\ d[g].block_uninit => bg[g].block_uninit
    <2>1. CASE d = bg BY <1>0, <2>1
    <2>2. ASSUME NEW gs, d = Initialised(bg, gs)
          PROVE  /\ d[g] \in Descriptor /\ d[g].free = bg[g].free /\ d[g].ifree = bg[g].ifree
                 /\ d[g].unused = bg[g].unused /\ d[g].inode_uninit = bg[g].inode_uninit
                 /\ d[g].block_uninit => bg[g].block_uninit
      <3>1. d[g] = IF g \in gs THEN [bg[g] EXCEPT !.block_uninit = FALSE] ELSE bg[g]
        BY <2>2 DEF Initialised
      <3>2. bg[g] \in Descriptor BY <1>0
      <3> QED BY <3>1, <3>2 DEF Descriptor
    <2> QED BY <2>1, <2>2
  <1>4. ASSUME NEW g \in Groups
        PROVE  /\ bg'[g].free = Cardinality(InGroup(g) \ used')
               /\ bg'[g].ifree = bg[g].ifree /\ bg'[g].unused = bg[g].unused
               /\ bg'[g].inode_uninit = bg[g].inode_uninit
               /\ bg'[g].block_uninit => bg[g].block_uninit /\ bs \cap InGroup(g) = {}
               /\ bg'[g] \in Descriptor
    <2> DEFINE X == bs \cap InGroup(g)
    <2>1. bg'[g] = IF X = {} THEN d[g]
                   ELSE [d[g] EXCEPT !.free = @ - sign * Cardinality(X), !.block_uninit = FALSE]
      BY DEF BlockStats, BlocksCounted
    <2>2. /\ Cardinality(InGroup(g) \ used') = bg[g].free - sign * Cardinality(X)
          /\ Cardinality(InGroup(g) \ used') \in Nat
          /\ Cardinality(InGroup(g) \ used') <= Cardinality(InGroup(g))
          /\ Cardinality(InGroup(g)) \in Nat /\ Cardinality(InGroup(g)) <= GroupBlocks
      BY <1>2, BlocksFinite, FS_CardinalityType DEF MapsInv, CountsRight
    <2>3. CASE X = {}
      <3>1. Cardinality(X) = 0 BY <2>3, FS_EmptySet
      <3>2. sign * Cardinality(X) = 0 BY <3>1
      <3>3. bg[g].free \in Nat BY <1>0 DEF Descriptor
      <3> HIDE DEF X
      <3> QED BY <1>3, <2>1, <2>2, <2>3, <3>2, <3>3 DEF X
    <2>4. CASE X # {}
      <3>1. PICK n \in 0..GroupBlocks : n = bg[g].free - sign * Cardinality(X)
        BY <2>2, Sizes
      <3>2. bg'[g] = [d[g] EXCEPT !.free = n, !.block_uninit = FALSE]
        BY <1>3, <2>1, <2>4, <3>1
      <3>3. Cardinality(InGroup(g) \ used') = n BY <2>2, <3>1
      <3> HIDE DEF X
      <3> QED BY <1>3, <3>2, <3>3 DEF Descriptor
    <2> QED BY <2>3, <2>4
  <1>5. bg' \in [Groups -> Descriptor]
    <2>1. bg' = [g \in Groups |-> bg'[g]] BY DEF BlockStats, BlocksCounted
    <2> QED BY <1>4, <2>1
  <1>6. sb' = [sb EXCEPT !.free = Cardinality(Blocks \ used')] /\ Cardinality(Blocks \ used') \in 0..Count
    <2>1. bs \cap Blocks = bs OBVIOUS
    <2>2. /\ Cardinality(Blocks \ used') = sb.free - sign * Cardinality(bs)
          /\ Cardinality(Blocks \ used') \in Nat
          /\ Cardinality(Blocks \ used') <= Cardinality(Blocks)
          /\ Cardinality(Blocks) \in Nat /\ Cardinality(Blocks) <= Count
      BY <1>2, <2>1, BlocksFinite, FS_CardinalityType DEF MapsInv, CountsRight
    <2> QED BY <2>2, Sizes DEF BlockStats
  <1>7. stored' \in [Groups -> SUBSET {"bb", "ib"}] /\ dirty' \subseteq {"super", "bb", "ib"}
    BY DEF BlockStats, BlockStatsDirty, MapsInv, MapTypes
  <1>8. MapTypes'
    BY <1>0, <1>1, <1>5, <1>6, <1>7 DEF MapsInv, MapTypes
  <1>9. CountsRight'
    BY <1>0, <1>4, <1>6 DEF MapsInv, MapTypes, CountsRight
  <1>10. UnusedTail' BY <1>0, <1>4 DEF MapsInv, UnusedTail
  <1>11. UninitKept'
    <2> SUFFICES ASSUME NEW g \in Groups, bg'[g].block_uninit
                 PROVE  used' \cap InGroup(g) \subseteq Reserved
      BY DEF UninitKept
    <2>1. used \cap InGroup(g) \subseteq Reserved /\ bs \cap InGroup(g) = {}
      BY <1>4 DEF MapsInv, UninitKept
    <2> QED BY <1>1, <2>1
  <1> QED BY <1>8, <1>9, <1>10, <1>11 DEF MapsInv

\* A group's block bitmap is initialised before its blocks are zeroed or
\* handed out.
LEMMA InitialisedKeeps ==
    ASSUME MapsInv, NEW gs, bg' = Initialised(bg, gs), dirty' = dirty \cup InitDirty(gs),
           UNCHANGED <<used, iused, sb, stored>>
    PROVE  MapsInv'
  <1>0. bg \in [Groups -> Descriptor] BY DEF MapsInv, MapTypes
  <1>1. ASSUME NEW g \in Groups
        PROVE  /\ bg'[g] \in Descriptor /\ bg'[g].free = bg[g].free /\ bg'[g].ifree = bg[g].ifree
               /\ bg'[g].unused = bg[g].unused /\ bg'[g].inode_uninit = bg[g].inode_uninit
               /\ bg'[g].block_uninit => bg[g].block_uninit
    <2>1. bg'[g] = IF g \in gs THEN [bg[g] EXCEPT !.block_uninit = FALSE] ELSE bg[g]
      BY DEF Initialised
    <2>2. bg[g] \in Descriptor BY <1>0
    <2> QED BY <2>1, <2>2 DEF Descriptor
  <1>2. bg' \in [Groups -> Descriptor]
    <2>1. bg' = [g \in Groups |-> bg'[g]] BY DEF Initialised
    <2> QED BY <1>1, <2>1
  <1>3. MapTypes' BY <1>2 DEF MapsInv, MapTypes, InitDirty
  <1>4. CountsRight' BY <1>1 DEF MapsInv, CountsRight
  <1>5. UnusedTail' BY <1>1 DEF MapsInv, UnusedTail
  <1>6. UninitKept' BY <1>1 DEF MapsInv, UninitKept
  <1> QED BY <1>3, <1>4, <1>5, <1>6 DEF MapsInv

\* An inode is taken or given back.
LEMMA InodeStatsKeep ==
    ASSUME MapsInv, NEW ino \in Inodes, NEW sign \in {1, -1},
           sign = 1 => ino \notin iused,
           sign = -1 => ino \in iused,
           InodeStats(ino, sign)
    PROVE  MapsInv'
  <1>0. /\ used \subseteq Blocks /\ iused \subseteq Inodes /\ bg \in [Groups -> Descriptor]
        /\ sb \in [free : 0..Count, ifree : 0..MaxInode]
        /\ used' = used
    BY DEF MapsInv, MapTypes, InodeStats
  <1> DEFINE h == GroupOfInode(ino)
  <1>1. h \in Groups /\ ino \in InodesOf(h) BY InodeGroups
  <1>2. /\ iused' \subseteq Inodes
        /\ sign = 1 => iused' = iused \cup {ino}
        /\ sign = -1 => iused' = iused \ {ino}
    BY <1>0 DEF InodeStats
  <1>3. ASSUME NEW S, IsFiniteSet(S)
        PROVE  /\ Cardinality(S \ iused') = Cardinality(S \ iused) - (IF ino \in S THEN sign ELSE 0)
               /\ Cardinality(S \ iused') \in Nat /\ Cardinality(S \ iused') <= Cardinality(S)
    <2>1. Cardinality({ino} \cap S) = IF ino \in S THEN 1 ELSE 0
      <3>1. CASE ino \in S
        <4>1. {ino} \cap S = {ino} BY <3>1
        <4> QED BY <3>1, <4>1, FS_Singleton
      <3>2. CASE ino \notin S
        <4>1. {ino} \cap S = {} BY <3>2
        <4> QED BY <3>2, <4>1, FS_EmptySet
      <3> QED BY <3>1, <3>2
    <2>2. Cardinality(S \ iused) \in Nat BY <1>3, CountFree
    <2>3. Cardinality(S \ iused') \in Nat /\ Cardinality(S \ iused') <= Cardinality(S)
      BY <1>3, CountFree
    <2>4. CASE sign = 1
      <3>0. {ino} \cap iused = {} BY <2>4
      <3>1. Cardinality(S \ iused') = Cardinality(S \ iused) - Cardinality({ino} \cap S)
        BY <1>2, <1>3, <2>4, <3>0, CountTaken
      <3> QED BY <2>1, <2>2, <2>3, <2>4, <3>1
    <2>5. CASE sign = -1
      <3>1. Cardinality(S \ iused') = Cardinality(S \ iused) + Cardinality({ino} \cap S)
        BY <1>2, <1>3, <2>5, CountGiven, ZenonT(30)
      <3> QED BY <2>1, <2>2, <2>3, <2>5, <3>1
    <2> QED BY <2>4, <2>5
  \* The tail of the group's inodes that were never used.
  <1>4. /\ Tail(h, ino) \in 0..GroupInodes
        /\ Tail(h, ino) <= bg[h].unused /\ ino <= (h + 1) * GroupInodes - Tail(h, ino)
        /\ (h + 1) * GroupInodes \in Nat
    <2>1. h \in Nat BY <1>1, Sizes DEF Groups
    <2>2. PICK last \in Nat : last = (h + 1) * GroupInodes BY <2>1, Sizes
    <2>3. h * GroupInodes = last - GroupInodes BY <2>1, <2>2, Sizes
    <2>4. last - GroupInodes + 1 <= ino /\ ino <= last /\ ino \in Nat
      BY <1>1, <2>2, <2>3, InodeGroups DEF InodesOf, Inodes
    <2>5. bg[h].unused \in 0..GroupInodes BY <1>0, <1>1 DEF Descriptor
    <2>6. Tail(h, ino) = IF ino >= last - bg[h].unused + 1 THEN last - ino ELSE bg[h].unused
      BY <2>2 DEF Tail
    <2> HIDE DEF h
    <2> QED BY <2>2, <2>4, <2>5, <2>6, Sizes
  <1>5. bg' = [bg EXCEPT ![h].ifree = @ - sign, ![h].inode_uninit = FALSE, ![h].unused = Tail(h, ino)]
    BY DEF InodeStats
  <1>6. ASSUME NEW g \in Groups
        PROVE  /\ bg'[g] \in Descriptor
               /\ bg'[g].free = bg[g].free /\ bg'[g].block_uninit = bg[g].block_uninit
               /\ bg'[g].ifree = Cardinality(InodesOf(g) \ iused')
               /\ g # h => bg'[g] = bg[g]
    <2>1. PICK n \in Nat : n = Cardinality(InodesOf(g) \ iused') BY <1>3, InodeGroups
    <2>2. n <= GroupInodes BY <1>3, <2>1, InodeGroups
    <2>3. n = bg[g].ifree - (IF g = h THEN sign ELSE 0)
      <3>1. ino \in InodesOf(g) <=> g = h BY InodeGroups
      <3> QED BY <1>3, <2>1, <3>1, InodeGroups DEF MapsInv, CountsRight
    <2>4. bg[g] \in Descriptor BY <1>0
    <2> HIDE DEF h
    <2>5. CASE g = h
      <3>0. PICK u \in 0..GroupInodes : u = Tail(h, ino) BY <1>4
      <3>1. bg'[g] = [bg[g] EXCEPT !.ifree = n, !.inode_uninit = FALSE, !.unused = u]
        BY <1>0, <1>5, <2>3, <2>5, <3>0
      <3>2. n \in 0..GroupInodes BY <2>2, Sizes
      <3>3. bg'[g].ifree = n BY <2>4, <3>1 DEF Descriptor
      <3>4. /\ bg'[g] \in Descriptor
            /\ bg'[g].free = bg[g].free /\ bg'[g].block_uninit = bg[g].block_uninit
        BY <2>4, <3>1, <3>2 DEF Descriptor
      <3> QED BY <2>1, <2>5, <3>3, <3>4
    <2>6. CASE g # h
      <3>1. bg'[g] = bg[g] BY <1>0, <1>5, <2>6
      <3>2. n = bg[g].ifree BY <2>3, <2>4, <2>6 DEF Descriptor
      <3> QED BY <2>1, <2>4, <3>1, <3>2
    <2> QED BY <2>5, <2>6
  <1>7. bg' \in [Groups -> Descriptor]
    <2>1. bg' = [g \in Groups |-> bg'[g]] BY <1>0, <1>5
    <2> QED BY <1>6, <2>1
  <1>8. /\ sb' = [sb EXCEPT !.ifree = Cardinality(Inodes \ iused')]
        /\ Cardinality(Inodes \ iused') \in 0..MaxInode
    <2>1. PICK m \in Nat : m = Cardinality(Inodes \ iused') BY <1>3, InodeGroups
    <2>2. m <= MaxInode BY <1>3, <2>1, InodeGroups
    <2>3. m = sb.ifree - sign
      BY <1>3, <2>1, InodeGroups DEF MapsInv, CountsRight
    <2> QED BY <2>1, <2>2, <2>3, InodeGroups DEF InodeStats
  <1>9. stored' \in [Groups -> SUBSET {"bb", "ib"}] /\ dirty' \subseteq {"super", "bb", "ib"}
    BY DEF InodeStats, MapsInv, MapTypes
  <1>10. MapTypes' BY <1>0, <1>2, <1>7, <1>8, <1>9 DEF MapTypes
  <1>11. CountsRight'
    BY <1>0, <1>6, <1>8 DEF MapsInv, CountsRight
  <1>12. UnusedTail'
    <2> SUFFICES ASSUME NEW g \in Groups, NEW i \in iused' \cap InodesOf(g)
                 PROVE  ~bg'[g].inode_uninit /\ i <= (g + 1) * GroupInodes - bg'[g].unused
      BY DEF UnusedTail
    <2>1. i \in iused \/ i = ino BY <1>2
    <2>2. CASE g # h
      <3>1. i # ino BY <2>2, InodeGroups
      <3> QED BY <1>6, <2>1, <2>2, <3>1 DEF MapsInv, UnusedTail
    <2>3. CASE g = h
      <3>1. bg'[g].unused = Tail(h, ino) /\ ~bg'[g].inode_uninit
        BY <1>0, <1>1, <1>5, <2>3 DEF Descriptor
      <3>2. i <= (h + 1) * GroupInodes - Tail(h, ino)
        <4>1. CASE i = ino BY <1>4, <4>1
        <4>2. CASE i \in iused
          <5>1. i <= (h + 1) * GroupInodes - bg[h].unused
            BY <2>3, <4>2 DEF MapsInv, UnusedTail
          <5>2. bg[h].unused \in Nat /\ i \in Nat
            BY <1>0, <1>1, <4>2, InodeGroups, Sizes DEF Descriptor, Inodes
          <5> HIDE DEF h
          <5> QED BY <1>4, <5>1, <5>2
        <4> QED BY <2>1, <4>1, <4>2
      <3> QED BY <2>3, <3>1, <3>2
    <2> QED BY <2>2, <2>3
  <1>13. UninitKept' BY <1>0, <1>6 DEF MapsInv, UninitKept
  <1> QED BY <1>10, <1>11, <1>12, <1>13 DEF MapsInv

\* A search that meets an uninitialised inode bitmap wipes nothing.
LEMMA ScanInodesKeeps ==
    ASSUME MapsInv, SearchInv, ScanInodes
    PROVE  MapsInv' /\ iused' = iused /\ op.at \in Inodes
  <1> DEFINE h == GroupOfInode(op.at)
  <1>0. /\ bg \in [Groups -> Descriptor] /\ iused \subseteq Inodes
        /\ used' = used /\ sb' = sb /\ stored' = stored
        /\ bg' = IF bg[h].inode_uninit THEN InodeInitialised(h) ELSE bg
        /\ iused' = IF bg[h].inode_uninit THEN iused \ InodesOf(h) ELSE iused
        /\ dirty' = IF bg[h].inode_uninit THEN dirty \cup {"super", "ib"} ELSE dirty
    BY DEF MapsInv, MapTypes, ScanInodes
  <1>1. op.at \in Inodes
    BY InodeGroups DEF ScanInodes, SearchInv, InodesPassed, Inodes
  <1>2. h \in Groups BY <1>1, InodeGroups
  <1>3. bg[h].inode_uninit => iused \cap InodesOf(h) = {} BY <1>2 DEF MapsInv, UnusedTail
  <1>4. iused' = iused BY <1>0, <1>3
  <1>5. ASSUME NEW g \in Groups
        PROVE  /\ bg'[g] \in Descriptor /\ bg'[g].free = bg[g].free /\ bg'[g].ifree = bg[g].ifree
               /\ bg'[g].unused = bg[g].unused
               /\ bg'[g].inode_uninit => bg[g].inode_uninit
               /\ bg'[g].block_uninit => bg[g].block_uninit
    <2>1. bg'[g] \in {bg[g], [bg[g] EXCEPT !.inode_uninit = FALSE, !.block_uninit = FALSE]}
      BY <1>0, <1>2 DEF InodeInitialised
    <2>2. bg[g] \in Descriptor BY <1>0
    <2> QED BY <2>1, <2>2 DEF Descriptor
  <1>6. bg' \in [Groups -> Descriptor]
    <2>1. bg' = [g \in Groups |-> bg'[g]] BY <1>0 DEF InodeInitialised
    <2> QED BY <1>5, <2>1
  <1>7. MapTypes' BY <1>0, <1>4, <1>6 DEF MapsInv, MapTypes
  <1>8. CountsRight' BY <1>0, <1>4, <1>5 DEF MapsInv, CountsRight
  <1>9. UnusedTail' BY <1>4, <1>5 DEF MapsInv, UnusedTail
  <1>10. UninitKept' BY <1>0, <1>5 DEF MapsInv, UninitKept
  <1> QED BY <1>1, <1>4, <1>7, <1>8, <1>9, <1>10 DEF MapsInv

-----------------------------------------------------------------------------
\* Searches begin and end.

LEMMA InitSearch == Init => SearchInv
  <1> SUFFICES ASSUME Init PROVE SearchInv OBVIOUS
  <1>1. op = NoOp /\ reply = NoReply BY DEF Init
  <1>2. NoOp \in Op /\ NoReply \in ReplyType
    BY Sizes, InodeGroups DEF NoOp, Op, NoReply, ReplyType
  <1> QED BY <1>1, <1>2
        DEF SearchInv, ReplyHolds, InodesPassed, FreePassed, RangesPassed, NoOp, NoReply

\* No search runs.
LEMMA NoSearch ==
    ASSUME op' \in Op, op'.kind = "none", reply' \in ReplyType,
           reply'.err = "none" =>
             /\ reply'.kind \in {"range", "free"} => FreeRun(reply.at, reply.len)'
             /\ reply'.kind = "inode" => reply'.at \in FirstInode..MaxInode \ iused'
    PROVE  SearchInv'
  BY DEF SearchInv, ReplyHolds, InodesPassed, FreePassed, RangesPassed

LEMMA NoOpType == NoOp \in Op /\ NoOp.kind = "none" /\ NoReply \in ReplyType /\ NoReply.err = "none"
                  /\ NoReply.kind = "none"
  BY Sizes, InodeGroups DEF NoOp, Op, NoReply, ReplyType

LEMMA OpMade ==
    ASSUME NEW kind \in Kinds, NEW goal \in 0..(Count + MaxInode)
    PROVE  /\ [NoOp EXCEPT !.kind = kind, !.goal = goal, !.at = goal] \in Op
           /\ \A len \in 0..MaxLen, fixed, min \in BOOLEAN :
                [NoOp EXCEPT !.kind = kind, !.goal = goal, !.at = goal,
                             !.len = len, !.fixed = fixed, !.min = min] \in Op
           /\ \A at \in 0..Count, len \in 0..MaxLen, fixed \in BOOLEAN :
                [NoOp EXCEPT !.kind = kind, !.at = at, !.from = at, !.len = len,
                             !.goal = goal, !.fixed = fixed] \in Op
  <1>1. /\ Count \in Nat /\ MaxInode \in Nat /\ MaxLen \in Nat
        /\ 0 \in 0..MaxLen /\ 0 \in 0..Count /\ 0 \in 0..(Count + MaxInode)
        /\ \A at \in 0..Count : at \in 0..(Count + MaxInode)
    BY Sizes, InodeGroups
  <1> QED BY <1>1 DEF NoOp, Op

\* The client changes a map, and forgets what it was told.
LEMMA Forgotten ==
    ASSUME SearchInv, Idle, op' = op, reply' = NoReply
    PROVE  SearchInv'
  BY NoSearch, NoOpType DEF SearchInv, Idle

LEMMA GoalInBlocks ==
    ASSUME NEW goal
    PROVE  Goal(goal) \in Blocks
  BY Sizes DEF Goal, Blocks

LEMMA NextFreeIsFree ==
    ASSUME used \subseteq Blocks, used # Blocks, NEW goal
    PROVE  NextFree(goal) \in Blocks \ used
  <1>1. Blocks \ used # {} /\ Blocks \ used \in SUBSET Nat BY Sizes
  <1>2. Min(Blocks \ used) \in Blocks \ used BY <1>1, MinIsLeast
  <1>3. FreeFrom(goal) # {} => Min(FreeFrom(goal)) \in FreeFrom(goal)
    <2>1. FreeFrom(goal) \in SUBSET Nat BY Sizes DEF FreeFrom
    <2> QED BY <2>1, MinIsLeast
  <1> QED BY <1>2, <1>3 DEF NextFree, FreeFrom

LEMMA AllocBlockKeeps ==
    ASSUME AllocInv, NEW goal, AllocBlock(goal)
    PROVE  AllocInv'
  <1>0. MapsInv /\ SearchInv /\ used \subseteq Blocks BY DEF AllocInv, MapsInv, MapTypes
  <1>1. op' = op /\ Idle BY DEF AllocBlock
  <1>2. ASSUME NEW err \in {"none", "full", "io"}, NEW at \in {0} \cup Blocks, NEW len \in {0, 1},
               Answer("block", err, at, len)
        PROVE  SearchInv'
    <2>1. /\ reply' \in ReplyType /\ reply'.kind = "block"
      BY <1>2, Sizes, InodeGroups DEF Answer, ReplyType
    <2> QED BY <1>0, <1>1, <2>1, NoSearch DEF SearchInv, Idle
  <1>3. CASE used = Blocks
    <2>1. Answer("block", "full", 0, 0) /\ UNCHANGED <<maps, dirty, stored>>
      BY <1>3 DEF AllocBlock
    <2>2. MapsInv' BY <1>0, <2>1 DEF maps, MapsInv, MapTypes, CountsRight, UnusedTail, UninitKept
    <2> QED BY <1>2, <2>1, <2>2 DEF AllocInv
  <1>4. CASE used # Blocks
    <2>1. PICK b \in Blocks \ used : b = NextFree(Goal(goal))
      BY <1>0, <1>4, NextFreeIsFree
    <2>2. \/ BlockStats(Initialised(bg, {GroupOf(b)}), {b}, 1) /\ Answer("block", "none", b, 1)
          \/ /\ bg' = Initialised(bg, {GroupOf(b)})
             /\ dirty' = dirty \cup InitDirty({GroupOf(b)})
             /\ Answer("block", "io", 0, 0)
             /\ UNCHANGED <<used, iused, sb, stored>>
      BY <1>4, <2>1 DEF AllocBlock
    <2>3. CASE BlockStats(Initialised(bg, {GroupOf(b)}), {b}, 1) /\ Answer("block", "none", b, 1)
      <3>1. {b} \in SUBSET Blocks /\ {b} \cap used = {} BY <2>1
      <3>2. MapsInv' BY <1>0, <2>3, <3>1, BlockStatsKeep
      <3> QED BY <1>2, <2>3, <3>2 DEF AllocInv
    <2>4. CASE /\ bg' = Initialised(bg, {GroupOf(b)})
               /\ dirty' = dirty \cup InitDirty({GroupOf(b)})
               /\ Answer("block", "io", 0, 0)
               /\ UNCHANGED <<used, iused, sb, stored>>
      <3>1. MapsInv' BY <1>0, <2>4, InitialisedKeeps
      <3> QED BY <1>2, <2>4, <3>1 DEF AllocInv
    <2> QED BY <2>2, <2>3, <2>4
  <1> QED BY <1>3, <1>4

\* What a client does with blocks and inodes that it has, or was told of.
LEMMA ClientKeeps ==
    ASSUME AllocInv,
           \/ \E b \in Blocks : \E n \in 1..MaxLen : FreeRange(b, n)
           \/ \E n \in 1..MaxLen : Claim(n)
           \/ TakeInode
           \/ \E ino \in Inodes : FreeInode(ino)
    PROVE  AllocInv'
  <1>0. MapsInv /\ SearchInv /\ used \subseteq Blocks BY DEF AllocInv, MapsInv, MapTypes
  <1>1. ASSUME Idle, op' = op, reply' = NoReply, MapsInv' PROVE AllocInv'
    BY <1>0, <1>1, Forgotten DEF AllocInv
  <1>2. ASSUME NEW b \in Blocks, NEW n \in 1..MaxLen, FreeRange(b, n) PROVE AllocInv'
    <2>1. Run(b, n) \subseteq used /\ Run(b, n) \in SUBSET Blocks
      BY <1>0, <1>2 DEF FreeRange
    <2>2. MapsInv' BY <1>0, <1>2, <2>1, BlockStatsKeep DEF FreeRange
    <2> QED BY <1>1, <1>2, <2>2 DEF FreeRange
  <1>3. ASSUME NEW n \in 1..MaxLen, Claim(n) PROVE AllocInv'
    <2>1. FreeRun(reply.at, reply.len) /\ n \in 1..reply.len
      BY <1>0, <1>3 DEF Claim, SearchInv, ReplyHolds
    <2>2. reply.at \in Nat /\ reply.len \in Nat
      BY <1>0, Sizes, InodeGroups DEF SearchInv, ReplyType
    <2>3. Run(reply.at, n) \subseteq Run(reply.at, reply.len) BY <2>1, <2>2 DEF Run
    <2>4. Run(reply.at, n) \in SUBSET Blocks /\ Run(reply.at, n) \cap used = {}
      BY <2>1, <2>3 DEF FreeRun
    <2>5. MapsInv' BY <1>0, <1>3, <2>4, BlockStatsKeep DEF Claim
    <2> QED BY <1>1, <1>3, <2>5 DEF Claim
  <1>4. CASE TakeInode
    <2>1. reply.at \in FirstInode..MaxInode \ iused
      BY <1>0, <1>4 DEF TakeInode, SearchInv, ReplyHolds
    <2>2. reply.at \in Inodes BY <2>1, InodeGroups DEF Inodes
    <2>3. MapsInv' BY <1>0, <1>4, <2>1, <2>2, InodeStatsKeep DEF TakeInode
    <2> QED BY <1>1, <1>4, <2>3 DEF TakeInode
  <1>5. ASSUME NEW ino \in Inodes, FreeInode(ino) PROVE AllocInv'
    <2>1. MapsInv' BY <1>0, <1>5, InodeStatsKeep DEF FreeInode
    <2> QED BY <1>1, <1>5, <2>1 DEF FreeInode
  <1> QED BY <1>2, <1>3, <1>4, <1>5

LEMMA SameMaps ==
    ASSUME MapsInv, UNCHANGED <<maps, dirty, stored>>
    PROVE  MapsInv'
  BY DEF maps, MapsInv, MapTypes, CountsRight, UnusedTail, UninitKept

LEMMA StartKeeps ==
    ASSUME AllocInv,
           \/ \E goal \in {0} \cup Blocks : \E kind \in {"range", "alloc"} : \E len \in 1..MaxLen :
                \E fixed, min \in BOOLEAN : NewRange(kind, goal, len, fixed, min)
           \/ \E start, finish \in {0} \cup Blocks : \E num \in 1..MaxLen : GetFree(start, finish, num)
           \/ \E dir \in {0} \cup Inodes : NewInode(dir)
    PROVE  AllocInv' /\ Idle
  <1>1. ASSUME NEW o \in Op, StartSearch(o),
               \/ /\ o.kind \in {"range", "alloc"} /\ o.len \in 1..MaxLen
                  /\ o.goal \in Blocks /\ o.at = o.goal /\ ~o.looped
                  /\ o.kind = "alloc" => o.min
               \/ /\ o.kind = "free" /\ o.len \in 1..MaxLen
                  /\ o.from \in Blocks /\ o.at = o.from
                  /\ ~o.fixed => o.goal <= o.from
               \/ o.kind = "inode" /\ o.goal \in FirstInode..MaxInode /\ o.at = o.goal
        PROVE  AllocInv' /\ Idle
    <2>1. MapsInv' /\ Idle BY <1>1, SameMaps DEF AllocInv, StartSearch
    <2>2. op' = o /\ reply' = NoReply BY <1>1 DEF StartSearch
    <2>3. o.at \in Nat BY <1>1, Sizes, InodeGroups DEF Op
    <2>4. PassedTo(o.at)' BY <2>2, <2>3 DEF PassedTo
    <2>5. ReplyHolds' BY <2>2, NoOpType DEF ReplyHolds
    <2>6. InodesPassed' BY <1>1, <2>2, <2>3, <2>4 DEF InodesPassed
    <2>7. FreePassed'
      <3> SUFFICES ASSUME o.kind = "free" PROVE FreePassed' BY <2>2 DEF FreePassed
      <3>1. o.at \in FirstBlock..Count BY <1>1, Sizes
      <3> QED BY <1>1, <2>2, <2>3, <2>4, <3>1 DEF FreePassed
    <2>8. RangesPassed' BY <1>1, <2>2, <2>3, <2>4 DEF RangesPassed
    <2> QED BY <2>1, <2>2, <2>5, <2>6, <2>7, <2>8, NoOpType DEF AllocInv, SearchInv
  <1>2. ASSUME NEW goal \in {0} \cup Blocks, NEW kind \in {"range", "alloc"}, NEW len \in 1..MaxLen,
               NEW fixed \in BOOLEAN, NEW min \in BOOLEAN, NewRange(kind, goal, len, fixed, min)
        PROVE  AllocInv' /\ Idle
    <2> DEFINE o == [NoOp EXCEPT !.kind = kind, !.goal = Goal(goal), !.at = Goal(goal),
                                 !.len = len, !.fixed = fixed, !.min = min]
    <2>1. StartSearch(o) /\ (kind = "alloc" => min) BY <1>2 DEF NewRange
    <2>2. kind \in Kinds BY <2>1 DEF StartSearch, NoOp
    <2>3. Goal(goal) \in Blocks /\ Goal(goal) \in 0..(Count + MaxInode)
      BY GoalInBlocks, Sizes, InodeGroups
    <2>4. o \in Op
      <3>1. len \in 0..MaxLen BY Sizes
      <3> QED BY <2>2, <2>3, <3>1, OpMade, ZenonT(30)
    <2>5. /\ o.kind = kind /\ o.len = len /\ o.goal = Goal(goal) /\ o.at = Goal(goal)
          /\ ~o.looped /\ o.min = min
      BY DEF NoOp
    <2> HIDE DEF o
    <2> QED BY <1>1, <2>1, <2>3, <2>4, <2>5
  <1>3. ASSUME NEW start \in {0} \cup Blocks, NEW finish \in {0} \cup Blocks, NEW num \in 1..MaxLen,
               GetFree(start, finish, num)
        PROVE  AllocInv' /\ Idle
    <2> DEFINE b == IF start = 0 THEN FirstBlock ELSE start
               o == [NoOp EXCEPT !.kind = "free", !.at = b, !.from = b, !.len = num,
                                 !.goal = IF finish = 0 THEN start ELSE finish,
                                 !.fixed = finish > start]
    <2>1. StartSearch(o) BY <1>3 DEF GetFree
    <2>2. "free" \in Kinds BY <2>1 DEF StartSearch, NoOp
    <2>3. b \in Blocks /\ b \in Nat /\ b < Count /\ start \in Nat /\ start < Count
          /\ finish \in Nat /\ finish < Count
      BY Sizes DEF Blocks
    <2>4. o \in Op
      <3>1. /\ b \in 0..Count /\ b \in 0..(Count + MaxInode)
            /\ (IF finish = 0 THEN start ELSE finish) \in 0..(Count + MaxInode)
            /\ (finish > start) \in BOOLEAN
        BY <2>3, Sizes, InodeGroups
      <3> HIDE DEF b
      <3>2. num \in 0..MaxLen BY Sizes
      <3> QED BY <2>2, <3>1, <3>2, OpMade
    <2>5. /\ o.kind = "free" /\ o.len = num /\ o.at = b /\ o.from = b
          /\ o.goal = IF finish = 0 THEN start ELSE finish
          /\ o.fixed = (finish > start)
      BY DEF NoOp
    <2>6. ~o.fixed => o.goal <= b
      <3> HIDE DEF o
      <3>1. SUFFICES ASSUME ~(finish > start) PROVE o.goal <= b BY <2>5
      <3>2. CASE start = 0
        <4>1. finish = 0 BY <2>3, <3>1, <3>2
        <4> QED BY <2>3, <2>5, <3>2, <4>1
      <3>3. CASE start # 0 BY <2>3, <2>5, <3>1, <3>3
      <3> QED BY <3>2, <3>3
    <2> HIDE DEF o, b
    <2> QED BY <1>1, <2>1, <2>3, <2>4, <2>5, <2>6
  <1>4. ASSUME NEW dir \in {0} \cup Inodes, NewInode(dir) PROVE AllocInv' /\ Idle
    <2> DEFINE first == IF dir = 0 THEN 0 ELSE GroupOfInode(dir) * GroupInodes + 1
               start == Max({first, FirstInode})
               o == [NoOp EXCEPT !.kind = "inode", !.goal = start, !.at = start]
    <2>1. StartSearch(o) BY <1>4 DEF NewInode
    <2>2. "inode" \in Kinds BY <2>1 DEF StartSearch, NoOp
    <2>3. first \in 0..MaxInode
      <3>1. CASE dir = 0 BY <3>1, InodeGroups
      <3>2. CASE dir # 0
        <4>1. PICK g \in Groups : g = GroupOfInode(dir) BY <3>2, InodeGroups
        <4>2. g \in Nat /\ g * GroupInodes \in Nat /\ (g + 1) * GroupInodes = g * GroupInodes + GroupInodes
          BY <4>1, Sizes DEF Groups
        <4>3. g * GroupInodes + 1 \in InodesOf(g) BY <4>2, Sizes DEF InodesOf
        <4> QED BY <3>2, <4>1, <4>3, InodeGroups DEF Inodes
      <3> QED BY <3>1, <3>2
    <2>4. start \in FirstInode..MaxInode
      <3> HIDE DEF first
      <3>1. MaxInode \in Nat /\ FirstInode \in 1..MaxInode BY InodeGroups
      <3>2. first \in Int /\ first <= MaxInode /\ FirstInode \in Int BY <2>3, <3>1
      <3>3. /\ Max({first, FirstInode}) \in {first, FirstInode}
            /\ Max({first, FirstInode}) >= FirstInode
        BY <3>2, MaxOfTwo
      <3> QED BY <3>1, <3>2, <3>3
    <2>5. start \in 0..(Count + MaxInode)
      <3> HIDE DEF start
      <3> QED BY <2>4, InodeGroups, Sizes
    <2> HIDE DEF start
    <2>6. o \in Op BY <2>2, <2>5, OpMade
    <2>7. o.kind = "inode" /\ o.goal = start /\ o.at = start BY DEF NoOp
    <2> HIDE DEF o
    <2> QED BY <1>1, <2>1, <2>4, <2>6, <2>7
  <1> QED BY <1>2, <1>3, <1>4

-----------------------------------------------------------------------------
\* The searches themselves.  What SearchRight says of an answer:
RightAnswer ==
    /\ reply'.err = "none" =>
         CASE op.kind = "inode" -> reply'.at \in Suitable(op)
           [] op.kind = "alloc" -> reply'.at \in Suitable(op) /\ reply'.len = op.len
           [] OTHER -> /\ FreeRun(reply'.at, reply'.len)
                       /\ op.min \/ op.kind = "free" => reply'.len >= op.len
                       /\ op.kind = "range" /\ op.fixed => reply'.at = op.goal
    /\ reply'.err = "full" => Suitable(op) \cap InWindow(op) = {}

\* A search that goes on looks for the same.
LEMMA SameHopes ==
    ASSUME used' = used, iused' = iused, op'.kind = op.kind, op'.len = op.len,
           op'.min = op.min, op'.fixed = op.fixed, op'.goal = op.goal, NEW i
    PROVE  Hopeless(i)' = Hopeless(i)
  BY DEF Hopeless, Suitable, FreeRun

\* What is suitable for a search of each kind.
LEMMA SuitableIs ==
    /\ op.kind = "inode" => Suitable(op) = FirstInode..MaxInode \ iused
    /\ op.kind = "free" => Suitable(op) = {b \in Blocks : FreeRun(b, op.len)}
    /\ op.kind \in {"range", "alloc"} =>
         Suitable(op) = {b \in Blocks : /\ FreeRun(b, IF op.min THEN op.len ELSE 1)
                                        /\ op.fixed => b = op.goal}
  BY DEF Suitable

\* A search that fails.
LEMMA FailedKeeps ==
    ASSUME AllocInv, Failed, op.kind \in Kinds, Suitable(op) \cap InWindow(op) = {}
    PROVE  AllocInv' /\ RightAnswer
  <1>1. MapsInv' BY SameMaps DEF AllocInv, Failed
  <1>2. reply' \in ReplyType /\ reply'.err = "full"
    BY Sizes, InodeGroups DEF Failed, Answer, ReplyType
  <1>3. SearchInv' BY <1>2, NoSearch, NoOpType DEF Failed
  <1> QED BY <1>1, <1>2, <1>3 DEF AllocInv, RightAnswer

\* Where the next free blocks start, and where they end or are enough: nothing
\* longer starts before.
StretchStart == Min(FreeFrom(op.at))
StretchEnd   == Min({StretchStart + op.len, Count} \cup {b \in used : b > StretchStart})
FreeStretch(start, stop) ==
    /\ start \in Blocks \ used /\ op.at <= start
    /\ stop \in Nat /\ start < stop /\ stop <= start + op.len /\ stop <= Count
    /\ FreeRun(start, stop - start)
    /\ \A i \in Nat : op.at <= i /\ i < start => i \notin Blocks \ used
    /\ stop - start < op.len => \A i \in Nat : op.at <= i /\ i < stop => ~FreeRun(i, op.len)

LEMMA Stretch ==
    ASSUME used \subseteq Blocks, op.at \in Nat, FreeFrom(op.at) # {}, op.len \in Nat \ {0}
    PROVE  FreeStretch(StretchStart, StretchEnd)
  <1>a. PICK start : start = StretchStart OBVIOUS
  <1>b. PICK stop : stop = StretchEnd OBVIOUS
  <1>1. /\ start \in Blocks \ used /\ op.at <= start /\ start \in Nat /\ start < Count
        /\ \A c \in Blocks \ used : op.at <= c => start <= c
    <2>1. FreeFrom(op.at) \in SUBSET Nat BY Sizes DEF FreeFrom
    <2>2. start \in FreeFrom(op.at) /\ \A c \in FreeFrom(op.at) : start <= c
      BY <1>a, <2>1, MinIsLeast DEF StretchStart
    <2> QED BY <2>2, Sizes DEF FreeFrom
  <1> DEFINE S == {start + op.len, Count} \cup {b \in used : b > start}
  <1>2. S \in SUBSET Nat /\ S # {}
    <2>1. start + op.len \in Nat /\ Count \in Nat BY <1>1, Sizes
    <2>2. \A b \in used : b \in Nat BY Sizes
    <2> QED BY <2>1, <2>2
  <1>3. stop \in S /\ \A y \in S : stop <= y
    <2>1. stop = Min(S) BY <1>a, <1>b DEF StretchEnd
    <2> HIDE DEF S
    <2>2. Min(S) \in S /\ \A y \in S : Min(S) <= y BY <1>2, MinIsLeast
    <2> QED BY <2>1, <2>2
  <1>4. stop \in Nat /\ start < stop /\ stop <= start + op.len /\ stop <= Count
    BY <1>1, <1>2, <1>3, Sizes
  <1>5. ASSUME NEW b \in Run(start, stop - start) PROVE b \in Blocks \ used
    <2>1. b \in Nat /\ start <= b /\ b < stop BY <1>1, <1>4, <1>5 DEF Run
    <2>2. b \in Blocks BY <1>1, <1>4, <2>1, Sizes DEF Blocks
    <2>3. b \notin used
      <3>1. CASE b = start BY <1>1, <3>1
      <3>2. CASE b > start BY <1>3, <2>1, <3>2, <1>4
      <3> QED BY <1>1, <2>1, <3>1, <3>2
    <2> QED BY <2>2, <2>3
  <1>6. ASSUME stop - start < op.len, NEW i \in Nat, op.at <= i, i < stop
        PROVE  ~FreeRun(i, op.len)
    <2>1. CASE i < start
      <3>1. i \notin Blocks \ used BY <1>1, <1>6, <2>1, Sizes
      <3>2. i \in Run(i, op.len) BY DEF Run
      <3> QED BY <3>1, <3>2 DEF FreeRun
    <2>2. CASE start <= i
      <3>1. stop \in Run(i, op.len) BY <1>1, <1>4, <1>6, <2>2 DEF Run
      <3>2. stop # start + op.len BY <1>1, <1>4, <1>6
      <3>3. stop \notin Blocks \ used BY <1>3, <3>2, Sizes
      <3> QED BY <3>1, <3>3 DEF FreeRun
    <2> QED BY <1>1, <2>1, <2>2
  <1>7. \A i \in Nat : op.at <= i /\ i < start => i \notin Blocks \ used BY <1>1, Sizes
  <1>8. FreeStretch(start, stop)
    BY <1>1, <1>4, <1>5, <1>6, <1>7 DEF FreeRun, FreeStretch
  <1> QED BY <1>a, <1>b, <1>8

\* ext2fs_new_range has found a run of n blocks at b.
LEMMA RangeFoundKeeps ==
    ASSUME AllocInv, op.kind \in {"range", "alloc"}, NEW b \in Blocks, NEW n \in 1..Count,
           FreeRun(b, n), op.min => n >= op.len, n <= op.len, op.fixed => b = op.goal,
           RangeFound(b, n)
    PROVE  AllocInv' /\ RightAnswer
  <1>0. /\ MapsInv /\ SearchInv /\ op.len \in 1..MaxLen /\ (op.kind = "alloc" => op.min)
        /\ op.kind \in Kinds /\ op' = NoOp
    BY DEF AllocInv, SearchInv, RangesPassed, RangeFound, Op
  <1> DEFINE d == Initialised(bg, Stepped(b, n))
  <1>1. CASE op.kind = "alloc" /\ BlockStats(d, Run(b, op.len), 1) /\ Answer(op.kind, "none", b, op.len)
    <2>1. n = op.len BY <1>0, <1>1
    <2>2. Run(b, op.len) \in SUBSET Blocks /\ Run(b, op.len) \cap used = {}
      BY <2>1 DEF FreeRun
    <2>3. MapsInv'
      <3> HIDE DEF d
      <3>1. d = Initialised(bg, Stepped(b, n)) BY DEF d
      <3> QED BY <1>0, <1>1, <2>2, <3>1, BlockStatsKeep
    <2>4. reply'.kind = "alloc" /\ reply' \in ReplyType /\ reply'.at = b /\ reply'.len = op.len
      BY <1>0, <1>1, Sizes, InodeGroups DEF Answer, ReplyType
    <2>5. SearchInv' BY <1>0, <2>4, NoSearch, NoOpType
    <2>6. b \in Suitable(op) BY <1>0, <1>1, <2>1, SuitableIs
    <2>7. RightAnswer BY <1>1, <2>4, <2>6 DEF RightAnswer, Answer
    <2> QED BY <2>3, <2>5, <2>7 DEF AllocInv
  <1>2. CASE /\ bg' = d /\ dirty' = dirty \cup InitDirty(Stepped(b, n))
             /\ UNCHANGED <<used, iused, sb, stored>>
             /\ IF op.kind = "range" THEN Answer(op.kind, "none", b, n)
                                     ELSE Answer(op.kind, "io", 0, 0)
    <2>1. MapsInv' BY <1>0, <1>2, InitialisedKeeps
    <2>2. CASE op.kind = "range"
      <3>1. /\ reply' \in ReplyType /\ reply'.kind = "range" /\ reply'.at = b /\ reply'.len = n
            /\ reply'.err = "none"
        BY <1>0, <1>2, <2>2, Sizes, InodeGroups DEF Answer, ReplyType
      <3>2. FreeRun(reply.at, reply.len)' BY <1>2, <3>1 DEF FreeRun
      <3>3. SearchInv' BY <1>0, <3>1, <3>2, NoSearch, NoOpType
      <3>4. RightAnswer BY <2>2, <3>1 DEF RightAnswer
      <3> QED BY <2>1, <3>3, <3>4 DEF AllocInv
    <2>3. CASE op.kind = "alloc"
      <3>1. reply' \in ReplyType /\ reply'.err = "io"
        BY <1>0, <1>2, <2>3, Sizes, InodeGroups DEF Answer, ReplyType
      <3>2. SearchInv' BY <1>0, <3>1, NoSearch, NoOpType
      <3> QED BY <2>1, <3>1, <3>2 DEF AllocInv, RightAnswer
    <2> QED BY <2>2, <2>3
  <1> QED BY <1>1, <1>2 DEF RangeFound

LEMMA FirstIsFree ==
    ASSUME NEW i \in Nat, NEW n \in Nat \ {0}, FreeRun(i, n)
    PROVE  i \in Blocks \ used
  <1>1. i \in Run(i, n) BY DEF Run
  <1> QED BY <1>1 DEF FreeRun

\* A search for a range that has found nothing anywhere fails rightly.
LEMMA RangeFails ==
    ASSUME AllocInv, op.kind \in {"range", "alloc"}, Failed, \A i \in Blocks : Hopeless(i)
    PROVE  AllocInv' /\ RightAnswer
  <1>1. Suitable(op) \subseteq Blocks BY SuitableIs
  <1>2. Suitable(op) = {} BY <1>1 DEF Hopeless
  <1>3. op.kind \in Kinds BY DEF AllocInv, SearchInv, Op
  <1> QED BY <1>2, <1>3, FailedKeeps

\* A search for a range that goes on from place at.
LEMMA RangeGoesOn ==
    ASSUME AllocInv, op.kind \in {"range", "alloc"}, ~op.fixed,
           NEW at \in Blocks, NEW looped \in BOOLEAN,
           op' = [op EXCEPT !.at = at, !.looped = looped],
           UNCHANGED <<maps, dirty, stored, reply>>,
           \/ /\ ~looped /\ at >= op.goal
              /\ \A i \in Nat : op.goal <= i /\ i < at => Hopeless(i)
           \/ \A i \in Nat : op.goal <= i \/ i < at => Hopeless(i)
    PROVE  AllocInv' /\ ~Idle'
  <1>1. MapsInv' BY SameMaps DEF AllocInv
  <1>2. at \in 0..(Count + MaxInode) BY Sizes, InodeGroups
  <1>3. op \in Op /\ RangesPassed /\ ReplyHolds /\ reply \in ReplyType
    BY DEF AllocInv, SearchInv
  <1>4. /\ op' \in Op /\ op'.kind = op.kind /\ op'.len = op.len /\ op'.min = op.min
        /\ op'.fixed = op.fixed /\ op'.goal = op.goal /\ op'.at = at /\ op'.looped = looped
    BY <1>2, <1>3 DEF Op
  <1>5. used' = used /\ iused' = iused /\ reply' = reply BY DEF maps
  <1>6. \A i : Hopeless(i)' = Hopeless(i) BY <1>4, <1>5, SameHopes
  <1>7. RangesPassed'
    <2>1. \/ ~op'.looped /\ op'.at >= op'.goal /\ PassedTo(op.goal)'
          \/ PassedRound(op.goal)'
      BY <1>4, <1>6 DEF PassedTo, PassedRound
    <2> QED BY <1>3, <1>4, <2>1 DEF RangesPassed
  <1>8. InodesPassed' /\ FreePassed' BY <1>4 DEF InodesPassed, FreePassed
  <1>9. ReplyHolds' BY <1>3, <1>5 DEF ReplyHolds, FreeRun
  <1> QED BY <1>1, <1>3, <1>4, <1>5, <1>7, <1>8, <1>9 DEF AllocInv, SearchInv, Idle

LEMMA ScanRangeKeeps ==
    ASSUME AllocInv, ScanRange
    PROVE  AllocInv' /\ (Idle' => RightAnswer)
  <1>0. /\ op.kind \in {"range", "alloc"} /\ used \subseteq Blocks /\ op \in Op
        /\ op.len \in 1..MaxLen /\ op.len \in Nat \ {0}
        /\ op.goal \in Blocks /\ op.at \in Blocks /\ op.goal \in Nat /\ op.at \in Nat
        /\ FirstBlock \in Blocks /\ FirstBlock \in Nat /\ op.goal >= FirstBlock
    <2>1. op.kind \in {"range", "alloc"} BY DEF ScanRange
    <2>2. used \subseteq Blocks /\ op \in Op BY DEF AllocInv, MapsInv, MapTypes, SearchInv
    <2>3. op.len \in 1..MaxLen /\ op.goal \in Blocks /\ op.at \in Blocks
      BY <2>1 DEF AllocInv, SearchInv, RangesPassed
    <2> QED BY <2>1, <2>2, <2>3, Sizes DEF Blocks
  <1>1. IF op.fixed THEN op.at = op.goal
        ELSE (~op.looped /\ op.at >= op.goal /\ PassedTo(op.goal)) \/ PassedRound(op.goal)
    BY <1>0 DEF AllocInv, SearchInv, RangesPassed
  <1>2. \A i \in Nat : i \notin Blocks \ used => Hopeless(i)
    <2> SUFFICES ASSUME NEW i \in Nat, i \in Suitable(op) PROVE i \in Blocks \ used
      BY DEF Hopeless
    <2>1. PICK n \in Nat \ {0} : FreeRun(i, n) BY <1>0, SuitableIs
    <2> QED BY <2>1, FirstIsFree
  <1>3. op.fixed => \A i : i # op.goal => Hopeless(i) BY <1>0, SuitableIs DEF Hopeless
  <1>4. op.min => \A i : ~FreeRun(i, op.len) => Hopeless(i) BY <1>0, SuitableIs DEF Hopeless
  \* All from here to the end is hopeless.
  <1>5. ASSUME \A i \in Nat : i >= op.at => Hopeless(i),
               \/ /\ op.fixed \/ op.at = FirstBlock \/ op.looped
                  /\ Failed
               \/ /\ ~op.fixed
                  /\ \E l \in BOOLEAN : op' = [op EXCEPT !.at = FirstBlock, !.looped = l]
                  /\ UNCHANGED <<maps, dirty, stored, reply>>
        PROVE  AllocInv' /\ (Idle' => RightAnswer)
    <2>1. CASE Failed /\ op.fixed
      <3>1. \A i \in Blocks : Hopeless(i) BY <1>0, <1>1, <1>3, <1>5, <2>1
      <3> QED BY <1>0, <2>1, <3>1, RangeFails
    <2>2. CASE Failed /\ op.at = FirstBlock
      <3>1. \A i \in Blocks : Hopeless(i) BY <1>5, <2>2, Sizes
      <3> QED BY <1>0, <2>2, <3>1, RangeFails
    <2>3. CASE Failed /\ op.looped /\ ~op.fixed
      <3>1. PassedRound(op.goal) BY <1>1, <2>3
      <3>2. \A i \in Blocks : i \in Nat /\ (i < op.at \/ i >= op.at) BY <1>0, Sizes
      <3>3. \A i \in Blocks : Hopeless(i) BY <1>5, <3>1, <3>2 DEF PassedRound
      <3> QED BY <1>0, <2>3, <3>3, RangeFails
    <2>4. CASE /\ ~op.fixed
               /\ \E l \in BOOLEAN : op' = [op EXCEPT !.at = FirstBlock, !.looped = l]
               /\ UNCHANGED <<maps, dirty, stored, reply>>
      <3>1. \A i \in Nat : op.goal <= i => Hopeless(i)
        <4> SUFFICES ASSUME NEW i \in Nat, op.goal <= i PROVE Hopeless(i) OBVIOUS
        <4>1. CASE i >= op.at BY <1>5, <4>1
        <4>2. CASE i < op.at BY <1>1, <2>4, <4>2 DEF PassedTo, PassedRound
        <4> QED BY <1>0, <4>1, <4>2
      <3>2. \A i \in Nat : i < FirstBlock => Hopeless(i) BY <1>0, <1>2, Sizes
      <3> QED BY <1>0, <2>4, <3>1, <3>2, RangeGoesOn
    <2> QED BY <1>5, <2>1, <2>2, <2>3, <2>4
  <1>6. CASE FreeFrom(op.at) = {}
    <2>1. \A i \in Nat : i >= op.at => i \notin Blocks \ used BY <1>6 DEF FreeFrom
    <2>2. \A i \in Nat : i >= op.at => Hopeless(i) BY <1>2, <2>1
    <2>3. CASE op.fixed \/ op.at = FirstBlock
      <3>1. Failed BY <1>6, <2>3 DEF ScanRange
      <3> QED BY <1>5, <2>2, <2>3, <3>1
    <2>4. CASE ~(op.fixed \/ op.at = FirstBlock)
      <3>1. op' = [op EXCEPT !.at = FirstBlock] /\ UNCHANGED <<maps, dirty, stored, reply>>
        BY <1>6, <2>4 DEF ScanRange
      <3>2. op.looped \in BOOLEAN /\ op' = [op EXCEPT !.at = FirstBlock, !.looped = op.looped]
        BY <1>0, <3>1 DEF Op
      <3> QED BY <1>5, <2>2, <2>4, <3>1, <3>2
    <2> QED BY <2>3, <2>4
  <1>7. CASE FreeFrom(op.at) # {}
    <2>a. PICK start : start = StretchStart OBVIOUS
    <2>b. PICK stop : stop = StretchEnd OBVIOUS
    <2>c. FreeStretch(start, stop) BY <1>0, <1>7, <2>a, <2>b, Stretch
    <2>1. /\ start \in Blocks \ used /\ op.at <= start
          /\ stop \in Nat /\ start < stop /\ stop <= start + op.len /\ stop <= Count
          /\ FreeRun(start, stop - start)
          /\ \A i \in Nat : op.at <= i /\ i < start => i \notin Blocks \ used
          /\ stop - start < op.len => \A i \in Nat : op.at <= i /\ i < stop => ~FreeRun(i, op.len)
      BY <2>c DEF FreeStretch
    <2>2. IF op.fixed /\ start # op.goal THEN Failed
          ELSE IF ~op.min \/ stop - start >= op.len THEN RangeFound(start, stop - start)
          ELSE IF op.fixed \/ (stop >= Count /\ op.looped)
                  \/ (NextStart(stop).looped /\ NextStart(stop).at > op.goal) THEN Failed
          ELSE op' = NextStart(stop) /\ UNCHANGED <<maps, dirty, stored, reply>>
      BY <1>7, <2>a, <2>b DEF ScanRange, StretchStart, StretchEnd
    <2>3. start \in Nat /\ start < Count BY <2>1, Sizes
    <2>4. CASE op.fixed /\ start # op.goal
      <3>1. op.goal \notin Blocks \ used BY <1>0, <1>1, <2>1, <2>3, <2>4
      <3>2. \A i \in Blocks : Hopeless(i) BY <1>0, <1>2, <1>3, <2>4, <3>1
      <3> QED BY <1>0, <2>2, <2>4, <3>2, RangeFails
    <2>5. CASE (op.fixed => start = op.goal) /\ (~op.min \/ stop - start >= op.len)
      <3>1. RangeFound(start, stop - start) BY <2>2, <2>5
      <3>2. stop - start \in 1..Count /\ stop - start <= op.len BY <1>0, <2>1, <2>3, Sizes
      <3>3. op.min => stop - start >= op.len BY <2>5
      <3> QED BY <1>0, <2>1, <2>5, <3>1, <3>2, <3>3, RangeFoundKeeps
    <2>6. CASE (op.fixed => start = op.goal) /\ op.min /\ ~(stop - start >= op.len)
      <3>1. stop - start < op.len BY <1>0, <2>1, <2>3, <2>6
      <3>2. \A i \in Nat : op.at <= i /\ i < stop => Hopeless(i)
        BY <1>4, <2>1, <2>6, <3>1
      <3>3. IF op.fixed \/ (stop >= Count /\ op.looped)
               \/ (NextStart(stop).looped /\ NextStart(stop).at > op.goal) THEN Failed
            ELSE op' = NextStart(stop) /\ UNCHANGED <<maps, dirty, stored, reply>>
        BY <2>2, <2>6
      <3>4. CASE op.fixed
        <4>1. Hopeless(op.goal) BY <1>0, <1>1, <2>1, <2>3, <3>2, <3>4
        <4>2. \A i \in Blocks : Hopeless(i) BY <1>3, <3>4, <4>1
        <4> QED BY <1>0, <3>3, <3>4, <4>2, RangeFails
      <3>5. CASE ~op.fixed /\ stop = Count
        <4>1. NextStart(stop) = [op EXCEPT !.at = FirstBlock, !.looped = TRUE]
          BY <3>5, Sizes DEF NextStart
        <4>2. NextStart(stop).at = FirstBlock BY <1>0, <4>1 DEF Op
        <4>3. \A i \in Nat : i >= op.at => Hopeless(i)
          <5> SUFFICES ASSUME NEW i \in Nat, i >= op.at PROVE Hopeless(i) OBVIOUS
          <5>1. CASE i < stop BY <3>2, <5>1
          <5>2. CASE i >= stop BY <1>2, <3>5, <5>2, Sizes
          <5> QED BY <2>1, <5>1, <5>2
        <4>4. CASE op.looped
          <5>1. Failed BY <3>3, <3>5, <4>4, Sizes
          <5> QED BY <1>5, <4>3, <4>4, <5>1
        <4>5. CASE ~op.looped
          <5>1. op' = NextStart(stop) /\ UNCHANGED <<maps, dirty, stored, reply>>
            BY <1>0, <3>3, <3>5, <4>2, <4>5
          <5> QED BY <1>5, <3>5, <4>1, <4>3, <5>1
        <4> QED BY <4>4, <4>5
      <3>6. CASE ~op.fixed /\ stop < Count
        <4>1. NextStart(stop) = [op EXCEPT !.at = stop]
          BY <2>1, <3>6, Sizes DEF NextStart
        <4>2. NextStart(stop).at = stop /\ NextStart(stop).looped = op.looped
          BY <1>0, <4>1 DEF Op
        <4>3. CASE op.looped /\ stop > op.goal
          <5>1. Failed BY <3>3, <4>2, <4>3
          <5>2. PassedRound(op.goal) BY <1>1, <3>6, <4>3
          <5>3. ASSUME NEW i \in Blocks PROVE Hopeless(i)
            <6>1. i \in Nat BY Sizes
            <6>2. CASE i < op.at \/ i >= op.goal BY <5>2, <6>1, <6>2 DEF PassedRound
            <6>3. CASE op.at <= i /\ i < stop BY <3>2, <6>1, <6>3
            <6> QED BY <1>0, <2>1, <4>3, <6>1, <6>2, <6>3
          <5> QED BY <1>0, <5>1, <5>3, RangeFails
        <4>4. CASE ~(op.looped /\ stop > op.goal)
          <5>1. op' = NextStart(stop) /\ UNCHANGED <<maps, dirty, stored, reply>>
            BY <2>1, <3>3, <3>6, <4>2, <4>4, Sizes
          <5>2. op.looped \in BOOLEAN /\ op' = [op EXCEPT !.at = stop, !.looped = op.looped]
            BY <1>0, <4>1, <5>1 DEF Op
          <5>3. stop \in Blocks
            <6>1. op.at >= FirstBlock BY <1>0, Sizes
            <6> QED BY <1>0, <2>1, <2>3, <3>6, <6>1, Sizes DEF Blocks
          <5>4. CASE ~op.looped /\ op.at >= op.goal /\ PassedTo(op.goal)
            <6>1. stop >= op.goal BY <1>0, <2>1, <2>3, <5>4
            <6>2. \A i \in Nat : op.goal <= i /\ i < stop => Hopeless(i)
              <7> SUFFICES ASSUME NEW i \in Nat, op.goal <= i, i < stop PROVE Hopeless(i)
                OBVIOUS
              <7>1. CASE i < op.at BY <5>4, <7>1 DEF PassedTo
              <7>2. CASE op.at <= i BY <3>2, <7>2
              <7> QED BY <1>0, <7>1, <7>2
            <6> QED BY <1>0, <3>6, <5>1, <5>2, <5>3, <5>4, <6>1, <6>2, RangeGoesOn
          <5>5. CASE PassedRound(op.goal)
            <6>1. \A i \in Nat : op.goal <= i \/ i < stop => Hopeless(i)
              <7> SUFFICES ASSUME NEW i \in Nat, op.goal <= i \/ i < stop PROVE Hopeless(i)
                OBVIOUS
              <7>1. CASE i < op.at \/ op.goal <= i BY <5>5, <7>1 DEF PassedRound
              <7>2. CASE op.at <= i /\ i < stop BY <3>2, <7>2
              <7> QED BY <1>0, <7>1, <7>2
            <6> QED BY <1>0, <3>6, <5>1, <5>2, <5>3, <6>1, RangeGoesOn
          <5> QED BY <1>1, <3>6, <5>4, <5>5
        <4> QED BY <4>3, <4>4
      <3> QED BY <2>1, <3>4, <3>5, <3>6, Sizes
    <2> QED BY <2>4, <2>5, <2>6
  <1> QED BY <1>6, <1>7

\* A search for free blocks that goes on from place at.
LEMMA FreeGoesOn ==
    ASSUME AllocInv, op.kind = "free", NEW at \in FirstBlock..Count, op' = [op EXCEPT !.at = at],
           UNCHANGED <<maps, dirty, stored, reply>>,
           \/ at >= op.from /\ \A i \in Nat : op.from <= i /\ i < at => Hopeless(i)
           \/ ~op.fixed /\ \A i \in Nat : op.from <= i \/ i < at => Hopeless(i)
    PROVE  AllocInv' /\ ~Idle'
  <1>1. MapsInv' BY SameMaps DEF AllocInv
  <1>2. at \in 0..(Count + MaxInode) BY Sizes, InodeGroups
  <1>3. op \in Op /\ FreePassed /\ ReplyHolds /\ reply \in ReplyType
    BY DEF AllocInv, SearchInv
  <1>4. /\ op' \in Op /\ op'.kind = op.kind /\ op'.len = op.len /\ op'.min = op.min
        /\ op'.fixed = op.fixed /\ op'.goal = op.goal /\ op'.at = at /\ op'.from = op.from
    BY <1>2, <1>3 DEF Op
  <1>5. used' = used /\ iused' = iused /\ reply' = reply BY DEF maps
  <1>6. \A i : Hopeless(i)' = Hopeless(i) BY <1>4, <1>5, SameHopes
  <1>7. FreePassed'
    <2>1. \/ op'.at >= op'.from /\ PassedTo(op.from)'
          \/ ~op'.fixed /\ PassedRound(op.from)'
      BY <1>4, <1>6 DEF PassedTo, PassedRound
    <2> QED BY <1>3, <1>4, <2>1 DEF FreePassed
  <1>8. InodesPassed' /\ RangesPassed' BY <1>4 DEF InodesPassed, RangesPassed
  <1>9. ReplyHolds' BY <1>3, <1>5 DEF ReplyHolds, FreeRun
  <1> QED BY <1>1, <1>3, <1>4, <1>5, <1>7, <1>8, <1>9 DEF AllocInv, SearchInv, Idle

LEMMA FreeFound ==
    ASSUME AllocInv, op.kind = "free", NEW b \in Blocks, FreeRun(b, op.len),
           op' = NoOp, Answer(op.kind, "none", b, op.len), UNCHANGED <<maps, dirty, stored>>
    PROVE  AllocInv' /\ RightAnswer
  <1>1. MapsInv' /\ op.len \in 0..MaxLen /\ op.kind \in Kinds
    BY SameMaps DEF AllocInv, SearchInv, Op
  <1>2. reply' = [kind |-> "free", err |-> "none", at |-> b, len |-> op.len] BY DEF Answer
  <1>3. reply' \in ReplyType
    <2>1. b \in 0..(Count + MaxInode) /\ op.len \in 0..(MaxLen + Count)
      BY <1>1, Sizes, InodeGroups
    <2> QED BY <1>1, <1>2, <2>1 DEF ReplyType
  <1>4. FreeRun(reply.at, reply.len)' BY <1>2 DEF FreeRun, maps
  <1>5. SearchInv' BY <1>2, <1>3, <1>4, NoSearch, NoOpType
  <1>6. RightAnswer
    <2>1. op.len >= op.len BY <1>1, Sizes
    <2> QED BY <1>2, <2>1 DEF RightAnswer
  <1> QED BY <1>1, <1>5, <1>6 DEF AllocInv

LEMMA ScanFreeKeeps ==
    ASSUME AllocInv, ScanFree
    PROVE  AllocInv' /\ (Idle' => RightAnswer)
  <1>0. /\ op.kind = "free" /\ op.kind \in Kinds /\ op.fixed \in BOOLEAN /\ op.goal \in Nat
        /\ op.len \in 1..MaxLen /\ op.len \in Nat \ {0}
        /\ op.from \in Blocks /\ op.from \in Nat
        /\ op.at \in FirstBlock..Count /\ op.at \in Nat /\ FirstBlock \in Nat
    <2>1. op.kind = "free" BY DEF ScanFree
    <2>2. op \in Op /\ FreePassed BY DEF AllocInv, SearchInv
    <2>3. op.len \in 1..MaxLen /\ op.from \in Blocks /\ op.at \in FirstBlock..Count
      BY <2>1, <2>2 DEF FreePassed
    <2>4. op.goal \in Nat BY <2>2, Sizes, InodeGroups DEF Op
    <2> QED BY <2>1, <2>2, <2>3, <2>4, Sizes DEF Op
  <1>1. IF op.fixed THEN op.at >= op.from /\ PassedTo(op.from)
        ELSE op.goal <= op.from /\ ((op.at >= op.from /\ PassedTo(op.from)) \/ PassedRound(op.from))
    BY <1>0 DEF AllocInv, SearchInv, FreePassed
  <1>2. \A i : Hopeless(i) <=> ~(i \in Blocks /\ FreeRun(i, op.len))
    BY <1>0, SuitableIs DEF Hopeless
  <1>3. ASSUME NEW i \in Nat, i + op.len - 1 >= Count PROVE Hopeless(i)
    <2>1. i + op.len - 1 \in Run(i, op.len) BY <1>0 DEF Run
    <2>2. i + op.len - 1 \notin Blocks BY <1>0, <1>3, Sizes DEF Blocks
    <2> QED BY <1>2, <2>1, <2>2 DEF FreeRun
  <1>4. InWindow(op) = IF op.fixed THEN op.from..(op.goal - 1)
                       ELSE {b \in Blocks : b >= op.from \/ b < op.goal}
    BY <1>0 DEF InWindow
  <1>5. ASSUME Failed, \A i \in InWindow(op) : Hopeless(i)
        PROVE  AllocInv' /\ (Idle' => RightAnswer)
    <2>1. Suitable(op) \cap InWindow(op) = {} BY <1>5 DEF Hopeless
    <2> QED BY <1>0, <1>5, <2>1, FailedKeeps
  <1> DEFINE end == op.at + op.len - 1 >= Count
  <1>7. PICK b : b = IF end THEN FirstBlock ELSE op.at OBVIOUS
  <1>8. IF end /\ op.fixed THEN Failed
        ELSE IF Run(b, op.len) \cap used = {}
             THEN /\ op' = NoOp
                  /\ Answer(op.kind, "none", b, op.len)
                  /\ UNCHANGED <<maps, dirty, stored>>
        ELSE IF b + 1 = op.goal THEN Failed
        ELSE op' = [op EXCEPT !.at = b + 1] /\ UNCHANGED <<maps, dirty, stored, reply>>
    BY <1>7 DEF ScanFree
  <1>9. end => \A i \in Nat : i >= op.at => Hopeless(i)
    <2> SUFFICES ASSUME end, NEW i \in Nat, i >= op.at PROVE Hopeless(i) OBVIOUS
    <2>1. i + op.len - 1 >= Count BY <1>0, Sizes
    <2> QED BY <1>3, <2>1
  <1>10. CASE end /\ op.fixed
    <2>1. ASSUME NEW i \in InWindow(op) PROVE Hopeless(i)
      <3>1. i \in Nat /\ op.from <= i BY <1>0, <1>4, <1>10
      <3>2. CASE i >= op.at BY <1>9, <1>10, <3>1, <3>2
      <3>3. CASE i < op.at BY <1>1, <1>10, <3>1, <3>3 DEF PassedTo
      <3> QED BY <1>0, <3>1, <3>2, <3>3
    <2> QED BY <1>5, <1>8, <1>10, <2>1
  <1>11. CASE ~(end /\ op.fixed)
    <2>1. b \in Nat /\ b >= FirstBlock /\ b + op.len - 1 < Count
      <3>1. CASE end
        <4>1. b = FirstBlock BY <1>7, <3>1
        <4>2. FirstBlock + MaxLen <= Count BY Sizes
        <4> QED BY <1>0, <4>1, <4>2, Sizes
      <3>2. CASE ~end BY <1>0, <1>7, <3>2, Sizes
      <3> QED BY <3>1, <3>2
    <2>2. b \in Blocks /\ Run(b, op.len) \subseteq Blocks
      BY <1>0, <2>1, Sizes DEF Blocks, Run
    <2>3. CASE Run(b, op.len) \cap used = {}
      <3>1. FreeRun(b, op.len) BY <2>2, <2>3 DEF FreeRun
      <3>2. /\ op' = NoOp
            /\ Answer(op.kind, "none", b, op.len)
            /\ UNCHANGED <<maps, dirty, stored>>
        BY <1>8, <1>11, <2>3
      <3> QED BY <1>0, <2>2, <3>1, <3>2, FreeFound
    <2>4. CASE Run(b, op.len) \cap used # {}
      <3>1. Hopeless(b) BY <1>2, <2>4 DEF FreeRun
      <3>2. \/ b >= op.from /\ \A i \in Nat : op.from <= i /\ i < b => Hopeless(i)
            \/ ~op.fixed /\ \A i \in Nat : op.from <= i \/ i < b => Hopeless(i)
        <4>1. CASE ~end
          <5>1. b = op.at BY <1>7, <4>1
          <5> QED BY <1>1, <5>1 DEF PassedTo, PassedRound
        <4>2. CASE end
          <5>1. ~op.fixed /\ b = FirstBlock BY <1>7, <1>11, <4>2
          <5>2. \A i \in Nat : i < FirstBlock => Hopeless(i) BY <1>0, <1>2, Sizes
          <5>3. \A i \in Nat : op.from <= i => Hopeless(i)
            <6> SUFFICES ASSUME NEW i \in Nat, op.from <= i PROVE Hopeless(i) OBVIOUS
            <6>1. CASE i >= op.at BY <1>9, <4>2, <6>1
            <6>2. CASE i < op.at BY <1>1, <5>1, <6>2 DEF PassedTo, PassedRound
            <6> QED BY <1>0, <6>1, <6>2
          <5> QED BY <5>1, <5>2, <5>3
        <4> QED BY <4>1, <4>2
      <3>3. \/ b >= op.from /\ \A i \in Nat : op.from <= i /\ i < b + 1 => Hopeless(i)
            \/ ~op.fixed /\ \A i \in Nat : op.from <= i \/ i < b + 1 => Hopeless(i)
        <4>1. \A i \in Nat : i < b + 1 => i < b \/ i = b BY <2>1
        <4> QED BY <3>1, <3>2, <4>1
      <3>4. CASE b + 1 = op.goal
        <4>1. Failed BY <1>8, <1>11, <2>4, <3>4
        <4>2. ASSUME NEW i \in InWindow(op) PROVE Hopeless(i)
          <5>1. CASE op.fixed
            <6>1. i \in Nat /\ op.from <= i /\ i < b + 1 BY <1>0, <1>4, <2>1, <3>4, <5>1
            <6> QED BY <3>3, <5>1, <6>1
          <5>2. CASE ~op.fixed
            <6>1. i \in Nat /\ (op.from <= i \/ i < b + 1)
              BY <1>0, <1>4, <3>4, <5>2, Sizes
            <6>2. ~(b >= op.from) BY <1>0, <1>1, <2>1, <3>4, <5>2
            <6> QED BY <3>3, <6>1, <6>2
          <5> QED BY <5>1, <5>2
        <4> QED BY <1>5, <4>1, <4>2
      <3>5. CASE b + 1 # op.goal
        <4>1. op' = [op EXCEPT !.at = b + 1] /\ UNCHANGED <<maps, dirty, stored, reply>>
          BY <1>8, <1>11, <2>4, <3>5
        <4>2. b + 1 \in FirstBlock..Count BY <1>0, <2>1, Sizes
        <4>3. b >= op.from => b + 1 >= op.from BY <1>0, <2>1
        <4> QED BY <1>0, <3>3, <4>1, <4>2, <4>3, FreeGoesOn
      <3> QED BY <3>4, <3>5
    <2> QED BY <2>3, <2>4
  <1> QED BY <1>10, <1>11

\* How far a turn of the search for an inode looks.
LEMMA UptoIs ==
    ASSUME op.at \in FirstInode..MaxInode, op.goal \in FirstInode..MaxInode
    PROVE  /\ Upto(op.at) \in Nat /\ Upto(op.at) >= op.at /\ Upto(op.at) <= MaxInode
           /\ op.at < op.goal => Upto(op.at) < op.goal
  <1>1. MaxInode \in Nat /\ FirstInode \in 1..MaxInode BY InodeGroups
  <1>2. op.at \in Inodes /\ op.at \in Nat /\ op.goal \in Nat /\ op.goal # 0 BY <1>1 DEF Inodes
  <1>3. PICK g \in Groups : g = GroupOfInode(op.at) /\ op.at \in InodesOf(g)
    BY <1>2, InodeGroups
  <1>4. PICK last \in Nat : last = (g + 1) * GroupInodes BY Sizes DEF Groups
  <1>5. op.at <= last BY <1>2, <1>3, <1>4 DEF InodesOf
  <1>6. PICK u : u = IF op.at < op.goal /\ last + 1 >= op.goal THEN op.goal - 1 ELSE last + 1
    OBVIOUS
  <1>7. u \in Nat /\ u >= op.at /\ (op.at < op.goal => u < op.goal)
    BY <1>2, <1>4, <1>5, <1>6
  <1>8. Upto(op.at) = Min({MaxInode, u}) BY <1>3, <1>4, <1>6 DEF Upto
  <1>9. /\ Min({MaxInode, u}) \in {MaxInode, u}
        /\ Min({MaxInode, u}) <= MaxInode /\ Min({MaxInode, u}) <= u
    <2>1. {MaxInode, u} \in SUBSET Nat BY <1>1, <1>7
    <2> QED BY <2>1, MinIsLeast
  <1>10. op.at <= MaxInode BY <1>1
  <1> QED BY <1>1, <1>2, <1>7, <1>8, <1>9, <1>10

LEMMA ScanInodesSearch ==
    ASSUME AllocInv, ScanInodes
    PROVE  AllocInv' /\ (Idle' => RightAnswer)
  <1>0. /\ op.kind = "inode" /\ op \in Op /\ reply \in ReplyType /\ ReplyHolds
        /\ op.at \in FirstInode..MaxInode /\ op.goal \in FirstInode..MaxInode
        /\ op.at \in Nat /\ op.goal \in Nat
        /\ MaxInode \in Nat /\ FirstInode \in 1..MaxInode
        /\ op.kind \in Kinds
    <2>1. op.kind = "inode" BY DEF ScanInodes
    <2>2. op \in Op /\ reply \in ReplyType /\ ReplyHolds BY DEF AllocInv, SearchInv
    <2>3. op.at \in FirstInode..MaxInode /\ op.goal \in FirstInode..MaxInode
      BY <2>1 DEF AllocInv, SearchInv, InodesPassed
    <2> QED BY <2>1, <2>2, <2>3, InodeGroups DEF Op
  <1>1. IF op.at >= op.goal THEN PassedTo(op.goal) ELSE PassedRound(op.goal)
    BY <1>0 DEF AllocInv, SearchInv, InodesPassed
  <1>2. MapsInv' /\ iused' = iused /\ used' = used
    BY <1>0, ScanInodesKeeps DEF AllocInv, ScanInodes
  <1>3. \A i : Hopeless(i) <=> i \notin FirstInode..MaxInode \ iused
    BY <1>0, SuitableIs DEF Hopeless
  <1>4. PICK upto : upto = Upto(op.at) OBVIOUS
  <1>5. /\ upto \in Nat /\ upto >= op.at /\ upto <= MaxInode
        /\ op.at < op.goal => upto < op.goal
    BY <1>0, <1>4, UptoIs
  <1>6. PICK free : free = ((op.at)..upto) \ iused OBVIOUS
  <1>7. PICK next : next = IF upto + 1 > MaxInode THEN FirstInode ELSE upto + 1 OBVIOUS
  <1>8. \/ /\ free # {}
           /\ op' = NoOp /\ Answer(op.kind, "none", Min(free), 1)
        \/ /\ free = {} /\ next # op.goal
           /\ op' = [op EXCEPT !.at = next] /\ UNCHANGED reply
        \/ /\ free = {} /\ next = op.goal
           /\ op' = NoOp /\ Answer(op.kind, "full", 0, 0)
    BY <1>2, <1>4, <1>6, <1>7 DEF ScanInodes
  <1>9. CASE free # {} /\ op' = NoOp /\ Answer(op.kind, "none", Min(free), 1)
    <2>1. free \in SUBSET Nat BY <1>0, <1>5, <1>6
    <2>2. PICK i \in free : i = Min(free) BY <1>9, <2>1, MinIsLeast
    <2>3. i \in FirstInode..MaxInode \ iused BY <1>0, <1>5, <1>6, <2>2
    <2>4. reply' = [kind |-> "inode", err |-> "none", at |-> i, len |-> 1]
      BY <1>0, <1>9, <2>2 DEF Answer
    <2>5. reply' \in ReplyType
      <3>1. i \in 0..(Count + MaxInode) /\ 1 \in 0..(MaxLen + Count)
        BY <1>0, <2>3, Sizes
      <3> QED BY <1>0, <2>4, <3>1 DEF ReplyType
    <2>6. SearchInv' BY <1>2, <1>9, <2>3, <2>4, <2>5, NoSearch, NoOpType
    <2>7. RightAnswer BY <1>0, <2>3, <2>4, SuitableIs DEF RightAnswer
    <2> QED BY <1>2, <2>6, <2>7 DEF AllocInv
  <1>10. ASSUME free = {}, NEW i \in Nat, op.at <= i, i <= upto PROVE Hopeless(i)
    <2>1. i \in (op.at)..upto BY <1>0, <1>5, <1>10
    <2> QED BY <1>3, <1>6, <1>10, <2>1
  <1>11. ASSUME NEW i \in Nat, i < FirstInode \/ i > MaxInode PROVE Hopeless(i)
    BY <1>0, <1>3, <1>11
  <1>12. CASE free = {} /\ next = op.goal /\ op' = NoOp /\ Answer(op.kind, "full", 0, 0)
    <2>1. ASSUME NEW i \in Nat PROVE Hopeless(i)
      <3>1. CASE op.at >= op.goal
        <4>1. upto = MaxInode /\ op.goal = FirstInode BY <1>0, <1>5, <1>7, <1>12, <3>1
        <4>2. CASE op.goal <= i /\ i < op.at BY <1>1, <3>1, <4>2 DEF PassedTo
        <4>3. CASE op.at <= i /\ i <= upto BY <1>10, <1>12, <4>3
        <4>4. CASE i < FirstInode \/ i > MaxInode BY <1>11, <4>4
        <4> QED BY <1>0, <4>1, <4>2, <4>3, <4>4
      <3>2. CASE op.at < op.goal
        <4>1. upto + 1 = op.goal BY <1>0, <1>5, <1>7, <1>12, <3>2
        <4>2. CASE op.goal <= i \/ i < op.at BY <1>0, <1>1, <3>2, <4>2 DEF PassedRound
        <4>3. CASE op.at <= i /\ i <= upto BY <1>10, <1>12, <4>3
        <4> QED BY <1>0, <1>5, <4>1, <4>2, <4>3
      <3> QED BY <1>0, <3>1, <3>2
    <2>2. Suitable(op) = {}
      <3>1. Suitable(op) \subseteq Nat BY <1>0, SuitableIs
      <3> QED BY <2>1, <3>1 DEF Hopeless
    <2>3. reply' = [kind |-> "inode", err |-> "full", at |-> 0, len |-> 0]
      BY <1>0, <1>12 DEF Answer
    <2>4. reply' \in ReplyType
      <3>1. 0 \in 0..(Count + MaxInode) /\ 0 \in 0..(MaxLen + Count) BY <1>0, Sizes
      <3> QED BY <1>0, <2>3, <3>1 DEF ReplyType
    <2>5. SearchInv' BY <1>12, <2>3, <2>4, NoSearch, NoOpType
    <2>6. RightAnswer BY <2>2, <2>3 DEF RightAnswer
    <2> QED BY <1>2, <2>5, <2>6 DEF AllocInv
  <1>13. CASE free = {} /\ next # op.goal /\ op' = [op EXCEPT !.at = next] /\ UNCHANGED reply
    <2>1. next \in FirstInode..MaxInode BY <1>0, <1>5, <1>7
    <2>2. next \in 0..(Count + MaxInode) BY <1>0, <2>1, Sizes
    <2>3. /\ op' \in Op /\ op'.kind = op.kind /\ op'.len = op.len /\ op'.min = op.min
          /\ op'.fixed = op.fixed /\ op'.goal = op.goal /\ op'.at = next
      BY <1>0, <1>13, <2>2 DEF Op
    <2>4. \A i : Hopeless(i)' = Hopeless(i) BY <1>2, <2>3, SameHopes
    <2>5. {op'.goal, op'.at} \subseteq FirstInode..MaxInode BY <1>0, <2>1, <2>3
    <2>6. ASSUME op.at >= op.goal, upto = MaxInode PROVE InodesPassed'
      <3>1. next = FirstInode /\ ~(next >= op.goal) BY <1>0, <1>7, <1>13, <2>6
      <3>2. ASSUME NEW i \in Nat, op.goal <= i \/ i < next PROVE Hopeless(i)
        <4>1. CASE op.goal <= i /\ i < op.at BY <1>1, <2>6, <4>1 DEF PassedTo
        <4>2. CASE op.at <= i /\ i <= upto BY <1>10, <1>13, <4>2
        <4>3. CASE i < FirstInode \/ i > MaxInode BY <1>11, <4>3
        <4> QED BY <1>0, <2>6, <3>1, <3>2, <4>1, <4>2, <4>3
      <3>3. PassedRound(op.goal)' BY <2>3, <2>4, <3>2 DEF PassedRound
      <3>4. ~(op'.at >= op'.goal) BY <2>3, <3>1
      <3> QED BY <2>5, <3>3, <3>4 DEF InodesPassed
    <2>7. ASSUME op.at >= op.goal, upto # MaxInode PROVE InodesPassed'
      <3>1. next = upto + 1 /\ next >= op.goal BY <1>0, <1>5, <1>7, <2>7
      <3>2. ASSUME NEW i \in Nat, op.goal <= i /\ i < next PROVE Hopeless(i)
        <4>1. CASE op.goal <= i /\ i < op.at BY <1>1, <2>7, <4>1 DEF PassedTo
        <4>2. CASE op.at <= i /\ i <= upto BY <1>10, <1>13, <4>2
        <4> QED BY <1>0, <1>5, <3>1, <3>2, <4>1, <4>2
      <3>3. PassedTo(op.goal)' BY <2>3, <2>4, <3>2 DEF PassedTo
      <3>4. op'.at >= op'.goal BY <2>3, <3>1
      <3> QED BY <2>5, <3>3, <3>4 DEF InodesPassed
    <2>8. ASSUME op.at < op.goal PROVE InodesPassed'
      <3>1. next = upto + 1 /\ ~(next >= op.goal) BY <1>0, <1>5, <1>7, <1>13, <2>8
      <3>2. ASSUME NEW i \in Nat, op.goal <= i \/ i < next PROVE Hopeless(i)
        <4>1. CASE op.goal <= i \/ i < op.at BY <1>0, <1>1, <2>8, <4>1 DEF PassedRound
        <4>2. CASE op.at <= i /\ i <= upto BY <1>10, <1>13, <4>2
        <4> QED BY <1>0, <1>5, <3>1, <3>2, <4>1, <4>2
      <3>3. PassedRound(op.goal)' BY <2>3, <2>4, <3>2 DEF PassedRound
      <3>4. ~(op'.at >= op'.goal) BY <2>3, <3>1
      <3> QED BY <2>5, <3>3, <3>4 DEF InodesPassed
    <2>9. InodesPassed' BY <1>0, <1>5, <2>6, <2>7, <2>8
    <2>10. FreePassed' /\ RangesPassed' BY <1>0, <2>3 DEF FreePassed, RangesPassed
    <2>11. ReplyHolds' BY <1>0, <1>2, <1>13 DEF ReplyHolds, FreeRun
    <2> QED BY <1>0, <1>2, <1>13, <2>3, <2>9, <2>10, <2>11 DEF AllocInv, SearchInv, Idle
  <1> QED BY <1>8, <1>9, <1>12, <1>13

-----------------------------------------------------------------------------
\* The invariant holds, and what a search answers is right.

LEMMA SameSearch ==
    ASSUME SearchInv, UNCHANGED <<maps, op, reply>>
    PROVE  SearchInv'
  <1>1. used' = used /\ iused' = iused /\ op' = op /\ reply' = reply BY DEF maps
  <1>2. \A i : Hopeless(i)' = Hopeless(i) BY <1>1, SameHopes
  <1>3. \A i : PassedTo(i)' = PassedTo(i) /\ PassedRound(i)' = PassedRound(i)
    BY <1>1, <1>2 DEF PassedTo, PassedRound
  <1>4. ReplyHolds' BY <1>1 DEF SearchInv, ReplyHolds, FreeRun
  <1>5. InodesPassed' BY <1>1, <1>3 DEF SearchInv, InodesPassed
  <1>6. FreePassed' BY <1>1, <1>3 DEF SearchInv, FreePassed
  <1>7. RangesPassed' BY <1>1, <1>3 DEF SearchInv, RangesPassed
  <1> QED BY <1>1, <1>4, <1>5, <1>6, <1>7 DEF SearchInv

LEMMA FlushKeeps ==
    ASSUME AllocInv, Flush
    PROVE  AllocInv' /\ Idle
  <1>1. SearchInv' /\ Idle BY SameSearch DEF AllocInv, Flush
  <1>2. used' = used /\ iused' = iused /\ bg' = bg /\ sb' = sb /\ dirty' = {}
    BY DEF Flush, maps
  <1>3. stored' \in [Groups -> SUBSET {"bb", "ib"}] BY DEF AllocInv, MapsInv, MapTypes, Flush
  <1>4. MapTypes' BY <1>2, <1>3 DEF AllocInv, MapsInv, MapTypes
  <1>5. CountsRight' /\ UnusedTail' /\ UninitKept'
    BY <1>2 DEF AllocInv, MapsInv, CountsRight, UnusedTail, UninitKept
  <1> QED BY <1>1, <1>4, <1>5 DEF AllocInv, MapsInv

LEMMA InitAlloc == Init => AllocInv
  BY InitMaps, InitSearch DEF AllocInv

LEMMA NextAlloc ==
    ASSUME AllocInv, [Next]_vars
    PROVE  AllocInv' /\ (~Idle /\ Idle' => RightAnswer)
  <1>1. CASE \E goal \in {0} \cup Blocks : AllocBlock(goal)
    BY <1>1, AllocBlockKeeps DEF AllocBlock
  <1>2. CASE \/ \E goal \in {0} \cup Blocks : \E kind \in {"range", "alloc"} : \E len \in 1..MaxLen :
                  \E fixed, min \in BOOLEAN : NewRange(kind, goal, len, fixed, min)
             \/ \E start, finish \in {0} \cup Blocks : \E num \in 1..MaxLen : GetFree(start, finish, num)
             \/ \E dir \in {0} \cup Inodes : NewInode(dir)
    <2>1. AllocInv' /\ Idle BY <1>2, StartKeeps
    <2> QED BY <2>1
  <1>3. CASE \/ \E b \in Blocks : \E n \in 1..MaxLen : FreeRange(b, n)
             \/ \E n \in 1..MaxLen : Claim(n)
             \/ TakeInode
             \/ \E ino \in Inodes : FreeInode(ino)
    <2>1. AllocInv' BY <1>3, ClientKeeps
    <2>2. Idle BY <1>3 DEF FreeRange, Claim, TakeInode, FreeInode
    <2> QED BY <2>1, <2>2
  <1>4. CASE Scan BY <1>4, ScanRangeKeeps, ScanFreeKeeps, ScanInodesSearch DEF Scan
  <1>5. CASE Flush BY <1>5, FlushKeeps
  <1>6. CASE UNCHANGED vars
    <2>1. MapsInv' BY <1>6, SameMaps DEF AllocInv, vars
    <2>2. SearchInv' BY <1>6, SameSearch DEF AllocInv, vars
    <2>3. Idle' = Idle BY <1>6 DEF Idle, vars
    <2> QED BY <2>1, <2>2, <2>3 DEF AllocInv
  <1> QED BY <1>1, <1>2, <1>3, <1>4, <1>5, <1>6 DEF Next

LEMMA AllocInvariant == Spec => []AllocInv
  BY InitAlloc, NextAlloc, PTL DEF Spec

\* The counts of the superblock and of every descriptor are those of the maps,
\* whatever the size of the volume and of its groups, and none leaves its
\* bounds (alloc_stats.c, and the failures of alloc.c half way).
THEOREM CountsAreRight == Spec => []CountsMatch
  <1>1. AllocInv => CountsMatch
    BY DEF AllocInv, MapsInv, MapTypes, SearchInv, CountsRight, CountsMatch, TypeOK, ReplyType
  <1> QED BY <1>1, AllocInvariant, PTL

\* No inode that is in use is among those that its descriptor counts as never
\* used, or in a group whose map is not initialised (ext2fs_inode_alloc_stats2
\* and check_inode_uninit).
THEOREM TailIsUnused == Spec => []UnusedTail
  <1>1. AllocInv => UnusedTail BY DEF AllocInv, MapsInv
  <1> QED BY <1>1, AllocInvariant, PTL

\* What a search returns is free, and as long and where it was asked for; one
\* that fails has left nothing out of its window, though it goes round the
\* volume, skips what cannot start a run and looks at one group of inodes at
\* a time (ext2fs_new_range, ext2fs_get_free_blocks2, ext2fs_new_inode).
THEOREM SearchesAreRight == Spec => SearchRight
  <1>1. AllocInv /\ [Next]_vars => [~Idle /\ Idle' => RightAnswer]_vars
    BY NextAlloc
  <1> QED BY <1>1, AllocInvariant, PTL DEF Spec, SearchRight, RightAnswer

-----------------------------------------------------------------------------
\* A flush leaves the maps on the device, if no group has both its bitmaps
\* uninitialised (with both, a search for an inode clears both flags and has
\* only the inode bitmap written).

OneUninit == \A g \in Groups : ~(bg[g].block_uninit /\ bg[g].inode_uninit)
DirtyOrStored ==
    \A g \in Groups : /\ ~bg[g].block_uninit => "bb" \in dirty \cup stored[g]
                      /\ ~bg[g].inode_uninit => "ib" \in dirty \cup stored[g]
StoreInv == OneUninit /\ DirtyOrStored

\* No flag is set again; a map of which a flag is cleared, or that changes, is
\* dirty or stored.
LEMMA StoreKept ==
    ASSUME StoreInv,
           \A g \in Groups :
              /\ bg'[g].block_uninit => bg[g].block_uninit
              /\ bg'[g].inode_uninit => bg[g].inode_uninit
              /\ \/ "bb" \in dirty' \cup stored'[g]
                 \/ /\ bg'[g].block_uninit = bg[g].block_uninit
                    /\ "bb" \in dirty \cup stored[g] => "bb" \in dirty' \cup stored'[g]
              /\ \/ "ib" \in dirty' \cup stored'[g]
                 \/ /\ bg'[g].inode_uninit = bg[g].inode_uninit
                    /\ "ib" \in dirty \cup stored[g] => "ib" \in dirty' \cup stored'[g]
    PROVE  StoreInv'
  BY DEF StoreInv, OneUninit, DirtyOrStored

LEMMA InitStored == ASSUME ~BothUninit, Init PROVE StoreInv
  <1>1. PICK b \in SUBSET Groups, i \in SUBSET Groups, tail \in BOOLEAN :
          /\ b \cap i = {}
          /\ bg = [g \in Groups |->
                     [free   |-> Cardinality(InGroup(g) \ Reserved),
                      ifree  |-> Cardinality(InodesOf(g) \ iused),
                      unused |-> IF g \in i \/ tail THEN Cardinality(InodesOf(g) \ iused) ELSE 0,
                      block_uninit |-> g \in b, inode_uninit |-> g \in i]]
          /\ stored = [g \in Groups |-> {m \in {"bb", "ib"} : g \notin IF m = "bb" THEN b ELSE i}]
    BY ZenonT(30) DEF Init
  <1>2. ASSUME NEW g \in Groups
        PROVE  /\ bg[g].block_uninit = (g \in b) /\ bg[g].inode_uninit = (g \in i)
               /\ g \notin b => "bb" \in stored[g]
               /\ g \notin i => "ib" \in stored[g]
    BY <1>1
  <1> QED BY <1>1, <1>2 DEF StoreInv, OneUninit, DirtyOrStored

LEMMA InitialisedStored ==
    ASSUME MapTypes, StoreInv, NEW gs, bg' = Initialised(bg, gs),
           dirty' = dirty \cup InitDirty(gs), stored' = stored
    PROVE  StoreInv'
  <1>1. ASSUME NEW g \in Groups
        PROVE  /\ bg'[g].inode_uninit = bg[g].inode_uninit
               /\ bg'[g].block_uninit = (bg[g].block_uninit /\ g \notin gs)
               /\ bg[g].block_uninit \in BOOLEAN
    <2>1. bg[g] \in Descriptor BY DEF MapTypes
    <2> QED BY <2>1 DEF Initialised, Descriptor
  <1>2. ASSUME NEW g \in Groups, g \in gs, bg[g].block_uninit
        PROVE  "bb" \in dirty'
    BY <1>2 DEF InitDirty
  <1>3. dirty \subseteq dirty' OBVIOUS
  <1> QED BY <1>1, <1>2, <1>3, StoreKept

LEMMA BlockStatsStored ==
    ASSUME MapTypes, StoreInv, NEW gs, NEW d, d = bg \/ d = Initialised(bg, gs),
           NEW bs, NEW sign, BlockStats(d, bs, sign)
    PROVE  StoreInv'
  <1>1. ASSUME NEW g \in Groups
        PROVE  /\ bg'[g].inode_uninit = bg[g].inode_uninit
               /\ bg'[g].block_uninit => bg[g].block_uninit
               /\ "ib" \in stored[g] => "ib" \in stored'[g]
    <2>1. bg[g] \in Descriptor BY DEF MapTypes
    <2>2. /\ d[g] \in Descriptor /\ d[g].inode_uninit = bg[g].inode_uninit
          /\ d[g].block_uninit => bg[g].block_uninit
      BY <2>1 DEF Initialised, Descriptor
    <2>3. bg'[g] = IF bs \cap InGroup(g) = {} THEN d[g]
                   ELSE [d[g] EXCEPT !.free = @ - sign * Cardinality(bs \cap InGroup(g)),
                                     !.block_uninit = FALSE]
      BY DEF BlockStats, BlocksCounted
    <2>4. "ib" \in stored[g] => "ib" \in stored'[g] BY DEF BlockStats
    <2> QED BY <2>2, <2>3, <2>4 DEF Descriptor
  <1>2. "bb" \in dirty' /\ dirty \subseteq dirty' BY DEF BlockStats, BlockStatsDirty
  <1> QED BY <1>1, <1>2, StoreKept

LEMMA InodeStatsStored ==
    ASSUME MapTypes, StoreInv, NEW ino \in Inodes, NEW sign, InodeStats(ino, sign)
    PROVE  StoreInv'
  <1>1. PICK h \in Groups : h = GroupOfInode(ino) BY InodeGroups
  <1>2. /\ bg' = [bg EXCEPT ![h].ifree = @ - sign, ![h].inode_uninit = FALSE,
                            ![h].unused = Tail(h, ino)]
        /\ dirty' = dirty \cup {"super", "ib"}
        /\ stored' = [stored EXCEPT ![h] = @ \ {"ib"}]
    BY <1>1 DEF InodeStats
  <1>3. bg \in [Groups -> Descriptor] /\ stored \in [Groups -> SUBSET {"bb", "ib"}]
    BY DEF MapTypes
  <1>4. ASSUME NEW g \in Groups
        PROVE  /\ bg'[g].inode_uninit => bg[g].inode_uninit
               /\ bg'[g].block_uninit = bg[g].block_uninit
               /\ "bb" \in stored[g] => "bb" \in stored'[g]
    BY <1>2, <1>3 DEF Descriptor
  <1> QED BY <1>2, <1>4, StoreKept

LEMMA ScanInodesStored ==
    ASSUME MapTypes, StoreInv, ScanInodes, op.at \in Inodes
    PROVE  StoreInv'
  <1>1. PICK h \in Groups : h = GroupOfInode(op.at) BY InodeGroups
  <1>2. /\ bg' = IF bg[h].inode_uninit THEN InodeInitialised(h) ELSE bg
        /\ dirty' = IF bg[h].inode_uninit THEN dirty \cup {"super", "ib"} ELSE dirty
        /\ stored' = stored
    BY <1>1 DEF ScanInodes
  <1>3. bg \in [Groups -> Descriptor] BY DEF MapTypes
  <1>4. bg[h].inode_uninit => bg[h].block_uninit = FALSE
    <2>1. bg[h].block_uninit \in BOOLEAN BY <1>3 DEF Descriptor
    <2> QED BY <2>1 DEF StoreInv, OneUninit
  <1>5. ASSUME NEW g \in Groups
        PROVE  /\ bg'[g].inode_uninit => bg[g].inode_uninit
               /\ bg'[g].block_uninit = bg[g].block_uninit
               /\ bg'[g].inode_uninit = bg[g].inode_uninit \/ "ib" \in dirty'
    BY <1>2, <1>3, <1>4 DEF Descriptor, InodeInitialised
  <1>6. dirty \subseteq dirty' BY <1>2
  <1> QED BY <1>2, <1>5, <1>6, StoreKept

LEMMA FlushStored ==
    ASSUME MapTypes, StoreInv, Flush
    PROVE  StoreInv'
  <1>1. bg' = bg BY DEF Flush, maps
  <1>2. ASSUME NEW g \in Groups
        PROVE  /\ ~bg[g].block_uninit => "bb" \in stored'[g]
               /\ ~bg[g].inode_uninit => "ib" \in stored'[g]
    <2>1. stored'[g] = stored[g] \cup
            {m \in dirty \ {"super"} :
               ~(IF m = "bb" THEN bg[g].block_uninit ELSE bg[g].inode_uninit)}
      BY DEF Flush
    <2> QED BY <2>1 DEF StoreInv, DirtyOrStored
  <1> QED BY <1>1, <1>2 DEF StoreInv, OneUninit, DirtyOrStored

LEMMA NextStored ==
    ASSUME AllocInv, StoreInv, [Next]_vars
    PROVE  StoreInv'
  <1>0. MapTypes BY DEF AllocInv, MapsInv
  <1>1. ASSUME bg' = bg, dirty' = dirty, stored' = stored PROVE StoreInv'
    BY <1>1 DEF StoreInv, OneUninit, DirtyOrStored
  <1>2. ASSUME NEW b, NEW n, RangeFound(b, n) PROVE StoreInv'
    BY <1>0, <1>2, BlockStatsStored, InitialisedStored DEF RangeFound
  <1>3. ASSUME NEW goal, AllocBlock(goal) PROVE StoreInv'
    <2>1. CASE used = Blocks BY <1>1, <1>3, <2>1 DEF AllocBlock, maps
    <2>2. CASE used # Blocks
      BY <1>0, <1>3, <2>2, BlockStatsStored, InitialisedStored DEF AllocBlock
    <2> QED BY <2>1, <2>2
  <1>4. CASE \/ \E b \in Blocks : \E n \in 1..MaxLen : FreeRange(b, n)
             \/ \E n \in 1..MaxLen : Claim(n)
    BY <1>0, <1>4, BlockStatsStored DEF FreeRange, Claim
  <1>5. CASE TakeInode
    <2>1. reply.at \in Inodes
      BY <1>5, InodeGroups DEF TakeInode, AllocInv, SearchInv, ReplyHolds, Inodes
    <2> QED BY <1>0, <1>5, <2>1, InodeStatsStored DEF TakeInode
  <1>6. ASSUME NEW ino \in Inodes, FreeInode(ino) PROVE StoreInv'
    BY <1>0, <1>6, InodeStatsStored DEF FreeInode
  <1>7. CASE ScanRange BY <1>1, <1>2, <1>7 DEF ScanRange, Failed, maps
  <1>8. CASE ScanFree BY <1>1, <1>8 DEF ScanFree, Failed, maps
  <1>9. CASE ScanInodes
    <2>1. op.at \in Inodes BY <1>9, ScanInodesKeeps DEF AllocInv
    <2> QED BY <1>0, <1>9, <2>1, ScanInodesStored
  <1>10. CASE Flush BY <1>0, <1>10, FlushStored
  <1>11. ASSUME NEW o, StartSearch(o) PROVE StoreInv' BY <1>1, <1>11 DEF StartSearch, maps
  <1>12. CASE UNCHANGED vars BY <1>1, <1>12 DEF vars, maps
  <1> QED BY <1>3, <1>4, <1>5, <1>6, <1>7, <1>8, <1>9, <1>10, <1>11, <1>12
        DEF Next, Scan, NewRange, GetFree, NewInode

\* Once nothing is dirty the device has every map of a group that is not
\* marked uninitialised, and those that are marked have nothing of a client in
\* them: whichever search or count cleared a flag or changed a map, and
\* however it ended (alloc.c, alloc_stats.c; rw_bitmaps.c: write_bitmaps).
THEOREM MapsAreStored == ASSUME ~BothUninit PROVE Spec => []MapsStored
  <1>1. Init => AllocInv /\ StoreInv BY InitAlloc, InitStored
  <1>2. AllocInv /\ StoreInv /\ [Next]_vars => AllocInv' /\ StoreInv'
    BY NextAlloc, NextStored
  <1>3. AllocInv /\ StoreInv => MapsStored
    <2> SUFFICES ASSUME AllocInv, StoreInv, NEW g \in Groups
                 PROVE  /\ "bb" \in dirty \/ IF bg[g].block_uninit
                                             THEN used \cap InGroup(g) \subseteq Reserved
                                             ELSE "bb" \in stored[g]
                        /\ "ib" \in dirty \/ IF bg[g].inode_uninit
                                             THEN iused \cap InodesOf(g) = {}
                                             ELSE "ib" \in stored[g]
      BY DEF MapsStored
    <2>1. bg[g].block_uninit => used \cap InGroup(g) \subseteq Reserved
      BY DEF AllocInv, MapsInv, UninitKept
    <2>2. bg[g].inode_uninit => iused \cap InodesOf(g) = {}
      BY DEF AllocInv, MapsInv, UnusedTail
    <2> QED BY <2>1, <2>2 DEF StoreInv, DirtyOrStored
  <1> QED BY <1>1, <1>2, <1>3, PTL DEF Spec
=============================================================================
