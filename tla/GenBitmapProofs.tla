---------------------------- MODULE GenBitmapProofs ----------------------------
(* Proofs about RbBitmap and GenBitmap, for any size of the map.             *)
EXTENDS GenBitmap, FiniteSetTheorems, WellFoundedInduction, TLAPS

-----------------------------------------------------------------------------
\* The invariant

\* The extents lie in 0..top, apart from each other.
Extent == [start : Nat, count : Nat \ {0}]
Apart(p) == \A j, k \in Live(p) :
    j # k => Stop(p, j) < Start(p, k) \/ Stop(p, k) < Start(p, j)
Extents(p, top) == /\ Live(p) \subseteq Ids
                   /\ p.ext \in [Live(p) -> Extent]
                   /\ \A k \in Live(p) : Stop(p, k) <= top + 1
                   /\ Apart(p)

\* A cursor is to an extent; the next one is right if it will be looked at.
Cursors(p) == /\ {p.w, p.r} \subseteq Live(p) \cup {Nil}
              /\ p.rn \in Ids \cup {Nil}
              /\ p.r # Nil /\ p.rn # Nil => p.rn = Successor(p, p.r)

Tree(p, top) == /\ p = [ext |-> p.ext, w |-> p.w, r |-> p.r, rn |-> p.rn]
                /\ Extents(p, top)
                /\ Cursors(p)

\* The bits that the extents hold.
Bit(p, b) == \E k \in Live(p) : Contains(p, k, b)

GInv == /\ end \in 0..MaxBit /\ real_end \in end..MaxBit
        /\ todo \subseteq 0..real_end
        /\ Tree(bp, real_end)
        /\ array \subseteq 0..real_end
        /\ Whole(real_end)
        /\ \A b \in 0..end : b \in array <=> Bit(bp, b) \/ b \in todo

-----------------------------------------------------------------------------
\* The least and the greatest member of a set of numbers.

LEMMA Least ==
    ASSUME NEW S \in SUBSET Nat, S # {}
    PROVE  \E x \in S : \A y \in S : x <= y
  <1> DEFINE T == {1..x : x \in S}
             R == StrictSubsetOrdering(Nat)
  <1>1. IsWellFoundedOn(R, FiniteSubsetsOf(Nat)) BY FS_StrictSubsetOrderingWellFounded
  <1>2. \A x \in S : 1..x \in FiniteSubsetsOf(Nat)
    <2> TAKE x \in S
    <2>1. IsFiniteSet(1..x) BY FS_Interval
    <2>2. 1..x \in SUBSET Nat OBVIOUS
    <2> QED BY <2>1, <2>2 DEF FiniteSubsetsOf
  <1>3. T \subseteq FiniteSubsetsOf(Nat) /\ T # {} BY <1>2
  <1>4. ASSUME NEW x \in S, NEW y \in S, y < x PROVE <<1..y, 1..x>> \in R
    <2>1. 1..y \subseteq 1..x /\ x \in 1..x /\ x \notin 1..y BY <1>4
    <2>2. 1..y \in SUBSET Nat /\ 1..x \in SUBSET Nat OBVIOUS
    <2> QED BY <2>1, <2>2 DEF StrictSubsetOrdering
  <1> HIDE DEF R
  <1>5. \E t \in T : \A u \in T : <<u, t>> \notin R
    <2> HIDE DEF T
    <2> QED BY <1>1, <1>3, WFMin
  <1>6. PICK x \in S : \A u \in T : <<u, 1..x>> \notin R BY <1>5
  <1>7. ASSUME NEW y \in S PROVE x <= y
    <2>1. 1..y \in T OBVIOUS
    <2>2. ~(y < x) BY <1>4, <1>6, <2>1
    <2> QED BY <2>2
  <1> QED BY <1>7

LEMMA MinIsLeast ==
    ASSUME NEW S \in SUBSET Nat, S # {}
    PROVE  Min(S) \in S /\ \A y \in S : Min(S) <= y
  BY Least DEF Min

LEMMA MaxIsGreatest ==
    ASSUME NEW S \in SUBSET Nat, S # {}, NEW B \in Nat, \A x \in S : x <= B
    PROVE  Max(S) \in S /\ \A y \in S : y <= Max(S)
  <1> DEFINE T == {B - x : x \in S}
  <1>1. T \in SUBSET Nat /\ T # {}
    <2>1. \A x \in S : x \in Nat /\ B - x \in Nat OBVIOUS
    <2> QED BY <2>1
  <1>2. PICK t \in T : \A u \in T : t <= u
    <2> HIDE DEF T
    <2> QED BY <1>1, Least
  <1>3. PICK x \in S : t = B - x OBVIOUS
  <1>4. ASSUME NEW y \in S PROVE x >= y
    <2>1. B - y \in T OBVIOUS
    <2>2. t <= B - y BY <1>2, <2>1
    <2> QED BY <1>3, <2>2
  <1>5. Max(S) \in S /\ \A y \in S : Max(S) >= y BY <1>4 DEF Max
  <1> QED BY <1>5

LEMMA MinOfTwo ==
    ASSUME NEW a \in Int, NEW b \in Int
    PROVE  Min({a, b}) = IF a <= b THEN a ELSE b
  <1>1. CASE a <= b
    <2>1. a \in {a, b} /\ \A y \in {a, b} : a <= y BY <1>1
    <2>2. \A x \in {a, b} : (\A y \in {a, b} : x <= y) => x = a BY <1>1
    <2> QED BY <1>1, <2>1, <2>2 DEF Min
  <1>2. CASE ~(a <= b)
    <2>1. b \in {a, b} /\ \A y \in {a, b} : b <= y BY <1>2
    <2>2. \A x \in {a, b} : (\A y \in {a, b} : x <= y) => x = b BY <1>2
    <2> QED BY <1>2, <2>1, <2>2 DEF Min
  <1> QED BY <1>1, <1>2

LEMMA MaxOfTwo ==
    ASSUME NEW a \in Int, NEW b \in Int
    PROVE  Max({a, b}) = IF a >= b THEN a ELSE b
  <1>1. CASE a >= b
    <2>1. a \in {a, b} /\ \A y \in {a, b} : a >= y BY <1>1
    <2>2. \A x \in {a, b} : (\A y \in {a, b} : x >= y) => x = a BY <1>1
    <2> QED BY <1>1, <2>1, <2>2 DEF Max
  <1>2. CASE ~(a >= b)
    <2>1. b \in {a, b} /\ \A y \in {a, b} : b >= y BY <1>2
    <2>2. \A x \in {a, b} : (\A y \in {a, b} : x >= y) => x = b BY <1>2
    <2> QED BY <1>2, <2>1, <2>2 DEF Max
  <1> QED BY <1>1, <1>2

-----------------------------------------------------------------------------
\* The tree of extents.

LEMMA ExtentFacts ==
    ASSUME NEW p, NEW top, Extents(p, top), NEW k \in Live(p)
    PROVE  /\ Start(p, k) \in Nat /\ Stop(p, k) \in Nat /\ Start(p, k) < Stop(p, k)
           /\ p.ext[k].count = Stop(p, k) - Start(p, k) /\ Stop(p, k) <= top + 1
           /\ k \in Ids /\ k \in Nat /\ k # Nil
           /\ p.ext[k] = [start |-> Start(p, k), count |-> Stop(p, k) - Start(p, k)]
  <1>1. p.ext[k] \in Extent /\ k \in Ids /\ Stop(p, k) <= top + 1 BY DEF Extents
  <1> QED BY <1>1, NIdsAssumption DEF Extent, Start, Stop, Ids, Nil

LEMMA Ends ==
    ASSUME NEW q, NEW k, NEW lo \in Nat, NEW hi \in Nat,
           q.ext[k] = [start |-> lo, count |-> hi - lo]
    PROVE  Start(q, k) = lo /\ Stop(q, k) = hi
  <1>1. q.ext[k].start = lo /\ q.ext[k].count = hi - lo OBVIOUS
  <1> QED BY <1>1 DEF Start, Stop

LEMMA OneHolder ==
    ASSUME NEW p, NEW top, Extents(p, top), NEW b \in Nat,
           NEW j \in Live(p), NEW k \in Live(p),
           Start(p, j) <= b, b <= Stop(p, j), Start(p, k) <= b, b <= Stop(p, k)
    PROVE  j = k
  <1>1. \A i \in Live(p) : Start(p, i) \in Nat /\ Stop(p, i) \in Nat BY ExtentFacts
  <1> QED BY <1>1 DEF Extents, Apart

\* An address is free: extents that do not touch start in different pairs.
LEMMA FreeId ==
    ASSUME NEW p, NEW top \in 0..MaxBit, Extents(p, top)
    PROVE  Live(p) # Ids /\ NewId(p) \in Ids \ Live(p)
  <1>1. NIds \in Nat /\ MaxBit \in Nat /\ 2 * NIds > MaxBit + 2
    BY NIdsAssumption, MaxBitAssumption
  <1>2. IsFiniteSet(Ids) /\ Cardinality(Ids) = NIds
    BY <1>1, FS_Interval DEF Ids
  <1>3. Live(p) # Ids
    <2> SUFFICES ASSUME Live(p) = Ids PROVE FALSE OBVIOUS
    <2>0. \A k \in Ids : k \in Live(p) OBVIOUS
    <2>1. PICK m \in Nat : m = MaxBit \div 2 /\ 2 * m <= MaxBit /\ MaxBit <= 2 * m + 1
      BY <1>1
    <2> DEFINE f == [k \in Ids |-> Start(p, k) \div 2]
    <2>2. ASSUME NEW k \in Ids
          PROVE  f[k] \in 0..m /\ 2 * f[k] <= Start(p, k) /\ Start(p, k) <= 2 * f[k] + 1
      <3>1. PICK x \in Nat : x = Start(p, k) /\ x <= MaxBit
        <4>1. /\ Start(p, k) \in Nat /\ Stop(p, k) \in Nat /\ Start(p, k) < Stop(p, k)
              /\ Stop(p, k) <= top + 1
          BY <2>0, ExtentFacts
        <4> QED BY <1>1, <4>1
      <3>2. PICK q \in Nat : q = x \div 2 /\ 2 * q <= x /\ x <= 2 * q + 1
        BY <3>1
      <3>3. f[k] = q BY <3>1, <3>2
      <3> HIDE DEF f
      <3> QED BY <1>1, <2>1, <3>1, <3>2, <3>3
    <2>3. ASSUME NEW j \in Ids, NEW k \in Ids, f[j] = f[k] PROVE j = k
      <3>1. /\ Start(p, j) < Stop(p, j) /\ Start(p, j) \in Nat /\ Stop(p, j) \in Nat
            /\ Start(p, k) < Stop(p, k) /\ Start(p, k) \in Nat /\ Stop(p, k) \in Nat
        BY ExtentFacts
      <3>2. j # k => Stop(p, j) < Start(p, k) \/ Stop(p, k) < Start(p, j)
        BY DEF Extents, Apart
      <3>3. PICK x \in Nat : x = f[j] BY <2>2
      <3>4. /\ 2 * x <= Start(p, j) /\ Start(p, j) <= 2 * x + 1
            /\ 2 * x <= Start(p, k) /\ Start(p, k) <= 2 * x + 1
        <4> HIDE DEF f
        <4> QED BY <2>2, <2>3, <3>3
      <3> HIDE DEF f
      <3> QED BY <3>1, <3>2, <3>4
    <2>4. f \in Injection(Ids, 0..m)
      <3>1. f \in [Ids -> 0..m] BY <2>2
      <3> HIDE DEF f
      <3> QED BY <2>3, <3>1 DEF Injection, IsInjective
    <2>5. IsFiniteSet(0..m) /\ Cardinality(0..m) = m + 1 BY FS_Interval
    <2>6. Cardinality(Ids) <= Cardinality(0..m)
      <3> HIDE DEF f
      <3> QED BY <2>4, <2>5, FS_Injection
    <2> QED BY <1>1, <1>2, <2>1, <2>5, <2>6
  <1>4. Ids \ Live(p) \in SUBSET Nat /\ Ids \ Live(p) # {}
    <2>1. \A k \in Ids : k \in Nat BY <1>1 DEF Ids
    <2>2. Live(p) \subseteq Ids BY DEF Extents
    <2> QED BY <1>3, <2>1, <2>2
  <1>5. \E k \in Ids \ Live(p) : \A j \in Ids \ Live(p) : k <= j
    <2> DEFINE S == Ids \ Live(p)
    <2> HIDE DEF S
    <2>1. S \in SUBSET Nat /\ S # {} BY <1>4 DEF S
    <2>2. \E k \in S : \A j \in S : k <= j BY <2>1, Least
    <2> QED BY <2>2 DEF S
  <1> QED BY <1>3, <1>5 DEF NewId

LEMMA SuccessorIs ==
    ASSUME NEW p, NEW top, Extents(p, top), NEW k \in Live(p), NEW j \in After(p, k),
           \A i \in After(p, k) : Start(p, j) <= Start(p, i)
    PROVE  Successor(p, k) = j
  <1>1. \A i \in Live(p) : Start(p, i) \in Nat /\ Stop(p, i) \in Nat /\ Start(p, i) < Stop(p, i)
    BY ExtentFacts
  <1>2. ASSUME NEW i \in After(p, k), \A l \in After(p, k) : Start(p, i) <= Start(p, l)
        PROVE  i = j
    <2>1. i \in Live(p) /\ j \in Live(p) BY DEF After
    <2>2. Start(p, i) = Start(p, j) BY <1>1, <1>2, <2>1
    <2> QED BY <1>1, <2>1, <2>2 DEF Extents, Apart
  <1> QED BY <1>2 DEF Successor

LEMMA SuccessorFacts ==
    ASSUME NEW p, NEW top, Extents(p, top), NEW k \in Live(p)
    PROVE  \/ After(p, k) = {} /\ Successor(p, k) = Nil
           \/ /\ Successor(p, k) \in After(p, k)
              /\ \A i \in After(p, k) : Start(p, Successor(p, k)) <= Start(p, i)
  <1> SUFFICES ASSUME After(p, k) # {}
               PROVE  /\ Successor(p, k) \in After(p, k)
                      /\ \A i \in After(p, k) : Start(p, Successor(p, k)) <= Start(p, i)
    BY DEF Successor
  <1> DEFINE T == {Start(p, i) : i \in After(p, k)}
  <1>1. T \in SUBSET Nat /\ T # {}
    <2>1. \A i \in After(p, k) : Start(p, i) \in Nat BY ExtentFacts DEF After
    <2> QED BY <2>1
  <1>2. PICK t \in T : \A u \in T : t <= u
    <2> HIDE DEF T
    <2> QED BY <1>1, Least
  <1>3. PICK j \in After(p, k) : t = Start(p, j) OBVIOUS
  <1>4. \A i \in After(p, k) : Start(p, j) <= Start(p, i) BY <1>2, <1>3
  <1>5. Successor(p, k) = j BY <1>4, SuccessorIs
  <1> QED BY <1>4, <1>5

\* Cursors follow the extents that keep their order.
LEMMA NextKept ==
    ASSUME NEW p, NEW q, NEW top, NEW top2, Extents(p, top), Extents(q, top2),
           NEW k \in Live(p) \cap Live(q), Live(q) \subseteq Live(p),
           NEW j \in Live(q), j = Successor(p, k),
           \A i \in Live(q) : Start(q, i) > Start(q, k) <=> Start(p, i) > Start(p, k),
           \A i \in Live(q) : Start(p, j) <= Start(p, i) => Start(q, j) <= Start(q, i)
    PROVE  j = Successor(q, k)
  <1>1. j # Nil BY ExtentFacts
  <1>2. /\ j \in After(p, k)
        /\ \A i \in After(p, k) : Start(p, j) <= Start(p, i)
    BY <1>1, SuccessorFacts
  <1>3. j \in After(q, k) BY <1>2 DEF After
  <1>4. \A i \in After(q, k) : i \in After(p, k) BY DEF After
  <1>5. \A i \in After(q, k) : Start(q, j) <= Start(q, i) BY <1>2, <1>4 DEF After
  <1> QED BY <1>3, <1>5, SuccessorIs

\* rb_insert_extent, when the extent before does not hold all of the bits.
LEMMA GrownTree ==
    ASSUME NEW p, NEW top \in 0..MaxBit, Tree(p, top), p.rn = Nil,
           NEW s \in Nat, NEW n \in Nat \ {0}, s + n <= top + 1,
           \A k \in Near(p, s) : s + n > Stop(p, k)
    PROVE  /\ Tree(Grown(p, s, n), top)
           /\ \A b \in Nat : Bit(Grown(p, s, n), b) <=> Bit(p, b) \/ (s <= b /\ b < s + n)
  <1>a. PICK home : home = IF p.w \in Near(p, s) THEN p.w
                           ELSE IF Near(p, s) # {} THEN CHOOSE k \in Near(p, s) : TRUE
                           ELSE NewId(p)
    OBVIOUS
  <1>b. PICK lo : lo = IF Near(p, s) = {} THEN s ELSE Start(p, home) OBVIOUS
  <1>c. PICK eaten : eaten = Eaten(p, home, lo, s + n) OBVIOUS
  <1>d. PICK hi : hi = Max({s + n} \cup {Stop(p, k) : k \in eaten}) OBVIOUS
  <1>e. PICK q : q = Grown(p, s, n) OBVIOUS
  <1>f. q = [ext |-> [k \in (Live(p) \cup {home}) \ eaten |->
                        IF k = home THEN [start |-> lo, count |-> hi - lo] ELSE p.ext[k]],
             w   |-> IF Near(p, s) = {} THEN home ELSE Forget(p.w, eaten),
             r   |-> Forget(p.r, eaten),
             rn  |-> Forget(p.rn, eaten)]
    BY <1>a, <1>b, <1>c, <1>d, <1>e DEF Grown
  <1>g. q.ext = [k \in (Live(p) \cup {home}) \ eaten |->
                   IF k = home THEN [start |-> lo, count |-> hi - lo] ELSE p.ext[k]]
    BY <1>f
  <1>h. Extents(p, top) /\ Cursors(p) BY DEF Tree
  <1>1. \A k \in Live(p) : /\ Start(p, k) \in Nat /\ Stop(p, k) \in Nat
                           /\ Start(p, k) < Stop(p, k) /\ Stop(p, k) <= top + 1 /\ k \in Ids
                           /\ p.ext[k] \in Extent
    BY <1>h, ExtentFacts DEF Extents
  <1>2. \A j, k \in Live(p) : j # k => Stop(p, j) < Start(p, k) \/ Stop(p, k) < Start(p, j)
    BY <1>h DEF Extents, Apart
  <1>3. \A k \in Live(p) : k \in Near(p, s) <=> Start(p, k) <= s /\ s <= Stop(p, k)
    BY DEF Near
  <1>4. Near(p, s) \subseteq Live(p) BY DEF Near
  <1>5. IF Near(p, s) = {} THEN home \in Ids \ Live(p)
        ELSE home \in Near(p, s) /\ \A k \in Near(p, s) : k = home
    <2>1. CASE Near(p, s) = {} BY <1>a, <1>h, <2>1, FreeId
    <2>2. CASE Near(p, s) # {}
      <3>1. home \in Near(p, s) BY <1>a, <2>2
      <3>2. ASSUME NEW k \in Near(p, s) PROVE k = home
        BY <1>3, <1>4, <1>h, <3>1, <3>2, OneHolder
      <3> QED BY <2>2, <3>1, <3>2
    <2> QED BY <2>1, <2>2
  <1>6. home \in Ids /\ lo \in Nat /\ lo <= s /\ top \in Nat
    BY <1>1, <1>3, <1>4, <1>5, <1>b, MaxBitAssumption
  <1>7. \A k : k \in eaten <=> k \in Live(p) /\ k # home /\ lo <= Start(p, k) /\ Start(p, k) <= s + n
    BY <1>c DEF Eaten
  <1>8. /\ hi \in Nat /\ hi >= s + n /\ hi <= top + 1
        /\ \A k \in eaten : Stop(p, k) <= hi
        /\ hi = s + n \/ \E k \in eaten : hi = Stop(p, k)
    <2> DEFINE S == {s + n} \cup {Stop(p, k) : k \in eaten}
    <2>0. s + n \in Nat /\ s + n <= top + 1 /\ top + 1 \in Nat BY <1>6
    <2>1. \A x \in S : x \in Nat /\ x <= top + 1
      <3>1. \A k \in eaten : Stop(p, k) \in Nat /\ Stop(p, k) <= top + 1 BY <1>1, <1>7
      <3> QED BY <2>0, <3>1
    <2>2. S \in SUBSET Nat /\ S # {}
      <3>1. S # {} OBVIOUS
      <3> HIDE DEF S
      <3> QED BY <2>1, <3>1
    <2>3. hi \in S /\ \A y \in S : y <= hi
      <3>1. hi = Max(S) BY <1>d
      <3> HIDE DEF S
      <3>2. Max(S) \in S /\ \A y \in S : y <= Max(S) BY <2>0, <2>1, <2>2, MaxIsGreatest
      <3> QED BY <3>1, <3>2
    <2> QED BY <2>0, <2>1, <2>3
  <1>9. Live(q) = (Live(p) \cup {home}) \ eaten /\ home \in Live(q)
    BY <1>7, <1>g DEF Live
  <1>10. q.ext[home] = [start |-> lo, count |-> hi - lo] /\ Start(q, home) = lo /\ Stop(q, home) = hi
    <2>1. q.ext[home] = [start |-> lo, count |-> hi - lo] BY <1>9, <1>g DEF Live
    <2>2. lo \in Nat /\ hi \in Nat BY <1>6, <1>8
    <2> QED BY <2>1, <2>2, Ends
  <1>11. ASSUME NEW k \in Live(q), k # home
         PROVE  /\ k \in Live(p) /\ k \notin eaten /\ q.ext[k] = p.ext[k]
                /\ Start(q, k) = Start(p, k) /\ Stop(q, k) = Stop(p, k)
    <2>1. k \in Live(p) /\ k \notin eaten BY <1>9, <1>11
    <2>2. q.ext[k] = p.ext[k] BY <1>9, <1>11, <1>g
    <2> QED BY <2>1, <2>2 DEF Start, Stop
  <1>12. ASSUME NEW k \in Live(q), k # home
         PROVE  Stop(p, k) < lo \/ hi < Start(p, k)
    <2>0. k \in Live(p) /\ k \notin eaten /\ k # home BY <1>11, <1>12
    <2>1. k \in Live(p) /\ (Start(p, k) < lo \/ Start(p, k) > s + n)
      <3>1. ~(lo <= Start(p, k) /\ Start(p, k) <= s + n) BY <1>7, <2>0
      <3> QED BY <1>1, <1>6, <2>0, <3>1
    <2>2. CASE Start(p, k) > s + n
      <3>1. ASSUME NEW e \in eaten, hi = Stop(p, e) PROVE hi < Start(p, k)
        <4>1. e \in Live(p) /\ e # k /\ Start(p, e) <= s + n BY <1>7, <1>11, <1>12, <3>1
        <4> QED BY <1>1, <1>2, <2>1, <2>2, <3>1, <4>1
      <3> QED BY <1>8, <2>2, <3>1
    <2>3. CASE Start(p, k) < lo
      <3>1. CASE Near(p, s) = {}
        <4>1. ~(Start(p, k) <= s /\ s <= Stop(p, k)) BY <1>3, <2>1, <3>1
        <4>2. lo = s BY <1>b, <3>1
        <4> QED BY <1>1, <2>1, <2>3, <4>1, <4>2
      <3>2. CASE Near(p, s) # {}
        <4>1. home \in Live(p) /\ lo = Start(p, home) BY <1>4, <1>5, <1>b, <3>2
        <4> QED BY <1>1, <1>2, <1>12, <2>1, <2>3, <4>1
      <3> QED BY <3>1, <3>2
    <2> QED BY <2>1, <2>2, <2>3
  <1>13. Extents(q, top)
    <2>1. Live(q) \subseteq Ids BY <1>1, <1>6, <1>9
    <2>2. q.ext \in [Live(q) -> Extent]
      <3>1. \A k \in Live(q) : q.ext[k] \in Extent
        <4>1. hi - lo \in Nat \ {0} BY <1>6, <1>8
        <4>2. [start |-> lo, count |-> hi - lo] \in Extent BY <1>6, <4>1 DEF Extent
        <4>3. q.ext[home] \in Extent BY <1>10, <4>2
        <4>4. \A k \in Live(q) : k # home => q.ext[k] \in Extent BY <1>1, <1>11
        <4> QED BY <4>3, <4>4
      <3>2. q.ext = [k \in Live(q) |-> q.ext[k]] BY <1>9, <1>g
      <3> QED BY <3>1, <3>2
    <2>3. \A k \in Live(q) : Stop(q, k) <= top + 1 BY <1>1, <1>8, <1>10, <1>11
    <2>4. Apart(q)
      <3> SUFFICES ASSUME NEW j \in Live(q), NEW k \in Live(q), j # k
                   PROVE  Stop(q, j) < Start(q, k) \/ Stop(q, k) < Start(q, j)
        BY DEF Apart
      <3>1. CASE j = home BY <1>10, <1>11, <1>12, <3>1
      <3>2. CASE k = home BY <1>10, <1>11, <1>12, <3>2
      <3>3. CASE j # home /\ k # home BY <1>2, <1>11, <3>3
      <3> QED BY <3>1, <3>2, <3>3
    <2> QED BY <2>1, <2>2, <2>3, <2>4 DEF Extents
  <1>14. ASSUME NEW b \in Nat PROVE Bit(q, b) <=> Bit(p, b) \/ (s <= b /\ b < s + n)
    <2>1. ASSUME lo <= b, b < hi PROVE Bit(p, b) \/ (s <= b /\ b < s + n)
      <3>1. CASE b < s
        <4>1. Near(p, s) # {} BY <1>6, <1>b, <2>1, <3>1
        <4>2. home \in Live(p) /\ lo = Start(p, home) /\ s <= Stop(p, home)
          BY <1>3, <1>4, <1>5, <1>b, <4>1
        <4>3. Contains(p, home, b) BY <1>1, <2>1, <3>1, <4>2 DEF Contains
        <4> QED BY <4>2, <4>3 DEF Bit
      <3>2. CASE b >= s + n
        <4>0. hi # s + n BY <1>8, <2>1, <3>2
        <4>1. PICK k \in eaten : hi = Stop(p, k) BY <1>8, <4>0
        <4>2. k \in Live(p) /\ Contains(p, k, b)
          BY <1>1, <1>7, <2>1, <3>2, <4>1 DEF Contains
        <4> QED BY <4>2 DEF Bit
      <3> QED BY <3>1, <3>2
    <2>2. ASSUME Bit(q, b) PROVE Bit(p, b) \/ (s <= b /\ b < s + n)
      <3>1. PICK k \in Live(q) : Start(q, k) <= b /\ b < Stop(q, k) BY <2>2 DEF Bit, Contains
      <3>2. CASE k = home BY <1>10, <2>1, <3>1, <3>2
      <3>3. CASE k # home BY <1>11, <3>1, <3>3 DEF Bit, Contains
      <3> QED BY <3>2, <3>3
    <2>3. ASSUME lo <= b, b < hi PROVE Bit(q, b) BY <1>9, <1>10, <2>3 DEF Bit, Contains
    <2>4. ASSUME s <= b, b < s + n PROVE Bit(q, b) BY <1>6, <1>8, <2>3, <2>4
    <2>5. ASSUME Bit(p, b) PROVE Bit(q, b)
      <3>1. PICK k \in Live(p) : Start(p, k) <= b /\ b < Stop(p, k) BY <2>5 DEF Bit, Contains
      <3>2. CASE k = home
        <4>1. k \in Near(p, s) /\ lo = Start(p, k) BY <1>5, <1>b, <3>2
        <4>2. Stop(p, k) < s + n BY <4>1
        <4> QED BY <1>1, <1>8, <2>3, <3>1, <4>1, <4>2
      <3>3. CASE k \in eaten
        <4>1. lo <= Start(p, k) /\ Stop(p, k) <= hi BY <1>7, <1>8, <3>3
        <4>2. lo <= b /\ b < hi BY <1>1, <1>6, <1>8, <3>1, <4>1
        <4> QED BY <2>3, <4>2
      <3>4. CASE k # home /\ k \notin eaten
        <4>1. k \in Live(q) BY <1>9, <3>4
        <4> QED BY <1>11, <3>1, <3>4, <4>1 DEF Bit, Contains
      <3> QED BY <3>2, <3>3, <3>4
    <2> QED BY <2>2, <2>4, <2>5
  <1>15. Cursors(q)
    <2>1. q.w = (IF Near(p, s) = {} THEN home ELSE Forget(p.w, eaten))
          /\ q.r = Forget(p.r, eaten) /\ q.rn = Forget(Nil, eaten)
      BY <1>f
    <2>2. q.rn = Nil BY <2>1 DEF Forget
    <2>3. {p.w, p.r} \subseteq Live(p) \cup {Nil} BY <1>h DEF Cursors
    <2> QED BY <1>9, <2>1, <2>2, <2>3 DEF Cursors, Forget
  <1>16. Tree(q, top) BY <1>13, <1>15, <1>f DEF Tree
  <1> QED BY <1>e, <1>14, <1>16

LEMMA InsertedTree ==
    ASSUME NEW p, NEW top \in 0..MaxBit, Tree(p, top),
           NEW s \in Nat, NEW n \in Nat, n = 0 \/ s + n <= top + 1
    PROVE  /\ Tree(Inserted(p, s, n), top)
           /\ \A b \in Nat : Bit(Inserted(p, s, n), b) <=> Bit(p, b) \/ (s <= b /\ b < s + n)
  <1> DEFINE q == [p EXCEPT !.rn = Nil]
  <1>1. q = [ext |-> p.ext, w |-> p.w, r |-> p.r, rn |-> Nil] /\ Extents(p, top) /\ Cursors(p)
    BY DEF Tree
  <1>2. q.ext = p.ext /\ q.w = p.w /\ q.r = p.r /\ q.rn = Nil BY <1>1
  <1> HIDE DEF q
  <1>3. Live(q) = Live(p) /\ \A k : Start(q, k) = Start(p, k) /\ Stop(q, k) = Stop(p, k)
    BY <1>2 DEF Live, Start, Stop
  <1>4. Near(q, s) = Near(p, s) BY <1>3 DEF Near
  <1>5. /\ Extents(q, top) /\ Cursors(q) /\ Tree(q, top)
        /\ \A b : Bit(q, b) <=> Bit(p, b)
    <2>1. Extents(q, top) BY <1>1, <1>2, <1>3 DEF Extents, Apart
    <2>2. Cursors(q) BY <1>1, <1>2, <1>3 DEF Cursors
    <2>3. \A b : Bit(q, b) <=> Bit(p, b) BY <1>3 DEF Bit, Contains
    <2> QED BY <1>1, <1>2, <2>1, <2>2, <2>3 DEF Tree
  <1>6. CASE n = 0
    <2>1. Inserted(p, s, n) = p BY <1>6 DEF Inserted
    <2>2. \A b \in Nat : ~(s <= b /\ b < s + n) BY <1>6
    <2> QED BY <2>1, <2>2
  <1>7. CASE n # 0 /\ \E k \in Near(p, s) : s + n <= Stop(p, k)
    <2>1. Inserted(p, s, n) = q BY <1>7 DEF Inserted, q
    <2>2. PICK k \in Near(p, s) : s + n <= Stop(p, k) BY <1>7
    <2>3. k \in Live(p) /\ Start(p, k) <= s BY <2>2 DEF Near
    <2>4. Start(p, k) \in Nat /\ Stop(p, k) \in Nat BY <1>1, <2>3, ExtentFacts
    <2>5. ASSUME NEW b \in Nat, s <= b, b < s + n PROVE Bit(p, b)
      <3>1. Contains(p, k, b) BY <2>2, <2>3, <2>4, <2>5 DEF Contains
      <3> QED BY <2>3, <3>1 DEF Bit
    <2> QED BY <1>5, <2>1, <2>5
  <1>8. CASE n # 0 /\ ~(\E k \in Near(p, s) : s + n <= Stop(p, k))
    <2>1. Inserted(p, s, n) = Grown(q, s, n) BY <1>8 DEF Inserted, q
    <2>2. \A k \in Near(q, s) : s + n > Stop(q, k)
      <3> SUFFICES ASSUME NEW k \in Near(q, s) PROVE s + n > Stop(q, k) OBVIOUS
      <3>1. k \in Live(q) BY DEF Near
      <3>2. Stop(q, k) \in Nat BY <1>5, <3>1, ExtentFacts
      <3>3. ~(s + n <= Stop(q, k)) BY <1>3, <1>4, <1>8
      <3> QED BY <3>2, <3>3
    <2>3. n \in Nat \ {0} /\ s + n <= top + 1 BY <1>8
    <2>4. /\ Tree(Grown(q, s, n), top)
          /\ \A b \in Nat : Bit(Grown(q, s, n), b) <=> Bit(q, b) \/ (s <= b /\ b < s + n)
      BY <1>2, <1>5, <2>2, <2>3, GrownTree
    <2> QED BY <1>5, <2>1, <2>4
  <1> QED BY <1>6, <1>7, <1>8

-----------------------------------------------------------------------------
\* rb_remove_extent

\* What an extent that loses bits, but not all and none in its middle, keeps.
LEMMA CutKeeps ==
    ASSUME NEW p, NEW top, Extents(p, top), NEW k \in Live(p),
           NEW s \in Nat, NEW stop \in Nat, s < stop,
           k \notin Gone(p, s, stop), ~(Start(p, k) < s /\ stop < Stop(p, k)),
           NEW q, k \in Live(q), q.ext[k] = Cut(p.ext[k], s, stop)
    PROVE  /\ q.ext[k] \in Extent
           /\ Start(q, k) \in Nat /\ Stop(q, k) \in Nat /\ Start(q, k) < Stop(q, k)
           /\ Start(p, k) <= Start(q, k) /\ Stop(q, k) <= Stop(p, k)
           /\ \A b \in Nat : Contains(q, k, b) <=> Contains(p, k, b) /\ ~(s <= b /\ b < stop)
  <1>1. PICK a \in Nat, z \in Nat : a = Start(p, k) /\ z = Stop(p, k) /\ a < z
    BY ExtentFacts
  <1>2. p.ext[k] = [start |-> a, count |-> z - a] BY <1>1, ExtentFacts
  <1>3. ~(s <= a /\ z <= stop) /\ ~(a < s /\ stop < z) BY <1>1 DEF Gone
  <1>4. PICK from : from = IF s <= a /\ a < stop THEN stop ELSE a OBVIOUS
  <1>5. PICK until : until = IF a < s /\ s < z THEN s ELSE z OBVIOUS
  <1>6. from \in Nat /\ until \in Nat /\ from < until /\ a <= from /\ until <= z
    BY <1>1, <1>3, <1>4, <1>5
  <1>7. q.ext[k] = [start |-> from, count |-> until - from]
    <2>1. a + (z - a) = z BY <1>1
    <2>2. p.ext[k].start = a /\ p.ext[k].start + p.ext[k].count = z BY <1>2, <2>1
    <2> QED BY <1>4, <1>5, <2>2 DEF Cut
  <1>8. Start(q, k) = from /\ Stop(q, k) = until BY <1>6, <1>7, Ends
  <1>9. q.ext[k] \in Extent
    <2>1. until - from \in Nat \ {0} BY <1>6
    <2> QED BY <1>6, <1>7, <2>1 DEF Extent
  <1>10. ASSUME NEW b \in Nat
         PROVE  (from <= b /\ b < until) <=> (a <= b /\ b < z) /\ ~(s <= b /\ b < stop)
    BY <1>1, <1>3, <1>4, <1>5
  <1> QED BY <1>1, <1>6, <1>8, <1>9, <1>10 DEF Contains

\* No extent sticks out on both sides.
LEMMA CutTree ==
    ASSUME NEW p, NEW top \in 0..MaxBit, Tree(p, top),
           NEW s \in Nat, NEW stop \in Nat, s < stop,
           \A k \in Live(p) : ~(Start(p, k) < s /\ stop < Stop(p, k)),
           NEW gone, gone = Gone(p, s, stop),
           NEW q, q = [ext |-> [k \in Live(p) \ gone |-> Cut(p.ext[k], s, stop)],
                       w   |-> Forget(p.w, gone),
                       r   |-> Forget(p.r, gone),
                       rn  |-> Forget(p.rn, gone)]
    PROVE  /\ Tree(q, top)
           /\ \A b \in Nat : Bit(q, b) <=> Bit(p, b) /\ ~(s <= b /\ b < stop)
  <1>0. /\ Extents(p, top) /\ Cursors(p)
        /\ q.ext = [k \in Live(p) \ gone |-> Cut(p.ext[k], s, stop)]
        /\ q.w = Forget(p.w, gone) /\ q.r = Forget(p.r, gone) /\ q.rn = Forget(p.rn, gone)
    BY DEF Tree
  <1>1. Live(q) = Live(p) \ gone BY <1>0 DEF Live
  <1>2. \A k \in Live(p) : /\ Start(p, k) \in Nat /\ Stop(p, k) \in Nat
                           /\ Start(p, k) < Stop(p, k) /\ Stop(p, k) <= top + 1 /\ k \in Ids
    BY <1>0, ExtentFacts
  <1>3. ASSUME NEW k \in Live(q)
        PROVE  /\ k \in Live(p) /\ q.ext[k] \in Extent
               /\ Start(q, k) \in Nat /\ Stop(q, k) \in Nat /\ Start(q, k) < Stop(q, k)
               /\ Start(p, k) <= Start(q, k) /\ Stop(q, k) <= Stop(p, k)
               /\ \A b \in Nat : Contains(q, k, b) <=> Contains(p, k, b) /\ ~(s <= b /\ b < stop)
    <2>1. k \in Live(p) /\ k \notin Gone(p, s, stop) BY <1>1
    <2>2. q.ext[k] = Cut(p.ext[k], s, stop) BY <1>0, <1>1
    <2> QED BY <1>0, <2>1, <2>2, CutKeeps
  <1>4. \A j, k \in Live(p) : j # k => Stop(p, j) < Start(p, k) \/ Stop(p, k) < Start(p, j)
    BY <1>0 DEF Extents, Apart
  <1>5. top \in Nat BY MaxBitAssumption
  <1>6. Extents(q, top)
    <2>1. Live(q) \subseteq Ids BY <1>1, <1>2
    <2>2. q.ext \in [Live(q) -> Extent]
      <3>1. q.ext = [k \in Live(q) |-> q.ext[k]] BY <1>0, <1>1
      <3> QED BY <1>3, <3>1
    <2>3. \A k \in Live(q) : Stop(q, k) <= top + 1
      <3> SUFFICES ASSUME NEW k \in Live(q) PROVE Stop(q, k) <= top + 1 OBVIOUS
      <3>1. Stop(q, k) \in Nat /\ Stop(p, k) \in Nat /\ Stop(q, k) <= Stop(p, k)
            /\ Stop(p, k) <= top + 1
        BY <1>2, <1>3
      <3> QED BY <1>5, <3>1
    <2>4. Apart(q)
      <3> SUFFICES ASSUME NEW j \in Live(q), NEW k \in Live(q), j # k
                   PROVE  Stop(q, j) < Start(q, k) \/ Stop(q, k) < Start(q, j)
        BY DEF Apart
      <3>1. /\ j \in Live(p) /\ k \in Live(p)
            /\ Start(q, j) \in Nat /\ Stop(q, j) \in Nat /\ Start(q, k) \in Nat /\ Stop(q, k) \in Nat
            /\ Start(p, j) <= Start(q, j) /\ Stop(q, j) <= Stop(p, j)
            /\ Start(p, k) <= Start(q, k) /\ Stop(q, k) <= Stop(p, k)
        BY <1>3, ZenonT(30)
      <3>2. Stop(p, j) < Start(p, k) \/ Stop(p, k) < Start(p, j) BY <1>4, <3>1
      <3> QED BY <1>2, <3>1, <3>2
    <2> QED BY <2>1, <2>2, <2>3, <2>4 DEF Extents
  <1>7. Cursors(q)
    <2>1. {p.w, p.r} \subseteq Live(p) \cup {Nil} /\ p.rn \in Ids \cup {Nil}
          /\ (p.r # Nil /\ p.rn # Nil => p.rn = Successor(p, p.r))
      BY <1>0 DEF Cursors
    <2>2. {q.w, q.r} \subseteq Live(q) \cup {Nil} /\ q.rn \in Ids \cup {Nil}
      BY <1>0, <1>1, <2>1 DEF Forget
    <2>3. ASSUME q.r # Nil, q.rn # Nil PROVE q.rn = Successor(q, q.r)
      <3>1. /\ p.r = q.r /\ p.rn = q.rn /\ q.r \notin gone /\ q.rn \notin gone
            /\ q.r \in Live(p) /\ q.r \in Live(q)
        BY <1>0, <1>1, <2>1, <2>3 DEF Forget
      <3>2. q.rn = Successor(p, q.r) BY <2>1, <2>3, <3>1
      <3>3. q.rn \in Live(p)
        <4>1. q.rn \in After(p, q.r) BY <1>0, <2>3, <3>1, <3>2, SuccessorFacts
        <4> QED BY <4>1 DEF After
      <3>4. q.rn \in Live(q) BY <1>1, <3>1, <3>3
      <3>5. ASSUME NEW j \in Live(q), NEW k \in Live(q)
            PROVE  Start(q, j) > Start(q, k) <=> Start(p, j) > Start(p, k)
        <4>1. /\ j \in Live(p) /\ k \in Live(p)
              /\ Start(q, j) \in Nat /\ Stop(q, j) \in Nat /\ Start(q, k) \in Nat /\ Stop(q, k) \in Nat
              /\ Start(q, j) < Stop(q, j) /\ Start(q, k) < Stop(q, k)
              /\ Start(p, j) <= Start(q, j) /\ Stop(q, j) <= Stop(p, j)
              /\ Start(p, k) <= Start(q, k) /\ Stop(q, k) <= Stop(p, k)
          BY <1>3, ZenonT(30)
        <4>2. j # k => Stop(p, j) < Start(p, k) \/ Stop(p, k) < Start(p, j) BY <1>4, <4>1
        <4>3. /\ Start(p, j) \in Nat /\ Stop(p, j) \in Nat
              /\ Start(p, k) \in Nat /\ Stop(p, k) \in Nat
          BY <1>2, <4>1
        <4>4. CASE j = k BY <4>1, <4>3, <4>4
        <4>5. CASE j # k BY <4>1, <4>2, <4>3, <4>5
        <4> QED BY <4>4, <4>5
      <3>6. \A i \in Live(q) : Start(q, i) > Start(q, q.r) <=> Start(p, i) > Start(p, q.r)
        BY <3>1, <3>5, SMTT(30)
      <3>7. \A i \in Live(q) : Start(p, q.rn) <= Start(p, i) => Start(q, q.rn) <= Start(q, i)
        <4> SUFFICES ASSUME NEW i \in Live(q), Start(p, q.rn) <= Start(p, i)
                     PROVE  Start(q, q.rn) <= Start(q, i)
          OBVIOUS
        <4>0. i \in Live(p) BY <1>1
        <4>1. ~(Start(p, q.rn) > Start(p, i))
          <5>1. Start(p, q.rn) \in Nat /\ Start(p, i) \in Nat BY <1>2, <3>3, <4>0
          <5> QED BY <5>1
        <4>2. ~(Start(q, q.rn) > Start(q, i)) BY <3>4, <3>5, <4>1, SMTT(30)
        <4> QED BY <1>3, <3>4, <4>2, SMTT(30)
      <3>8. Live(q) \subseteq Live(p) /\ q.r \in Live(p) \cap Live(q) BY <1>1, <3>1
      <3>9. PICK k \in Live(p) \cap Live(q), j \in Live(q) : k = q.r /\ j = q.rn BY <3>4, <3>8
      <3>10. j = Successor(p, k) BY <3>2, <3>9
      <3>11. \A i \in Live(q) : Start(q, i) > Start(q, k) <=> Start(p, i) > Start(p, k) BY <3>6, <3>9
      <3>12. \A i \in Live(q) : Start(p, j) <= Start(p, i) => Start(q, j) <= Start(q, i) BY <3>7, <3>9, SMTT(30)
      <3>13. j = Successor(q, k) BY <1>0, <1>6, <3>8, <3>10, <3>11, <3>12, NextKept, SMTT(30)
      <3> QED BY <3>9, <3>13
    <2> QED BY <2>2, <2>3 DEF Cursors
  <1>8. ASSUME NEW b \in Nat PROVE Bit(q, b) <=> Bit(p, b) /\ ~(s <= b /\ b < stop)
    <2>1. ASSUME Bit(q, b) PROVE Bit(p, b) /\ ~(s <= b /\ b < stop) BY <1>3, <2>1, SMTT(30) DEF Bit
    <2>2. ASSUME Bit(p, b), ~(s <= b /\ b < stop) PROVE Bit(q, b)
      <3>1. PICK k \in Live(p) : Start(p, k) <= b /\ b < Stop(p, k) BY <2>2 DEF Bit, Contains
      <3>2. k \notin gone BY <1>2, <2>2, <3>1 DEF Gone
      <3>3. k \in Live(q) BY <1>1, <3>2
      <3>4. Contains(p, k, b) BY <3>1 DEF Contains
      <3> QED BY <1>3, <2>2, <3>3, <3>4 DEF Bit
    <2> QED BY <2>1, <2>2
  <1>9. q = [ext |-> q.ext, w |-> q.w, r |-> q.r, rn |-> q.rn] OBVIOUS
  <1> QED BY <1>6, <1>7, <1>8, <1>9 DEF Tree

LEMMA RemovedTree ==
    ASSUME NEW p, NEW top \in 0..MaxBit, Tree(p, top), NEW s \in Nat, NEW n \in Nat \ {0}
    PROVE  /\ Tree(Removed(p, s, n), top)
           /\ \A b \in Nat : Bit(Removed(p, s, n), b) <=> Bit(p, b) /\ ~(s <= b /\ b < s + n)
  <1>a. PICK stop \in Nat : stop = s + n /\ s < stop OBVIOUS
  <1>b. PICK split : split = {k \in Live(p) : Start(p, k) < s /\ stop < Stop(p, k)} OBVIOUS
  <1>0. /\ Extents(p, top) /\ Cursors(p)
        /\ p = [ext |-> p.ext, w |-> p.w, r |-> p.r, rn |-> p.rn]
    BY DEF Tree
  <1>1. \A k \in Live(p) : /\ Start(p, k) \in Nat /\ Stop(p, k) \in Nat
                           /\ Start(p, k) < Stop(p, k) /\ Stop(p, k) <= top + 1
    BY <1>0, ExtentFacts
  <1>2. CASE split = {}
    <2>1. PICK gone : gone = Gone(p, s, stop) OBVIOUS
    <2>2. Removed(p, s, n) = [ext |-> [k \in Live(p) \ gone |-> Cut(p.ext[k], s, stop)],
                              w   |-> Forget(p.w, gone),
                              r   |-> Forget(p.r, gone),
                              rn  |-> Forget(p.rn, gone)]
      BY <1>a, <1>b, <1>2, <2>1 DEF Removed
    <2>3. \A k \in Live(p) : ~(Start(p, k) < s /\ stop < Stop(p, k)) BY <1>b, <1>2
    <2> QED BY <1>a, <2>1, <2>2, <2>3, CutTree
  <1>3. CASE split # {}
    <2>1. PICK k \in split : k = CHOOSE j \in split : TRUE BY <1>3
    <2>2. k \in Live(p) /\ Start(p, k) < s /\ stop < Stop(p, k) BY <1>b
    <2>3. PICK q : q = [p EXCEPT !.ext[k].count = s - Start(p, k)] OBVIOUS
    <2>4. Removed(p, s, n) = Inserted(q, stop, Stop(p, k) - stop)
      BY <1>a, <1>b, <1>3, <2>1, <2>3 DEF Removed
    <2>5. q = [ext |-> [p.ext EXCEPT ![k].count = s - Start(p, k)],
               w |-> p.w, r |-> p.r, rn |-> p.rn]
      BY <1>0, <2>3
    <2>6. q.ext = [p.ext EXCEPT ![k].count = s - Start(p, k)] /\ q.w = p.w /\ q.r = p.r /\ q.rn = p.rn
      BY <2>5
    <2>7. p.ext \in [Live(p) -> Extent] BY <1>0 DEF Extents
    <2>8. Live(q) = Live(p) /\ q.ext = [j \in Live(p) |-> q.ext[j]]
      BY <2>6, <2>7 DEF Live
    <2>9. /\ q.ext[k] = [start |-> Start(p, k), count |-> s - Start(p, k)]
          /\ q.ext[k] \in Extent /\ Start(q, k) = Start(p, k) /\ Stop(q, k) = s
      <3>1. p.ext[k] = [start |-> Start(p, k), count |-> Stop(p, k) - Start(p, k)]
        BY <1>0, <2>2, ExtentFacts
      <3>2. q.ext[k] = [p.ext[k] EXCEPT !.count = s - Start(p, k)] BY <2>2, <2>6, <2>7
      <3>3. q.ext[k] = [start |-> Start(p, k), count |-> s - Start(p, k)] BY <3>1, <3>2
      <3>4. Start(p, k) \in Nat /\ s - Start(p, k) \in Nat \ {0} BY <1>1, <2>2
      <3>5. q.ext[k] \in Extent BY <3>3, <3>4 DEF Extent
      <3> QED BY <3>3, <3>4, <3>5, Ends
    <2>10. ASSUME NEW j \in Live(q), j # k
           PROVE  /\ q.ext[j] = p.ext[j] /\ Start(q, j) = Start(p, j) /\ Stop(q, j) = Stop(p, j)
                  /\ q.ext[j] \in Extent
      <3>1. q.ext[j] = p.ext[j] BY <2>6, <2>7, <2>8, <2>10
      <3> QED BY <2>7, <2>8, <3>1 DEF Start, Stop
    <2>11. \A j \in Live(q) : /\ Start(q, j) = Start(p, j)
                              /\ Stop(q, j) <= Stop(p, j) /\ Stop(q, j) \in Nat
      <3> SUFFICES ASSUME NEW j \in Live(q)
                   PROVE  /\ Start(q, j) = Start(p, j)
                          /\ Stop(q, j) <= Stop(p, j) /\ Stop(q, j) \in Nat
        OBVIOUS
      <3>1. Stop(p, j) \in Nat BY <1>1, <2>8
      <3>2. CASE j = k
        <4>1. s <= Stop(p, k) BY <1>a, <2>2, <3>1, <3>2
        <4> QED BY <2>9, <3>2, <4>1
      <3>3. CASE j # k BY <2>10, <3>1, <3>3
      <3> QED BY <3>2, <3>3
    <2>12. Extents(q, top)
      <3>1. Live(q) \subseteq Ids BY <1>0, <2>8 DEF Extents
      <3>2. q.ext \in [Live(q) -> Extent] BY <2>8, <2>9, <2>10
      <3>3. \A j \in Live(q) : Stop(q, j) <= top + 1
        <4> SUFFICES ASSUME NEW j \in Live(q) PROVE Stop(q, j) <= top + 1 OBVIOUS
        <4>1. Stop(p, j) \in Nat /\ Stop(p, j) <= top + 1 /\ top \in Nat
          BY <1>1, <2>8, MaxBitAssumption
        <4> QED BY <2>11, <4>1
      <3>4. Apart(q)
        <4> SUFFICES ASSUME NEW i \in Live(q), NEW j \in Live(q), i # j
                     PROVE  Stop(q, i) < Start(q, j) \/ Stop(q, j) < Start(q, i)
          BY DEF Apart
        <4>1. Stop(p, i) < Start(p, j) \/ Stop(p, j) < Start(p, i)
          BY <1>0, <2>8 DEF Extents, Apart
        <4>2. i \in Live(p) /\ j \in Live(p) BY <2>8
        <4> QED BY <1>1, <2>11, <4>1, <4>2
      <3> QED BY <3>1, <3>2, <3>3, <3>4 DEF Extents
    <2>13. Cursors(q)
      <3>1. {q.w, q.r} \subseteq Live(q) \cup {Nil} /\ q.rn \in Ids \cup {Nil}
        BY <1>0, <2>6, <2>8 DEF Cursors
      <3>2. ASSUME q.r # Nil, q.rn # Nil PROVE q.rn = Successor(q, q.r)
        <4>1. q.rn = Successor(p, q.r) /\ q.r \in Live(p) \cap Live(q)
          BY <1>0, <2>6, <2>8, <3>2 DEF Cursors
        <4>2. q.rn \in Live(q)
          <5>1. q.rn \in After(p, q.r) BY <1>0, <3>2, <4>1, SuccessorFacts
          <5> QED BY <2>8, <5>1 DEF After
        <4>3. \A i \in Live(q) : Start(q, i) > Start(q, q.r) <=> Start(p, i) > Start(p, q.r)
          BY <2>11, <4>1
        <4>4. \A i \in Live(q) : Start(p, q.rn) <= Start(p, i) => Start(q, q.rn) <= Start(q, i)
          BY <2>11, <4>2
        <4> QED BY <1>0, <2>8, <2>12, <4>1, <4>2, <4>3, <4>4, NextKept
      <3> QED BY <3>1, <3>2 DEF Cursors
    <2>14. Tree(q, top) BY <2>5, <2>6, <2>12, <2>13 DEF Tree
    <2>15. PICK m \in Nat : m = Stop(p, k) - stop /\ stop + m = Stop(p, k) /\ stop + m <= top + 1
      <3>1. PICK e \in Nat : e = Stop(p, k) /\ e <= top + 1 BY <1>1, <2>2
      <3>2. stop \in Nat /\ stop <= e BY <1>1, <2>2, <3>1
      <3>3. PICK m \in Nat : m = e - stop BY <3>1, <3>2
      <3>4. stop + m = e BY <3>1, <3>2, <3>3
      <3> QED BY <3>1, <3>3, <3>4
    <2>16. /\ Tree(Removed(p, s, n), top)
           /\ \A b \in Nat : Bit(Removed(p, s, n), b) <=> Bit(q, b) \/ (stop <= b /\ b < stop + m)
      <3>1. m = Stop(p, k) - stop /\ stop + m <= top + 1 /\ stop \in Nat BY <2>15
      <3>2. Removed(p, s, n) = Inserted(q, stop, m) BY <2>4, <3>1
      <3>3. /\ Tree(Inserted(q, stop, m), top)
            /\ \A b \in Nat : Bit(Inserted(q, stop, m), b) <=> Bit(q, b) \/ (stop <= b /\ b < stop + m)
        BY <2>14, <3>1, InsertedTree
      <3> QED BY <3>2, <3>3
    <2>17. ASSUME NEW b \in Nat
           PROVE  Bit(q, b) \/ (stop <= b /\ b < Stop(p, k)) <=> Bit(p, b) /\ ~(s <= b /\ b < stop)
      <3>1. Stop(p, k) \in Nat /\ Start(p, k) \in Nat BY <1>1, <2>2
      <3>2. ASSUME NEW j \in Live(q), Contains(q, j, b)
            PROVE  Bit(p, b) /\ ~(s <= b /\ b < stop)
        <4>1. CASE j = k
          <5>1. Start(p, k) <= b /\ b < s BY <2>9, <3>2, <4>1 DEF Contains
          <5>2. Contains(p, k, b) BY <1>a, <2>2, <3>1, <5>1 DEF Contains
          <5> QED BY <2>2, <5>1, <5>2 DEF Bit
        <4>2. CASE j # k
          <5>1. j \in Live(p) /\ Start(p, j) <= b /\ b < Stop(p, j)
            BY <2>8, <2>10, <3>2, <4>2 DEF Contains
          <5>2. Stop(p, j) < Start(p, k) \/ Stop(p, k) < Start(p, j)
            BY <1>0, <2>2, <4>2, <5>1 DEF Extents, Apart
          <5>3. Start(p, j) \in Nat /\ Stop(p, j) \in Nat BY <1>1, <5>1
          <5>4. ~(s <= b /\ b < stop) BY <1>a, <2>2, <3>1, <5>1, <5>2, <5>3
          <5> QED BY <5>1, <5>4 DEF Bit, Contains
        <4> QED BY <4>1, <4>2
      <3>3. ASSUME stop <= b, b < Stop(p, k) PROVE Bit(p, b) /\ ~(s <= b /\ b < stop)
        <4>1. Contains(p, k, b) BY <1>a, <2>2, <3>1, <3>3 DEF Contains
        <4> QED BY <2>2, <3>3, <4>1 DEF Bit
      <3>4. ASSUME NEW j \in Live(p), Contains(p, j, b), ~(s <= b /\ b < stop)
            PROVE  Bit(q, b) \/ (stop <= b /\ b < Stop(p, k))
        <4>1. CASE j = k
          <5>1. Start(p, k) <= b /\ b < Stop(p, k) BY <3>4, <4>1 DEF Contains
          <5>2. CASE b < s
            <6>1. Contains(q, k, b) BY <2>2, <2>8, <2>9, <5>1, <5>2 DEF Contains
            <6> QED BY <2>2, <2>8, <6>1 DEF Bit
          <5>3. CASE ~(b < s) BY <1>a, <3>4, <5>1, <5>3
          <5> QED BY <5>2, <5>3
        <4>2. CASE j # k
          <5>1. Contains(q, j, b) BY <2>8, <2>10, <3>4, <4>2 DEF Contains
          <5> QED BY <2>8, <5>1 DEF Bit
        <4> QED BY <4>1, <4>2
      <3> QED BY <3>2, <3>3, <3>4 DEF Bit
    <2> QED BY <1>a, <2>15, <2>16, <2>17
  <1> QED BY <1>2, <1>3

-----------------------------------------------------------------------------
\* rb_test_bit

LEMMA CursorsMoved ==
    ASSUME NEW p, NEW top, Tree(p, top),
           NEW w \in Live(p) \cup {Nil}, NEW r \in Live(p) \cup {Nil}, NEW rn \in Ids \cup {Nil},
           r # Nil /\ rn # Nil => rn = Successor(p, r),
           NEW q, q = [ext |-> p.ext, w |-> w, r |-> r, rn |-> rn]
    PROVE  /\ Tree(q, top)
           /\ \A b : Bit(q, b) <=> Bit(p, b)
           /\ \A k, b : Contains(q, k, b) <=> Contains(p, k, b)
  <1>1. q.ext = p.ext /\ q.w = w /\ q.r = r /\ q.rn = rn OBVIOUS
  <1>2. Live(q) = Live(p) /\ \A k : Start(q, k) = Start(p, k) /\ Stop(q, k) = Stop(p, k)
    BY <1>1 DEF Live, Start, Stop
  <1>3. \A k, b : Contains(q, k, b) <=> Contains(p, k, b) BY <1>2 DEF Contains
  <1>4. Extents(p, top) BY DEF Tree
  <1>5. Extents(q, top) BY <1>1, <1>2, <1>4 DEF Extents, Apart
  <1>6. ASSUME r # Nil, rn # Nil PROVE rn = Successor(q, r)
    <2>1. r \in Live(p) /\ rn = Successor(p, r) BY <1>6
    <2>2. rn \in After(p, r) /\ \A i \in After(p, r) : Start(p, rn) <= Start(p, i)
      BY <1>4, <1>6, <2>1, SuccessorFacts
    <2>3. \A i : i \in After(q, r) <=> i \in After(p, r) BY <1>2 DEF After
    <2> QED BY <1>2, <1>5, <2>1, <2>2, <2>3, SuccessorIs
  <1>7. Cursors(q) BY <1>1, <1>2, <1>6 DEF Cursors
  <1> QED BY <1>1, <1>2, <1>3, <1>5, <1>7 DEF Tree, Bit

\* The gap between two extents that follow each other holds no bit.
LEMMA GapIsClear ==
    ASSUME NEW p, NEW top, Extents(p, top), NEW k \in Live(p), Successor(p, k) # Nil,
           NEW b \in Nat, Stop(p, k) <= b, b < Start(p, Successor(p, k))
    PROVE  ~Bit(p, b)
  <1> SUFFICES ASSUME NEW j \in Live(p), Start(p, j) <= b, b < Stop(p, j) PROVE FALSE
    BY DEF Bit, Contains
  <1>1. /\ Start(p, k) \in Nat /\ Stop(p, k) \in Nat /\ Start(p, k) < Stop(p, k)
        /\ Start(p, j) \in Nat /\ Stop(p, j) \in Nat
    BY ExtentFacts
  <1>2. j # k BY <1>1
  <1>3. Stop(p, k) < Start(p, j) BY <1>1, <1>2 DEF Extents, Apart
  <1>4. j \in After(p, k) BY <1>1, <1>3 DEF After
  <1>5. /\ Successor(p, k) \in After(p, k) /\ Start(p, Successor(p, k)) <= Start(p, j)
    BY <1>4, SuccessorFacts
  <1>6. Start(p, Successor(p, k)) \in Nat BY <1>5, ExtentFacts DEF After
  <1> QED BY <1>1, <1>5, <1>6

LEMMA TestedTree ==
    ASSUME NEW p, NEW top, Tree(p, top), NEW b \in Nat
    PROVE  /\ Tree(Tested(p, b).bp, top)
           /\ \A c : Bit(Tested(p, b).bp, c) <=> Bit(p, c)
           /\ Tested(p, b).ans \in BOOLEAN /\ (Tested(p, b).ans <=> Bit(p, b))
  <1>0. /\ Extents(p, top) /\ Cursors(p)
        /\ p = [ext |-> p.ext, w |-> p.w, r |-> p.r, rn |-> p.rn]
    BY DEF Tree
  <1>a. /\ p.w \in Live(p) \cup {Nil} /\ p.r \in Live(p) \cup {Nil} /\ p.rn \in Ids \cup {Nil}
        /\ p.r # Nil /\ p.rn # Nil => p.rn = Successor(p, p.r)
        /\ Nil \notin Live(p) /\ Live(p) \subseteq Ids
    BY <1>0, ExtentFacts DEF Cursors, Extents
  <1>b. Holders(p, b) # {} <=> Bit(p, b) BY DEF Holders, Bit
  <1> DEFINE moved == ReadAt(p, Nil, Nil)
             Search(q) == [ans |-> Holders(p, b) # {},
                           bp  |-> IF Holders(p, b) = {} THEN q
                                   ELSE ReadAt(q, CHOOSE k \in Holders(p, b) : TRUE, Nil)]
             next == IF p.rn # Nil THEN p.rn ELSE Successor(p, p.r)
             in_gap == next \in Live(p) /\ Stop(p, p.r) <= b /\ b < Start(p, next)
  <1>c. Tested(p, b) = IF p.r = Nil THEN Search(p)
                       ELSE IF Contains(p, p.r, b) THEN [ans |-> TRUE, bp |-> p]
                       ELSE IF in_gap THEN [ans |-> FALSE, bp |-> ReadAt(p, p.r, next)]
                       ELSE IF Contains(moved, p.w, b) THEN [ans |-> TRUE, bp |-> moved]
                       ELSE Search(moved)
    BY DEF Tested
  <1>d. moved = [ext |-> p.ext, w |-> p.w, r |-> Nil, rn |-> Nil] BY DEF ReadAt
  <1>e. /\ Tree(moved, top) /\ \A c : Bit(moved, c) <=> Bit(p, c)
        /\ \A k, c : Contains(moved, k, c) <=> Contains(p, k, c)
    <2> HIDE DEF moved
    <2> QED BY <1>a, <1>d, CursorsMoved
  <1>f. ASSUME NEW q, q = p \/ q = moved
        PROVE  /\ Tree(Search(q).bp, top)
               /\ \A c : Bit(Search(q).bp, c) <=> Bit(p, c)
               /\ Search(q).ans \in BOOLEAN /\ (Search(q).ans <=> Bit(p, b))
    <2>0. Search(q).ans \in BOOLEAN /\ (Search(q).ans <=> Bit(p, b)) BY <1>b
    <2>1. Tree(q, top) /\ \A c : Bit(q, c) <=> Bit(p, c)
      <3> HIDE DEF moved
      <3> QED BY <1>e, <1>f
    <2>2. CASE Holders(p, b) = {}
      <3>1. Search(q).bp = q BY <2>2
      <3> HIDE DEF Search
      <3> QED BY <2>0, <2>1, <3>1
    <2>3. CASE Holders(p, b) # {}
      <3>1. PICK k : k = CHOOSE j \in Holders(p, b) : TRUE OBVIOUS
      <3>2. k \in Live(p) BY <2>3, <3>1 DEF Holders
      <3>3. Search(q).bp = ReadAt(q, k, Nil) BY <2>3, <3>1
      <3>4. q = [ext |-> p.ext, w |-> p.w, r |-> q.r, rn |-> q.rn]
        BY <1>0, <1>d, <1>f
      <3>5. Search(q).bp = [ext |-> p.ext, w |-> p.w, r |-> k, rn |-> Nil] BY <3>3, <3>4 DEF ReadAt
      <3> HIDE DEF Search, moved
      <3>6. /\ Tree(Search(q).bp, top)
            /\ \A c : Bit(Search(q).bp, c) <=> Bit(p, c)
        BY <1>a, <3>2, <3>5, CursorsMoved
      <3> QED BY <2>0, <3>6
    <2> QED BY <2>2, <2>3
  <1>1. CASE p.r = Nil
    <2>1. Tested(p, b) = Search(p) BY <1>c, <1>1
    <2> HIDE DEF Search, moved
    <2> QED BY <1>f, <2>1
  <1>2. CASE p.r # Nil /\ Contains(p, p.r, b)
    <2>1. Tested(p, b) = [ans |-> TRUE, bp |-> p] BY <1>c, <1>2
    <2>2. Bit(p, b) BY <1>2 DEF Bit, Contains
    <2> QED BY <2>1, <2>2
  <1>3. CASE p.r # Nil /\ ~Contains(p, p.r, b) /\ in_gap
    <2>1. Tested(p, b) = [ans |-> FALSE, bp |-> ReadAt(p, p.r, next)] BY <1>c, <1>3
    <2>2. next = Successor(p, p.r) /\ p.r \in Live(p) BY <1>a, <1>3
    <2>3. next \in Ids /\ next # Nil BY <1>3, <1>a
    <2>4. ReadAt(p, p.r, next) = [ext |-> p.ext, w |-> p.w, r |-> p.r, rn |-> next] BY DEF ReadAt
    <2>5. Stop(p, p.r) <= b /\ b < Start(p, next) BY <1>3
    <2> HIDE DEF next
    <2>6. /\ Tree(ReadAt(p, p.r, next), top)
          /\ \A c : Bit(ReadAt(p, p.r, next), c) <=> Bit(p, c)
      BY <1>a, <2>2, <2>3, <2>4, CursorsMoved
    <2>7. ~Bit(p, b) BY <1>0, <2>2, <2>3, <2>5, GapIsClear
    <2> QED BY <2>1, <2>6, <2>7
  <1>4. CASE p.r # Nil /\ ~Contains(p, p.r, b) /\ ~in_gap /\ Contains(moved, p.w, b)
    <2>1. Tested(p, b) = [ans |-> TRUE, bp |-> moved] BY <1>c, <1>4
    <2> HIDE DEF moved
    <2>2. Contains(p, p.w, b) BY <1>e, <1>4
    <2>3. Bit(p, b) BY <2>2 DEF Bit, Contains
    <2> QED BY <1>e, <2>1, <2>3
  <1>5. CASE p.r # Nil /\ ~Contains(p, p.r, b) /\ ~in_gap /\ ~Contains(moved, p.w, b)
    <2>1. Tested(p, b) = Search(moved) BY <1>c, <1>5
    <2> HIDE DEF Search, moved
    <2> QED BY <1>f, <2>1
  <1> QED BY <1>1, <1>2, <1>3, <1>4, <1>5

-----------------------------------------------------------------------------
\* The other operations

LEMMA TruncatedTree ==
    ASSUME NEW p, NEW top, Tree(p, top), p.r = Nil, p.w = Nil,
           NEW m \in Nat, NEW top2 \in Nat, m <= top2
    PROVE  /\ Tree(Truncated(p, m), top2)
           /\ \A b \in Nat : Bit(Truncated(p, m), b) <=> Bit(p, b) /\ b <= m
  <1>a. PICK live : live = {k \in Live(p) : Start(p, k) <= m} OBVIOUS
  <1>b. PICK q : q = Truncated(p, m) OBVIOUS
  <1>0. /\ Extents(p, top) /\ Cursors(p)
        /\ p = [ext |-> p.ext, w |-> Nil, r |-> Nil, rn |-> p.rn]
    BY DEF Tree
  <1>1. q.ext = [k \in live |-> [start |-> Start(p, k),
                                 count |-> Min({Stop(p, k), m + 1}) - Start(p, k)]]
        /\ q = [ext |-> q.ext, w |-> Nil, r |-> Nil, rn |-> p.rn]
    BY <1>0, <1>a, <1>b DEF Truncated
  <1>2. Live(q) = live /\ live \subseteq Live(p) BY <1>1, <1>a DEF Live
  <1>3. \A k \in Live(p) : /\ Start(p, k) \in Nat /\ Stop(p, k) \in Nat
                           /\ Start(p, k) < Stop(p, k) /\ k \in Ids
    BY <1>0, ExtentFacts
  <1>4. ASSUME NEW k \in live
        PROVE  /\ q.ext[k] \in Extent /\ Start(q, k) = Start(p, k) /\ Stop(q, k) \in Nat
               /\ Stop(q, k) <= Stop(p, k) /\ Stop(q, k) <= m + 1
               /\ \A b \in Nat : Contains(q, k, b) <=> Contains(p, k, b) /\ b <= m
    <2>1. PICK a \in Nat, z \in Nat : a = Start(p, k) /\ z = Stop(p, k) /\ a < z /\ a <= m
      BY <1>2, <1>3, <1>a
    <2>2. PICK y \in Nat : y = Min({z, m + 1})
      BY MinOfTwo
    <2>3. a < y /\ y <= z /\ y <= m + 1 /\ (y = z \/ y = m + 1)
      BY <2>1, <2>2, MinOfTwo
    <2>4. q.ext[k] = [start |-> a, count |-> y - a] BY <1>1, <2>1, <2>2
    <2>5. Start(q, k) = a /\ Stop(q, k) = y BY <2>4, Ends
    <2>6. q.ext[k] \in Extent
      <3>1. y - a \in Nat \ {0} BY <2>1, <2>3
      <3> QED BY <2>1, <2>4, <3>1 DEF Extent
    <2>7. ASSUME NEW b \in Nat PROVE (a <= b /\ b < y) <=> (a <= b /\ b < z) /\ b <= m
      BY <2>1, <2>3
    <2> QED BY <1>2, <2>1, <2>3, <2>5, <2>6, <2>7 DEF Contains
  <1>5. Extents(q, top2)
    <2>1. Live(q) \subseteq Ids BY <1>2, <1>3
    <2>2. q.ext \in [Live(q) -> Extent]
      <3>1. q.ext = [k \in live |-> q.ext[k]] BY <1>1
      <3> QED BY <1>2, <1>4, <3>1
    <2>3. \A k \in Live(q) : Stop(q, k) <= top2 + 1
      <3> SUFFICES ASSUME NEW k \in Live(q) PROVE Stop(q, k) <= top2 + 1 OBVIOUS
      <3>1. Stop(q, k) \in Nat /\ Stop(q, k) <= m + 1 BY <1>2, <1>4
      <3> QED BY <3>1
    <2>4. Apart(q)
      <3> SUFFICES ASSUME NEW i \in Live(q), NEW j \in Live(q), i # j
                   PROVE  Stop(q, i) < Start(q, j) \/ Stop(q, j) < Start(q, i)
        BY DEF Apart
      <3>1. Stop(p, i) < Start(p, j) \/ Stop(p, j) < Start(p, i)
        BY <1>0, <1>2 DEF Extents, Apart
      <3>2. /\ Stop(q, i) <= Stop(p, i) /\ Stop(q, j) <= Stop(p, j)
            /\ Stop(q, i) \in Nat /\ Stop(q, j) \in Nat
            /\ Start(q, i) = Start(p, i) /\ Start(q, j) = Start(p, j)
        BY <1>2, <1>4
      <3> QED BY <1>2, <1>3, <3>1, <3>2
    <2> QED BY <2>1, <2>2, <2>3, <2>4 DEF Extents
  <1>6. Cursors(q) BY <1>0, <1>1 DEF Cursors
  <1>7. ASSUME NEW b \in Nat PROVE Bit(q, b) <=> Bit(p, b) /\ b <= m
    <2>1. ASSUME Bit(q, b) PROVE Bit(p, b) /\ b <= m BY <1>2, <1>4, <2>1 DEF Bit
    <2>2. ASSUME Bit(p, b), b <= m PROVE Bit(q, b)
      <3>1. PICK k \in Live(p) : Start(p, k) <= b /\ Contains(p, k, b)
        BY <2>2 DEF Bit, Contains
      <3>2. k \in live BY <1>3, <1>a, <2>2, <3>1
      <3> QED BY <1>2, <1>4, <2>2, <3>1, <3>2 DEF Bit
    <2> QED BY <2>1, <2>2
  <1> QED BY <1>1, <1>5, <1>6, <1>7, <1>b DEF Tree

LEMMA FreshTree ==
    ASSUME NEW top
    PROVE  Tree(Fresh, top) /\ \A b : ~Bit(Fresh, b)
  <1>1. Fresh.ext = <<>> /\ Fresh.w = Nil /\ Fresh.r = Nil /\ Fresh.rn = Nil BY DEF Fresh
  <1>2. Live(Fresh) = {} BY <1>1 DEF Live
  <1>3. Fresh.ext \in [Live(Fresh) -> Extent] BY <1>1, <1>2
  <1>4. Extents(Fresh, top) BY <1>2, <1>3 DEF Extents, Apart
  <1>5. Cursors(Fresh) BY <1>1 DEF Cursors
  <1>6. Fresh = [ext |-> Fresh.ext, w |-> Fresh.w, r |-> Fresh.r, rn |-> Fresh.rn] BY DEF Fresh
  <1> QED BY <1>2, <1>4, <1>5, <1>6 DEF Tree, Bit

LEMMA GetRangeIs ==
    ASSUME Extents(bp, real_end), NEW s \in Nat, NEW n \in Nat
    PROVE  \A b \in Nat : b \in GetRange(s, n) <=> Bit(bp, b) /\ s <= b /\ b < s + n
  <1> DEFINE Part(k) == Max({s, Start(bp, k)})..(Min({s + n, Stop(bp, k)}) - 1)
  <1>1. GetRange(s, n) = UNION {Part(k) : k \in Live(bp)} BY DEF GetRange
  <1>2. ASSUME NEW k \in Live(bp), NEW b \in Nat
        PROVE  b \in Part(k) <=> Contains(bp, k, b) /\ s <= b /\ b < s + n
    <2>1. PICK a \in Nat, z \in Nat : a = Start(bp, k) /\ z = Stop(bp, k)
      BY ExtentFacts
    <2>2. Max({s, a}) = IF s >= a THEN s ELSE a BY MaxOfTwo
    <2>3. Min({s + n, z}) = IF s + n <= z THEN s + n ELSE z BY MinOfTwo
    <2>4. b \in Max({s, a})..(Min({s + n, z}) - 1) <=> (a <= b /\ b < z) /\ s <= b /\ b < s + n
      BY <2>2, <2>3
    <2> QED BY <2>1, <2>4 DEF Contains
  <1>3. ASSUME NEW b \in Nat
        PROVE  b \in GetRange(s, n) <=> \E k \in Live(bp) : b \in Part(k)
    BY <1>1
  <1> HIDE DEF Part
  <1> QED BY <1>2, <1>3 DEF Bit

-----------------------------------------------------------------------------
\* The invariant holds.

LEMMA GInvInit == GInit => GInv
  <1> SUFFICES ASSUME GInit PROVE GInv OBVIOUS
  <1>1. /\ real_end \in 0..MaxBit /\ end \in 0..real_end /\ bp = Fresh /\ todo = {}
        /\ Whole(real_end) /\ array = {}
    BY DEF GInit, Init
  <1>2. end \in 0..MaxBit /\ real_end \in end..MaxBit BY <1>1, MaxBitAssumption
  <1> QED BY <1>1, <1>2, FreshTree DEF GInv

\* What an operation of the tree owes.
LEMMA GInvKept ==
    ASSUME GInv, UNCHANGED <<end, real_end>>, Tree(bp', real_end),
           todo' \subseteq 0..real_end, array' \subseteq 0..real_end,
           \A b \in 0..end : b \in array' <=> Bit(bp', b) \/ b \in todo'
    PROVE  GInv'
  BY DEF GInv, Whole

LEMMA MarkRunKeeps ==
    ASSUME GInv, NEW s \in 0..end, NEW n \in 1..(end - s + 1), MarkRun(s, n)
    PROVE  GInv'
  <1>1. /\ bp' = Inserted(bp, s, n) /\ array' = array \cup Run(s, n) /\ todo = {} /\ todo' = {}
        /\ UNCHANGED <<end, real_end>>
    BY DEF MarkRun, Mark, Ready
  <1>2. /\ MaxBit \in Nat /\ end \in Nat /\ real_end \in 0..MaxBit /\ real_end \in Nat
        /\ end <= real_end /\ s \in Nat /\ n \in Nat /\ s + n <= end + 1 /\ s + n <= real_end + 1
    BY MaxBitAssumption DEF GInv
  <1>3. /\ Tree(bp', real_end)
        /\ \A b \in Nat : Bit(bp', b) <=> Bit(bp, b) \/ (s <= b /\ b < s + n)
    BY <1>1, <1>2, InsertedTree DEF GInv
  <1>4. Run(s, n) \subseteq 0..real_end /\ \A b \in Nat : b \in Run(s, n) <=> s <= b /\ b < s + n
    BY <1>2 DEF Run
  <1>5. array' \subseteq 0..real_end BY <1>1, <1>4 DEF GInv
  <1>6. ASSUME NEW b \in 0..end PROVE b \in array' <=> Bit(bp', b) \/ b \in todo'
    <2>1. b \in Nat /\ (b \in array <=> Bit(bp, b)) BY <1>1, <1>2 DEF GInv
    <2> QED BY <1>1, <1>3, <1>4, <2>1
  <1> QED BY <1>1, <1>3, <1>5, <1>6, GInvKept

LEMMA UnmarkRunKeeps ==
    ASSUME GInv, NEW s \in 0..end, NEW n \in 1..(end - s + 1), UnmarkRun(s, n)
    PROVE  GInv'
  <1>1. /\ bp' = Removed(bp, s, n) /\ array' = array \ Run(s, n) /\ todo = {} /\ todo' = {}
        /\ UNCHANGED <<end, real_end>>
    BY DEF UnmarkRun, Unmark, Ready
  <1>2. /\ real_end \in 0..MaxBit /\ end \in Nat /\ s \in Nat /\ n \in Nat \ {0}
    BY MaxBitAssumption DEF GInv
  <1>3. /\ Tree(bp', real_end)
        /\ \A b \in Nat : Bit(bp', b) <=> Bit(bp, b) /\ ~(s <= b /\ b < s + n)
    BY <1>1, <1>2, RemovedTree DEF GInv
  <1>4. \A b \in Nat : b \in Run(s, n) <=> s <= b /\ b < s + n
    BY <1>2 DEF Run
  <1>5. array' \subseteq 0..real_end BY <1>1 DEF GInv
  <1>6. ASSUME NEW b \in 0..end PROVE b \in array' <=> Bit(bp', b) \/ b \in todo'
    <2>1. b \in Nat /\ (b \in array <=> Bit(bp, b)) BY <1>1, <1>2 DEF GInv
    <2> QED BY <1>1, <1>3, <1>4, <2>1
  <1> QED BY <1>1, <1>3, <1>5, <1>6, GInvKept

LEMMA TestBitKeeps ==
    ASSUME GInv, NEW i \in 0..end, TestBit(i)
    PROVE  GInv'
  <1>1. bp' = Tested(bp, i).bp /\ UNCHANGED <<end, real_end, todo, array>>
    BY DEF TestBit, Test
  <1>2. i \in Nat BY DEF GInv
  <1>3. Tree(bp', real_end) /\ \A b : Bit(bp', b) <=> Bit(bp, b)
    BY <1>1, <1>2, TestedTree DEF GInv
  <1> QED BY <1>1, <1>3 DEF GInv, Whole

LEMMA ClearMapKeeps ==
    ASSUME GInv, ClearMap
    PROVE  GInv'
  <1>1. bp' = Fresh /\ array' = {} /\ todo' = {} /\ UNCHANGED <<end, real_end>>
    BY DEF ClearMap, Clear, Ready
  <1> QED BY <1>1, FreshTree, GInvKept

LEMMA CopyMapKeeps ==
    ASSUME GInv, CopyMap
    PROVE  GInv'
  <1>1. /\ bp' = [bp EXCEPT !.r = Nil] \/ bp' = [Fresh EXCEPT !.ext = bp.ext]
        /\ UNCHANGED <<end, real_end, todo, array>>
    BY DEF CopyMap, Copy
  <1>2. /\ Tree(bp, real_end) /\ bp.w \in Live(bp) \cup {Nil} /\ bp.rn \in Ids \cup {Nil}
        /\ bp = [ext |-> bp.ext, w |-> bp.w, r |-> bp.r, rn |-> bp.rn]
    BY DEF GInv, Tree, Cursors
  <1>3. \/ bp' = [ext |-> bp.ext, w |-> bp.w, r |-> Nil, rn |-> bp.rn]
        \/ bp' = [ext |-> bp.ext, w |-> Nil, r |-> Nil, rn |-> Nil]
    BY <1>1, <1>2 DEF Fresh
  <1>4. Tree(bp', real_end) /\ \A b : Bit(bp', b) <=> Bit(bp, b)
    BY <1>2, <1>3, CursorsMoved
  <1> QED BY <1>1, <1>4 DEF GInv, Whole

LEMMA SetPaddingKeeps ==
    ASSUME GInv, SetPadding
    PROVE  GInv'
  <1>1. /\ bp' = Inserted(bp, end + 1, real_end - end) /\ todo = {} /\ todo' = {}
        /\ array' = array \cup ((end + 1)..real_end) /\ UNCHANGED <<end, real_end>>
        /\ end < real_end
    BY DEF SetPadding, Mark, Ready
  <1>2. /\ real_end \in 0..MaxBit /\ end \in Nat /\ real_end \in Nat
        /\ end + 1 \in Nat /\ real_end - end \in Nat
        /\ (end + 1) + (real_end - end) = real_end + 1
    BY <1>1, MaxBitAssumption DEF GInv
  <1>3. /\ Tree(bp', real_end)
        /\ \A b \in Nat : Bit(bp', b)
             <=> Bit(bp, b) \/ (end + 1 <= b /\ b < (end + 1) + (real_end - end))
    BY <1>1, <1>2, InsertedTree DEF GInv
  <1>4. array' \subseteq 0..real_end BY <1>1, <1>2 DEF GInv
  <1>5. ASSUME NEW b \in 0..end PROVE b \in array' <=> Bit(bp', b) \/ b \in todo'
    <2>1. b \in Nat /\ ~(end + 1 <= b) /\ (b \in array <=> Bit(bp, b)) BY <1>1, <1>2 DEF GInv
    <2>2. b \notin (end + 1)..real_end BY <1>2, <2>1
    <2> QED BY <1>1, <1>3, <2>1, <2>2
  <1> QED BY <1>1, <1>3, <1>4, <1>5, GInvKept

LEMMA ResizeMapKeeps ==
    ASSUME GInv, NEW new_real_end \in 0..MaxBit, NEW new_end \in 0..new_real_end,
           ResizeMap(new_end, new_real_end)
    PROVE  GInv'
  <1>a. PICK p0 : p0 = [ReadAt(bp, Nil, bp.rn) EXCEPT !.w = Nil] OBVIOUS
  <1>b. PICK m : m = Min({new_end, end}) OBVIOUS
  <1>c. PICK p : p = Truncated(p0, m) OBVIOUS
  <1>1. /\ bp' = Inserted(p, new_end + 1, new_real_end - new_end)
        /\ end' = new_end /\ real_end' = new_real_end /\ todo = {} /\ todo' = {}
        /\ array' = {i \in ArrayGrown(new_end) : i <= new_real_end}
        /\ Whole(new_real_end)
    BY <1>a, <1>b, <1>c DEF ResizeMap, Resize, TruncatedAtEnd, Ready
  <1>2. /\ MaxBit \in Nat /\ new_real_end \in Nat /\ new_end \in Nat /\ new_end <= new_real_end
        /\ end \in Nat /\ real_end \in Nat /\ end <= real_end /\ new_end \in 0..MaxBit
        /\ new_real_end \in new_end..MaxBit
    BY MaxBitAssumption DEF GInv
  <1>3. m \in Nat /\ m <= new_real_end /\ \A b \in Nat : b <= m <=> b <= new_end /\ b <= end
    <2>1. m = IF new_end <= end THEN new_end ELSE end BY <1>2, <1>b, MinOfTwo
    <2> QED BY <1>2, <2>1
  <1>4. /\ Tree(bp, real_end) /\ bp.rn \in Ids \cup {Nil}
        /\ p0 = [ext |-> bp.ext, w |-> Nil, r |-> Nil, rn |-> bp.rn]
    BY <1>a DEF GInv, Tree, Cursors, ReadAt
  <1>5. /\ Tree(p0, real_end) /\ p0.w = Nil /\ p0.r = Nil
        /\ \A b : Bit(p0, b) <=> Bit(bp, b)
    BY <1>4, CursorsMoved
  <1>6. /\ Tree(p, new_real_end)
        /\ \A b \in Nat : Bit(p, b) <=> Bit(p0, b) /\ b <= m
    BY <1>2, <1>3, <1>5, <1>c, TruncatedTree
  <1>7. new_end + 1 \in Nat /\ new_real_end - new_end \in Nat
        /\ (new_end + 1) + (new_real_end - new_end) = new_real_end + 1
    BY <1>2
  <1>8. /\ Tree(bp', new_real_end)
        /\ \A b \in Nat : Bit(bp', b) <=> Bit(p, b)
             \/ (new_end + 1 <= b /\ b < (new_end + 1) + (new_real_end - new_end))
    BY <1>1, <1>6, <1>7, InsertedTree
  <1>9. \A b \in Nat : b \in array' <=>
          b \in array /\ b <= new_real_end /\ ~(end + 1 <= b /\ b <= real_end /\ b <= new_end)
    <2>1. Min({real_end, new_end}) = IF real_end <= new_end THEN real_end ELSE new_end
      BY <1>2, MinOfTwo
    <2>2. \A b \in Nat : b \in (end + 1)..Min({real_end, new_end})
                           <=> end + 1 <= b /\ b <= real_end /\ b <= new_end
      BY <1>2, <2>1
    <2>3. \A b : b \in array' <=> b \in array /\ b \notin (end + 1)..Min({real_end, new_end})
                                  /\ b <= new_real_end
      BY <1>1 DEF ArrayGrown
    <2> QED BY <2>2, <2>3
  <1>10. array' \subseteq array BY <1>1 DEF ArrayGrown
  <1>11. array' \subseteq 0..new_real_end
    <2>1. \A b \in array' : b \in Nat /\ b <= new_real_end
      <3>1. \A b \in array' : b \in Nat BY <1>2, <1>10 DEF GInv
      <3> QED BY <1>9, <3>1
    <2> QED BY <1>2, <2>1
  <1>12. ASSUME NEW b \in 0..new_end PROVE b \in array' <=> Bit(bp', b)
    <2>1. b \in Nat /\ b <= new_end /\ ~(new_end + 1 <= b) /\ b <= new_real_end BY <1>2
    <2>2. Bit(bp', b) <=> Bit(bp, b) /\ b <= end BY <1>3, <1>5, <1>6, <1>8, <2>1
    <2>3. b \in array => b <= real_end BY <1>2 DEF GInv
    <2>4. b \in array' <=> b \in array /\ b <= end
      <3>1. end + 1 <= b <=> ~(b <= end) BY <1>2, <2>1
      <3> QED BY <1>9, <2>1, <2>3, <3>1
    <2>5. b <= end => (b \in array <=> Bit(bp, b)) BY <1>1, <1>2, <2>1 DEF GInv
    <2> QED BY <2>2, <2>4, <2>5
  <1>13. Whole(real_end)' BY <1>1 DEF Whole
  <1>14. todo' \subseteq 0..real_end' BY <1>1
  <1>15. end' \in 0..MaxBit /\ real_end' \in end'..MaxBit BY <1>1, <1>2
  <1>16. \A b \in 0..end' : b \in array' <=> Bit(bp', b) \/ b \in todo' BY <1>1, <1>12
  <1> QED BY <1>1, <1>8, <1>11, <1>13, <1>14, <1>15, <1>16 DEF GInv

LEMMA LoadGroupsKeeps ==
    ASSUME GInv, NEW s \in 0..end, NEW in \in SUBSET (s..end), LoadGroups(s, in)
    PROVE  GInv'
  <1>1. /\ todo = {} /\ todo' = in /\ UNCHANGED <<bp, end, real_end>>
        /\ array' = {i \in array : i < s \/ i > end} \cup in
        /\ \A b \in s..end : Holders(bp, b) = {}
    BY DEF LoadGroups, SetRange, Ready
  <1>2. end \in Nat /\ real_end \in Nat /\ end <= real_end /\ s \in Nat
    BY MaxBitAssumption DEF GInv
  <1>3. in \subseteq 0..real_end BY <1>2
  <1>4. array' \subseteq 0..real_end BY <1>1, <1>3 DEF GInv
  <1>5. Tree(bp', real_end) BY <1>1 DEF GInv
  <1>6. ASSUME NEW b \in 0..end PROVE b \in array' <=> Bit(bp', b) \/ b \in todo'
    <2>1. b \in Nat /\ ~(b > end) /\ (b \in array <=> Bit(bp, b)) BY <1>1, <1>2 DEF GInv
    <2>2. Bit(bp, b) => b < s
      <3>1. ~(b < s) => b \in s..end BY <1>2, <2>1
      <3>2. Bit(bp, b) => Holders(bp, b) # {} BY DEF Holders, Bit
      <3> QED BY <1>1, <3>1, <3>2
    <2> QED BY <1>1, <2>1, <2>2
  <1> QED BY <1>1, <1>3, <1>4, <1>5, <1>6, GInvKept

LEMMA ReloadKeeps ==
    ASSUME GInv, Reload
    PROVE  GInv'
  <1>1. /\ bp' = Fresh /\ todo = {} /\ todo' = Image(GetRange(0, real_end + 1))
        /\ array' = Image(array) /\ UNCHANGED <<end, real_end>>
    BY DEF Reload, Ready
  <1>2. end \in Nat /\ real_end \in Nat /\ end <= real_end
    BY MaxBitAssumption DEF GInv
  <1>3. \A b \in Nat : b \in GetRange(0, real_end + 1) <=> Bit(bp, b) /\ b < real_end + 1
    <2>1. Extents(bp, real_end) BY DEF GInv, Tree
    <2>2. 0 \in Nat /\ real_end + 1 \in Nat /\ 0 + (real_end + 1) = real_end + 1 BY <1>2
    <2>3. \A b \in Nat : b \in GetRange(0, real_end + 1)
                           <=> Bit(bp, b) /\ 0 <= b /\ b < 0 + (real_end + 1)
      BY <2>1, <2>2, GetRangeIs
    <2> QED BY <2>2, <2>3
  <1>4. ASSUME NEW S, \A b \in S : b \in Nat
        PROVE  /\ Image(S) \subseteq 0..real_end
               /\ \A b \in 0..end : b \in Image(S) <=> b \in S
    BY <1>2, <1>4 DEF Image
  <1>5. \A b \in GetRange(0, real_end + 1) : b \in Nat
    <2> SUFFICES ASSUME NEW b \in GetRange(0, real_end + 1) PROVE b \in Nat OBVIOUS
    <2>1. PICK k \in Live(bp) :
            b \in Max({0, Start(bp, k)})..(Min({0 + (real_end + 1), Stop(bp, k)}) - 1)
      BY DEF GetRange
    <2>2. Start(bp, k) \in Nat BY ExtentFacts DEF GInv, Tree
    <2>3. Max({0, Start(bp, k)}) \in Nat BY <2>2, MaxOfTwo
    <2> QED BY <2>1, <2>3
  <1>6. \A b \in array : b \in Nat BY <1>2 DEF GInv
  <1>7. /\ array' \subseteq 0..real_end /\ todo' \subseteq 0..real_end
        /\ \A b \in 0..end : b \in array' <=> b \in array
        /\ \A b \in 0..end : b \in todo' <=> b \in GetRange(0, real_end + 1)
    BY <1>1, <1>4, <1>5, <1>6
  <1>8. ASSUME NEW b \in 0..end PROVE b \in array' <=> Bit(bp', b) \/ b \in todo'
    <2>1. b \in Nat /\ b < real_end + 1 BY <1>2
    <2>2. b \in array <=> Bit(bp, b) BY <1>1 DEF GInv
    <2>3. ~Bit(bp', b) BY <1>1, FreshTree
    <2> QED BY <1>3, <1>7, <2>1, <2>2, <2>3
  <1>9. Tree(bp', real_end) BY <1>1, FreshTree
  <1> QED BY <1>1, <1>7, <1>8, <1>9, GInvKept

LEMMA SetRunKeeps ==
    ASSUME GInv, SetRun, UNCHANGED array
    PROVE  GInv'
  <1>a. PICK first : first = Min(todo) OBVIOUS
  <1>b. PICK clear : clear = {b \in first..(real_end + 1) : b \notin todo} OBVIOUS
  <1>c. PICK stop : stop = Min(clear) OBVIOUS
  <1>1. /\ bp' = Inserted(bp, first, stop - first) /\ todo' = todo \ (first..(stop - 1))
        /\ UNCHANGED <<end, real_end, array>> /\ todo # {}
    BY <1>a, <1>b, <1>c DEF SetRun
  <1>2. end \in Nat /\ real_end \in Nat /\ end <= real_end /\ real_end \in 0..MaxBit
        /\ todo \subseteq 0..real_end
    BY MaxBitAssumption DEF GInv
  <1>3. first \in todo /\ first \in Nat /\ first <= real_end
    <2>1. todo \in SUBSET Nat BY <1>2
    <2>2. first \in todo BY <1>1, <1>a, <2>1, MinIsLeast
    <2> QED BY <1>2, <2>2
  <1>4. stop \in clear /\ \A y \in clear : stop <= y
    <2>1. clear \in SUBSET Nat BY <1>2, <1>3, <1>b
    <2>2. real_end + 1 \in clear BY <1>2, <1>3, <1>b
    <2> QED BY <1>c, <2>1, <2>2, MinIsLeast
  <1>5. stop \in Nat /\ first <= stop /\ stop <= real_end + 1 /\ stop \notin todo
    BY <1>2, <1>3, <1>4, <1>b
  <1>6. ASSUME NEW b \in Nat, first <= b, b < stop PROVE b \in todo
    <2>1. b \in first..(real_end + 1) /\ ~(stop <= b) BY <1>2, <1>3, <1>5, <1>6
    <2> QED BY <1>4, <1>b, <2>1
  <1>7. stop - first \in Nat /\ first + (stop - first) = stop BY <1>3, <1>5
  <1>8. /\ Tree(bp', real_end)
        /\ \A b \in Nat : Bit(bp', b) <=> Bit(bp, b) \/ (first <= b /\ b < first + (stop - first))
    BY <1>1, <1>2, <1>3, <1>5, <1>7, InsertedTree DEF GInv
  <1>9. ASSUME NEW b \in 0..end PROVE b \in array' <=> Bit(bp', b) \/ b \in todo'
    <2>1. b \in Nat /\ (b \in array <=> Bit(bp, b) \/ b \in todo) BY <1>2 DEF GInv
    <2>2. b \in first..(stop - 1) <=> first <= b /\ b < stop BY <1>3, <1>5, <2>1
    <2> QED BY <1>1, <1>6, <1>7, <1>8, <2>1, <2>2
  <1>10. array' \subseteq 0..real_end /\ todo' \subseteq 0..real_end BY <1>1, <1>2 DEF GInv
  <1> QED BY <1>1, <1>8, <1>9, <1>10, GInvKept

LEMMA GInvNext == GInv /\ [GNext]_gvars => GInv'
  <1> SUFFICES ASSUME GInv, [GNext]_gvars PROVE GInv' OBVIOUS
  <1>1. ASSUME NEW s \in 0..end, NEW n \in 1..(end - s + 1), MarkRun(s, n) PROVE GInv'
    BY <1>1, MarkRunKeeps
  <1>2. ASSUME NEW s \in 0..end, NEW n \in 1..(end - s + 1), UnmarkRun(s, n) PROVE GInv'
    BY <1>2, UnmarkRunKeeps
  <1>3. ASSUME NEW i \in 0..end, TestBit(i) PROVE GInv' BY <1>3, TestBitKeeps
  <1>4. CASE ClearMap BY <1>4, ClearMapKeeps
  <1>5. CASE CopyMap BY <1>5, CopyMapKeeps
  <1>6. ASSUME NEW new_real_end \in 0..MaxBit, NEW new_end \in 0..new_real_end,
               ResizeMap(new_end, new_real_end)
        PROVE  GInv'
    BY <1>6, ResizeMapKeeps
  <1>7. CASE SetPadding BY <1>7, SetPaddingKeeps
  <1>8. ASSUME NEW s \in 0..end, NEW in \in SUBSET (s..end), LoadGroups(s, in) PROVE GInv'
    BY <1>8, LoadGroupsKeeps
  <1>9. CASE Reload BY <1>9, ReloadKeeps
  <1>10. CASE SetRun /\ UNCHANGED array BY <1>10, SetRunKeeps
  <1>11. CASE UNCHANGED gvars
    BY <1>11 DEF gvars, vars, GInv, Whole
  <1> QED BY <1>1, <1>2, <1>3, <1>4, <1>5, <1>6, <1>7, <1>8, <1>9, <1>10, <1>11 DEF GNext

\* GInv is an invariant.
THEOREM Invariant == GSpec => []GInv
  <1> QED BY GInvInit, GInvNext, PTL DEF GSpec

-----------------------------------------------------------------------------
\* The cursors

\* rb_test_bit may answer from the cursors: whatever was merged, split, cut or
\* freed before, they are to extents that are in the tree, the next one is the
\* next one, and no two extents overlap or touch (blkmap64_rb.c: check_tree,
\* rb_free_extent, rb_insert_extent, rb_remove_extent, rb_truncate).
THEOREM CursorsAreRight == GSpec => []CursorsRight
  <1>1. GInv => CursorsRight
    <2> SUFFICES ASSUME GInv PROVE CursorsRight OBVIOUS
    <2>1. Extents(bp, real_end) /\ Cursors(bp) /\ real_end \in 0..MaxBit
      BY MaxBitAssumption DEF GInv, Tree
    <2>2. Live(bp) \subseteq Ids /\ Live(bp) # Ids BY <2>1, FreeId DEF Extents
    <2>3. {bp.w, bp.r, bp.rn} \subseteq Ids \cup {Nil} BY <2>1, <2>2 DEF Cursors
    <2>4. \A k \in Live(bp) : /\ Start(bp, k) >= 0 /\ bp.ext[k].count > 0
                              /\ Stop(bp, k) <= real_end + 1
      <3> SUFFICES ASSUME NEW k \in Live(bp)
                   PROVE  /\ Start(bp, k) >= 0 /\ bp.ext[k].count > 0
                          /\ Stop(bp, k) <= real_end + 1
        OBVIOUS
      <3>1. bp.ext[k] \in Extent BY <2>1 DEF Extents
      <3>2. Start(bp, k) \in Nat /\ Stop(bp, k) <= real_end + 1 BY <2>1, ExtentFacts
      <3> QED BY <3>1, <3>2 DEF Extent
    <2>5. \A j, k \in Live(bp) :
            j # k => Stop(bp, j) < Start(bp, k) \/ Stop(bp, k) < Start(bp, j)
      BY <2>1 DEF Extents, Apart
    <2>6. WellFormed BY <2>2, <2>3, <2>4, <2>5 DEF WellFormed, GInv
    <2> QED BY <2>1, <2>6 DEF CursorsRight, Cursors
  <1> QED BY <1>1, Invariant, PTL

-----------------------------------------------------------------------------
\* The layer implements a bit array.

Shown == {i \in array : i <= end}   \* the bits of the map, without the padding

LEMMA InitShown == GInit => Array!Init
  <1> SUFFICES ASSUME GInit PROVE Array!Init OBVIOUS
  <1>1. array = {} /\ real_end \in 0..MaxBit /\ end \in 0..real_end BY DEF GInit, Init
  <1> QED BY <1>1, MaxBitAssumption DEF Array!Init

LEMMA StepShown == GInv /\ [GNext]_gvars => [Array!Next]_(Array!vars)
  <1> SUFFICES ASSUME GInv, [GNext]_gvars
               PROVE  Array!Next \/ UNCHANGED <<Shown, end>>
    BY DEF Array!vars, Shown
  <1>0. end \in Nat /\ real_end \in Nat /\ end <= real_end /\ array \subseteq 0..real_end
        /\ MaxBit \in Nat /\ real_end <= MaxBit
    BY MaxBitAssumption DEF GInv
  <1>1. ASSUME NEW s \in 0..end, NEW n \in 1..(end - s + 1), MarkRun(s, n) PROVE Array!Next
    <2>1. array' = array \cup s..(s + n - 1) /\ end' = end BY <1>1 DEF MarkRun, Mark, Run
    <2>2. \A b \in s..(s + n - 1) : b <= end BY <1>0
    <2>3. {i \in array : i <= end}' = {i \in array : i <= end} \cup s..(s + n - 1)
      BY <2>1, <2>2
    <2>4. Array!Mark(s, n) BY <2>1, <2>3 DEF Array!Mark, Array!Range
    <2> QED BY <2>4 DEF Array!Next
  <1>2. ASSUME NEW s \in 0..end, NEW n \in 1..(end - s + 1), UnmarkRun(s, n) PROVE Array!Next
    <2>1. array' = array \ s..(s + n - 1) /\ end' = end BY <1>2 DEF UnmarkRun, Unmark, Run
    <2>2. {i \in array : i <= end}' = {i \in array : i <= end} \ s..(s + n - 1)
      BY <2>1
    <2>3. Array!Unmark(s, n) BY <2>1, <2>2 DEF Array!Unmark, Array!Range
    <2> QED BY <2>3 DEF Array!Next
  <1>3. ASSUME NEW i \in 0..end, TestBit(i) PROVE UNCHANGED <<Shown, end>>
    BY <1>3 DEF TestBit, Test, Shown
  <1>4. CASE ClearMap
    <2>1. array' = {} /\ end' = end BY <1>4 DEF ClearMap, Clear
    <2>2. {i \in array : i <= end}' = {} BY <2>1
    <2> QED BY <2>1, <2>2 DEF Array!Next, Array!Clear
  <1>5. CASE CopyMap BY <1>5 DEF CopyMap, Copy, Shown
  <1>6. ASSUME NEW new_real_end \in 0..MaxBit, NEW new_end \in 0..new_real_end,
               ResizeMap(new_end, new_real_end)
        PROVE  Array!Next
    <2>1. array' = {i \in ArrayGrown(new_end) : i <= new_real_end} /\ end' = new_end
      BY <1>6 DEF ResizeMap, Resize
    <2>2. new_end \in Nat /\ new_real_end \in Nat /\ new_end <= new_real_end
          /\ new_end \in 0..MaxBit
      BY <1>0
    <2>3. Min({real_end, new_end}) = IF real_end <= new_end THEN real_end ELSE new_end
      BY <1>0, <2>2, MinOfTwo
    <2>4. ASSUME NEW i \in array, i <= new_end
          PROVE  i \in (end + 1)..Min({real_end, new_end}) <=> ~(i <= end)
      BY <1>0, <2>2, <2>3, <2>4
    <2>5. \A i \in array : i <= new_end => i <= new_real_end
      BY <1>0, <2>2
    <2>6. \A b : b \in {i \in array : i <= end}'
                   <=> b \in {i \in array : i <= end} /\ b <= new_end
      BY <2>1, <2>4, <2>5 DEF ArrayGrown
    <2>7. {i \in array : i <= end}' = {b \in {i \in array : i <= end} : b <= new_end}
      BY <2>6
    <2>8. Array!Resize(new_end) BY <2>1, <2>7 DEF Array!Resize
    <2> QED BY <2>2, <2>8 DEF Array!Next
  <1>7. CASE SetPadding
    <2>1. array' = array \cup ((end + 1)..real_end) /\ end' = end
      BY <1>7 DEF SetPadding, Mark
    <2>2. \A b \in (end + 1)..real_end : ~(b <= end) BY <1>0
    <2> QED BY <2>1, <2>2 DEF Shown
  <1>8. ASSUME NEW s \in 0..end, NEW in \in SUBSET (s..end), LoadGroups(s, in) PROVE Array!Next
    <2>1. /\ todo = {} /\ end' = end /\ array' = {i \in array : i < s \/ i > end} \cup in
          /\ \A b \in s..end : Holders(bp, b) = {}
      BY <1>8 DEF LoadGroups, SetRange, Ready
    <2>2. \A b \in s..end : b \notin array
      <3> SUFFICES ASSUME NEW b \in s..end PROVE b \notin array OBVIOUS
      <3>1. b \in 0..end /\ b \notin todo BY <1>0, <2>1
      <3>2. ~Bit(bp, b) BY <2>1 DEF Bit, Holders
      <3> QED BY <3>1, <3>2 DEF GInv
    <2>3. s \in Nat /\ \A b \in in : b \in Nat /\ s <= b /\ b <= end BY <1>0
    <2>4. \A b \in array : b \in Nat BY <1>0
    <2>5. \A b \in array : b <= end => b < s
      <3> SUFFICES ASSUME NEW b \in array, b <= end PROVE b < s OBVIOUS
      <3>1. b \in Nat BY <2>4
      <3>2. ~(b \in s..end) BY <2>2
      <3> QED BY <1>0, <2>3, <3>1, <3>2
    <2>6. {i \in array : i <= end}' = {i \in array : i <= end} \cup in
      BY <2>1, <2>3, <2>5
    <2>7. (s..end) \cap {i \in array : i <= end} = {} BY <2>2
    <2>8. {i \in array : i <= end}' \subseteq 0..end
      <3>0. ASSUME NEW b \in array, b <= end PROVE b \in 0..end
        <4>1. b \in Nat /\ end \in Nat BY <1>0, <2>4
        <4> QED BY <3>0, <4>1
      <3>1. {i \in array : i <= end} \subseteq 0..end BY <3>0
      <3>2. in \subseteq 0..end BY <1>0, <2>3
      <3> QED BY <2>6, <3>1, <3>2
    <2>9. \A b \in {i \in array : i <= end}' \ {i \in array : i <= end} : b >= s
      BY <2>3, <2>6
    <2>10. Array!Load(s) BY <2>1, <2>6, <2>7, <2>8, <2>9 DEF Array!Load
    <2> QED BY <2>10 DEF Array!Next
  <1>9. CASE Reload
    <2>1. array' = Image(array) /\ end' = end BY <1>9 DEF Reload
    <2>2. \A b \in (end + 1)..real_end : ~(b <= end) BY <1>0
    <2> QED BY <2>1, <2>2 DEF Shown, Image
  <1>10. CASE SetRun /\ UNCHANGED array BY <1>10 DEF SetRun, Shown
  <1>11. CASE UNCHANGED gvars BY <1>11 DEF gvars, vars, Shown
  <1> QED BY <1>1, <1>2, <1>3, <1>4, <1>5, <1>6, <1>7, <1>8, <1>9, <1>10, <1>11 DEF GNext

\* What a client of ext2_bitmap_ops can see of the layer is a bit array: the
\* padding, the bits that a resize leaves beyond the end or lets come back
\* (ba_resize_bmap), and a bitmap that is written, read and inserted again run
\* by run never show.
THEOREM LayerImplements == GSpec => ImplementsBitArray
  <1> QED BY InitShown, StepShown, Invariant, PTL DEF GSpec, ImplementsBitArray, Array!Spec

-----------------------------------------------------------------------------
\* The queries of the tree

LEMMA FirstIs ==
    ASSUME NEW S \in SUBSET Nat
    PROVE  /\ S = {} => Array!First(S) = Nowhere
           /\ \A x \in S : (\A y \in S : x <= y) => Array!First(S) = x
  <1>1. ASSUME NEW x \in S, \A y \in S : x <= y PROVE Array!First(S) = x
    <2>1. \A z \in S : (\A y \in S : z <= y) => z = x
      <3> SUFFICES ASSUME NEW z \in S, \A y \in S : z <= y PROVE z = x OBVIOUS
      <3>1. x <= z /\ z <= x BY <1>1
      <3> QED BY <3>1
    <2> QED BY <1>1, <2>1 DEF Array!First
  <1> QED BY <1>1 DEF Array!First, Array!Nowhere, Nowhere

\* What the invariant says of a map that is not being loaded.
LEMMA ReadyFacts ==
    ASSUME GInv, Ready
    PROVE  /\ end \in Nat /\ real_end \in Nat /\ end <= real_end
           /\ Tree(bp, real_end) /\ Extents(bp, real_end)
           /\ Shown \in SUBSET Nat /\ Shown = {i \in array : i <= end}
           /\ \A b \in 0..end : b \in Shown <=> Bit(bp, b)
  <1>1. end \in Nat /\ real_end \in Nat /\ end <= real_end
    BY MaxBitAssumption DEF GInv
  <1>2. Shown \in SUBSET Nat
    <2>1. \A b \in array : b \in Nat BY <1>1 DEF GInv
    <2> QED BY <2>1 DEF Shown
  <1>3. ASSUME NEW b \in 0..end PROVE b \in Shown <=> Bit(bp, b)
    <2>1. b <= end /\ b \notin todo BY <1>1 DEF Ready
    <2> QED BY <2>1 DEF GInv, Shown
  <1>4. Tree(bp, real_end) /\ Extents(bp, real_end) BY DEF GInv, Tree
  <1> QED BY <1>1, <1>2, <1>3, <1>4 DEF Shown

LEMMA HoldersAre ==
    ASSUME NEW b
    PROVE  Holders(bp, b) # {} <=> Bit(bp, b)
  BY DEF Holders, Bit

LEMMA OneBitRight ==
    ASSUME GInv, Ready, NEW i \in 0..end
    PROVE  Tested(bp, i).ans = Array!Test(i) /\ MarkAnswer(i) = Array!Test(i)
  <1>1. i \in Nat /\ (i \in Shown <=> Bit(bp, i)) /\ Tree(bp, real_end) /\ Extents(bp, real_end)
    BY ReadyFacts
  <1>2. Tested(bp, i).ans \in BOOLEAN /\ (Tested(bp, i).ans <=> Bit(bp, i))
    BY <1>1, TestedTree
  <1>3. Tested(bp, i).ans = (i \in Shown) BY <1>1, <1>2
  <1>4. (\E k \in Near(bp, i) : i < Stop(bp, k)) <=> Bit(bp, i)
    <2>1. \A k \in Live(bp) : Start(bp, k) \in Nat /\ Stop(bp, k) \in Nat BY <1>1, ExtentFacts
    <2>2. ASSUME NEW k \in Near(bp, i), i < Stop(bp, k) PROVE Bit(bp, i)
      BY <2>2 DEF Bit, Contains, Near
    <2>3. ASSUME Bit(bp, i) PROVE \E k \in Near(bp, i) : i < Stop(bp, k)
      <3>1. PICK k \in Live(bp) : Start(bp, k) <= i /\ i < Stop(bp, k)
        BY <2>3 DEF Bit, Contains
      <3>2. i <= Stop(bp, k) BY <1>1, <2>1, <3>1
      <3>3. k \in Near(bp, i) BY <3>1, <3>2 DEF Near
      <3> QED BY <3>1, <3>3
    <2> QED BY <2>2, <2>3
  <1>5. MarkAnswer(i) = (i \in Shown)
    <2>1. MarkAnswer(i) = (\E k \in Near(bp, i) : i < Stop(bp, k)) BY DEF MarkAnswer
    <2>2. PICK a \in BOOLEAN : a <=> (\E k \in Near(bp, i) : i < Stop(bp, k)) OBVIOUS
    <2>3. MarkAnswer(i) = a BY <2>1, <2>2, Zenon
    <2> QED BY <1>1, <1>4, <2>2, <2>3
  <1> QED BY <1>3, <1>5 DEF Array!Test, Shown

LEMMA FirstSetRight ==
    ASSUME GInv, Ready, NEW s \in 0..end, NEW e \in s..end
    PROVE  FirstSet(s, e) = Array!FirstSet(s, e)
  <1>a. PICK hits : hits = (s..e) \cap Shown OBVIOUS
  <1>b. PICK later : later = {Start(bp, k) : k \in {k \in Live(bp) : s < Start(bp, k)}} OBVIOUS
  <1>1. /\ Extents(bp, real_end) /\ s \in Nat /\ e \in Nat /\ s <= e /\ e <= end /\ end \in Nat
        /\ Shown = {i \in array : i <= end}
    BY ReadyFacts
  <1>2. \A b \in s..e : b \in Nat /\ (b \in hits <=> Bit(bp, b))
    <2>1. \A b \in s..e : b \in 0..end /\ b \in Nat BY <1>1
    <2> QED BY <1>a, <2>1, ReadyFacts
  <1>3. hits \in SUBSET Nat BY <1>2, <1>a
  <1>4. Array!FirstSet(s, e) = Array!First(hits) BY <1>1, <1>a DEF Array!FirstSet
  <1>5. \A k \in Live(bp) : /\ Start(bp, k) \in Nat /\ Stop(bp, k) \in Nat
                            /\ Start(bp, k) < Stop(bp, k)
    BY <1>1, ExtentFacts
  <1>6. later \in SUBSET Nat BY <1>5, <1>b
  <1>7. CASE Holders(bp, s) # {}
    <2>1. FirstSet(s, e) = s BY <1>7 DEF FirstSet
    <2>2. s \in s..e BY <1>1
    <2>3. s \in hits BY <1>2, <1>7, <2>2, HoldersAre
    <2>4. \A y \in hits : s <= y BY <1>a, <1>1
    <2> QED BY <1>3, <1>4, <2>1, <2>3, <2>4, FirstIs
  <1>8. ASSUME Holders(bp, s) = {}, NEW y \in hits
        PROVE  \E x \in later : x <= y
    <2>1. y \in s..e /\ y \in Nat /\ s <= y /\ Bit(bp, y) BY <1>1, <1>2, <1>8, <1>a
    <2>2. PICK k \in Live(bp) : Start(bp, k) <= y /\ y < Stop(bp, k) BY <2>1 DEF Bit, Contains
    <2>3. ~(Start(bp, k) <= s)
      <3> SUFFICES ASSUME Start(bp, k) <= s PROVE FALSE OBVIOUS
      <3>1. s < Stop(bp, k) BY <1>1, <1>5, <2>1, <2>2
      <3>2. k \in Holders(bp, s) BY <2>2, <3>1 DEF Holders, Contains
      <3> QED BY <1>8, <3>2
    <2>4. s < Start(bp, k) BY <1>1, <1>5, <2>3
    <2>5. Start(bp, k) \in later BY <1>b, <2>4
    <2> QED BY <2>2, <2>5
  <1>9. CASE Holders(bp, s) = {} /\ later # {} /\ Min(later) <= e
    <2>1. FirstSet(s, e) = Min(later) BY <1>9, <1>b DEF FirstSet
    <2>2. PICK m : m = Min(later) OBVIOUS
    <2>3. m \in later /\ m \in Nat /\ \A x \in later : m <= x BY <1>6, <1>9, <2>2, MinIsLeast
    <2>4. PICK k \in Live(bp) : s < Start(bp, k) /\ m = Start(bp, k) BY <1>b, <2>3
    <2>5. m < Stop(bp, k) /\ Start(bp, k) <= m BY <1>5, <2>3, <2>4
    <2>6. Bit(bp, m) BY <2>5 DEF Bit, Contains
    <2>7. m \in s..e BY <1>1, <1>9, <2>2, <2>3, <2>4
    <2>8. m \in hits BY <1>2, <2>6, <2>7
    <2>9. ASSUME NEW y \in hits PROVE m <= y
      <3>1. PICK x \in later : x <= y BY <1>8, <1>9
      <3>2. m <= x /\ x \in Nat /\ y \in Nat BY <1>3, <1>6, <2>3
      <3> QED BY <2>3, <3>1, <3>2
    <2> QED BY <1>3, <1>4, <2>1, <2>2, <2>8, <2>9, FirstIs
  <1>10. CASE Holders(bp, s) = {} /\ ~(later # {} /\ Min(later) <= e)
    <2>1. FirstSet(s, e) = Nowhere BY <1>10, <1>b DEF FirstSet
    <2>2. hits = {}
      <3> SUFFICES ASSUME NEW y \in hits PROVE FALSE OBVIOUS
      <3>1. PICK x \in later : x <= y BY <1>8, <1>10
      <3>2. Min(later) \in later /\ Min(later) <= x BY <1>6, <3>1, MinIsLeast
      <3>3. y \in Nat /\ x \in Nat /\ Min(later) \in Nat BY <1>3, <1>6, <3>2
      <3>5. y <= e BY <1>1, <1>a
      <3>4. Min(later) <= e BY <1>1, <3>1, <3>2, <3>3, <3>5
      <3> QED BY <1>10, <3>1, <3>4
    <2> QED BY <1>3, <1>4, <2>1, <2>2, FirstIs
  <1> QED BY <1>7, <1>9, <1>10

LEMMA TestClearRight ==
    ASSUME GInv, Ready, NEW s \in 0..end, NEW n \in Nat \ {0}, s + n <= end + 1
    PROVE  TestClear(s, n) = Array!TestClear(s, n)
  <1>1. /\ Extents(bp, real_end) /\ s \in Nat /\ end \in Nat
        /\ Shown = {i \in array : i <= end}
    BY ReadyFacts
  <1>2. \A b \in s..(s + n - 1) : b \in Nat /\ (b \in Shown <=> Bit(bp, b))
    <2>1. \A b \in s..(s + n - 1) : b \in 0..end /\ b \in Nat BY <1>1
    <2> QED BY <2>1, ReadyFacts
  <1>3. \A k \in Live(bp) : /\ Start(bp, k) \in Nat /\ Stop(bp, k) \in Nat
                            /\ Start(bp, k) < Stop(bp, k)
    BY <1>1, ExtentFacts
  <1>4. ASSUME TestClear(s, n), NEW b \in s..(s + n - 1), b \in Shown PROVE FALSE
    <2>1. PICK k \in Live(bp) : Start(bp, k) <= b /\ b < Stop(bp, k)
      BY <1>2, <1>4 DEF Bit, Contains
    <2>2. Stop(bp, k) <= s \/ s + n <= Start(bp, k) BY <1>4 DEF TestClear
    <2> QED BY <1>1, <1>3, <2>1, <2>2
  <1>5. ASSUME \A b \in s..(s + n - 1) : b \notin Shown PROVE TestClear(s, n)
    <2>1. Holders(bp, s) = {}
      <3>1. s \in s..(s + n - 1) BY <1>1
      <3> QED BY <1>2, <1>5, <3>1, HoldersAre
    <2>2. ASSUME NEW k \in Live(bp) PROVE Stop(bp, k) <= s \/ s + n <= Start(bp, k)
      <3> SUFFICES ASSUME s < Stop(bp, k), Start(bp, k) < s + n PROVE FALSE
        BY <1>1, <1>3
      <3>1. PICK b \in Nat : b = IF s <= Start(bp, k) THEN Start(bp, k) ELSE s BY <1>1, <1>3
      <3>2. b \in s..(s + n - 1) /\ Start(bp, k) <= b /\ b < Stop(bp, k) BY <1>1, <1>3, <3>1
      <3>3. Bit(bp, b) BY <3>2 DEF Bit, Contains
      <3> QED BY <1>2, <1>5, <3>2, <3>3
    <2> QED BY <2>1, <2>2 DEF TestClear
  <1>6. TestClear(s, n) <=> (Shown \cap (s..(s + n - 1)) = {}) BY <1>4, <1>5
  <1>7. TestClear(s, n) = (Shown \cap (s..(s + n - 1)) = {})
    BY <1>6 DEF TestClear
  <1> QED BY <1>1, <1>7 DEF Array!TestClear, Array!Range

LEMMA FirstZeroRight ==
    ASSUME GInv, Ready, NEW s \in 0..end, NEW e \in s..end
    PROVE  FirstZero(s, e) = Array!FirstZero(s, e)
  <1>a. PICK hits : hits = (s..e) \ Shown OBVIOUS
  <1>1. /\ Extents(bp, real_end) /\ s \in Nat /\ e \in Nat /\ s <= e /\ e <= end /\ end \in Nat
        /\ Shown = {i \in array : i <= end}
    BY ReadyFacts
  <1>2. \A b \in s..e : b \in Nat /\ (b \in hits <=> ~Bit(bp, b))
    <2>1. \A b \in s..e : b \in 0..end /\ b \in Nat BY <1>1
    <2> QED BY <1>a, <2>1, ReadyFacts
  <1>3. hits \in SUBSET Nat BY <1>2, <1>a
  <1>4. Array!FirstZero(s, e) = Array!First(hits) BY <1>1, <1>a DEF Array!FirstZero
  <1>5. CASE Holders(bp, s) = {}
    <2>1. FirstZero(s, e) = s BY <1>5 DEF FirstZero
    <2>2. s \in s..e BY <1>1
    <2>3. s \in hits BY <1>2, <1>5, <2>2, HoldersAre
    <2>4. \A y \in hits : s <= y BY <1>a, <1>1
    <2> QED BY <1>3, <1>4, <2>1, <2>3, <2>4, FirstIs
  <1>6. CASE Holders(bp, s) # {}
    <2>1. PICK k : k = CHOOSE j \in Holders(bp, s) : TRUE OBVIOUS
    <2>2. k \in Live(bp) /\ Start(bp, k) <= s /\ s < Stop(bp, k)
      <3>1. k \in Holders(bp, s) BY <1>6, <2>1
      <3> QED BY <3>1 DEF Holders, Contains
    <2>3. PICK stop \in Nat : stop = Stop(bp, k) BY <1>1, <2>2, ExtentFacts
    <2>4. FirstZero(s, e) = IF stop <= e THEN stop ELSE Nowhere
      BY <1>6, <2>1, <2>3 DEF FirstZero
    <2>5. Start(bp, k) \in Nat BY <1>1, <2>2, ExtentFacts
    <2>6. ASSUME NEW b \in hits PROVE stop <= b
      <3> SUFFICES ASSUME b < stop PROVE FALSE BY <1>3
      <3>1. b \in s..e /\ b \in Nat /\ s <= b BY <1>1, <1>2, <1>a
      <3>2. Start(bp, k) <= b BY <1>1, <2>2, <2>5, <3>1
      <3>3. Bit(bp, b) BY <2>2, <2>3, <3>2 DEF Bit, Contains
      <3> QED BY <1>2, <3>1, <3>3
    <2>7. CASE stop <= e
      <3>1. stop \in s..e BY <1>1, <2>2, <2>3, <2>7
      <3>2. ~Bit(bp, stop)
        <4> SUFFICES ASSUME NEW j \in Live(bp), Start(bp, j) <= stop, stop < Stop(bp, j)
                     PROVE  FALSE
          BY DEF Bit, Contains
        <4>1. Start(bp, k) <= stop /\ stop <= Stop(bp, k) BY <1>1, <2>2, <2>3, <2>5
        <4>2. stop <= Stop(bp, j)
          <5>1. Stop(bp, j) \in Nat BY <1>1, ExtentFacts
          <5> QED BY <5>1
        <4>3. j = k BY <1>1, <2>2, <4>1, <4>2, OneHolder
        <4> QED BY <2>3, <4>3
      <3>3. stop \in hits BY <1>2, <3>1, <3>2
      <3> QED BY <1>3, <1>4, <2>4, <2>6, <2>7, <3>3, FirstIs
    <2>8. CASE ~(stop <= e)
      <3>1. hits = {}
        <4> SUFFICES ASSUME NEW b \in hits PROVE FALSE OBVIOUS
        <4>1. b \in Nat /\ b <= e /\ stop <= b BY <1>1, <1>3, <1>a, <2>6
        <4> QED BY <1>1, <2>8, <4>1
      <3> QED BY <1>3, <1>4, <2>4, <2>8, <3>1, FirstIs
    <2> QED BY <2>7, <2>8
  <1> QED BY <1>5, <1>6

LEMMA GetRangeRight ==
    ASSUME GInv, Ready, NEW s \in 0..end, NEW n \in Nat \ {0}, s + n <= end + 1
    PROVE  GetRange(s, n) = Array!GetRange(s, n)
  <1>1. /\ Extents(bp, real_end) /\ s \in Nat /\ end \in Nat /\ n \in Nat
        /\ Shown = {i \in array : i <= end}
    BY ReadyFacts
  <1>2. \A b \in s..(s + n - 1) : b \in Nat /\ (b \in Shown <=> Bit(bp, b))
    <2>1. \A b \in s..(s + n - 1) : b \in 0..end /\ b \in Nat BY <1>1
    <2> QED BY <2>1, ReadyFacts
  <1>3. \A b \in Nat : b \in GetRange(s, n) <=> Bit(bp, b) /\ s <= b /\ b < s + n
    BY <1>1, GetRangeIs
  <1>4. \A b \in GetRange(s, n) : b \in Nat
    <2> SUFFICES ASSUME NEW b \in GetRange(s, n) PROVE b \in Nat OBVIOUS
    <2>1. PICK k \in Live(bp) :
            b \in Max({s, Start(bp, k)})..(Min({s + n, Stop(bp, k)}) - 1)
      BY DEF GetRange
    <2>2. Start(bp, k) \in Nat BY <1>1, ExtentFacts
    <2>3. Max({s, Start(bp, k)}) \in Nat BY <1>1, <2>2, MaxOfTwo
    <2> QED BY <2>1, <2>3
  <1>5. \A b : b \in GetRange(s, n) <=> b \in Shown \cap (s..(s + n - 1))
    <2>1. \A b \in Nat : b \in s..(s + n - 1) <=> s <= b /\ b < s + n BY <1>1
    <2>2. \A b \in s..(s + n - 1) : b \in Nat BY <1>2
    <2> QED BY <1>2, <1>3, <1>4, <2>1, <2>2
  <1>6. GetRange(s, n) = Shown \cap (s..(s + n - 1)) BY <1>5
  <1> QED BY <1>1, <1>6 DEF Array!GetRange, Array!Range

LEMMA TreeIsRight == GInv => TreeRight
  <1> SUFFICES ASSUME GInv, Ready
               PROVE  /\ \A i \in 0..end : /\ Tested(bp, i).ans = Array!Test(i)
                                           /\ MarkAnswer(i) = Array!Test(i)
                      /\ \A s \in 0..end : \A e \in s..end :
                           /\ FirstSet(s, e) = Array!FirstSet(s, e)
                           /\ TestClear(s, e - s + 1) = Array!TestClear(s, e - s + 1)
                           /\ FirstZero(s, e) = Array!FirstZero(s, e)
                           /\ GetRange(s, e - s + 1) = Array!GetRange(s, e - s + 1)
    BY DEF TreeRight
  <1>1. \A i \in 0..end : Tested(bp, i).ans = Array!Test(i) /\ MarkAnswer(i) = Array!Test(i)
    BY OneBitRight
  <1>2. ASSUME NEW s \in 0..end, NEW e \in s..end
        PROVE  /\ FirstSet(s, e) = Array!FirstSet(s, e)
               /\ TestClear(s, e - s + 1) = Array!TestClear(s, e - s + 1)
               /\ FirstZero(s, e) = Array!FirstZero(s, e)
               /\ GetRange(s, e - s + 1) = Array!GetRange(s, e - s + 1)
    <2>1. e - s + 1 \in Nat \ {0} /\ s + (e - s + 1) <= end + 1
      <3>1. end \in Nat BY ReadyFacts
      <3> QED BY <3>1
    <2> QED BY <2>1, FirstSetRight, TestClearRight, FirstZeroRight, GetRangeRight
  <1> QED BY <1>1, <1>2

-----------------------------------------------------------------------------
\* Division

LEMMA Monotone ==
    ASSUME NEW a \in Int, NEW b \in Int, NEW r \in Nat, a <= b
    PROVE  a * r <= b * r
  OBVIOUS

LEMMA Times ==
    ASSUME NEW a \in Nat, NEW b \in Nat, NEW r \in Nat
    PROVE  a * r \in Nat /\ (a + b) * r = a * r + b * r /\ (a + 1) * r = a * r + r
  OBVIOUS

LEMMA Division ==
    ASSUME NEW x \in Nat, NEW r \in Nat \ {0}
    PROVE  \E q \in Nat, m \in 0..(r - 1) :
             x \div r = q /\ x % r = m /\ x = q * r + m /\ q * r \in Nat
  <1>1. /\ x \div r \in Nat /\ x % r \in 0..(r - 1)
        /\ x = r * (x \div r) + (x % r)
    OBVIOUS
  <1>2. PICK q \in Nat, m \in 0..(r - 1) : x \div r = q /\ x % r = m BY <1>1
  <1>3. x = r * q + m BY <1>1, <1>2
  <1>4. r * q = q * r /\ q * r \in Nat OBVIOUS
  <1> QED BY <1>2, <1>3, <1>4

LEMMA DivisionIs ==
    ASSUME NEW x \in Nat, NEW r \in Nat \ {0}, NEW q \in Nat, NEW m \in 0..(r - 1),
           x = q * r + m
    PROVE  x \div r = q /\ x % r = m
  <1>1. x = r * q + m OBVIOUS
  <1> QED BY <1>1

LEMMA Quotients ==
    ASSUME NEW x \in Nat, NEW r \in Nat \ {0}, NEW q \in Nat
    PROVE  x \div r \in Nat /\ (q <= x \div r <=> q * r <= x)
  <1>1. PICK d \in Nat, m \in 0..(r - 1) : x \div r = d /\ x = d * r + m /\ d * r \in Nat
    BY Division
  <1>2. q * r \in Nat BY Times
  <1>3. ASSUME q <= d PROVE q * r <= x
    <2>1. q * r <= d * r BY <1>3, Monotone
    <2> QED BY <1>1, <1>2, <2>1
  <1>4. ASSUME d < q PROVE x < q * r
    <2>1. d + 1 <= q BY <1>4
    <2>2. (d + 1) * r <= q * r BY <2>1, Monotone
    <2>3. (d + 1) * r = d * r + r BY Times
    <2> QED BY <1>1, <1>2, <2>2, <2>3
  <1>5. d < q <=> ~(q <= d) OBVIOUS
  <1>6. x < q * r <=> ~(q * r <= x) BY <1>2
  <1> QED BY <1>1, <1>3, <1>4, <1>5, <1>6

-----------------------------------------------------------------------------
\* The conversions

LEMMA LayoutFacts ==
    ASSUME NEW l \in Layouts
    PROVE  l.ratio \in Nat \ {0} /\ l.first \in Nat
  BY ClusterAssumption DEF Layouts

LEMMA Covered ==
    ASSUME NEW l \in Layouts, NEW b \in Nat, NEW c \in Nat, b <= c
    PROVE  /\ {Position(l, d) : d \in b..c} = Position(l, b)..Position(l, c)
           /\ Position(l, b) \in Int /\ Position(l, c) \in Int /\ Position(l, b) <= Position(l, c)
  <1>a. PICK r \in Nat \ {0}, f \in Nat : r = l.ratio /\ f = l.first BY LayoutFacts
  <1>b. \A d : Position(l, d) = d \div r - f BY <1>a DEF Position
  <1>1. PICK lo \in Nat, hi \in Nat : lo = b \div r /\ hi = c \div r BY Quotients
  <1>2. \A q \in Nat : (q <= lo <=> q * r <= b) /\ (q <= hi <=> q * r <= c)
    BY <1>1, Quotients
  <1>3. ASSUME NEW d \in b..c
        PROVE  d \div r \in Nat /\ lo <= d \div r /\ d \div r <= hi
    <2>1. d \in Nat /\ b <= d /\ d <= c OBVIOUS
    <2>2. PICK x \in Nat : x = d \div r BY <2>1, Quotients
    <2>3. \A q \in Nat : q <= x <=> q * r <= d BY <2>1, <2>2, Quotients
    <2>4. lo * r \in Nat /\ x * r \in Nat BY Times
    <2>5. lo * r <= b /\ x * r <= d BY <1>2, <2>3
    <2>6. lo * r <= d /\ x * r <= c BY <2>1, <2>4, <2>5
    <2> QED BY <1>2, <2>2, <2>3, <2>6
  <1>4. ASSUME NEW t \in Nat, lo <= t, t <= hi PROVE \E d \in b..c : d \div r = t
    <2>1. CASE t = lo
      <3>1. b \in b..c OBVIOUS
      <3> QED BY <1>1, <2>1, <3>1
    <2>2. CASE t # lo
      <3>1. ~(t <= lo) BY <1>4, <2>2
      <3>2. t * r \in Nat BY Times
      <3>3. ~(t * r <= b) /\ t * r <= c BY <1>2, <1>4, <3>1
      <3>4. t * r \in b..c BY <3>2, <3>3
      <3>5. 0 \in 0..(r - 1) /\ t * r = t * r + 0 BY <3>2
      <3>6. (t * r) \div r = t BY <3>2, <3>5, DivisionIs
      <3> QED BY <3>4, <3>6
    <2> QED BY <2>1, <2>2
  <1>5. lo <= hi
    <2>1. b \in b..c OBVIOUS
    <2> QED BY <1>1, <1>3, <2>1
  <1>6. ASSUME NEW q \in (lo - f)..(hi - f) PROVE \E d \in b..c : d \div r - f = q
    <2>1. q + f \in Nat /\ lo <= q + f /\ q + f <= hi OBVIOUS
    <2>2. PICK d \in b..c : d \div r = q + f BY <1>4, <2>1
    <2>3. d \div r - f = q BY <2>2
    <2> QED BY <2>3
  <1>7. ASSUME NEW d \in b..c PROVE d \div r - f \in (lo - f)..(hi - f)
    BY <1>3, SMTT(30)
  <1>8. {d \div r - f : d \in b..c} = (lo - f)..(hi - f) BY <1>6, <1>7
  <1>9. {Position(l, d) : d \in b..c} = {d \div r - f : d \in b..c} BY <1>b
  <1>10. Position(l, b) = lo - f /\ Position(l, c) = hi - f BY <1>1, <1>b
  <1>11. {Position(l, d) : d \in b..c} = Position(l, b)..Position(l, c)
    BY <1>8, <1>9, <1>10, Zenon
  <1>12. lo - f \in Int /\ hi - f \in Int /\ lo - f <= hi - f BY <1>5
  <1> QED BY <1>10, <1>11, <1>12, Zenon

LEMMA LengthIs ==
    ASSUME NEW l \in Layouts, NEW b \in Nat, NEW c \in Nat, b <= c
    PROVE  Position(l, b) + Length(l, b, c - b + 1) - 1 = Position(l, c)
  <1>a. PICK r \in Nat \ {0}, f \in Nat : r = l.ratio /\ f = l.first BY LayoutFacts
  <1>1. PICK hi \in Nat, m \in 0..(r - 1) : c \div r = hi /\ c = hi * r + m /\ hi * r \in Nat
    BY Division
  <1>2. PICK lo \in Nat : lo = b \div r BY Quotients
  <1>3. b + (c - b + 1) + r - 1 = c + r OBVIOUS
  <1>4. (hi + 1) * r = hi * r + r BY Times
  <1>5. c + r \in Nat /\ c + r = (hi + 1) * r + m BY <1>1, <1>4
  <1>6. (c + r) \div r = hi + 1 BY <1>5, DivisionIs
  <1>7. Length(l, b, c - b + 1) = hi + 1 - lo BY <1>2, <1>3, <1>6, <1>a DEF Length
  <1> QED BY <1>1, <1>2, <1>7, <1>a DEF Position

LEMMA BlockFoundRight ==
    ASSUME NEW l \in Layouts, NEW b \in Nat, NEW pos \in Nat, Position(l, b) <= pos,
           NEW d, d = BlockFound(l, b, pos)
    PROVE  /\ Position(l, d) = pos /\ d >= b
           /\ d = b \/ Position(l, d - 1) < pos
  <1>a. PICK r \in Nat \ {0}, f \in Nat : r = l.ratio /\ f = l.first BY LayoutFacts
  <1>1. PICK t \in Nat : t = pos + f OBVIOUS
  <1>2. t * r \in Nat /\ d = Max({t * r, b}) BY <1>1, <1>a, Times DEF BlockFound
  <1>3. d = IF t * r >= b THEN t * r ELSE b BY <1>2, MaxOfTwo
  <1>4. b \div r <= t /\ b \div r \in Nat
    <2>1. PICK lo \in Nat : lo = b \div r BY Quotients
    <2>2. lo - f <= pos BY <2>1, <1>a DEF Position
    <2> QED BY <1>1, <2>1, <2>2
  <1>5. CASE t * r >= b
    <2>1. 0 \in 0..(r - 1) /\ t * r = t * r + 0 BY <1>2
    <2>2. (t * r) \div r = t BY <1>2, <2>1, DivisionIs
    <2>3. Position(l, d) = pos BY <1>1, <1>3, <1>5, <1>a, <2>2 DEF Position
    <2>4. ASSUME d # b PROVE Position(l, d - 1) < pos
      <3>1. PICK x \in Nat : x = d - 1 /\ x < t * r BY <1>2, <1>3, <1>5, <2>4
      <3>2. ~(t * r <= x) BY <1>2, <3>1
      <3>3. ~(t <= x \div r) /\ x \div r \in Nat BY <3>2, Quotients
      <3>4. Position(l, x) = x \div r - f BY <1>a DEF Position
      <3>5. Position(l, x) < pos BY <1>1, <3>3, <3>4
      <3> QED BY <3>1, <3>5
    <2> QED BY <1>2, <1>3, <1>5, <2>3, <2>4
  <1>6. CASE ~(t * r >= b)
    <2>1. t * r <= b /\ d = b BY <1>2, <1>3, <1>6
    <2>2. t <= b \div r BY <2>1, Quotients
    <2>3. b \div r = t BY <1>4, <2>2
    <2>4. Position(l, d) = pos BY <1>1, <1>a, <2>1, <2>3 DEF Position
    <2> QED BY <2>1, <2>4
  <1> QED BY <1>5, <1>6

LEMMA ConversionsAreRight == GInv => ConversionsRight
  <1> SUFFICES ASSUME GInv, NEW l \in Layouts
               PROVE  LET Blocks == 0..((end + 2) * l.ratio) IN
                      /\ \A b, c \in Blocks : b <= c =>
                           LET covered == {Position(l, d) : d \in b..c}
                           IN  /\ Accepted(l, b, c - b + 1) = (covered \subseteq 0..end)
                               /\ Run(Position(l, b), Length(l, b, c - b + 1)) = covered
                      /\ \A b \in Blocks : \A pos \in Position(l, b)..end : pos >= 0 =>
                           LET d == BlockFound(l, b, pos)
                           IN  /\ Position(l, d) = pos /\ d >= b
                               /\ d = b \/ Position(l, d - 1) < pos
    BY DEF ConversionsRight
  <1> DEFINE Blocks == 0..((end + 2) * l.ratio)
  <1>1. end \in Nat BY MaxBitAssumption DEF GInv
  <1>2. \A b \in Blocks : b \in Nat OBVIOUS
  <1> HIDE DEF Blocks
  <1>3. ASSUME NEW b \in Blocks, NEW c \in Blocks, b <= c
        PROVE  /\ Accepted(l, b, c - b + 1) = ({Position(l, d) : d \in b..c} \subseteq 0..end)
               /\ Run(Position(l, b), Length(l, b, c - b + 1)) = {Position(l, d) : d \in b..c}
    <2>1. b \in Nat /\ c \in Nat BY <1>2
    <2>0. /\ {Position(l, d) : d \in b..c} = Position(l, b)..Position(l, c)
          /\ Position(l, b) \in Int /\ Position(l, c) \in Int
          /\ Position(l, b) <= Position(l, c)
      BY <1>3, <2>1, Covered, Zenon
    <2>2. PICK lo \in Int, hi \in Int : lo = Position(l, b) /\ hi = Position(l, c) /\ lo <= hi
      <3>1. Position(l, b) \in Int /\ Position(l, c) \in Int /\ Position(l, b) <= Position(l, c)
        BY <2>0
      <3> QED BY <3>1
    <2>7. {Position(l, d) : d \in b..c} = lo..hi BY <2>0, <2>2, Zenon
    <2>3. Position(l, b) + Length(l, b, c - b + 1) - 1 = hi BY <1>3, <2>1, <2>2, LengthIs
    <2>4. lo..hi \subseteq 0..end <=> lo >= 0 /\ hi <= end
      <3>1. lo \in lo..hi /\ hi \in lo..hi BY <2>2
      <3>2. lo..hi \subseteq 0..end => lo \in 0..end /\ hi \in 0..end BY <3>1
      <3> QED BY <1>1, <3>2
    <2>5. Accepted(l, b, c - b + 1) = (lo >= 0 /\ hi <= end)
      BY <2>2, <2>3 DEF Accepted
    <2>6. Accepted(l, b, c - b + 1) = (lo..hi \subseteq 0..end) BY <2>4, <2>5
    <2>8. Run(Position(l, b), Length(l, b, c - b + 1)) = lo..hi BY <2>2, <2>3 DEF Run
    <2> QED BY <2>6, <2>7, <2>8, Zenon
  <1>4. ASSUME NEW b \in Blocks, NEW pos \in Position(l, b)..end, pos >= 0
        PROVE  LET d == BlockFound(l, b, pos)
               IN  /\ Position(l, d) = pos /\ d >= b
                   /\ d = b \/ Position(l, d - 1) < pos
    <2>1. b \in Nat BY <1>2
    <2>2. Position(l, b) \in Int BY <2>1, Covered
    <2>3. pos \in Nat /\ Position(l, b) <= pos BY <1>1, <1>4, <2>2
    <2> QED BY <2>1, <2>3, BlockFoundRight
  <1> QED BY <1>3, <1>4 DEF Blocks

-----------------------------------------------------------------------------
\* The searches of the array

LEMMA RoundUpFacts ==
    ASSUME NEW i \in Nat, NEW unit \in Nat \ {0}
    PROVE  RoundUp(i, unit) \in Nat /\ i <= RoundUp(i, unit)
  <1>1. i + unit - 1 \in Nat OBVIOUS
  <1>2. PICK q \in Nat, m \in 0..(unit - 1) :
          (i + unit - 1) \div unit = q /\ i + unit - 1 = q * unit + m /\ q * unit \in Nat
    BY <1>1, Division
  <1>3. RoundUp(i, unit) = q * unit BY <1>2 DEF RoundUp
  <1> QED BY <1>2, <1>3

\* A skip passes no bit that is looked for.
LEMMA SkipFacts ==
    ASSUME NEW pos \in Nat, NEW stop \in Nat, NEW unit \in Nat \ {0}, NEW hits
    PROVE  /\ Skip(pos, stop, unit, hits) \in Nat /\ pos <= Skip(pos, stop, unit, hits)
           /\ \A x \in pos..(Skip(pos, stop, unit, hits) - 1) : x \notin hits
  <1>a. PICK n : n = IF stop <= pos THEN 0 ELSE (stop - pos) \div unit OBVIOUS
  <1>b. PICK busy : busy = {k \in 0..(n - 1) : Run(pos + k * unit, unit) \cap hits # {}} OBVIOUS
  <1>c. PICK t : t = IF busy = {} THEN n ELSE Min(busy) OBVIOUS
  <1>1. n \in Nat
    <2>1. CASE stop <= pos BY <1>a, <2>1
    <2>2. CASE ~(stop <= pos)
      <3>1. stop - pos \in Nat BY <2>2
      <3> QED BY <1>a, <2>2, <3>1, Quotients
    <2> QED BY <2>1, <2>2
  <1>2. t \in Nat /\ t <= n /\ \A k \in 0..(t - 1) : k \notin busy
    <2>1. CASE busy = {} BY <1>1, <1>c, <2>1
    <2>2. CASE busy # {}
      <3>1. busy \in SUBSET Nat BY <1>1, <1>b
      <3>2. t \in busy /\ \A y \in busy : t <= y BY <1>c, <2>2, <3>1, MinIsLeast
      <3>3. t \in 0..(n - 1) BY <1>b, <3>2
      <3>4. t \in Nat /\ t <= n BY <1>1, <3>3
      <3> QED BY <3>2, <3>4
    <2> QED BY <2>1, <2>2
  <1>3. Skip(pos, stop, unit, hits) = pos + unit * t BY <1>a, <1>b, <1>c DEF Skip
  <1>4. t * unit \in Nat /\ unit * t = t * unit BY <1>2, Times
  <1>5. ASSUME NEW x \in pos..(pos + unit * t - 1) PROVE x \notin hits
    <2>1. x \in Nat /\ pos <= x /\ x < pos + t * unit /\ x - pos \in Nat BY <1>4
    <2>2. PICK k \in Nat, m \in 0..(unit - 1) :
            x - pos = k * unit + m /\ k * unit \in Nat /\ (x - pos) \div unit = k
      BY <2>1, Division, SMTT(30)
    <2>3. ~(t <= k)
      <3>1. ~(t * unit <= x - pos) BY <1>4, <2>1
      <3> QED BY <1>2, <2>1, <2>2, <3>1, Quotients
    <2>4. k \in 0..(t - 1) /\ k \in 0..(n - 1) BY <1>1, <1>2, <2>3
    <2>5. Run(pos + k * unit, unit) \cap hits = {} BY <1>2, <1>b, <2>4
    <2>6. x \in Run(pos + k * unit, unit)
      <3>1. x = pos + k * unit + m BY <2>1, <2>2
      <3> QED BY <2>1, <2>2, <3>1 DEF Run
    <2> QED BY <2>5, <2>6
  <1> QED BY <1>3, <1>4, <1>5

\* Bits that hold nothing may be left out of a search.
LEMMA FirstFrom ==
    ASSUME NEW s \in Nat, NEW e \in Nat, NEW hits, NEW rest \in Nat, s <= rest,
           \A x \in s..(rest - 1) : x \notin hits
    PROVE  (rest..e) \cap hits = (s..e) \cap hits
  <1>1. ASSUME NEW x \in s..e, x \in hits PROVE x \in rest..e
    <2>1. ~(x \in s..(rest - 1)) BY <1>1
    <2> QED BY <2>1
  <1>2. \A x \in rest..e : x \in s..e OBVIOUS
  <1> QED BY <1>1, <1>2

LEMMA ArrayFirstRight ==
    ASSUME NEW s \in Nat, NEW e \in Nat, s <= e, NEW hits
    PROVE  ArrayFirst(s, e, hits) = Array!First((s..e) \cap hits)
  <1>a. PICK lead : lead = Min({e + 1, RoundUp(s, ByteBits)}) OBVIOUS
  <1>b. PICK word : word = WordBytes * ByteBits OBVIOUS
  <1>c. PICK mid : mid = Min({e + 1, RoundUp(lead, word)}) OBVIOUS
  <1>d. PICK byte : byte = Skip(lead, mid, ByteBits, hits) OBVIOUS
  <1>e. PICK words : words = Skip(byte, e + 1, word, hits) OBVIOUS
  <1>f. PICK bytes : bytes = Skip(words, e + 1, ByteBits, hits) OBVIOUS
  <1>g. PICK rest : rest = IF byte + ByteBits <= e + 1 /\ byte % word # 0 THEN byte ELSE bytes
    OBVIOUS
  <1>1. ArrayFirst(s, e, hits) =
          IF (s..(lead - 1)) \cap hits # {} THEN Min((s..(lead - 1)) \cap hits)
          ELSE Array!First((rest..e) \cap hits)
    BY <1>a, <1>b, <1>c, <1>d, <1>e, <1>f, <1>g DEF ArrayFirst
  <1>2. ByteBits \in Nat \ {0} /\ word \in Nat \ {0}
    BY <1>b, ByteAssumption
  <1>3. lead \in Nat /\ s <= lead /\ lead <= e + 1
    <2>1. RoundUp(s, ByteBits) \in Nat /\ s <= RoundUp(s, ByteBits) BY <1>2, RoundUpFacts
    <2>2. lead = IF e + 1 <= RoundUp(s, ByteBits) THEN e + 1 ELSE RoundUp(s, ByteBits)
      BY <1>a, <2>1, MinOfTwo
    <2> QED BY <2>1, <2>2
  <1>4. mid \in Nat
    <2>1. RoundUp(lead, word) \in Nat BY <1>2, <1>3, RoundUpFacts
    <2>2. mid = IF e + 1 <= RoundUp(lead, word) THEN e + 1 ELSE RoundUp(lead, word)
      BY <1>c, <2>1, MinOfTwo
    <2> QED BY <2>1, <2>2
  <1>5. byte \in Nat /\ lead <= byte /\ \A x \in lead..(byte - 1) : x \notin hits
    BY <1>2, <1>3, <1>4, <1>d, SkipFacts
  <1>6. words \in Nat /\ byte <= words /\ \A x \in byte..(words - 1) : x \notin hits
    BY <1>2, <1>5, <1>e, SkipFacts
  <1>7. bytes \in Nat /\ words <= bytes /\ \A x \in words..(bytes - 1) : x \notin hits
    BY <1>2, <1>6, <1>f, SkipFacts
  <1>8. rest \in Nat /\ lead <= rest /\ \A x \in lead..(rest - 1) : x \notin hits
    <2>1. CASE rest = byte BY <1>5, <2>1
    <2>2. CASE rest = bytes
      <3>1. ASSUME NEW x \in lead..(bytes - 1) PROVE x \notin hits
        <4>1. x \in Nat BY <1>3
        <4>2. x \in lead..(byte - 1) \/ x \in byte..(words - 1) \/ x \in words..(bytes - 1)
          BY <1>3, <1>5, <1>6, <1>7, <4>1
        <4> QED BY <1>5, <1>6, <1>7, <4>2
      <3>2. lead <= bytes BY <1>3, <1>5, <1>6, <1>7
      <3> QED BY <1>7, <2>2, <3>1, <3>2
    <2> QED BY <1>g, <2>1, <2>2
  <1>9. (s..e) \cap hits \in SUBSET Nat OBVIOUS
  <1>10. CASE (s..(lead - 1)) \cap hits # {}
    <2>1. (s..(lead - 1)) \cap hits \in SUBSET Nat BY <1>3
    <2>2. PICK m : m = Min((s..(lead - 1)) \cap hits) OBVIOUS
    <2>3. m \in (s..(lead - 1)) \cap hits /\ \A y \in (s..(lead - 1)) \cap hits : m <= y
      BY <1>10, <2>1, <2>2, MinIsLeast
    <2>4. m \in Nat /\ m \in s..e /\ m < lead BY <1>3, <2>3
    <2>5. ASSUME NEW y \in (s..e) \cap hits PROVE m <= y
      <3>1. y \in Nat /\ s <= y BY <1>9
      <3>2. CASE y < lead
        <4>1. y \in s..(lead - 1) BY <1>3, <3>1, <3>2
        <4> QED BY <2>3, <4>1
      <3>3. CASE ~(y < lead) BY <1>3, <2>4, <3>1, <3>3
      <3> QED BY <3>2, <3>3
    <2>6. m \in (s..e) \cap hits BY <2>3, <2>4
    <2>7. Array!First((s..e) \cap hits) = m BY <1>9, <2>5, <2>6, FirstIs
    <2> QED BY <1>1, <1>10, <2>2, <2>7
  <1>11. CASE ~((s..(lead - 1)) \cap hits # {})
    <2>1. ASSUME NEW x \in s..(rest - 1) PROVE x \notin hits
      <3>1. x \in Nat BY <1>8
      <3>2. x \in s..(lead - 1) \/ x \in lead..(rest - 1) BY <1>3, <1>8, <3>1
      <3> QED BY <1>8, <1>11, <3>2
    <2>2. s <= rest BY <1>3, <1>8
    <2>3. (rest..e) \cap hits = (s..e) \cap hits BY <1>8, <2>1, <2>2, FirstFrom
    <2> QED BY <1>1, <1>11, <2>3
  <1> QED BY <1>10, <1>11

LEMMA ArrayRangeRight ==
    ASSUME NEW s \in Nat, NEW e \in Nat, s <= e, Whole(s - 1), Whole(e)
    PROVE  ArrayRange(s, e - s + 1) = array \cap s..e
  <1>a. PICK B \in Nat \ {0} : B = ByteBits BY ByteAssumption
  <1>1. PICK i \in Nat, m \in 0..(B - 1) :
          s \div B = i /\ s % B = m /\ s = i * B + m /\ i * B \in Nat
    BY Division
  <1>2. (s - 1) + 1 = s OBVIOUS
  <1>3. m = 0 BY <1>1, <1>2, <1>a DEF Whole
  <1>4. PICK j \in Nat, k \in 0..(B - 1) :
          (e + 1) \div B = j /\ (e + 1) % B = k /\ e + 1 = j * B + k /\ j * B \in Nat
    BY Division
  <1>5. k = 0 BY <1>4, <1>a DEF Whole
  <1>6. s = i * B /\ e + 1 = j * B BY <1>1, <1>3, <1>4, <1>5
  <1>7. i <= j
    <2>1. i * B <= e + 1 BY <1>6
    <2> QED BY <1>4, <2>1, Quotients
  <1>8. PICK d \in Nat : j = i + d BY <1>7
  <1>9. j * B = i * B + d * B /\ d * B \in Nat BY <1>8, Times
  <1>10. e - s + 1 = d * B BY <1>1, <1>4, <1>6, <1>9
  <1>11. d * B + B - 1 \in Nat /\ d * B + B - 1 = d * B + (B - 1) /\ B - 1 \in 0..(B - 1)
    BY <1>9
  <1>12. (d * B + B - 1) \div B = d BY <1>11, DivisionIs
  <1>13. RoundUp(e - s + 1, ByteBits) = d * B BY <1>10, <1>12, <1>a DEF RoundUp
  <1>14. (s \div ByteBits) * ByteBits = s BY <1>1, <1>6, <1>a
  <1>15. Run(s, d * B) = s..e BY <1>9, <1>10 DEF Run
  <1> QED BY <1>13, <1>14, <1>15 DEF ArrayRange

LEMMA SameRight ==
    ASSUME end \in Nat, NEW i \in Nat
    PROVE  Same(array, array \cup {i}) = (i \in array \/ i > end)
  <1>1. PICK q \in Nat, m \in 0..(ByteBits - 1) :
          end \div ByteBits = q /\ end = q * ByteBits + m /\ q * ByteBits \in Nat
    BY ByteAssumption, Division
  <1>2. LastByte \in Nat /\ LastByte <= end BY <1>1 DEF LastByte
  <1>3. \A b \in 0..end : b \in 0..(LastByte - 1) \/ b \in LastByte..end BY <1>2
  <1>4. \A b : b \in 0..(LastByte - 1) \/ b \in LastByte..end => b \in 0..end BY <1>2
  <1>5. Same(array, array \cup {i}) <=> \A b \in 0..end : (b \in array) = (b \in array \cup {i})
    BY <1>3, <1>4 DEF Same
  <1>6. (\A b \in 0..end : (b \in array) = (b \in array \cup {i})) <=> i \in array \/ i > end
    <2>1. i > end <=> i \notin 0..end OBVIOUS
    <2> QED BY <2>1
  <1>7. Same(array, array \cup {i}) <=> (i \in array \/ i > end) BY <1>5, <1>6
  <1> QED BY <1>7 DEF Same

\* The bits of one byte.
LEMMA DirtyIs ==
    ASSUME NEW byte \in Nat, NEW lo \in Nat, NEW n \in Nat, NEW from,
           from = byte * ByteBits + lo
    PROVE  (\E i \in lo..(lo + n - 1) : byte * ByteBits + i \in array)
             <=> array \cap Run(from, n) # {}
  <1>1. PICK w \in Nat : w = byte * ByteBits BY ByteAssumption, Times
  <1>2. ASSUME NEW i \in lo..(lo + n - 1), w + i \in array PROVE array \cap Run(from, n) # {}
    <2>1. w + i \in Run(from, n) BY <1>1 DEF Run
    <2> QED BY <1>2, <2>1
  <1>3. ASSUME NEW x \in Run(from, n), x \in array
        PROVE  \E i \in lo..(lo + n - 1) : w + i \in array
    <2>1. x - w \in lo..(lo + n - 1) /\ w + (x - w) = x BY <1>1 DEF Run
    <2> QED BY <1>3, <2>1
  <1> QED BY <1>1, <1>2, <1>3

LEMMA ArrayTestClearRight ==
    ASSUME NEW s \in Nat, NEW n \in Nat \ {0}
    PROVE  ArrayTestClear(s, n) = (array \cap Run(s, n) = {})
  <1> DEFINE Dirty(byte, bits) == \E i \in bits : byte * ByteBits + i \in array
  <1>a. PICK B \in Nat \ {0} : B = ByteBits BY ByteAssumption
  <1>1. PICK q \in Nat, off \in 0..(B - 1) :
          s \div B = q /\ s % B = off /\ s = q * B + off /\ q * B \in Nat
    BY Division
  <1>b. PICK head : head = IF off = 0 THEN 0 ELSE Min({n, B - off}) OBVIOUS
  <1>c. PICK byte : byte = (s + B - 1) \div B OBVIOUS
  <1>2. off \in Nat /\ B - off \in Nat \ {0} BY <1>1
  <1>3. /\ head \in Nat /\ head <= n
        /\ off = 0 => head = 0
        /\ off # 0 => head = IF n <= B - off THEN n ELSE B - off
    <2>1. CASE off = 0 BY <1>b, <2>1
    <2>2. CASE off # 0
      <3>1. head = IF n <= B - off THEN n ELSE B - off BY <1>2, <1>b, <2>2, MinOfTwo
      <3> QED BY <1>2, <2>2, <3>1
    <2> QED BY <2>1, <2>2
  <1>4. byte \in Nat /\ byte = IF off = 0 THEN q ELSE q + 1
    <2>1. (q + 1) * B = q * B + B BY Times
    <2>2. CASE off = 0
      <3>1. s + B - 1 \in Nat /\ s + B - 1 = q * B + (B - 1) /\ B - 1 \in 0..(B - 1)
        BY <1>1, <2>2
      <3>2. (s + B - 1) \div B = q BY <3>1, DivisionIs
      <3> QED BY <1>c, <2>2, <3>2
    <2>3. CASE off # 0
      <3>1. s + B - 1 \in Nat /\ s + B - 1 = (q + 1) * B + (off - 1) /\ off - 1 \in 0..(B - 1)
        BY <1>1, <2>1, <2>3
      <3>2. (s + B - 1) \div B = q + 1 BY <3>1, DivisionIs
      <3> QED BY <1>c, <2>3, <3>2
    <2> QED BY <2>2, <2>3
  <1>5. PICK u \in Nat, v \in 0..(B - 1) :
          /\ (n - head) \div B = u /\ (n - head) % B = v
          /\ n - head = u * B + v /\ u * B \in Nat
    <2>1. n - head \in Nat BY <1>3
    <2> QED BY <2>1, Division
  <1>0. ArrayTestClear(s, n) \in BOOLEAN BY DEF ArrayTestClear
  <1>6. ArrayTestClear(s, n) <=>
          /\ off # 0 => ~Dirty(q, off..(off + head - 1))
          /\ \/ off # 0 /\ n <= B - off
             \/ /\ ~Dirty(byte + u, 0..(v - 1))
                /\ \A k \in byte..(byte + u - 1) : ~Dirty(k, 0..(B - 1))
    <2>1. /\ s \div ByteBits = q /\ s % ByteBits = off /\ ByteBits = B
          /\ (s + ByteBits - 1) \div ByteBits = byte
          /\ (n - head) \div ByteBits = u /\ (n - head) % ByteBits = v
      BY <1>1, <1>5, <1>a, <1>c
    <2> DEFINE off0  == s % ByteBits
               head0 == IF off0 = 0 THEN 0 ELSE Min({n, ByteBits - off0})
               byte0 == (s + ByteBits - 1) \div ByteBits
               last0 == byte0 + (n - head0) \div ByteBits
    <2>2. ArrayTestClear(s, n) <=>
            /\ off0 # 0 => ~Dirty(s \div ByteBits, off0..(off0 + head0 - 1))
            /\ \/ off0 # 0 /\ n <= ByteBits - off0
               \/ /\ ~Dirty(last0, 0..(((n - head0) % ByteBits) - 1))
                  /\ \A k \in byte0..(last0 - 1) : ~Dirty(k, 0..(ByteBits - 1))
      BY DEF ArrayTestClear, BytesIn
    <2>3. off0 = off /\ byte0 = byte BY <2>1
    <2>4. head0 = head BY <1>b, <2>1, <2>3
    <2>5. last0 = byte + u BY <2>1, <2>4
    <2> HIDE DEF off0, head0, byte0, last0, Dirty
    <2>6. Dirty(s \div ByteBits, off0..(off0 + head0 - 1)) <=> Dirty(q, off..(off + head - 1))
      BY <2>1, <2>3, <2>4
    <2>7. Dirty(last0, 0..(((n - head0) % ByteBits) - 1)) <=> Dirty(byte + u, 0..(v - 1))
      BY <2>1, <2>4, <2>5
    <2>8. (\A k \in byte0..(last0 - 1) : ~Dirty(k, 0..(ByteBits - 1)))
            <=> \A k \in byte..(byte + u - 1) : ~Dirty(k, 0..(B - 1))
      BY <2>1, <2>3, <2>5, SMTT(30)
    <2>9. off0 # 0 <=> off # 0 BY <2>3
    <2>10. n <= ByteBits - off0 <=> n <= B - off BY <2>1, <2>3
    <2> QED BY <2>2, <2>6, <2>7, <2>8, <2>9, <2>10
  <1>7. Dirty(q, off..(off + head - 1)) <=> array \cap Run(s, head) # {}
    BY <1>1, <1>2, <1>3, <1>a, DirtyIs
  <1>8. \A k \in Nat : Dirty(k, 0..(B - 1)) <=> array \cap Run(k * B, B) # {}
    <2> TAKE k \in Nat
    <2>1. k * B \in Nat /\ k * B = k * B + 0 /\ B \in Nat /\ 0 + B - 1 = B - 1 BY Times
    <2>2. Dirty(k, 0..(0 + B - 1)) <=> array \cap Run(k * B, B) # {}
      BY <1>a, <2>1, DirtyIs
    <2> QED BY <2>1, <2>2
  <1>9. Dirty(byte + u, 0..(v - 1)) <=> array \cap Run((byte + u) * B, v) # {}
    <2>1. byte + u \in Nat BY <1>4
    <2>2. (byte + u) * B \in Nat /\ (byte + u) * B = (byte + u) * B + 0 /\ v \in Nat
          /\ 0 + v - 1 = v - 1
      BY <1>5, <2>1, Times
    <2>3. PICK y \in Nat : y = byte + u BY <2>1
    <2>4. PICK w \in Nat : w = y * B /\ w = y * ByteBits + 0 BY <1>a, <2>2, <2>3
    <2>5. Dirty(y, 0..(0 + v - 1)) <=> array \cap Run(w, v) # {} BY <2>2, <2>4, DirtyIs
    <2> QED BY <2>2, <2>3, <2>4, <2>5
  <1> HIDE DEF Dirty
  <1>10. off = 0 => Run(s, head) = {} BY <1>1, <1>3 DEF Run
  <1>11. CASE off # 0 /\ n <= B - off
    <2>1. head = n BY <1>3, <1>11
    <2>2. ArrayTestClear(s, n) <=> ~Dirty(q, off..(off + head - 1)) BY <1>6, <1>11
    <2> QED BY <1>0, <1>7, <2>1, <2>2
  <1>12. CASE ~(off # 0 /\ n <= B - off)
    <2>1. s + head = byte * B /\ byte * B \in Nat
      <3>1. (q + 1) * B = q * B + B /\ byte * B \in Nat BY <1>4, Times
      <3>2. CASE off = 0 BY <1>1, <1>3, <1>4, <3>1, <3>2
      <3>3. CASE off # 0 BY <1>1, <1>2, <1>3, <1>4, <1>12, <3>1, <3>3
      <3> QED BY <3>2, <3>3
    <2>2. (byte + u) * B = byte * B + u * B BY <1>4, Times
    <2>3. s + n = (byte + u) * B + v BY <1>3, <1>5, <2>1, <2>2
    <2>4. ASSUME NEW k \in byte..(byte + u - 1)
          PROVE  k \in Nat /\ k * B \in Nat /\ s + head <= k * B /\ k * B + B <= (byte + u) * B
      <3>1. k \in Nat /\ byte <= k /\ k + 1 <= byte + u BY <1>4
      <3>2. byte * B <= k * B /\ (k + 1) * B <= (byte + u) * B BY <1>4, <3>1, Monotone
      <3>3. (k + 1) * B = k * B + B /\ k * B \in Nat BY <3>1, Times
      <3> QED BY <2>1, <3>1, <3>2, <3>3
    <2>5. ASSUME NEW x \in Nat, s + head <= x, x < (byte + u) * B
          PROVE  \E k \in byte..(byte + u - 1) : x \in Run(k * B, B)
      <3>1. PICK k \in Nat, m \in 0..(B - 1) :
              x \div B = k /\ x = k * B + m /\ k * B \in Nat
        BY Division
      <3>2. byte <= k BY <1>4, <2>1, <2>5, <3>1, Quotients
      <3>3. (byte + u) * B \in Nat BY <1>4, Times
      <3>4. ~(byte + u <= k)
        <4>1. ~((byte + u) * B <= x) BY <2>5, <3>3
        <4> QED BY <1>4, <3>1, <4>1, Quotients
      <3>5. k \in byte..(byte + u - 1) BY <1>4, <3>1, <3>2, <3>4
      <3>6. x \in Run(k * B, B) BY <3>1 DEF Run
      <3> QED BY <3>5, <3>6
    <2>6. PICK w \in Nat : w = (byte + u) * B /\ s + n = w + v /\ s + head <= w
      <3>1. (byte + u) * B \in Nat BY <1>4, Times
      <3> QED BY <1>5, <2>1, <2>2, <2>3, <3>1
    <2>7. ASSUME NEW x \in Run(s, n)
          PROVE  \/ x \in Run(s, head) \/ x \in Run(w, v)
                 \/ \E k \in byte..(byte + u - 1) : x \in Run(k * B, B)
      <3>1. x \in Nat /\ s <= x /\ x < w + v BY <2>6 DEF Run
      <3>2. CASE x < s + head BY <1>3, <3>1, <3>2 DEF Run
      <3>3. CASE w <= x BY <1>5, <2>6, <3>1, <3>3 DEF Run
      <3>4. CASE s + head <= x /\ x < w BY <2>5, <2>6, <3>1, <3>4
      <3> QED BY <1>3, <2>6, <3>1, <3>2, <3>3, <3>4
    <2>8. Run(s, head) \subseteq Run(s, n) BY <1>3 DEF Run
    <2>9. Run(w, v) \subseteq Run(s, n) BY <1>3, <1>5, <2>6 DEF Run
    <2>10. \A k \in byte..(byte + u - 1) : Run(k * B, B) \subseteq Run(s, n)
      <3> SUFFICES ASSUME NEW k \in byte..(byte + u - 1), NEW x \in Run(k * B, B)
                   PROVE  x \in Run(s, n)
        OBVIOUS
      <3>1. PICK y \in Nat : y = k * B /\ s + head <= y /\ y + B <= w BY <2>4, <2>6
      <3>2. x \in Nat /\ y <= x /\ x < y + B BY <3>1 DEF Run
      <3> QED BY <1>3, <1>5, <2>6, <3>1, <3>2 DEF Run
    <2>11. (off # 0 => ~Dirty(q, off..(off + head - 1))) <=> array \cap Run(s, head) = {}
      BY <1>7, <1>10
    <2>12. ~Dirty(byte + u, 0..(v - 1)) <=> array \cap Run(w, v) = {} BY <1>9, <2>6
    <2>13. (\A k \in byte..(byte + u - 1) : ~Dirty(k, 0..(B - 1)))
             <=> \A k \in byte..(byte + u - 1) : array \cap Run(k * B, B) = {}
      BY <1>8, <2>4
    <2>14. ArrayTestClear(s, n) <=>
             /\ off # 0 => ~Dirty(q, off..(off + head - 1))
             /\ ~Dirty(byte + u, 0..(v - 1))
             /\ \A k \in byte..(byte + u - 1) : ~Dirty(k, 0..(B - 1))
      BY <1>6, <1>12
    <2>16. ArrayTestClear(s, n) <=> array \cap Run(s, n) = {}
      <3>1. ASSUME ArrayTestClear(s, n), NEW x \in array, x \in Run(s, n) PROVE FALSE
        BY <2>7, <2>11, <2>12, <2>13, <2>14, <3>1
      <3>2. ASSUME array \cap Run(s, n) = {} PROVE ArrayTestClear(s, n)
        BY <2>8, <2>9, <2>10, <2>11, <2>12, <2>13, <2>14, <3>2
      <3> QED BY <3>1, <3>2
    <2> QED BY <1>0, <2>16
  <1> QED BY <1>11, <1>12

LEMMA ArrayIsRight == GInv => ArrayRight
  <1> SUFFICES ASSUME GInv PROVE ArrayRight OBVIOUS
  <1>1. end \in Nat /\ real_end \in Nat /\ array \subseteq 0..real_end /\ end <= real_end
    BY MaxBitAssumption DEF GInv
  <1>2. ASSUME NEW s \in 0..end, NEW e \in s..end
        PROVE  /\ ArrayTestClear(s, e - s + 1) = Array!TestClear(s, e - s + 1)
               /\ ArrayFirst(s, e, array) = Array!FirstSet(s, e)
               /\ ArrayFirst(s, e, (0..real_end) \ array) = Array!FirstZero(s, e)
               /\ Whole(s - 1) /\ Whole(e)
                    => ArrayRange(s, e - s + 1) = Array!GetRange(s, e - s + 1)
    <2>1. s \in Nat /\ e \in Nat /\ s <= e /\ e <= end /\ e - s + 1 \in Nat \ {0}
          /\ s + (e - s + 1) - 1 = e
      BY <1>1
    <2>2. \A b \in s..e : b \in 0..end /\ b <= end /\ b \in 0..real_end BY <1>1, <2>1
    <2>3. /\ (s..e) \cap array = (s..e) \cap {i \in array : i <= end}
          /\ (s..e) \cap ((0..real_end) \ array) = (s..e) \ {i \in array : i <= end}
          /\ array \cap s..e = {i \in array : i <= end} \cap s..e
      BY <2>2
    <2>4. Run(s, e - s + 1) = s..e BY <2>1 DEF Run
    <2>5. Array!Range(s, e - s + 1) = s..e BY <2>1 DEF Array!Range
    <2>6. ArrayTestClear(s, e - s + 1) = Array!TestClear(s, e - s + 1)
      <3>1. ArrayTestClear(s, e - s + 1) = (array \cap s..e = {})
        BY <2>1, <2>4, ArrayTestClearRight
      <3> QED BY <2>3, <2>5, <3>1 DEF Array!TestClear
    <2>7. ArrayFirst(s, e, array) = Array!FirstSet(s, e)
      <3>1. ArrayFirst(s, e, array) = Array!First((s..e) \cap array) BY <2>1, ArrayFirstRight
      <3> QED BY <2>3, <3>1 DEF Array!FirstSet
    <2>8. ArrayFirst(s, e, (0..real_end) \ array) = Array!FirstZero(s, e)
      <3>1. ArrayFirst(s, e, (0..real_end) \ array)
              = Array!First((s..e) \cap ((0..real_end) \ array))
        BY <2>1, ArrayFirstRight
      <3> QED BY <2>3, <3>1 DEF Array!FirstZero
    <2>9. ASSUME Whole(s - 1), Whole(e)
          PROVE  ArrayRange(s, e - s + 1) = Array!GetRange(s, e - s + 1)
      <3>1. ArrayRange(s, e - s + 1) = array \cap s..e BY <2>1, <2>9, ArrayRangeRight
      <3> QED BY <2>3, <2>5, <3>1 DEF Array!GetRange
    <2> QED BY <2>6, <2>7, <2>8, <2>9
  <1>3. \A i \in 0..real_end : Same(array, array \cup {i}) = (i \in array \/ i > end)
    BY <1>1, SameRight
  <1> QED BY <1>1, <1>2, <1>3 DEF ArrayRight

\* Whatever was marked, cleared, resized, padded, copied, written and read, and
\* wherever the cursors are: each search of the tree and each search of the
\* array, by bytes and words, answers as the set of bits would, and so do the
\* conversions of the layer, for every start, length and size of a cluster
\* (blkmap64_rb.c, blkmap64_ba.c, gen_bitmap.c, gen_bitmap64.c, bitmaps.c).
THEOREM AnswersAreRight == GSpec => []AnswersRight
  <1>1. GInv => AnswersRight
    BY TreeIsRight, ArrayIsRight, ConversionsAreRight DEF AnswersRight
  <1> QED BY <1>1, Invariant, PTL
=============================================================================
