----------------------------- MODULE XattrsProofs -----------------------------
(* What the operators of Xattrs do to the attributes of an inode and to the    *)
(* disk, for inodes and blocks of every size, and any number of them.          *)
EXTENDS Xattrs, SequenceTheorems, FiniteSetTheorems, TLAPS

-----------------------------------------------------------------------------
\* Sequences

IsSeq(s) == Len(s) \in Nat /\ s = [n \in 1..Len(s) |-> s[n]]

LEMMA InSeq ==
    ASSUME NEW s, IsSeq(s), NEW S, \A n \in 1..Len(s) : s[n] \in S
    PROVE  s \in Seq(S)
  <1>1. PICK k \in Nat : k = Len(s) /\ s = [n \in 1..k |-> s[n]] BY DEF IsSeq
  <1>2. s \in [1..k -> S] BY <1>1
  <1> QED BY <1>2

LEMMA SeqIs ==
    ASSUME NEW S, NEW s \in Seq(S)
    PROVE  IsSeq(s)
  BY LenProperties DEF IsSeq

\* A sequence given by its length and its elements
LEMMA MadeSeq ==
    ASSUME NEW k \in Nat, NEW f, f = [n \in 1..k |-> f[n]]
    PROVE  IsSeq(f) /\ Len(f) = k
  <1>1. f \in [1..k -> {f[n] : n \in 1..k}] BY Zenon
  <1>2. f \in Seq({f[n] : n \in 1..k}) BY <1>1, SMTT(30)
  <1>3. Len(f) \in Nat /\ DOMAIN f = 1..Len(f) BY <1>2, LenProperties
  <1>4. DOMAIN f = 1..k BY <1>1
  <1>5. Len(f) = k BY <1>3, <1>4
  <1> QED BY <1>5 DEF IsSeq

LEMMA SameSeq ==
    ASSUME NEW s, NEW t, IsSeq(s), IsSeq(t), Len(s) = Len(t), \A n \in 1..Len(s) : s[n] = t[n]
    PROVE  s = t
  BY DEF IsSeq

LEMMA PartOf ==
    ASSUME NEW s, IsSeq(s), NEW m \in 1..(Len(s) + 1), NEW n \in (m - 1)..Len(s)
    PROVE  /\ IsSeq(SubSeq(s, m, n)) /\ Len(SubSeq(s, m, n)) = n - m + 1
           /\ \A j \in 1..(n - m + 1) : SubSeq(s, m, n)[j] = s[m + j - 1]
  <1>0. Len(s) \in Nat /\ m \in Nat /\ n \in Nat BY DEF IsSeq
  <1>1. PICK S : S = {s[j] : j \in 1..Len(s)} OBVIOUS
  <1>2. \A j \in m..n : s[j] \in S BY <1>0, <1>1
  <1>3. /\ SubSeq(s, m, n) \in Seq(S)
        /\ Len(SubSeq(s, m, n)) = IF m <= n THEN n - m + 1 ELSE 0
        /\ \A j \in 1..(n - m + 1) : SubSeq(s, m, n)[j] = s[m + j - 1]
    <2>1. m \in Int /\ n \in Int BY <1>0
    <2> QED BY <1>2, <2>1, SubSeqProperties
  <1>4. Len(SubSeq(s, m, n)) = n - m + 1 BY <1>0, <1>3
  <1> QED BY <1>3, <1>4, SeqIs

LEMMA Joined ==
    ASSUME NEW s, NEW t, IsSeq(s), IsSeq(t)
    PROVE  /\ IsSeq(s \o t) /\ Len(s \o t) = Len(s) + Len(t)
           /\ \A j \in 1..(Len(s) + Len(t)) :
                (s \o t)[j] = IF j <= Len(s) THEN s[j] ELSE t[j - Len(s)]
  <1>1. PICK S : S = {s[j] : j \in 1..Len(s)} \cup {t[j] : j \in 1..Len(t)} OBVIOUS
  <1>2. s \in Seq(S) /\ t \in Seq(S) BY <1>1, InSeq
  <1>3. /\ s \o t \in Seq(S) /\ Len(s \o t) = Len(s) + Len(t)
        /\ \A j \in 1..(Len(s) + Len(t)) :
             (s \o t)[j] = IF j <= Len(s) THEN s[j] ELSE t[j - Len(s)]
    BY <1>2, ConcatProperties
  <1> QED BY <1>3, SeqIs

LEMMA Inserted ==
    ASSUME NEW s, IsSeq(s), NEW k \in 1..(Len(s) + 1), NEW a
    PROVE  /\ IsSeq(InsertAt(s, k, a)) /\ Len(InsertAt(s, k, a)) = Len(s) + 1
           /\ \A j \in 1..(Len(s) + 1) :
                InsertAt(s, k, a)[j] = IF j < k THEN s[j] ELSE IF j = k THEN a ELSE s[j - 1]
  <1>0. Len(s) \in Nat /\ k \in Nat BY DEF IsSeq
  <1>1. PICK p : p = SubSeq(s, 1, k - 1) OBVIOUS
  <1>2. PICK q : q = SubSeq(s, k, Len(s)) OBVIOUS
  <1>3. IsSeq(p) /\ Len(p) = k - 1 /\ \A j \in 1..(k - 1) : p[j] = s[j]
    <2>1. 1 \in 1..(Len(s) + 1) /\ k - 1 \in (1 - 1)..Len(s) BY <1>0
    <2>2. /\ IsSeq(p) /\ Len(p) = (k - 1) - 1 + 1
          /\ \A j \in 1..((k - 1) - 1 + 1) : p[j] = s[1 + j - 1]
      BY <1>1, <2>1, PartOf
    <2> QED BY <1>0, <2>2
  <1>4. /\ IsSeq(q) /\ Len(q) = Len(s) - k + 1
        /\ \A j \in 1..(Len(s) - k + 1) : q[j] = s[k + j - 1]
    <2>1. Len(s) \in (k - 1)..Len(s) BY <1>0
    <2> QED BY <1>2, <2>1, PartOf
  <1>5. IsSeq(<<a>>) /\ Len(<<a>>) = 1 /\ <<a>>[1] = a
    <2>1. <<a>> \in Seq({a}) OBVIOUS
    <2> QED BY <2>1, SeqIs
  <1>6. PICK r : r = p \o <<a>> OBVIOUS
  <1>7. IsSeq(r) /\ Len(r) = k /\ \A j \in 1..k : r[j] = IF j < k THEN s[j] ELSE a
    <2>1. /\ IsSeq(r) /\ Len(r) = Len(p) + 1
          /\ \A j \in 1..(Len(p) + 1) : r[j] = IF j <= Len(p) THEN p[j] ELSE <<a>>[j - Len(p)]
      BY <1>3, <1>5, <1>6, Joined
    <2> QED BY <1>0, <1>3, <1>5, <2>1
  <1>8. InsertAt(s, k, a) = r \o q BY <1>1, <1>2, <1>6 DEF InsertAt
  <1>9. /\ IsSeq(r \o q) /\ Len(r \o q) = Len(r) + Len(q)
        /\ \A j \in 1..(Len(r) + Len(q)) :
             (r \o q)[j] = IF j <= Len(r) THEN r[j] ELSE q[j - Len(r)]
    BY <1>4, <1>7, Joined
  <1>10. Len(r) + Len(q) = Len(s) + 1 BY <1>0, <1>4, <1>7
  <1>11. \A j \in 1..(Len(s) + 1) :
           (r \o q)[j] = IF j < k THEN s[j] ELSE IF j = k THEN a ELSE s[j - 1]
    BY <1>0, <1>4, <1>7, <1>9, <1>10
  <1> QED BY <1>8, <1>9, <1>10, <1>11

LEMMA Removed ==
    ASSUME NEW s, IsSeq(s), NEW k \in 1..Len(s)
    PROVE  /\ IsSeq(RemoveAt(s, k)) /\ Len(RemoveAt(s, k)) = Len(s) - 1
           /\ \A j \in 1..(Len(s) - 1) : RemoveAt(s, k)[j] = IF j < k THEN s[j] ELSE s[j + 1]
  <1>0. Len(s) \in Nat /\ k \in Nat BY DEF IsSeq
  <1>1. PICK p : p = SubSeq(s, 1, k - 1) OBVIOUS
  <1>2. PICK q : q = SubSeq(s, k + 1, Len(s)) OBVIOUS
  <1>3. IsSeq(p) /\ Len(p) = k - 1 /\ \A j \in 1..(k - 1) : p[j] = s[j]
    <2>1. 1 \in 1..(Len(s) + 1) /\ k - 1 \in (1 - 1)..Len(s) BY <1>0
    <2>2. /\ IsSeq(p) /\ Len(p) = (k - 1) - 1 + 1
          /\ \A j \in 1..((k - 1) - 1 + 1) : p[j] = s[1 + j - 1]
      BY <1>1, <2>1, PartOf
    <2> QED BY <1>0, <2>2
  <1>4. IsSeq(q) /\ Len(q) = Len(s) - k /\ \A j \in 1..(Len(s) - k) : q[j] = s[k + j]
    <2>1. k + 1 \in 1..(Len(s) + 1) /\ Len(s) \in ((k + 1) - 1)..Len(s) BY <1>0
    <2>2. /\ IsSeq(q) /\ Len(q) = Len(s) - (k + 1) + 1
          /\ \A j \in 1..(Len(s) - (k + 1) + 1) : q[j] = s[(k + 1) + j - 1]
      BY <1>2, <2>1, PartOf
    <2> QED BY <1>0, <2>2
  <1>5. RemoveAt(s, k) = p \o q BY <1>1, <1>2 DEF RemoveAt
  <1>6. /\ IsSeq(p \o q) /\ Len(p \o q) = Len(p) + Len(q)
        /\ \A j \in 1..(Len(p) + Len(q)) :
             (p \o q)[j] = IF j <= Len(p) THEN p[j] ELSE q[j - Len(p)]
    BY <1>3, <1>4, Joined
  <1>7. Len(p) + Len(q) = Len(s) - 1 BY <1>0, <1>3, <1>4
  <1>8. \A j \in 1..(Len(s) - 1) : (p \o q)[j] = IF j < k THEN s[j] ELSE s[j + 1]
    <2> TAKE j \in 1..(Len(s) - 1)
    <2>1. (p \o q)[j] = IF j <= k - 1 THEN p[j] ELSE q[j - (k - 1)] BY <1>3, <1>6, <1>7
    <2>2. CASE j < k
      <3>1. (p \o q)[j] = s[j] BY <1>0, <1>3, <2>1, <2>2
      <3> QED BY <2>2, <3>1
    <2>3. CASE ~(j < k)
      <3>1. j - (k - 1) \in 1..(Len(s) - k) /\ k + (j - (k - 1)) = j + 1 BY <1>0, <2>3
      <3>2. (p \o q)[j] = s[j + 1] BY <1>0, <1>4, <2>1, <2>3, <3>1
      <3> QED BY <2>3, <3>2
    <2> QED BY <2>2, <2>3
  <1> QED BY <1>5, <1>6, <1>7, <1>8

-----------------------------------------------------------------------------
\* Numbers

\* The least member of a set of numbers, by way of the intervals 1..x, which are
\* finite sets and so well ordered by inclusion; and induction from it.
LEMMA Least ==
    ASSUME NEW S \in SUBSET Nat, S # {}
    PROVE  \E x \in S : \A y \in S : x <= y
  <1> DEFINE T == {1..x : x \in S}
             R == StrictSubsetOrdering(Nat)
  <1>1. IsWellFoundedOn(R, FiniteSubsetsOf(Nat)) BY FS_StrictSubsetOrderingWellFounded
  <1>2. \A x \in S : 1..x \in FiniteSubsetsOf(Nat)
    <2> TAKE x \in S
    <2>1. IsFiniteSet(1..x) BY FS_Interval
    <2>2. 1..x \in SUBSET Nat OBVIOUS
    <2> QED BY <2>1, <2>2 DEF FiniteSubsetsOf
  <1>3. T \subseteq FiniteSubsetsOf(Nat) /\ T # {} BY <1>2
  <1>4. ASSUME NEW x \in S, NEW y \in S, y < x PROVE <<1..y, 1..x>> \in R
    <2>1. 1..y \subseteq 1..x /\ x \in 1..x /\ x \notin 1..y BY <1>4
    <2>2. 1..y \in SUBSET Nat /\ 1..x \in SUBSET Nat OBVIOUS
    <2> QED BY <2>1, <2>2 DEF StrictSubsetOrdering
  <1> HIDE DEF R
  <1>5. \E t \in T : \A u \in T : <<u, t>> \notin R
    <2> HIDE DEF T
    <2> QED BY <1>1, <1>3, WFMin
  <1>6. PICK x \in S : \A u \in T : <<u, 1..x>> \notin R BY <1>5
  <1>7. ASSUME NEW y \in S PROVE x <= y
    <2>1. 1..y \in T OBVIOUS
    <2>2. ~(y < x) BY <1>4, <1>6, <2>1
    <2> QED BY <2>2
  <1> QED BY <1>7

LEMMA Induction ==
    ASSUME NEW S \in SUBSET Nat, 0 \in S, \A n \in S : n + 1 \in S
    PROVE  \A n \in Nat : n \in S
  <1>1. SUFFICES ASSUME Nat \ S # {} PROVE FALSE OBVIOUS
  <1>2. PICK x \in Nat \ S : \A y \in Nat \ S : x <= y BY <1>1, Least
  <1>3. x # 0 /\ x - 1 \in Nat /\ (x - 1) + 1 = x BY <1>2
  <1>4. x - 1 \in S BY <1>2, <1>3
  <1> QED BY <1>3, <1>4

\* The sums of the first elements of a sequence
IsSum(f, q) == /\ f[0] = 0
               /\ \A n \in 1..Len(q) : f[n] = f[n - 1] + q[n]

Numbers(q) == IsSeq(q) /\ \A n \in 1..Len(q) : q[n] \in Nat

LEMMA SumExists ==
    ASSUME NEW q, Numbers(q)
    PROVE  \E f : /\ f = [n \in 0..Len(q) |-> IF n = 0 THEN 0 ELSE f[n - 1] + q[n]]
                  /\ IsSum(f, q)
  <1>0. PICK k \in Nat : k = Len(q) BY DEF Numbers, IsSeq
  <1> DEFINE Good(n, f) == f \in [0..n -> Int] /\ f[0] = 0 /\ \A m \in 1..n : f[m] = f[m - 1] + q[m]
             S == {n \in Nat : n <= k => \E f : Good(n, f)}
  <1>1. 0 \in S
    <2>1. PICK f : f = [n \in {0} |-> 0] OBVIOUS
    <2>2. 0..0 = {0} /\ 1..0 = {} OBVIOUS
    <2>3. Good(0, f) BY <2>1, <2>2
    <2> QED BY <2>3
  <1>2. \A n \in S : n + 1 \in S
    <2> TAKE n \in S
    <2>1. SUFFICES ASSUME n + 1 <= k PROVE \E f : Good(n + 1, f) OBVIOUS
    <2>2. PICK f : Good(n, f) BY <2>1
    <2>3. PICK g : g = [m \in 0..(n + 1) |-> IF m = n + 1 THEN f[n] + q[n + 1] ELSE f[m]] OBVIOUS
    <2>4. f[n] \in Int /\ q[n + 1] \in Nat /\ n \in Nat BY <1>0, <2>1, <2>2 DEF Numbers
    <2>5. g \in [0..(n + 1) -> Int] BY <2>2, <2>3, <2>4
    <2>6. g[0] = 0 BY <2>2, <2>3, <2>4
    <2>7. ASSUME NEW m \in 1..(n + 1) PROVE g[m] = g[m - 1] + q[m]
      <3>1. m - 1 \in 0..(n + 1) /\ m - 1 # n + 1 /\ m \in 0..(n + 1) BY <2>4
      <3>2. g[m - 1] = f[m - 1] BY <2>3, <3>1
      <3>3. CASE m = n + 1
        <4>1. g[m] = f[n] + q[n + 1] /\ m - 1 = n BY <2>3, <2>4, <3>1, <3>3
        <4> QED BY <3>2, <3>3, <4>1
      <3>4. CASE m # n + 1
        <4>1. g[m] = f[m] /\ m \in 1..n BY <2>3, <2>4, <3>1, <3>4
        <4> QED BY <2>2, <3>2, <4>1
      <3> QED BY <3>3, <3>4
    <2> QED BY <2>5, <2>6, <2>7
  <1>3. S \in SUBSET Nat OBVIOUS
  <1>4. k \in S
    <2> HIDE DEF S
    <2> QED BY <1>1, <1>2, <1>3, Induction
  <1>5. PICK f : Good(k, f) BY <1>4
  <1>6. f = [n \in 0..k |-> IF n = 0 THEN 0 ELSE f[n - 1] + q[n]]
    <2>1. f = [n \in 0..k |-> f[n]] BY <1>5
    <2>2. \A n \in 0..k : f[n] = IF n = 0 THEN 0 ELSE f[n - 1] + q[n] BY <1>5
    <2> HIDE DEF Good
    <2> QED BY <2>1, <2>2
  <1>7. IsSum(f, q) BY <1>0, <1>5 DEF IsSum
  <1> QED BY <1>0, <1>6, <1>7

LEMMA TotalIs ==
    ASSUME NEW q, Numbers(q)
    PROVE  \E f : IsSum(f, q) /\ Total(q) = f[Len(q)]
  <1>1. PICK f : f = CHOOSE sum : sum = [n \in 0..Len(q) |-> IF n = 0 THEN 0 ELSE sum[n - 1] + q[n]]
    OBVIOUS
  <1>2. f = [n \in 0..Len(q) |-> IF n = 0 THEN 0 ELSE f[n - 1] + q[n]]
    BY <1>1, SumExists, Zenon
  <1>3. IsSum(f, q)
    <2>1. Len(q) \in Nat BY DEF Numbers, IsSeq
    <2>2. f[0] = 0 BY <1>2, <2>1
    <2>3. \A n \in 1..Len(q) : f[n] = f[n - 1] + q[n] BY <1>2, <2>1
    <2> QED BY <2>2, <2>3 DEF IsSum
  <1>4. Total(q) = f[Len(q)] BY <1>1 DEF Total
  <1> QED BY <1>3, <1>4

LEMMA SumsAreNat ==
    ASSUME NEW q, Numbers(q), NEW f, IsSum(f, q)
    PROVE  \A n \in 0..Len(q) : f[n] \in Nat
  <1>0. PICK k \in Nat : k = Len(q) BY DEF Numbers, IsSeq
  <1> DEFINE S == {n \in Nat : n <= k => f[n] \in Nat}
  <1>1. 0 \in S BY DEF IsSum
  <1>2. \A n \in S : n + 1 \in S
    <2> TAKE n \in S
    <2>1. SUFFICES ASSUME n + 1 <= k PROVE f[n + 1] \in Nat OBVIOUS
    <2>2. n + 1 \in 1..Len(q) /\ (n + 1) - 1 = n /\ f[n] \in Nat BY <1>0, <2>1
    <2>3. f[n + 1] = f[n] + q[n + 1] BY <2>2 DEF IsSum
    <2> QED BY <2>2, <2>3 DEF Numbers
  <1>3. \A n \in Nat : n \in S
    <2>1. S \in SUBSET Nat OBVIOUS
    <2> HIDE DEF S
    <2> QED BY <1>1, <1>2, <2>1, Induction
  <1> QED BY <1>0, <1>3

LEMMA TotalNat == ASSUME NEW q, Numbers(q) PROVE Total(q) \in Nat
  <1>1. PICK f : IsSum(f, q) /\ Total(q) = f[Len(q)] BY TotalIs
  <1>2. Len(q) \in 0..Len(q) BY DEF Numbers, IsSeq
  <1> QED BY <1>1, <1>2, SumsAreNat

\* Sums of sequences that agree
LEMMA TotalEmpty == Total(<<>>) = 0
  <1>1. Numbers(<<>>)
    <2>1. <<>> \in Seq({}) /\ Len(<<>>) = 0 OBVIOUS
    <2>2. IsSeq(<<>>) BY <2>1, SeqIs
    <2>3. 1..Len(<<>>) = {} BY <2>1
    <2> QED BY <2>2, <2>3 DEF Numbers
  <1>2. PICK f : IsSum(f, <<>>) /\ Total(<<>>) = f[Len(<<>>)] BY <1>1, TotalIs
  <1> QED BY <1>2 DEF IsSum

LEMMA TotalInserted ==
    ASSUME NEW q, Numbers(q), NEW k \in 1..(Len(q) + 1), NEW x \in Nat
    PROVE  Numbers(InsertAt(q, k, x)) /\ Total(InsertAt(q, k, x)) = Total(q) + x
  <1>0. PICK l \in Nat : l = Len(q) BY DEF Numbers, IsSeq
  <1>k. k \in Nat /\ k >= 1 /\ k <= l + 1 BY <1>0
  <1>1. PICK r : r = InsertAt(q, k, x) OBVIOUS
  <1>2. /\ IsSeq(r) /\ Len(r) = l + 1
        /\ \A j \in 1..(l + 1) : r[j] = IF j < k THEN q[j] ELSE IF j = k THEN x ELSE q[j - 1]
    BY <1>0, <1>1, Inserted DEF Numbers
  <1>3. \A j \in 1..l : q[j] \in Nat BY <1>0 DEF Numbers
  <1>4. Numbers(r)
    <2>1. ASSUME NEW j \in 1..(l + 1) PROVE r[j] \in Nat
      <3>1. CASE j < k
        <4>1. j \in 1..l BY <1>k, <3>1
        <4> QED BY <1>2, <1>3, <3>1, <4>1
      <3>2. CASE j = k BY <1>2, <1>k, <3>2
      <3>3. CASE j > k
        <4>1. j - 1 \in 1..l /\ ~(j < k) /\ j # k BY <1>k, <3>3
        <4> QED BY <1>2, <1>3, <4>1
      <3> QED BY <1>k, <3>1, <3>2, <3>3
    <2> QED BY <1>2, <2>1 DEF Numbers
  <1>5. PICK f : IsSum(f, q) /\ Total(q) = f[l] BY <1>0, TotalIs
  <1>6. PICK g : IsSum(g, r) /\ Total(r) = g[l + 1] BY <1>2, <1>4, TotalIs
  <1>7. \A n \in 0..l : f[n] \in Nat BY <1>0, <1>5, SumsAreNat
  <1> DEFINE S == {n \in Nat : n <= l + 1 => g[n] = IF n < k THEN f[n] ELSE f[n - 1] + x}
  <1>8. 0 \in S BY <1>0, <1>5, <1>6 DEF IsSum
  <1>9. \A n \in S : n + 1 \in S
    <2> TAKE n \in S
    <2>1. SUFFICES ASSUME n + 1 <= l + 1
                   PROVE  g[n + 1] = IF n + 1 < k THEN f[n + 1] ELSE f[n] + x
      OBVIOUS
    <2>2. n \in Nat /\ n + 1 \in 1..(l + 1) /\ (n + 1) - 1 = n BY <2>1
    <2>3. g[n + 1] = g[n] + r[n + 1] BY <1>2, <1>6, <2>2 DEF IsSum
    <2>4. g[n] = IF n < k THEN f[n] ELSE f[n - 1] + x BY <2>1
    <2>5. CASE n + 1 < k
      <3>1. g[n] = f[n] /\ r[n + 1] = q[n + 1] BY <1>2, <1>k, <2>2, <2>4, <2>5
      <3>2. n + 1 \in 1..l BY <1>k, <2>2, <2>5
      <3>3. f[n + 1] = f[n] + q[n + 1] BY <1>0, <1>5, <2>2, <3>2 DEF IsSum
      <3> QED BY <2>3, <2>5, <3>1, <3>3
    <2>6. CASE n + 1 = k
      <3>1. g[n] = f[n] /\ r[n + 1] = x BY <1>2, <1>k, <2>2, <2>4, <2>6
      <3> QED BY <2>3, <2>6, <3>1, <1>k
    <2>7. CASE n + 1 > k
      <3>1. g[n] = f[n - 1] + x /\ r[n + 1] = q[n] BY <1>2, <1>k, <2>2, <2>4, <2>7
      <3>2. n \in 1..l BY <1>k, <2>1, <2>2, <2>7
      <3>3. f[n] = f[n - 1] + q[n] BY <1>0, <1>5, <3>2 DEF IsSum
      <3>4. f[n - 1] \in Nat /\ q[n] \in Nat BY <1>3, <1>7, <3>2
      <3>5. g[n + 1] = f[n] + x BY <2>3, <3>1, <3>3, <3>4
      <3> QED BY <1>k, <2>2, <2>7, <3>5
    <2> QED BY <1>k, <2>2, <2>5, <2>6, <2>7
  <1>10. \A n \in Nat : n \in S
    <2>1. S \in SUBSET Nat OBVIOUS
    <2> HIDE DEF S
    <2> QED BY <1>8, <1>9, <2>1, Induction
  <1>11. g[l + 1] = f[l] + x
    <2>1. l + 1 \in S BY <1>10
    <2>2. ~(l + 1 < k) /\ (l + 1) - 1 = l BY <1>k
    <2> QED BY <2>1, <2>2
  <1> QED BY <1>1, <1>4, <1>5, <1>6, <1>11

LEMMA TotalRemoved ==
    ASSUME NEW q, Numbers(q), NEW k \in 1..Len(q)
    PROVE  Numbers(RemoveAt(q, k)) /\ Total(RemoveAt(q, k)) = Total(q) - q[k]
  <1>0. PICK l \in Nat : l = Len(q) BY DEF Numbers, IsSeq
  <1>k. k \in Nat /\ k >= 1 /\ k <= l BY <1>0
  <1>1. PICK r : r = RemoveAt(q, k) OBVIOUS
  <1>2. /\ IsSeq(r) /\ Len(r) = l - 1
        /\ \A j \in 1..(l - 1) : r[j] = IF j < k THEN q[j] ELSE q[j + 1]
    BY <1>0, <1>1, Removed DEF Numbers
  <1>3. \A j \in 1..l : q[j] \in Nat BY <1>0 DEF Numbers
  <1>4. Numbers(r)
    <2>1. ASSUME NEW j \in 1..(l - 1) PROVE r[j] \in Nat
      <3>1. j \in 1..l /\ j + 1 \in 1..l BY <1>0
      <3> QED BY <1>2, <1>3, <3>1
    <2> QED BY <1>2, <2>1 DEF Numbers
  <1>5. q[k] \in Nat /\ k \in 1..(Len(r) + 1) BY <1>0, <1>2, <1>3
  <1>6. PICK s : s = InsertAt(r, k, q[k]) OBVIOUS
  <1>7. /\ IsSeq(s) /\ Len(s) = l
        /\ \A j \in 1..l : s[j] = IF j < k THEN r[j] ELSE IF j = k THEN q[k] ELSE r[j - 1]
    <2>1. /\ IsSeq(s) /\ Len(s) = Len(r) + 1
          /\ \A j \in 1..(Len(r) + 1) :
               s[j] = IF j < k THEN r[j] ELSE IF j = k THEN q[k] ELSE r[j - 1]
      BY <1>2, <1>5, <1>6, Inserted
    <2>2. Len(r) + 1 = l BY <1>0, <1>2
    <2> QED BY <2>1, <2>2
  <1>8. ASSUME NEW j \in 1..l PROVE s[j] = q[j]
    <2>1. CASE j < k
      <3>1. j \in 1..(l - 1) BY <1>k, <2>1
      <3> QED BY <1>2, <1>7, <2>1, <3>1
    <2>2. CASE j = k BY <1>7, <1>k, <2>2
    <2>3. CASE j > k
      <3>1. j - 1 \in 1..(l - 1) /\ ~(j - 1 < k) /\ (j - 1) + 1 = j BY <1>k, <2>3
      <3>2. s[j] = r[j - 1] BY <1>7, <1>k, <2>3
      <3>3. r[j - 1] = q[j] BY <1>2, <3>1
      <3> QED BY <3>2, <3>3
    <2> QED BY <1>k, <2>1, <2>2, <2>3
  <1>9. s = q BY <1>0, <1>7, <1>8, SameSeq DEF Numbers
  <1>10. Total(q) = Total(r) + q[k] BY <1>4, <1>5, <1>6, <1>9, TotalInserted
  <1>11. Total(r) \in Nat BY <1>4, TotalNat
  <1> QED BY <1>1, <1>4, <1>5, <1>10, <1>11

LEMMA TotalAdded ==
    ASSUME NEW p, Numbers(p), NEW q, Numbers(q), NEW r, Numbers(r), Len(p) = Len(r), Len(q) = Len(r),
           \A n \in 1..Len(r) : r[n] = p[n] + q[n]
    PROVE  Total(r) = Total(p) + Total(q)
  <1>0. PICK l \in Nat : l = Len(r) BY DEF Numbers, IsSeq
  <1>1. PICK f : IsSum(f, p) /\ Total(p) = f[l] BY <1>0, TotalIs
  <1>2. PICK g : IsSum(g, q) /\ Total(q) = g[l] BY <1>0, TotalIs
  <1>3. PICK h : IsSum(h, r) /\ Total(r) = h[l] BY <1>0, TotalIs
  <1>4. \A n \in 0..l : f[n] \in Nat /\ g[n] \in Nat BY <1>0, <1>1, <1>2, SumsAreNat
  <1> DEFINE S == {n \in Nat : n <= l => h[n] = f[n] + g[n]}
  <1>5. 0 \in S BY <1>1, <1>2, <1>3 DEF IsSum
  <1>6. \A n \in S : n + 1 \in S
    <2> TAKE n \in S
    <2>1. SUFFICES ASSUME n + 1 <= l PROVE h[n + 1] = f[n + 1] + g[n + 1] OBVIOUS
    <2>2. n + 1 \in 1..l /\ n \in 0..l /\ (n + 1) - 1 = n /\ h[n] = f[n] + g[n] BY <2>1
    <2>3. /\ f[n + 1] = f[n] + p[n + 1] /\ g[n + 1] = g[n] + q[n + 1]
          /\ h[n + 1] = h[n] + r[n + 1]
      BY <1>0, <1>1, <1>2, <1>3, <2>2 DEF IsSum
    <2>4. p[n + 1] \in Nat /\ q[n + 1] \in Nat /\ r[n + 1] = p[n + 1] + q[n + 1]
      BY <1>0, <2>2 DEF Numbers
    <2> QED BY <1>4, <2>2, <2>3, <2>4, SMTT(30)
  <1>7. \A n \in Nat : n \in S
    <2>1. S \in SUBSET Nat OBVIOUS
    <2> HIDE DEF S
    <2> QED BY <1>5, <1>6, <2>1, Induction
  <1> QED BY <1>1, <1>2, <1>3, <1>7

LEMMA TotalFours ==
    ASSUME NEW q, Numbers(q), \A n \in 1..Len(q) : q[n] % 4 = 0
    PROVE  Total(q) % 4 = 0
  <1>0. PICK l \in Nat : l = Len(q) BY DEF Numbers, IsSeq
  <1>1. PICK f : IsSum(f, q) /\ Total(q) = f[l] BY <1>0, TotalIs
  <1>2. \A n \in 0..l : f[n] \in Nat BY <1>0, <1>1, SumsAreNat
  <1> DEFINE S == {n \in Nat : n <= l => f[n] % 4 = 0}
  <1>3. 0 \in S BY <1>1 DEF IsSum
  <1>4. \A n \in S : n + 1 \in S
    <2> TAKE n \in S
    <2>1. SUFFICES ASSUME n + 1 <= l PROVE f[n + 1] % 4 = 0 OBVIOUS
    <2>2. n + 1 \in 1..l /\ n \in 0..l /\ (n + 1) - 1 = n /\ f[n] % 4 = 0 BY <2>1
    <2>3. f[n + 1] = f[n] + q[n + 1] BY <1>0, <1>1, <2>2 DEF IsSum
    <2>4. q[n + 1] \in Nat /\ q[n + 1] % 4 = 0 BY <1>0, <2>2 DEF Numbers
    <2>5. \A a, b \in Nat : a % 4 = 0 /\ b % 4 = 0 => (a + b) % 4 = 0 OBVIOUS
    <2> QED BY <1>2, <2>2, <2>3, <2>4, <2>5, ZenonT(30)
  <1>5. \A n \in Nat : n \in S
    <2>1. S \in SUBSET Nat OBVIOUS
    <2> HIDE DEF S
    <2> QED BY <1>3, <1>4, <2>1, Induction
  <1> QED BY <1>1, <1>5

-----------------------------------------------------------------------------
\* Names and sizes

AllNames == {"system.data", "system.posix_acl_access", "user.a", "user.bb"}

LEMMA Constants ==
    /\ Names \subseteq AllNames /\ 0 \notin EaInodes /\ EaInodes \subseteq Nat
    /\ IsFiniteSet(Inodes) /\ IsFiniteSet(EaBlocks) /\ NoBlock \notin EaBlocks
    /\ InodeSize \in Nat /\ BlockSize \in Nat /\ InodeSize % 4 = 0 /\ BlockSize % 4 = 0
    /\ Inodes # {} /\ Lens \subseteq Nat
  <1>1. IsFiniteSet(Inodes \cup EaBlocks) BY XattrsAssumption
  <1>2. IsFiniteSet(Inodes) /\ IsFiniteSet(EaBlocks) BY <1>1, FS_Subset
  <1> QED BY <1>2, XattrsAssumption DEF AllNames

LEMMA Rounded ==
    ASSUME NEW n \in Nat
    PROVE  Round4(n) \in Nat /\ Round4(n) % 4 = 0 /\ n <= Round4(n) /\ Round4(n) <= n + 3
  <1>1. PICK m \in Nat : m = n + 3 OBVIOUS
  <1>2. m \div 4 \in Nat /\ m = 4 * (m \div 4) + (m % 4) /\ m % 4 \in 0..3 OBVIOUS
  <1>3. PICK q \in Nat, r \in 0..3 : q = m \div 4 /\ m = 4 * q + r BY <1>2
  <1>4. Round4(n) = q * 4 BY <1>1, <1>3 DEF Round4
  <1>5. (q * 4) % 4 = 0 OBVIOUS
  <1> QED BY <1>1, <1>3, <1>4, <1>5

LEMMA NameSizes ==
    ASSUME NEW name \in AllNames
    PROVE  /\ NameLen(name) \in Nat /\ NameLen(name) >= 16 /\ NameLen(name) % 4 = 0
           /\ name = "system.data" => NameLen(name) = 20
  <1>1. Key(name)[2] \in Nat /\ (name = "system.data" => Key(name)[2] = 4) BY DEF AllNames, Key
  <1>2. PICK k \in Nat : k = Key(name)[2] + 16 BY <1>1
  <1>3. NameLen(name) = Round4(k) BY <1>2 DEF NameLen
  <1>4. k = 20 => Round4(k) = 20 BY DEF Round4
  <1>5. k >= 16 BY <1>1, <1>2
  <1>6. PICK r : r = Round4(k) OBVIOUS
  <1>7. r \in Nat /\ r % 4 = 0 /\ k <= r BY <1>6, Rounded
  <1>8. r >= 16 BY <1>5, <1>7
  <1>9. name = "system.data" => k = 20 BY <1>1, <1>2
  <1>10. name = "system.data" => r = 20 BY <1>4, <1>6, <1>9
  <1>11. NameLen(name) = r BY <1>3, <1>6
  <1> QED BY <1>7, <1>8, <1>10, <1>11

\* FindPosition's order is one.
LEMMA Order ==
    ASSUME NEW k \in AllNames, NEW l \in AllNames, NEW m \in AllNames
    PROVE  /\ SortsBefore(Key(k), Key(l)) \/ SortsBefore(Key(l), Key(k))
           /\ SortsBefore(Key(k), Key(l)) /\ SortsBefore(Key(l), Key(m))
                => SortsBefore(Key(k), Key(m))
  <1>1. \A n \in AllNames : \E a, b, c \in Int : Key(n) = <<a, b, c>> BY DEF AllNames, Key
  <1>2. PICK a1, b1, c1 \in Int : Key(k) = <<a1, b1, c1>> BY <1>1
  <1>3. PICK a2, b2, c2 \in Int : Key(l) = <<a2, b2, c2>> BY <1>1
  <1>4. PICK a3, b3, c3 \in Int : Key(m) = <<a3, b3, c3>> BY <1>1
  <1> QED BY <1>2, <1>3, <1>4 DEF SortsBefore

AttrOk(a) == /\ a = Attr(a.name, a.value, a.ea)
             /\ a.name \in AllNames /\ a.value.len \in Nat /\ a.ea \in EaInodes \cup {0}

LEMMA AttrSizes ==
    ASSUME NEW a, AttrOk(a)
    PROVE  AttrSize(a) \in Nat /\ AttrSize(a) >= 16 /\ AttrSize(a) % 4 = 0
  <1>1. PICK x \in Nat : x = NameLen(a.name) /\ x >= 16 /\ x % 4 = 0 BY NameSizes DEF AttrOk
  <1>2. PICK y \in Nat : y = Round4(a.value.len) /\ y % 4 = 0 BY Rounded DEF AttrOk
  <1>3. AttrSize(a) = x + (IF a.ea # 0 THEN 0 ELSE y) BY <1>1, <1>2 DEF AttrSize, Needed
  <1>4. (x + y) % 4 = 0 BY <1>1, <1>2
  <1> QED BY <1>1, <1>2, <1>3, <1>4

List(s) == IsSeq(s) /\ \A n \in 1..Len(s) : AttrOk(s[n])
AttrSizesOf(s) == [n \in 1..Len(s) |-> AttrSize(s[n])]

LEMMA SizesAreNumbers ==
    ASSUME NEW s, List(s)
    PROVE  /\ Numbers(AttrSizesOf(s)) /\ Len(AttrSizesOf(s)) = Len(s)
           /\ \A n \in 1..Len(s) : AttrSizesOf(s)[n] = AttrSize(s[n])
           /\ SpaceUsed(s) = Total(AttrSizesOf(s))
  <1>1. PICK q : q = AttrSizesOf(s) OBVIOUS
  <1>2. q = [n \in 1..Len(s) |-> AttrSize(s[n])] BY <1>1 DEF AttrSizesOf
  <1>3. \A n \in 1..Len(s) : q[n] = AttrSize(s[n]) BY <1>2
  <1>4. q = [n \in 1..Len(s) |-> q[n]] BY <1>2
  <1>5. IsSeq(q) /\ Len(q) = Len(s)
    <2>1. Len(s) \in Nat BY DEF List, IsSeq
    <2> QED BY <1>4, <2>1, MadeSeq
  <1>6. Numbers(q) BY <1>3, <1>5, AttrSizes DEF Numbers, List
  <1>7. SpaceUsed(s) = Total(q) BY <1>2 DEF SpaceUsed
  <1> QED BY <1>1, <1>3, <1>5, <1>6, <1>7

LEMMA SpaceIs ==
    ASSUME NEW s, List(s)
    PROVE  SpaceUsed(s) \in Nat /\ SpaceUsed(s) % 4 = 0 /\ (s = <<>> => SpaceUsed(s) = 0)
  <1>1. PICK q : /\ Numbers(q) /\ Len(q) = Len(s) /\ SpaceUsed(s) = Total(q)
                 /\ \A n \in 1..Len(s) : q[n] = AttrSize(s[n])
    BY SizesAreNumbers
  <1>2. \A n \in 1..Len(q) : q[n] % 4 = 0 BY <1>1, AttrSizes DEF List
  <1>3. Total(q) \in Nat /\ Total(q) % 4 = 0 BY <1>1, <1>2, TotalNat, TotalFours
  <1>4. s = <<>> => Total(q) = 0
    <2>1. s = <<>> => q = <<>>
      <3> HAVE s = <<>>
      <3>1. Len(q) = 0 /\ IsSeq(q) BY <1>1 DEF Numbers
      <3> QED BY <3>1, InSeq
    <2> QED BY <2>1, TotalEmpty
  <1> QED BY <1>1, <1>3, <1>4

LEMMA SpaceInserted ==
    ASSUME NEW s, List(s), NEW k \in 1..(Len(s) + 1), NEW a, AttrOk(a)
    PROVE  List(InsertAt(s, k, a)) /\ SpaceUsed(InsertAt(s, k, a)) = SpaceUsed(s) + AttrSize(a)
  <1>0. PICK l \in Nat : l = Len(s) BY DEF List, IsSeq
  <1>k. k \in Nat /\ k >= 1 /\ k <= l + 1 BY <1>0
  <1>1. PICK t : t = InsertAt(s, k, a) OBVIOUS
  <1>2. /\ IsSeq(t) /\ Len(t) = l + 1
        /\ \A j \in 1..(l + 1) : t[j] = IF j < k THEN s[j] ELSE IF j = k THEN a ELSE s[j - 1]
    BY <1>0, <1>1, Inserted DEF List
  <1>3. List(t)
    <2>1. ASSUME NEW j \in 1..(l + 1) PROVE AttrOk(t[j])
      <3>1. CASE j < k
        <4>1. j \in 1..l /\ t[j] = s[j] BY <1>2, <1>k, <3>1
        <4> QED BY <1>0, <4>1 DEF List
      <3>2. CASE j = k BY <1>2, <1>k, <3>2
      <3>3. CASE j > k
        <4>1. j - 1 \in 1..l /\ t[j] = s[j - 1] BY <1>2, <1>k, <3>3
        <4> QED BY <1>0, <4>1 DEF List
      <3> QED BY <1>k, <3>1, <3>2, <3>3
    <2> QED BY <1>2, <2>1 DEF List
  <1>4. PICK q : q = AttrSizesOf(s) OBVIOUS
  <1>5. PICK r : r = AttrSizesOf(t) OBVIOUS
  <1>6. PICK x \in Nat : x = AttrSize(a) BY AttrSizes
  <1>7. /\ Numbers(q) /\ Len(q) = l /\ SpaceUsed(s) = Total(q)
        /\ \A n \in 1..l : q[n] = AttrSize(s[n])
    BY <1>0, <1>4, SizesAreNumbers
  <1>8. /\ Numbers(r) /\ Len(r) = l + 1 /\ SpaceUsed(t) = Total(r)
        /\ \A n \in 1..(l + 1) : r[n] = AttrSize(t[n])
    BY <1>2, <1>3, <1>5, SizesAreNumbers
  <1>9. PICK u : u = InsertAt(q, k, x) OBVIOUS
  <1>10. Total(u) = Total(q) + x BY <1>0, <1>7, <1>9, TotalInserted
  <1>11. /\ IsSeq(u) /\ Len(u) = l + 1
         /\ \A j \in 1..(l + 1) : u[j] = IF j < k THEN q[j] ELSE IF j = k THEN x ELSE q[j - 1]
    BY <1>0, <1>7, <1>9, Inserted, SMTT(30) DEF Numbers
  <1>12. ASSUME NEW j \in 1..(l + 1) PROVE u[j] = r[j]
    <2>1. CASE j < k
      <3>1. j \in 1..l /\ u[j] = q[j] /\ t[j] = s[j] BY <1>2, <1>11, <1>k, <2>1
      <3> QED BY <1>7, <1>8, <3>1
    <2>2. CASE j = k
      <3>1. u[j] = x /\ t[j] = a BY <1>2, <1>11, <1>k, <2>2
      <3> QED BY <1>6, <1>8, <3>1
    <2>3. CASE j > k
      <3>1. j - 1 \in 1..l /\ u[j] = q[j - 1] /\ t[j] = s[j - 1] BY <1>2, <1>11, <1>k, <2>3
      <3> QED BY <1>7, <1>8, <3>1
    <2> QED BY <1>k, <2>1, <2>2, <2>3
  <1>13. u = r BY <1>8, <1>11, <1>12, SameSeq DEF Numbers
  <1> QED BY <1>1, <1>3, <1>6, <1>7, <1>8, <1>10, <1>13

LEMMA SpaceRemoved ==
    ASSUME NEW s, List(s), NEW k \in 1..Len(s)
    PROVE  List(RemoveAt(s, k)) /\ SpaceUsed(RemoveAt(s, k)) = SpaceUsed(s) - AttrSize(s[k])
  <1>0. PICK l \in Nat : l = Len(s) BY DEF List, IsSeq
  <1>k. k \in Nat /\ k >= 1 /\ k <= l BY <1>0
  <1>1. PICK t : t = RemoveAt(s, k) OBVIOUS
  <1>2. /\ IsSeq(t) /\ Len(t) = l - 1
        /\ \A j \in 1..(l - 1) : t[j] = IF j < k THEN s[j] ELSE s[j + 1]
    BY <1>0, <1>1, Removed DEF List
  <1>3. \A j \in 1..(l - 1) : j \in 1..l /\ j + 1 \in 1..l BY <1>0
  <1>4. List(t)
    <2>1. ASSUME NEW j \in 1..(l - 1) PROVE AttrOk(t[j])
      <3>1. AttrOk(s[j]) /\ AttrOk(s[j + 1]) BY <1>0, <1>3 DEF List
      <3>2. t[j] = s[j] \/ t[j] = s[j + 1] BY <1>2
      <3> QED BY <3>1, <3>2
    <2> QED BY <1>2, <2>1 DEF List
  <1>5. PICK q : q = AttrSizesOf(s) OBVIOUS
  <1>6. PICK r : r = AttrSizesOf(t) OBVIOUS
  <1>7. /\ Numbers(q) /\ Len(q) = l /\ SpaceUsed(s) = Total(q)
        /\ \A n \in 1..l : q[n] = AttrSize(s[n])
    BY <1>0, <1>5, SizesAreNumbers
  <1>8. /\ Numbers(r) /\ Len(r) = l - 1 /\ SpaceUsed(t) = Total(r)
        /\ \A n \in 1..(l - 1) : r[n] = AttrSize(t[n])
    BY <1>2, <1>4, <1>6, SizesAreNumbers
  <1>9. PICK u : u = RemoveAt(q, k) OBVIOUS
  <1>10. Total(u) = Total(q) - q[k] BY <1>0, <1>7, <1>9, TotalRemoved
  <1>11. /\ IsSeq(u) /\ Len(u) = l - 1
         /\ \A j \in 1..(l - 1) : u[j] = IF j < k THEN q[j] ELSE q[j + 1]
    BY <1>0, <1>7, <1>9, Removed, ZenonT(30) DEF Numbers
  <1>12. ASSUME NEW j \in 1..(l - 1) PROVE u[j] = r[j]
    <2>1. q[j] = AttrSize(s[j]) /\ q[j + 1] = AttrSize(s[j + 1]) BY <1>3, <1>7
    <2> QED BY <1>2, <1>8, <1>11, <2>1
  <1>13. u = r BY <1>8, <1>11, <1>12, SameSeq DEF Numbers
  <1>14. q[k] = AttrSize(s[k]) BY <1>0, <1>7
  <1> QED BY <1>1, <1>4, <1>7, <1>8, <1>10, <1>13, <1>14

-----------------------------------------------------------------------------
\* Lists of attributes, no name and no inode of a value twice

Elems(s) == {s[n] : n \in 1..Len(s)}
Differ(a, c) == a.name # c.name /\ (a.ea # 0 => a.ea # c.ea)
Distinct(s) == \A m, n \in 1..Len(s) : m # n => Differ(s[m], s[n])

LEMMA DistinctInserted ==
    ASSUME NEW s, IsSeq(s), Distinct(s), NEW k \in 1..(Len(s) + 1), NEW a,
           \A n \in 1..Len(s) : Differ(s[n], a)
    PROVE  Distinct(InsertAt(s, k, a)) /\ Elems(InsertAt(s, k, a)) = Elems(s) \cup {a}
  <1>0. PICK l \in Nat : l = Len(s) BY DEF IsSeq
  <1>k. k \in Nat /\ k >= 1 /\ k <= l + 1 BY <1>0
  <1>1. PICK t : t = InsertAt(s, k, a) OBVIOUS
  <1>2. /\ IsSeq(t) /\ Len(t) = l + 1
        /\ \A j \in 1..(l + 1) : t[j] = IF j < k THEN s[j] ELSE IF j = k THEN a ELSE s[j - 1]
    BY <1>0, <1>1, Inserted
  <1>3. ASSUME NEW j \in 1..(l + 1)
        PROVE  (j = k /\ t[j] = a) \/ \E i \in 1..l : /\ t[j] = s[i] /\ j # k
                                                      /\ i = IF j < k THEN j ELSE j - 1
    <2>1. CASE j < k
      <3>1. j \in 1..l /\ t[j] = s[j] BY <1>2, <1>k, <2>1
      <3> QED BY <2>1, <3>1
    <2>2. CASE j = k BY <1>2, <1>k, <2>2
    <2>3. CASE j > k
      <3>1. j - 1 \in 1..l /\ t[j] = s[j - 1] BY <1>2, <1>k, <2>3
      <3> QED BY <1>k, <2>3, <3>1
    <2> QED BY <1>k, <2>1, <2>2, <2>3
  <1>4. ASSUME NEW m \in 1..(l + 1), NEW n \in 1..(l + 1), m # n PROVE Differ(t[m], t[n])
    <2>1. CASE m = k
      <3>1. PICK i \in 1..l : t[n] = s[i] BY <1>3, <1>4, <2>1
      <3>2. t[m] = a BY <1>2, <1>k, <2>1
      <3>3. Differ(s[i], a) BY <1>0
      <3> QED BY <3>1, <3>2, <3>3 DEF Differ
    <2>2. CASE m # k
      <3>1. PICK i \in 1..l : t[m] = s[i] /\ i = IF m < k THEN m ELSE m - 1 BY <1>3, <2>2
      <3>2. CASE n = k
        <4>1. t[n] = a BY <1>2, <1>k, <3>2
        <4>2. Differ(s[i], a) BY <1>0
        <4> QED BY <3>1, <4>1, <4>2
      <3>3. CASE n # k
        <4>1. PICK p \in 1..l : t[n] = s[p] /\ p = IF n < k THEN n ELSE n - 1 BY <1>3, <3>3
        <4>2. i # p BY <1>4, <1>k, <2>2, <3>1, <3>3, <4>1
        <4> QED BY <1>0, <3>1, <4>1, <4>2 DEF Distinct
      <3> QED BY <3>2, <3>3
    <2> QED BY <2>1, <2>2
  <1>5. Elems(t) \subseteq Elems(s) \cup {a}
    <2>1. ASSUME NEW j \in 1..(l + 1) PROVE t[j] \in Elems(s) \cup {a} BY <1>0, <1>3 DEF Elems
    <2> QED BY <1>2, <2>1 DEF Elems
  <1>6. ASSUME NEW i \in 1..l PROVE s[i] \in Elems(t)
    <2>1. CASE i < k
      <3>1. i \in 1..(l + 1) /\ t[i] = s[i] BY <1>2, <2>1
      <3> QED BY <1>2, <3>1 DEF Elems
    <2>2. CASE ~(i < k)
      <3>1. i + 1 \in 1..(l + 1) /\ ~(i + 1 < k) /\ i + 1 # k /\ (i + 1) - 1 = i BY <1>k, <2>2
      <3>2. t[i + 1] = s[i] BY <1>2, <3>1
      <3> QED BY <1>2, <3>1, <3>2 DEF Elems
    <2> QED BY <2>1, <2>2
  <1>7. a \in Elems(t)
    <2>1. k \in 1..(l + 1) /\ t[k] = a BY <1>2, <1>k
    <2> QED BY <1>2, <2>1 DEF Elems
  <1>8. Elems(s) \subseteq Elems(t) BY <1>0, <1>6 DEF Elems
  <1>9. Elems(t) = Elems(s) \cup {a} BY <1>5, <1>7, <1>8
  <1> QED BY <1>1, <1>2, <1>4, <1>9 DEF Distinct

LEMMA DistinctRemoved ==
    ASSUME NEW s, IsSeq(s), Distinct(s), NEW k \in 1..Len(s)
    PROVE  /\ Distinct(RemoveAt(s, k))
           /\ Elems(RemoveAt(s, k)) = {c \in Elems(s) : c.name # s[k].name}
           /\ \A n \in 1..Len(RemoveAt(s, k)) : Differ(RemoveAt(s, k)[n], s[k])
  <1>0. PICK l \in Nat : l = Len(s) BY DEF IsSeq
  <1>k. k \in Nat /\ k >= 1 /\ k <= l BY <1>0
  <1>1. PICK t : t = RemoveAt(s, k) OBVIOUS
  <1>2. /\ IsSeq(t) /\ Len(t) = l - 1
        /\ \A j \in 1..(l - 1) : t[j] = IF j < k THEN s[j] ELSE s[j + 1]
    BY <1>0, <1>1, Removed
  <1>3. ASSUME NEW j \in 1..(l - 1)
        PROVE  \E i \in 1..l : i # k /\ t[j] = s[i] /\ i = IF j < k THEN j ELSE j + 1
    BY <1>2, <1>k
  <1>4. ASSUME NEW m \in 1..(l - 1), NEW n \in 1..(l - 1), m # n PROVE Differ(t[m], t[n])
    <2>1. PICK i \in 1..l : t[m] = s[i] /\ i = IF m < k THEN m ELSE m + 1 BY <1>3
    <2>2. PICK p \in 1..l : t[n] = s[p] /\ p = IF n < k THEN n ELSE n + 1 BY <1>3
    <2>3. i # p BY <1>4, <1>k, <2>1, <2>2
    <2> QED BY <1>0, <2>1, <2>2, <2>3 DEF Distinct
  <1>5. ASSUME NEW j \in 1..(l - 1) PROVE t[j] \in Elems(s) /\ Differ(t[j], s[k])
    <2>1. PICK i \in 1..l : i # k /\ t[j] = s[i] BY <1>3
    <2> QED BY <1>0, <2>1 DEF Elems, Distinct
  <1>6. ASSUME NEW i \in 1..l, s[i].name # s[k].name PROVE s[i] \in Elems(t)
    <2>0. i # k BY <1>6
    <2>1. CASE i < k
      <3>1. i \in 1..(l - 1) /\ t[i] = s[i] BY <1>2, <1>k, <2>1
      <3> QED BY <1>2, <3>1 DEF Elems
    <2>2. CASE ~(i < k)
      <3>1. i - 1 \in 1..(l - 1) /\ ~(i - 1 < k) /\ (i - 1) + 1 = i BY <1>k, <2>0, <2>2
      <3>2. t[i - 1] = s[i] BY <1>2, <3>1
      <3> QED BY <1>2, <3>1, <3>2 DEF Elems
    <2> QED BY <2>1, <2>2
  <1>7. Elems(t) = {c \in Elems(s) : c.name # s[k].name}
    <2>1. \A c \in Elems(t) : c \in Elems(s) /\ c.name # s[k].name BY <1>2, <1>5 DEF Elems, Differ
    <2>2. \A c \in Elems(s) : c.name # s[k].name => c \in Elems(t) BY <1>0, <1>6 DEF Elems
    <2> QED BY <2>1, <2>2
  <1> QED BY <1>1, <1>2, <1>4, <1>5, <1>7 DEF Distinct

-----------------------------------------------------------------------------
\* Handles: the two parts of the list, and what the operations do to them

HandleShape(h) == /\ h = Handle(h.ino, h.attrs, h.ibody)
            /\ List(h.attrs) /\ h.ibody \in 0..Len(h.attrs)

\* Places in a list of l attributes, b of them in the inode: before and after one
\* is put in (at k) or taken out.
LEMMA Places1 ==
    ASSUME NEW l \in Nat, NEW b \in 0..l, NEW j \in 1..(l - b)
    PROVE  /\ l - (b + 1) + 1 = l - b /\ (b + 1) + j - 1 = b + j /\ b + j \in 1..l
           /\ (b + 1) + j \in 1..(l + 1) /\ ((b + 1) + j) - 1 = b + j
           /\ \A k \in Nat : k <= b + 1 => ~((b + 1) + j < k) /\ (b + 1) + j # k
  OBVIOUS

LEMMA Places2 ==
    ASSUME NEW l \in Nat, NEW b \in 0..l, NEW k \in Nat, k >= 1, NEW j \in 1..((l - b) + 1), j > k
    PROVE  /\ j - 1 \in 1..(l - b) /\ ~(j < k) /\ j # k /\ ~(b + j < b + k) /\ b + j # b + k
           /\ (b + j) - 1 = b + (j - 1)
  OBVIOUS

LEMMA Places3 ==
    ASSUME NEW l \in Nat, NEW b \in 0..l, NEW k \in Nat, k > b, k <= l
    PROVE  /\ (l - 1) - b = (l - b) - 1 /\ k - b \in 1..(l - b)
           /\ \A j \in 1..((l - b) - 1) :
                /\ b + j \in 1..(l - 1) /\ j \in 1..(l - b) /\ j + 1 \in 1..(l - b)
                /\ (b + j) + 1 = b + (j + 1) /\ (b + j < k <=> j < k - b)
  <1>1. (l - 1) - b = (l - b) - 1 /\ k - b \in 1..(l - b) OBVIOUS
  <1>2. ASSUME NEW j \in 1..((l - b) - 1)
        PROVE  /\ b + j \in 1..(l - 1) /\ j \in 1..(l - b) /\ j + 1 \in 1..(l - b)
               /\ (b + j) + 1 = b + (j + 1) /\ (b + j < k <=> j < k - b)
    OBVIOUS
  <1> QED BY <1>1, <1>2

\* What is free after f bytes go is enough for n more.
LEMMA RoomLeft ==
    ASSUME NEW n \in Nat, NEW f \in Nat, NEW s \in Nat, NEW r \in Int, n <= (r - 4 - s) + f
    PROVE  (s - f) + n + 4 <= r
  OBVIOUS

LEMMA HandleParts ==
    ASSUME NEW h, HandleShape(h)
    PROVE  /\ List(IbodyPart(h)) /\ Len(IbodyPart(h)) = h.ibody
           /\ \A j \in 1..h.ibody : IbodyPart(h)[j] = h.attrs[j]
           /\ List(BlockPart(h)) /\ Len(BlockPart(h)) = Len(h.attrs) - h.ibody
           /\ \A j \in 1..(Len(h.attrs) - h.ibody) : BlockPart(h)[j] = h.attrs[h.ibody + j]
  <1>l. PICK l \in Nat : l = Len(h.attrs) BY DEF HandleShape, List, IsSeq
  <1>b. PICK b \in 0..l : b = h.ibody BY <1>l DEF HandleShape
  <1>0. l \in Nat /\ b \in 0..l /\ b \in Nat /\ b <= l /\ l = Len(h.attrs) /\ b = h.ibody
    BY <1>l, <1>b
  <1>s. IsSeq(h.attrs) BY DEF HandleShape, List
  <1>a. \A j \in 1..l : AttrOk(h.attrs[j]) BY <1>0 DEF HandleShape, List
  <1>1. /\ IsSeq(IbodyPart(h)) /\ Len(IbodyPart(h)) = b
        /\ \A j \in 1..b : IbodyPart(h)[j] = h.attrs[j]
    <2>1. 1 \in 1..(l + 1) /\ b \in (1 - 1)..l BY <1>0
    <2>2. /\ IsSeq(SubSeq(h.attrs, 1, b)) /\ Len(SubSeq(h.attrs, 1, b)) = b - 1 + 1
          /\ \A j \in 1..(b - 1 + 1) : SubSeq(h.attrs, 1, b)[j] = h.attrs[1 + j - 1]
      BY <1>0, <1>s, <2>1, PartOf
    <2> QED BY <1>0, <2>2 DEF IbodyPart
  <1>2. /\ IsSeq(BlockPart(h)) /\ Len(BlockPart(h)) = l - b
        /\ \A j \in 1..(l - b) : BlockPart(h)[j] = h.attrs[b + j]
    <2>1. b + 1 \in 1..(l + 1) /\ l \in ((b + 1) - 1)..l BY <1>0
    <2>2. /\ IsSeq(SubSeq(h.attrs, b + 1, l)) /\ Len(SubSeq(h.attrs, b + 1, l)) = l - (b + 1) + 1
          /\ \A j \in 1..(l - (b + 1) + 1) : SubSeq(h.attrs, b + 1, l)[j] = h.attrs[(b + 1) + j - 1]
      <3>1. PICK m \in 1..(Len(h.attrs) + 1) : m = b + 1 BY <1>0, <2>1
      <3>2. l \in (m - 1)..Len(h.attrs) BY <1>0, <2>1, <3>1
      <3>3. /\ IsSeq(SubSeq(h.attrs, m, l)) /\ Len(SubSeq(h.attrs, m, l)) = l - m + 1
            /\ \A j \in 1..(l - m + 1) : SubSeq(h.attrs, m, l)[j] = h.attrs[m + j - 1]
        BY <1>s, <3>2, PartOf
      <3> QED BY <3>1, <3>3
    <2>3. l - (b + 1) + 1 = l - b /\ \A j \in 1..(l - b) : (b + 1) + j - 1 = b + j BY <1>0, SMTT(30)
    <2>4. BlockPart(h) = SubSeq(h.attrs, b + 1, l) BY <1>0 DEF BlockPart
    <2> QED BY <2>2, <2>3, <2>4
  <1>3. \A j \in 1..b : AttrOk(IbodyPart(h)[j])
    <2>1. \A j \in 1..b : j \in 1..l BY <1>0
    <2> QED BY <1>1, <1>a, <2>1
  <1>4. \A j \in 1..(l - b) : AttrOk(BlockPart(h)[j])
    <2>1. \A j \in 1..(l - b) : b + j \in 1..l BY <1>0
    <2> QED BY <1>2, <1>a, <2>1
  <1> QED BY <1>0, <1>1, <1>2, <1>3, <1>4 DEF List

LEMMA PutIbody ==
    ASSUME NEW h, HandleShape(h), NEW k \in 1..(h.ibody + 1), NEW a, AttrOk(a),
           NEW g, g = Handle(h.ino, InsertAt(h.attrs, k, a), h.ibody + 1)
    PROVE  HandleShape(g) /\ IbodyPart(g) = InsertAt(IbodyPart(h), k, a) /\ BlockPart(g) = BlockPart(h)
  <1>l. PICK l \in Nat : l = Len(h.attrs) BY DEF HandleShape, List, IsSeq
  <1>b. PICK b \in 0..l : b = h.ibody BY <1>l DEF HandleShape
  <1>0. l \in Nat /\ b \in 0..l /\ b \in Nat /\ b <= l /\ l = Len(h.attrs) /\ b = h.ibody
    BY <1>l, <1>b
  <1>k. k \in Nat /\ k >= 1 /\ k <= b + 1 /\ k \in 1..(l + 1) BY <1>0
  <1>s. IsSeq(h.attrs) /\ List(h.attrs) BY DEF HandleShape, List
  <1>1. g.attrs = InsertAt(h.attrs, k, a) /\ g.ibody = b + 1 /\ g.ino = h.ino BY <1>0 DEF Handle
  <1>2. /\ Len(g.attrs) = l + 1
        /\ \A j \in 1..(l + 1) :
             g.attrs[j] = IF j < k THEN h.attrs[j] ELSE IF j = k THEN a ELSE h.attrs[j - 1]
    BY <1>0, <1>1, <1>k, <1>s, Inserted, SMTT(30)
  <1>3. List(g.attrs) BY <1>0, <1>1, <1>k, <1>s, SpaceInserted
  <1>4. HandleShape(g)
    <2>1. b + 1 \in 0..(l + 1) BY <1>0
    <2> QED BY <1>0, <1>1, <1>2, <1>3, <2>1 DEF HandleShape
  <1>5. /\ IsSeq(IbodyPart(h)) /\ Len(IbodyPart(h)) = b
        /\ \A j \in 1..b : IbodyPart(h)[j] = h.attrs[j]
        /\ IsSeq(BlockPart(h)) /\ Len(BlockPart(h)) = l - b
        /\ \A j \in 1..(l - b) : BlockPart(h)[j] = h.attrs[b + j]
    BY <1>0, HandleParts DEF List
  <1>6. /\ IsSeq(IbodyPart(g)) /\ Len(IbodyPart(g)) = b + 1
        /\ \A j \in 1..(b + 1) : IbodyPart(g)[j] = g.attrs[j]
        /\ IsSeq(BlockPart(g)) /\ Len(BlockPart(g)) = (l + 1) - (b + 1)
        /\ \A j \in 1..((l + 1) - (b + 1)) : BlockPart(g)[j] = g.attrs[(b + 1) + j]
    <2>1. /\ List(IbodyPart(g)) /\ Len(IbodyPart(g)) = g.ibody
          /\ \A j \in 1..g.ibody : IbodyPart(g)[j] = g.attrs[j]
          /\ List(BlockPart(g)) /\ Len(BlockPart(g)) = Len(g.attrs) - g.ibody
          /\ \A j \in 1..(Len(g.attrs) - g.ibody) : BlockPart(g)[j] = g.attrs[g.ibody + j]
      BY <1>4, HandleParts
    <2> QED BY <1>1, <1>2, <2>1 DEF List
  <1>7. PICK p : p = InsertAt(IbodyPart(h), k, a) OBVIOUS
  <1>8. /\ IsSeq(p) /\ Len(p) = b + 1
        /\ \A j \in 1..(b + 1) :
             p[j] = IF j < k THEN IbodyPart(h)[j] ELSE IF j = k THEN a ELSE IbodyPart(h)[j - 1]
    BY <1>0, <1>5, <1>7, Inserted
  <1>9. ASSUME NEW j \in 1..(b + 1) PROVE IbodyPart(g)[j] = p[j]
    <2>0. j \in 1..(l + 1) BY <1>0
    <2>1. IbodyPart(g)[j] = IF j < k THEN h.attrs[j] ELSE IF j = k THEN a ELSE h.attrs[j - 1]
      BY <1>2, <1>6, <2>0
    <2>2. CASE j < k
      <3>1. j \in 1..b BY <1>k, <2>2
      <3> QED BY <1>5, <1>8, <2>1, <2>2, <3>1
    <2>3. CASE j = k BY <1>8, <1>k, <2>1, <2>3
    <2>4. CASE j > k
      <3>1. j - 1 \in 1..b /\ ~(j < k) /\ j # k BY <1>k, <2>4
      <3> QED BY <1>5, <1>8, <2>1, <3>1
    <2> QED BY <1>k, <2>2, <2>3, <2>4
  <1>10. ASSUME NEW j \in 1..(l - b) PROVE BlockPart(g)[j] = BlockPart(h)[j]
    <2>1. /\ (b + 1) + j \in 1..(l + 1) /\ ~((b + 1) + j < k) /\ (b + 1) + j # k
          /\ ((b + 1) + j) - 1 = b + j
      BY <1>b, <1>k, Places1
    <2>2. g.attrs[(b + 1) + j] = h.attrs[b + j] BY <1>2, <2>1
    <2>3. (l + 1) - (b + 1) = l - b BY <1>0, SMTT(30)
    <2> QED BY <1>5, <1>6, <2>2, <2>3
  <1>11. IbodyPart(g) = p BY <1>6, <1>8, <1>9, SameSeq
  <1>12. BlockPart(g) = BlockPart(h)
    <2>1. (l + 1) - (b + 1) = l - b BY <1>0, SMTT(30)
    <2> QED BY <1>5, <1>6, <1>10, <2>1, SameSeq
  <1> QED BY <1>4, <1>7, <1>11, <1>12

LEMMA PutBlock ==
    ASSUME NEW h, HandleShape(h), NEW k \in 1..(Len(BlockPart(h)) + 1), NEW a, AttrOk(a),
           NEW g, g = Handle(h.ino, InsertAt(h.attrs, h.ibody + k, a), h.ibody)
    PROVE  HandleShape(g) /\ IbodyPart(g) = IbodyPart(h) /\ BlockPart(g) = InsertAt(BlockPart(h), k, a)
  <1>l. PICK l \in Nat : l = Len(h.attrs) BY DEF HandleShape, List, IsSeq
  <1>b. PICK b \in 0..l : b = h.ibody BY <1>l DEF HandleShape
  <1>0. l \in Nat /\ b \in 0..l /\ b \in Nat /\ b <= l /\ l = Len(h.attrs) /\ b = h.ibody
    BY <1>l, <1>b
  <1>s. IsSeq(h.attrs) /\ List(h.attrs) BY DEF HandleShape, List
  <1>5. /\ IsSeq(IbodyPart(h)) /\ Len(IbodyPart(h)) = b
        /\ \A j \in 1..b : IbodyPart(h)[j] = h.attrs[j]
        /\ IsSeq(BlockPart(h)) /\ Len(BlockPart(h)) = l - b
        /\ \A j \in 1..(l - b) : BlockPart(h)[j] = h.attrs[b + j]
    BY <1>0, HandleParts DEF List
  <1>k. /\ k \in Nat /\ k >= 1 /\ k <= (l - b) + 1 /\ b + k \in 1..(l + 1)
        /\ k \in 1..((l - b) + 1)
    BY <1>0, <1>5, SMTT(30)
  <1>1. g.attrs = InsertAt(h.attrs, b + k, a) /\ g.ibody = b /\ g.ino = h.ino BY <1>0 DEF Handle
  <1>2. /\ Len(g.attrs) = l + 1
        /\ \A j \in 1..(l + 1) :
             g.attrs[j] = IF j < b + k THEN h.attrs[j] ELSE IF j = b + k THEN a ELSE h.attrs[j - 1]
    <2>1. b + k \in 1..(Len(h.attrs) + 1) BY <1>0, <1>k
    <2>2. PICK m \in 1..(Len(h.attrs) + 1) : m = b + k BY <2>1
    <2>3. g.attrs = InsertAt(h.attrs, m, a) BY <1>1, <2>2
    <2>4. /\ Len(InsertAt(h.attrs, m, a)) = Len(h.attrs) + 1
          /\ \A j \in 1..(Len(h.attrs) + 1) :
               InsertAt(h.attrs, m, a)[j]
                 = IF j < m THEN h.attrs[j] ELSE IF j = m THEN a ELSE h.attrs[j - 1]
      BY <1>s, <2>2, Inserted, SMTT(30)
    <2> QED BY <1>0, <2>2, <2>3, <2>4
  <1>3. List(g.attrs) BY <1>0, <1>1, <1>k, <1>s, SpaceInserted
  <1>4. HandleShape(g)
    <2>1. b \in 0..(l + 1) BY <1>0
    <2> QED BY <1>0, <1>1, <1>2, <1>3, <2>1 DEF HandleShape
  <1>6. /\ IsSeq(IbodyPart(g)) /\ Len(IbodyPart(g)) = b
        /\ \A j \in 1..b : IbodyPart(g)[j] = g.attrs[j]
        /\ IsSeq(BlockPart(g)) /\ Len(BlockPart(g)) = (l + 1) - b
        /\ \A j \in 1..((l + 1) - b) : BlockPart(g)[j] = g.attrs[b + j]
    <2>1. /\ List(IbodyPart(g)) /\ Len(IbodyPart(g)) = g.ibody
          /\ \A j \in 1..g.ibody : IbodyPart(g)[j] = g.attrs[j]
          /\ List(BlockPart(g)) /\ Len(BlockPart(g)) = Len(g.attrs) - g.ibody
          /\ \A j \in 1..(Len(g.attrs) - g.ibody) : BlockPart(g)[j] = g.attrs[g.ibody + j]
      BY <1>4, HandleParts
    <2> QED BY <1>1, <1>2, <2>1 DEF List
  <1>7. PICK p : p = InsertAt(BlockPart(h), k, a) OBVIOUS
  <1>8. /\ IsSeq(p) /\ Len(p) = (l - b) + 1
        /\ \A j \in 1..((l - b) + 1) :
             p[j] = IF j < k THEN BlockPart(h)[j] ELSE IF j = k THEN a ELSE BlockPart(h)[j - 1]
    BY <1>5, <1>7, <1>k, Inserted, SMTT(30)
  <1>c. (l + 1) - b = (l - b) + 1 BY <1>0
  <1>9. ASSUME NEW j \in 1..((l - b) + 1) PROVE BlockPart(g)[j] = p[j]
    <2>0. b + j \in 1..(l + 1) BY <1>0, SMTT(30)
    <2>1. BlockPart(g)[j] = IF b + j < b + k THEN h.attrs[b + j]
                            ELSE IF b + j = b + k THEN a ELSE h.attrs[(b + j) - 1]
      BY <1>2, <1>6, <1>c, <2>0
    <2>2. CASE j < k
      <3>1. j \in 1..(l - b) /\ b + j < b + k BY <1>0, <1>k, <2>2, SMTT(30)
      <3> QED BY <1>5, <1>8, <2>1, <2>2, <3>1
    <2>3. CASE j = k BY <1>0, <1>8, <1>k, <2>1, <2>3
    <2>4. CASE j > k
      <3>1. /\ j - 1 \in 1..(l - b) /\ ~(j < k) /\ j # k /\ ~(b + j < b + k) /\ b + j # b + k
            /\ (b + j) - 1 = b + (j - 1)
        <4>1. k \in Nat /\ k >= 1 BY <1>k
        <4>2. PICK m \in Nat : m = k BY <4>1
        <4>3. m >= 1 /\ j > m BY <2>4, <4>1, <4>2
        <4>4. /\ j - 1 \in 1..(l - b) /\ ~(j < m) /\ j # m /\ ~(b + j < b + m) /\ b + j # b + m
              /\ (b + j) - 1 = b + (j - 1)
          BY <4>3, Places2
        <4> QED BY <4>2, <4>4
      <3> QED BY <1>5, <1>8, <2>1, <3>1
    <2> QED BY <1>k, <2>2, <2>3, <2>4
  <1>10. ASSUME NEW j \in 1..b PROVE IbodyPart(g)[j] = IbodyPart(h)[j]
    <2>0. j \in Nat /\ j >= 1 /\ j <= b BY <1>0
    <2>a. j \in 1..(l + 1) BY <1>0, <2>0
    <2>b. j < b + k BY <1>0, <1>k, <2>0
    <2>1. j \in 1..(l + 1) /\ j < b + k BY <2>a, <2>b
    <2> QED BY <1>2, <1>5, <1>6, <2>1
  <1>11. BlockPart(g) = p BY <1>6, <1>8, <1>9, <1>c, SameSeq, ZenonT(30)
  <1>12. IbodyPart(g) = IbodyPart(h) BY <1>5, <1>6, <1>10, SameSeq
  <1> QED BY <1>4, <1>7, <1>11, <1>12

LEMMA DroppedParts ==
    ASSUME NEW h, HandleShape(h), NEW k \in 1..Len(h.attrs), NEW g, g = Dropped(h, k)
    PROVE  /\ HandleShape(g) /\ g.ino = h.ino /\ g.attrs = RemoveAt(h.attrs, k)
           /\ k <= h.ibody => /\ g.ibody = h.ibody - 1 /\ BlockPart(g) = BlockPart(h)
                              /\ IbodyPart(g) = RemoveAt(IbodyPart(h), k)
           /\ k > h.ibody => /\ g.ibody = h.ibody /\ IbodyPart(g) = IbodyPart(h)
                             /\ BlockPart(g) = RemoveAt(BlockPart(h), k - h.ibody)
  <1>l. PICK l \in Nat : l = Len(h.attrs) BY DEF HandleShape, List, IsSeq
  <1>b. PICK b \in 0..l : b = h.ibody BY <1>l DEF HandleShape
  <1>0. l \in Nat /\ b \in 0..l /\ b \in Nat /\ b <= l /\ l = Len(h.attrs) /\ b = h.ibody
    BY <1>l, <1>b
  <1>s. IsSeq(h.attrs) /\ List(h.attrs) BY DEF HandleShape, List
  <1>k. k \in 1..l /\ k \in Nat /\ k >= 1 /\ k <= l BY <1>0
  <1>d. PICK c \in 0..(l - 1) : c = IF k <= b THEN b - 1 ELSE b BY <1>0, <1>k
  <1>c. c \in Nat /\ c <= l - 1 /\ c = IF k <= b THEN b - 1 ELSE b BY <1>0, <1>d
  <1>1. g.attrs = RemoveAt(h.attrs, k) /\ g.ibody = c /\ g.ino = h.ino
    BY <1>0, <1>c DEF Dropped, Handle
  <1>2. /\ Len(g.attrs) = l - 1
        /\ \A j \in 1..(l - 1) : g.attrs[j] = IF j < k THEN h.attrs[j] ELSE h.attrs[j + 1]
    BY <1>0, <1>1, <1>s, Removed, SMTT(30)
  <1>3. List(g.attrs) BY <1>1, <1>s, SpaceRemoved
  <1>4. HandleShape(g)
    <2>1. g = Handle(h.ino, g.attrs, c) BY <1>0, <1>1, <1>c DEF Dropped
    <2> QED BY <1>1, <1>2, <1>3, <2>1 DEF HandleShape
  <1>5. /\ IsSeq(IbodyPart(h)) /\ Len(IbodyPart(h)) = b
        /\ \A j \in 1..b : IbodyPart(h)[j] = h.attrs[j]
        /\ IsSeq(BlockPart(h)) /\ Len(BlockPart(h)) = l - b
        /\ \A j \in 1..(l - b) : BlockPart(h)[j] = h.attrs[b + j]
    BY <1>0, HandleParts DEF List
  <1>6. /\ IsSeq(IbodyPart(g)) /\ Len(IbodyPart(g)) = c
        /\ \A j \in 1..c : IbodyPart(g)[j] = g.attrs[j]
        /\ IsSeq(BlockPart(g)) /\ Len(BlockPart(g)) = (l - 1) - c
        /\ \A j \in 1..((l - 1) - c) : BlockPart(g)[j] = g.attrs[c + j]
    <2>1. /\ List(IbodyPart(g)) /\ Len(IbodyPart(g)) = g.ibody
          /\ \A j \in 1..g.ibody : IbodyPart(g)[j] = g.attrs[j]
          /\ List(BlockPart(g)) /\ Len(BlockPart(g)) = Len(g.attrs) - g.ibody
          /\ \A j \in 1..(Len(g.attrs) - g.ibody) : BlockPart(g)[j] = g.attrs[g.ibody + j]
      BY <1>4, HandleParts
    <2> QED BY <1>1, <1>2, <2>1 DEF List
  <1>7. ASSUME k <= b
        PROVE  BlockPart(g) = BlockPart(h) /\ IbodyPart(g) = RemoveAt(IbodyPart(h), k)
    <2>0. c = b - 1 /\ (l - 1) - c = l - b /\ k \in 1..b BY <1>0, <1>c, <1>k, <1>7
    <2>1. PICK p : p = RemoveAt(IbodyPart(h), k) OBVIOUS
    <2>2. /\ IsSeq(p) /\ Len(p) = b - 1
          /\ \A j \in 1..(b - 1) : p[j] = IF j < k THEN IbodyPart(h)[j] ELSE IbodyPart(h)[j + 1]
      BY <1>5, <2>0, <2>1, Removed
    <2>3. ASSUME NEW j \in 1..(b - 1) PROVE IbodyPart(g)[j] = p[j]
      <3>1. j \in 1..(l - 1) /\ j \in 1..b /\ j + 1 \in 1..b BY <1>0, SMTT(30)
      <3>2. IbodyPart(g)[j] = IF j < k THEN h.attrs[j] ELSE h.attrs[j + 1] BY <1>2, <1>6, <2>0, <3>1
      <3>3. IbodyPart(h)[j] = h.attrs[j] /\ IbodyPart(h)[j + 1] = h.attrs[j + 1] BY <1>5, <3>1
      <3> QED BY <2>2, <3>2, <3>3
    <2>4. ASSUME NEW j \in 1..(l - b) PROVE BlockPart(g)[j] = BlockPart(h)[j]
      <3>0. c = b - 1 /\ j \in Nat /\ j >= 1 /\ j <= l - b BY <1>0, <2>0
      <3>a. c + j \in 1..(l - 1) BY <1>0, <1>k, <1>7, <3>0, SMTT(30)
      <3>b. ~(c + j < k) BY <1>0, <1>k, <1>7, <3>0
      <3>d. (c + j) + 1 = b + j BY <1>0, <3>0, SMTT(30)
      <3>1. c + j \in 1..(l - 1) /\ ~(c + j < k) /\ (c + j) + 1 = b + j BY <3>a, <3>b, <3>d
      <3> QED BY <1>2, <1>5, <1>6, <2>0, <3>1
    <2>5. IbodyPart(g) = p BY <1>6, <2>0, <2>2, <2>3, SameSeq
    <2>6. BlockPart(g) = BlockPart(h) BY <1>5, <1>6, <2>0, <2>4, SameSeq
    <2> QED BY <2>1, <2>5, <2>6
  <1>8. ASSUME k > b
        PROVE  IbodyPart(g) = IbodyPart(h) /\ BlockPart(g) = RemoveAt(BlockPart(h), k - b)
    <2>c. c = b BY <1>0, <1>c, <1>k, <1>8
    <2>p. /\ (l - 1) - b = (l - b) - 1 /\ k - b \in 1..(l - b)
          /\ \A j \in 1..((l - b) - 1) :
               /\ b + j \in 1..(l - 1) /\ j \in 1..(l - b) /\ j + 1 \in 1..(l - b)
               /\ (b + j) + 1 = b + (j + 1) /\ (b + j < k <=> j < k - b)
      BY <1>b, <1>k, <1>8, Places3, ZenonT(30)
    <2>0. c = b /\ (l - 1) - c = (l - b) - 1 /\ k - b \in 1..(l - b) BY <2>c, <2>p
    <2>1. PICK p : p = RemoveAt(BlockPart(h), k - b) OBVIOUS
    <2>2. /\ IsSeq(p) /\ Len(p) = (l - b) - 1
          /\ \A j \in 1..((l - b) - 1) :
               p[j] = IF j < k - b THEN BlockPart(h)[j] ELSE BlockPart(h)[j + 1]
      <3>1. PICK m \in 1..Len(BlockPart(h)) : m = k - b BY <1>5, <2>0
      <3>2. /\ IsSeq(RemoveAt(BlockPart(h), m)) /\ Len(RemoveAt(BlockPart(h), m)) = (l - b) - 1
            /\ \A j \in 1..((l - b) - 1) : RemoveAt(BlockPart(h), m)[j]
                 = IF j < m THEN BlockPart(h)[j] ELSE BlockPart(h)[j + 1]
        <4>1. PICK q : q = BlockPart(h) OBVIOUS
        <4>2. /\ IsSeq(RemoveAt(q, m)) /\ Len(RemoveAt(q, m)) = Len(q) - 1
              /\ \A j \in 1..(Len(q) - 1) : RemoveAt(q, m)[j] = IF j < m THEN q[j] ELSE q[j + 1]
          BY <1>5, <4>1, Removed
        <4> QED BY <1>5, <4>1, <4>2
      <3> QED BY <2>1, <3>1, <3>2
    <2>3. ASSUME NEW j \in 1..((l - b) - 1) PROVE BlockPart(g)[j] = p[j]
      <3>1. /\ b + j \in 1..(l - 1) /\ j \in 1..(l - b) /\ j + 1 \in 1..(l - b)
            /\ (b + j) + 1 = b + (j + 1) /\ (b + j < k <=> j < k - b)
        BY <2>p
      <3>2. BlockPart(g)[j] = IF b + j < k THEN h.attrs[b + j] ELSE h.attrs[(b + j) + 1]
        <4>1. BlockPart(g)[j] = g.attrs[b + j] BY <1>6, <2>0
        <4> QED BY <1>2, <3>1, <4>1
      <3>3. BlockPart(h)[j] = h.attrs[b + j] /\ BlockPart(h)[j + 1] = h.attrs[b + (j + 1)]
        BY <1>5, <3>1
      <3> QED BY <2>2, <3>1, <3>2, <3>3
    <2>4. ASSUME NEW j \in 1..b PROVE IbodyPart(g)[j] = IbodyPart(h)[j]
      <3>1. j \in 1..(l - 1) /\ j < k BY <1>0, <1>k, <1>8
      <3> QED BY <1>2, <1>5, <1>6, <2>0, <3>1
    <2>5. BlockPart(g) = p BY <1>6, <2>0, <2>2, <2>3, SameSeq
    <2>6. IbodyPart(g) = IbodyPart(h) BY <1>5, <1>6, <2>0, <2>4, SameSeq
    <2> QED BY <2>1, <2>5, <2>6
  <1>9. (k <= b => c = b - 1) /\ (k > b => c = b) BY <1>0, <1>c, <1>k
  <1> QED BY <1>0, <1>1, <1>4, <1>7, <1>8, <1>9

-----------------------------------------------------------------------------
\* The order of a block's entries

Sorted(s) == \A m, n \in 1..Len(s) : m < n => SortsBefore(Key(s[m].name), Key(s[n].name))
\* Where an attribute of this name may be put
Splits(s, k, name) ==
    \A m \in 1..Len(s) : IF m < k THEN SortsBefore(Key(s[m].name), Key(name))
                         ELSE SortsBefore(Key(name), Key(s[m].name))

LEMMA SortedRemoved ==
    ASSUME NEW s, IsSeq(s), Sorted(s), NEW k \in 1..Len(s)
    PROVE  Sorted(RemoveAt(s, k)) /\ Splits(RemoveAt(s, k), k, s[k].name)
  <1>0. PICK l \in Nat : l = Len(s) BY DEF IsSeq
  <1>k. k \in Nat /\ k >= 1 /\ k <= l BY <1>0
  <1>1. PICK t : t = RemoveAt(s, k) OBVIOUS
  <1>2. /\ IsSeq(t) /\ Len(t) = l - 1
        /\ \A j \in 1..(l - 1) : t[j] = IF j < k THEN s[j] ELSE s[j + 1]
    BY <1>0, <1>1, Removed
  <1>3. ASSUME NEW j \in 1..(l - 1)
        PROVE  \E i \in 1..l : t[j] = s[i] /\ i = IF j < k THEN j ELSE j + 1
    BY <1>2, <1>k
  <1>4. ASSUME NEW m \in 1..(l - 1), NEW n \in 1..(l - 1), m < n
        PROVE  SortsBefore(Key(t[m].name), Key(t[n].name))
    <2>1. PICK i \in 1..l : t[m] = s[i] /\ i = IF m < k THEN m ELSE m + 1 BY <1>3
    <2>2. PICK p \in 1..l : t[n] = s[p] /\ p = IF n < k THEN n ELSE n + 1 BY <1>3
    <2>3. i < p BY <1>4, <1>k, <2>1, <2>2
    <2> QED BY <1>0, <2>1, <2>2, <2>3 DEF Sorted
  <1>5. ASSUME NEW m \in 1..(l - 1)
        PROVE  IF m < k THEN SortsBefore(Key(t[m].name), Key(s[k].name))
               ELSE SortsBefore(Key(s[k].name), Key(t[m].name))
    <2>1. PICK i \in 1..l : t[m] = s[i] /\ i = IF m < k THEN m ELSE m + 1 BY <1>3
    <2>2. CASE m < k
      <3>1. i < k /\ k \in 1..l BY <1>k, <2>1, <2>2
      <3> QED BY <1>0, <2>1, <2>2, <3>1 DEF Sorted
    <2>3. CASE ~(m < k)
      <3>1. k < i /\ k \in 1..l BY <1>k, <2>1, <2>3
      <3> QED BY <1>0, <2>1, <2>3, <3>1 DEF Sorted
    <2> QED BY <2>2, <2>3
  <1> QED BY <1>1, <1>2, <1>4, <1>5 DEF Sorted, Splits

LEMMA SortedInserted ==
    ASSUME NEW s, IsSeq(s), Sorted(s), NEW k \in 1..(Len(s) + 1), NEW a, Splits(s, k, a.name)
    PROVE  Sorted(InsertAt(s, k, a))
  <1>0. PICK l \in Nat : l = Len(s) BY DEF IsSeq
  <1>k. k \in Nat /\ k >= 1 /\ k <= l + 1 BY <1>0
  <1>1. PICK t : t = InsertAt(s, k, a) OBVIOUS
  <1>2. /\ IsSeq(t) /\ Len(t) = l + 1
        /\ \A j \in 1..(l + 1) : t[j] = IF j < k THEN s[j] ELSE IF j = k THEN a ELSE s[j - 1]
    BY <1>0, <1>1, Inserted
  <1>3. ASSUME NEW j \in 1..(l + 1), j # k
        PROVE  \E i \in 1..l : t[j] = s[i] /\ i = IF j < k THEN j ELSE j - 1
    <2>1. CASE j < k
      <3>1. j \in 1..l /\ t[j] = s[j] BY <1>2, <1>k, <2>1
      <3> QED BY <2>1, <3>1
    <2>2. CASE j > k
      <3>1. j - 1 \in 1..l /\ t[j] = s[j - 1] BY <1>2, <1>k, <2>2
      <3> QED BY <1>k, <2>2, <3>1
    <2> QED BY <1>3, <1>k, <2>1, <2>2
  <1>4. ASSUME NEW m \in 1..(l + 1), NEW n \in 1..(l + 1), m < n
        PROVE  SortsBefore(Key(t[m].name), Key(t[n].name))
    <2>1. CASE m = k
      <3>1. PICK i \in 1..l : t[n] = s[i] /\ i = IF n < k THEN n ELSE n - 1 BY <1>3, <1>4, <2>1
      <3>2. t[m] = a BY <1>2, <1>k, <2>1
      <3>3. ~(i < k) BY <1>4, <1>k, <2>1, <3>1
      <3> QED BY <1>0, <3>1, <3>2, <3>3 DEF Splits
    <2>2. CASE m # k
      <3>1. PICK i \in 1..l : t[m] = s[i] /\ i = IF m < k THEN m ELSE m - 1 BY <1>3, <2>2
      <3>2. CASE n = k
        <4>1. t[n] = a /\ i < k BY <1>2, <1>4, <1>k, <3>1, <3>2
        <4> QED BY <1>0, <3>1, <4>1 DEF Splits
      <3>3. CASE n # k
        <4>1. PICK p \in 1..l : t[n] = s[p] /\ p = IF n < k THEN n ELSE n - 1 BY <1>3, <3>3
        <4>2. i < p BY <1>4, <1>k, <2>2, <3>1, <3>3, <4>1
        <4> QED BY <1>0, <3>1, <4>1, <4>2 DEF Sorted
      <3> QED BY <3>2, <3>3
    <2> QED BY <2>1, <2>2
  <1> QED BY <1>1, <1>2, <1>4 DEF Sorted

LEMMA PositionSplits ==
    ASSUME NEW s, List(s), Sorted(s), NEW name \in AllNames
    PROVE  /\ FindPosition(s, name) \in 1..(Len(s) + 1)
           /\ Splits(s, FindPosition(s, name), name)
  <1>0. PICK l \in Nat : l = Len(s) BY DEF List, IsSeq
  <1>a. \A n \in 1..l : s[n].name \in AllNames BY <1>0 DEF List, AttrOk
  <1>1. PICK later \in SUBSET (1..l) :
          later = {n \in 1..l : SortsBefore(Key(name), Key(s[n].name))}
    OBVIOUS
  <1>2. FindPosition(s, name) = IF later = {} THEN l + 1 ELSE CHOOSE n \in later : \A m \in later : n <= m
    BY <1>0, <1>1 DEF FindPosition
  <1>3. CASE later = {}
    <2>1. ASSUME NEW m \in 1..l PROVE SortsBefore(Key(s[m].name), Key(name))
      <3>1. ~SortsBefore(Key(name), Key(s[m].name)) BY <1>1, <1>3
      <3> QED BY <1>a, <3>1, Order
    <2>2. \A m \in 1..l : m < l + 1 BY <1>0
    <2>3. l + 1 \in 1..(l + 1) BY <1>0
    <2> QED BY <1>0, <1>2, <1>3, <2>1, <2>2, <2>3 DEF Splits
  <1>4. CASE later # {}
    <2>1. later \in SUBSET Nat OBVIOUS
    <2>2. \E n \in later : \A m \in later : n <= m BY <1>4, <2>1, Least
    <2>3. PICK k : k = CHOOSE n \in later : \A m \in later : n <= m OBVIOUS
    <2>4. k \in later /\ \A m \in later : k <= m BY <2>2, <2>3
    <2>5. FindPosition(s, name) = k BY <1>2, <1>4, <2>3
    <2>6. k \in 1..l /\ SortsBefore(Key(name), Key(s[k].name)) BY <1>1, <2>4
    <2>7. ASSUME NEW m \in 1..l, m < k PROVE SortsBefore(Key(s[m].name), Key(name))
      <3>1. ~(k <= m) BY <2>6, <2>7
      <3>2. ~SortsBefore(Key(name), Key(s[m].name)) BY <1>1, <2>4, <3>1
      <3> QED BY <1>a, <3>2, Order
    <2>8. ASSUME NEW m \in 1..l, ~(m < k) PROVE SortsBefore(Key(name), Key(s[m].name))
      <3>1. CASE m = k BY <2>6, <3>1
      <3>2. CASE k < m
        <4>1. SortsBefore(Key(s[k].name), Key(s[m].name)) BY <1>0, <2>6, <3>2 DEF Sorted
        <4> QED BY <1>a, <2>6, <4>1, Order
      <3> QED BY <2>6, <2>8, <3>1, <3>2
    <2> QED BY <1>0, <2>5, <2>6, <2>7, <2>8 DEF Splits
  <1> QED BY <1>3, <1>4

\* A handle that may be written: what Placed says of an inode, and no name or
\* inode of a value twice.
HandleOk(h) ==
    /\ HandleShape(h) /\ Distinct(h.attrs)
    /\ h.ibody # 0 => SpaceUsed(IbodyPart(h)) + 4 <= IbodyRoom
    /\ Len(BlockPart(h)) # 0 => SpaceUsed(BlockPart(h)) + 4 <= BlockRoom
    /\ Sorted(BlockPart(h))
    /\ \A n \in 1..Len(BlockPart(h)) : BlockPart(h)[n].name # "system.data"

LEMMA PutIbodyOk ==
    ASSUME NEW h, HandleOk(h), NEW k \in 1..(h.ibody + 1), NEW a, AttrOk(a),
           \A n \in 1..Len(h.attrs) : Differ(h.attrs[n], a),
           SpaceUsed(IbodyPart(h)) + AttrSize(a) + 4 <= IbodyRoom,
           NEW g, g = Handle(h.ino, InsertAt(h.attrs, k, a), h.ibody + 1)
    PROVE  /\ HandleOk(g) /\ g.ino = h.ino /\ Elems(g.attrs) = Elems(h.attrs) \cup {a}
           /\ BlockPart(g) = BlockPart(h)
  <1>0. HandleShape(h) BY DEF HandleOk
  <1>1. HandleShape(g) /\ IbodyPart(g) = InsertAt(IbodyPart(h), k, a) /\ BlockPart(g) = BlockPart(h)
    BY <1>0, PutIbody
  <1>2. g.attrs = InsertAt(h.attrs, k, a) /\ g.ino = h.ino BY DEF Handle
  <1>3. IsSeq(h.attrs) /\ Len(h.attrs) \in Nat /\ h.ibody \in 0..Len(h.attrs)
    BY <1>0 DEF HandleShape, List, IsSeq
  <1>4. k \in 1..(Len(h.attrs) + 1) BY <1>3
  <1>5. Distinct(g.attrs) /\ Elems(g.attrs) = Elems(h.attrs) \cup {a}
    BY <1>2, <1>3, <1>4, DistinctInserted DEF HandleOk
  <1>6. SpaceUsed(IbodyPart(g)) = SpaceUsed(IbodyPart(h)) + AttrSize(a)
    <2>1. List(IbodyPart(h)) /\ k \in 1..(Len(IbodyPart(h)) + 1) BY <1>0, HandleParts
    <2> QED BY <1>1, <2>1, SpaceInserted
  <1> QED BY <1>1, <1>2, <1>5, <1>6 DEF HandleOk

\* The attribute has room in the block, as its entry k, the list's entry p.
GoesAt(h, k, p, a) ==
    /\ k \in 1..(Len(BlockPart(h)) + 1) /\ p = h.ibody + k
    /\ AttrOk(a) /\ a.name # "system.data" /\ Splits(BlockPart(h), k, a.name)
    /\ \A n \in 1..Len(h.attrs) : Differ(h.attrs[n], a)
    /\ SpaceUsed(BlockPart(h)) + AttrSize(a) + 4 <= BlockRoom

LEMMA PutBlockOk ==
    ASSUME NEW h, HandleOk(h), NEW k, NEW p, NEW a, GoesAt(h, k, p, a),
           NEW g, g = Handle(h.ino, InsertAt(h.attrs, p, a), h.ibody)
    PROVE  HandleOk(g) /\ g.ino = h.ino /\ Elems(g.attrs) = Elems(h.attrs) \cup {a}
  <1>h. /\ k \in 1..(Len(BlockPart(h)) + 1) /\ p = h.ibody + k
        /\ AttrOk(a) /\ a.name # "system.data" /\ Splits(BlockPart(h), k, a.name)
        /\ \A n \in 1..Len(h.attrs) : Differ(h.attrs[n], a)
        /\ SpaceUsed(BlockPart(h)) + AttrSize(a) + 4 <= BlockRoom
    BY DEF GoesAt
  <1>0. HandleShape(h) BY DEF HandleOk
  <1>1. HandleShape(g) /\ IbodyPart(g) = IbodyPart(h) /\ BlockPart(g) = InsertAt(BlockPart(h), k, a)
    BY <1>0, <1>h, PutBlock
  <1>2. g.attrs = InsertAt(h.attrs, p, a) /\ g.ino = h.ino /\ g.ibody = h.ibody BY DEF Handle
  <1>3. IsSeq(h.attrs) /\ Len(h.attrs) \in Nat /\ h.ibody \in 0..Len(h.attrs)
    BY <1>0 DEF HandleShape, List, IsSeq
  <1>b. List(BlockPart(h)) /\ IsSeq(BlockPart(h)) /\ Len(BlockPart(h)) = Len(h.attrs) - h.ibody
    BY <1>0, HandleParts DEF List
  <1>4. PICK m \in 1..(Len(h.attrs) + 1) : m = p BY <1>3, <1>b, <1>h, SMTT(30)
  <1>5. Distinct(g.attrs) /\ Elems(g.attrs) = Elems(h.attrs) \cup {a}
    <2>1. PICK s : s = h.attrs OBVIOUS
    <2>2. IsSeq(s) /\ Distinct(s) /\ m \in 1..(Len(s) + 1) BY <1>3, <1>4, <2>1 DEF HandleOk
    <2>3. \A n \in 1..Len(s) : Differ(s[n], a) BY <1>h, <2>1
    <2>4. Distinct(InsertAt(s, m, a)) /\ Elems(InsertAt(s, m, a)) = Elems(s) \cup {a}
      BY <2>2, <2>3, DistinctInserted
    <2> QED BY <1>2, <1>4, <2>1, <2>4
  <1>6. SpaceUsed(BlockPart(g)) = SpaceUsed(BlockPart(h)) + AttrSize(a)
    BY <1>1, <1>b, <1>h, SpaceInserted
  <1>7. Sorted(BlockPart(g)) BY <1>1, <1>b, <1>h, SortedInserted DEF HandleOk
  <1>8. \A n \in 1..Len(BlockPart(g)) : BlockPart(g)[n].name # "system.data"
    <2>1. PICK l \in Nat : l = Len(BlockPart(h)) BY <1>b DEF IsSeq
    <2>2. /\ Len(BlockPart(g)) = l + 1
          /\ \A j \in 1..(l + 1) : BlockPart(g)[j]
               = IF j < k THEN BlockPart(h)[j] ELSE IF j = k THEN a ELSE BlockPart(h)[j - 1]
      BY <1>1, <1>b, <1>h, <2>1, Inserted, SMTT(30)
    <2>3. \A n \in 1..l : BlockPart(h)[n].name # "system.data" BY <2>1 DEF HandleOk
    <2>4. ASSUME NEW n \in 1..(l + 1) PROVE BlockPart(g)[n].name # "system.data"
      <3>0. k \in Nat /\ k >= 1 /\ k <= l + 1 BY <1>h, <2>1
      <3>1. CASE n < k
        <4>1. n \in 1..l BY <3>0, <3>1
        <4> QED BY <2>2, <2>3, <3>1, <4>1
      <3>2. CASE n = k BY <1>h, <2>2, <3>0, <3>2
      <3>3. CASE n > k
        <4>1. n - 1 \in 1..l /\ ~(n < k) /\ n # k BY <3>0, <3>3
        <4> QED BY <2>2, <2>3, <4>1
      <3> QED BY <3>0, <3>1, <3>2, <3>3
    <2> QED BY <2>2, <2>4
  <1> QED BY <1>1, <1>2, <1>5, <1>6, <1>7, <1>8, <1>h DEF HandleOk

LEMMA DroppedOk ==
    ASSUME NEW h, HandleOk(h), NEW k \in 1..Len(h.attrs), NEW g, g = Dropped(h, k)
    PROVE  /\ HandleOk(g) /\ g.ino = h.ino
           /\ Elems(g.attrs) = {c \in Elems(h.attrs) : c.name # h.attrs[k].name}
           /\ \A n \in 1..Len(g.attrs) : Differ(g.attrs[n], h.attrs[k])
           /\ AttrOk(h.attrs[k])
           /\ k <= h.ibody =>
                /\ BlockPart(g) = BlockPart(h) /\ g.ibody = h.ibody - 1
                /\ SpaceUsed(IbodyPart(g)) = SpaceUsed(IbodyPart(h)) - AttrSize(h.attrs[k])
           /\ k > h.ibody =>
                /\ IbodyPart(g) = IbodyPart(h) /\ g.ibody = h.ibody
                /\ h.attrs[k].name # "system.data"
                /\ k - h.ibody \in 1..(Len(BlockPart(g)) + 1)
                /\ Splits(BlockPart(g), k - h.ibody, h.attrs[k].name)
                /\ SpaceUsed(BlockPart(g)) = SpaceUsed(BlockPart(h)) - AttrSize(h.attrs[k])
  <1>0. HandleShape(h) BY DEF HandleOk
  <1>1. /\ HandleShape(g) /\ g.ino = h.ino /\ g.attrs = RemoveAt(h.attrs, k)
        /\ k <= h.ibody => /\ g.ibody = h.ibody - 1 /\ BlockPart(g) = BlockPart(h)
                           /\ IbodyPart(g) = RemoveAt(IbodyPart(h), k)
        /\ k > h.ibody => /\ g.ibody = h.ibody /\ IbodyPart(g) = IbodyPart(h)
                          /\ BlockPart(g) = RemoveAt(BlockPart(h), k - h.ibody)
    BY <1>0, DroppedParts
  <1>2. IsSeq(h.attrs) /\ Len(h.attrs) \in Nat /\ h.ibody \in 0..Len(h.attrs)
    BY <1>0 DEF HandleShape, List, IsSeq
  <1>3. /\ Distinct(g.attrs) /\ Elems(g.attrs) = {c \in Elems(h.attrs) : c.name # h.attrs[k].name}
        /\ \A n \in 1..Len(g.attrs) : Differ(g.attrs[n], h.attrs[k])
    BY <1>1, <1>2, DistinctRemoved DEF HandleOk
  <1>4. AttrOk(h.attrs[k]) BY <1>0 DEF HandleShape, List
  <1>x. PICK x \in Nat : x = AttrSize(h.attrs[k]) BY <1>4, AttrSizes
  <1>p. /\ List(IbodyPart(h)) /\ Len(IbodyPart(h)) = h.ibody
        /\ \A j \in 1..h.ibody : IbodyPart(h)[j] = h.attrs[j]
        /\ List(BlockPart(h)) /\ Len(BlockPart(h)) = Len(h.attrs) - h.ibody
        /\ \A j \in 1..(Len(h.attrs) - h.ibody) : BlockPart(h)[j] = h.attrs[h.ibody + j]
    BY <1>0, HandleParts
  <1>s. SpaceUsed(IbodyPart(h)) \in Nat /\ SpaceUsed(BlockPart(h)) \in Nat BY <1>p, SpaceIs
  <1>5. CASE k <= h.ibody
    <2>1. k \in 1..h.ibody /\ h.ibody # 0 BY <1>2, <1>5
    <2>2. SpaceUsed(IbodyPart(g)) = SpaceUsed(IbodyPart(h)) - x
      BY <1>1, <1>5, <1>p, <1>x, <2>1, SpaceRemoved
    <2>3. SpaceUsed(IbodyPart(h)) + 4 <= IbodyRoom BY <2>1 DEF HandleOk
    <2>4. IbodyRoom \in Int BY Constants DEF IbodyRoom, ExtraIsize
    <2>5. SpaceUsed(IbodyPart(g)) + 4 <= IbodyRoom BY <1>s, <2>2, <2>3, <2>4
    <2>6. HandleOk(g) BY <1>1, <1>3, <1>5, <2>5 DEF HandleOk
    <2> QED BY <1>1, <1>2, <1>3, <1>4, <1>5, <1>x, <2>2, <2>6
  <1>6. CASE k > h.ibody
    <2>1. PICK q : q = BlockPart(h) OBVIOUS
    <2>2. PICK m \in 1..Len(q) : m = k - h.ibody /\ q[m] = h.attrs[k]
      <3>1. PICK b \in Nat : b = h.ibody BY <1>2
      <3>2. PICK m \in Nat : m = k - b /\ k = b + m /\ m >= 1 BY <1>2, <1>6, <3>1, SMTT(30)
      <3>3. m \in 1..(Len(h.attrs) - b)
        <4>1. PICK l \in Nat : l = Len(h.attrs) BY <1>2
        <4>2. k <= l BY <4>1
        <4>3. m <= l - b BY <3>1, <3>2, <4>1, <4>2, SMTT(30)
        <4> QED BY <3>1, <3>2, <4>1, <4>3
      <3>4. q[m] = h.attrs[b + m] BY <1>p, <2>1, <3>1, <3>3
      <3> QED BY <1>p, <2>1, <3>1, <3>2, <3>3, <3>4
    <2>3. PICK r : r = BlockPart(g) OBVIOUS
    <2>4. r = RemoveAt(q, m) BY <1>1, <1>6, <2>1, <2>2, <2>3
    <2>5. SpaceUsed(r) = SpaceUsed(q) - x
      <3>1. List(q) BY <1>p, <2>1
      <3>2. SpaceUsed(RemoveAt(q, m)) = SpaceUsed(q) - AttrSize(q[m])
        BY <2>2, <3>1, SpaceRemoved
      <3>3. AttrSize(q[m]) = x BY <1>x, <2>2
      <3> QED BY <2>4, <3>2, <3>3
    <2>q. IsSeq(q) /\ Sorted(q) /\ Len(q) \in Nat BY <1>p, <2>1 DEF HandleOk, List, IsSeq
    <2>6. Sorted(r) /\ Splits(r, m, h.attrs[k].name) BY <2>2, <2>4, <2>q, SortedRemoved
    <2>7. Len(r) = Len(q) - 1 /\ \A j \in 1..(Len(q) - 1) : r[j] = IF j < m THEN q[j] ELSE q[j + 1]
      BY <2>2, <2>4, <2>q, Removed
    <2>8. \A n \in 1..Len(q) : q[n].name # "system.data" BY <2>1 DEF HandleOk
    <2>9. ASSUME NEW n \in 1..Len(r) PROVE r[n].name # "system.data"
      <3>1. n \in 1..Len(q) /\ n + 1 \in 1..Len(q) /\ n \in 1..(Len(q) - 1) BY <2>7, <2>q
      <3>2. r[n] = q[n] \/ r[n] = q[n + 1] BY <2>7, <3>1
      <3> QED BY <2>8, <3>1, <3>2
    <2>10. SpaceUsed(q) + 4 <= BlockRoom
      <3>1. Len(q) # 0 BY <2>2, <2>q
      <3> QED BY <2>1, <3>1 DEF HandleOk
    <2>11. SpaceUsed(r) + 4 <= BlockRoom
      <3>1. BlockRoom \in Int BY Constants DEF BlockRoom
      <3> QED BY <1>s, <2>1, <2>5, <2>10, <3>1
    <2>12. HandleOk(g) BY <1>1, <1>3, <1>6, <2>3, <2>6, <2>9, <2>11 DEF HandleOk
    <2>13. m \in 1..(Len(r) + 1) BY <2>7, <2>q
    <2>14. h.attrs[k].name # "system.data" BY <2>2, <2>8
    <2>15. ~(k <= h.ibody) BY <1>2, <1>6
    <2> QED BY <1>1, <1>3, <1>4, <1>6, <1>x, <2>1, <2>2, <2>3, <2>5, <2>6, <2>12, <2>13, <2>14, <2>15
  <1>7. k <= h.ibody \/ k > h.ibody BY <1>2
  <1> QED BY <1>5, <1>6, <1>7

-----------------------------------------------------------------------------
\* Finding, replacing and adding an attribute

LEMMA IndexIs ==
    ASSUME NEW s, IsSeq(s), NEW name
    PROVE  /\ IndexOf(s, name) = 0 <=> \A n \in 1..Len(s) : s[n].name # name
           /\ IndexOf(s, name) # 0 => /\ IndexOf(s, name) \in 1..Len(s)
                                      /\ s[IndexOf(s, name)].name = name
  <1>0. PICK l \in Nat : l = Len(s) BY DEF IsSeq
  <1>1. PICK at \in SUBSET (1..l) : at = {n \in 1..l : s[n].name = name} OBVIOUS
  <1>2. IndexOf(s, name) = IF at = {} THEN 0 ELSE CHOOSE n \in at : TRUE
    BY <1>0, <1>1 DEF IndexOf
  <1>3. CASE at = {} BY <1>0, <1>1, <1>2, <1>3
  <1>4. CASE at # {}
    <2>1. PICK k : k = CHOOSE n \in at : TRUE OBVIOUS
    <2>2. k \in at BY <1>4, <2>1, Zenon
    <2>3. IndexOf(s, name) = k BY <1>2, <1>4, <2>1
    <2>4. k \in 1..l /\ s[k].name = name /\ k # 0 BY <1>1, <2>2
    <2> QED BY <1>0, <2>3, <2>4
  <1> QED BY <1>3, <1>4

\* An attribute is the one of its name.
LEMMA OneOfName ==
    ASSUME NEW s, IsSeq(s), Distinct(s), NEW name
    PROVE  /\ IndexOf(s, name) = 0 <=> \A c \in Elems(s) : c.name # name
           /\ IndexOf(s, name) # 0 =>
                /\ s[IndexOf(s, name)] \in Elems(s) /\ s[IndexOf(s, name)].name = name
                /\ \A c \in Elems(s) : c.name = name => c = s[IndexOf(s, name)]
  <1>1. PICK k : k = IndexOf(s, name) OBVIOUS
  <1>2. /\ k = 0 <=> \A n \in 1..Len(s) : s[n].name # name
        /\ k # 0 => k \in 1..Len(s) /\ s[k].name = name
    BY <1>1, IndexIs
  <1>3. (\A n \in 1..Len(s) : s[n].name # name) <=> \A c \in Elems(s) : c.name # name
    BY DEF Elems
  <1>4. ASSUME k # 0, NEW c \in Elems(s), c.name = name PROVE c = s[k]
    <2>1. PICK n \in 1..Len(s) : c = s[n] BY DEF Elems
    <2>2. n = k BY <1>2, <1>4, <2>1 DEF Distinct, Differ
    <2> QED BY <2>1, <2>2
  <1>5. k # 0 => s[k] \in Elems(s) BY <1>2 DEF Elems
  <1> QED BY <1>1, <1>2, <1>3, <1>4, <1>5

LEMMA ReplacedIs ==
    ASSUME NEW s, IsSeq(s), NEW k \in 1..Len(s), NEW a
    PROVE  [s EXCEPT ![k] = a] = InsertAt(RemoveAt(s, k), k, a)
  <1>0. PICK l \in Nat : l = Len(s) BY DEF IsSeq
  <1>k. k \in Nat /\ k >= 1 /\ k <= l BY <1>0
  <1>1. PICK r : r = RemoveAt(s, k) OBVIOUS
  <1>2. IsSeq(r) /\ Len(r) = l - 1 /\ \A j \in 1..(l - 1) : r[j] = IF j < k THEN s[j] ELSE s[j + 1]
    BY <1>0, <1>1, Removed
  <1>3. PICK t : t = InsertAt(r, k, a) OBVIOUS
  <1>4. /\ IsSeq(t) /\ Len(t) = l
        /\ \A j \in 1..l : t[j] = IF j < k THEN r[j] ELSE IF j = k THEN a ELSE r[j - 1]
    <2>1. k \in 1..(Len(r) + 1) BY <1>2, <1>k
    <2>2. /\ IsSeq(t) /\ Len(t) = Len(r) + 1
          /\ \A j \in 1..(Len(r) + 1) : t[j] = IF j < k THEN r[j] ELSE IF j = k THEN a ELSE r[j - 1]
      BY <1>2, <1>3, <2>1, Inserted
    <2>3. Len(r) + 1 = l BY <1>0, <1>2
    <2> QED BY <2>2, <2>3
  <1>5. PICK u : u = [s EXCEPT ![k] = a] OBVIOUS
  <1>6. u = [j \in 1..l |-> IF j = k THEN a ELSE s[j]] BY <1>0, <1>5 DEF IsSeq
  <1>7. IsSeq(u) /\ Len(u) = l
    <2>1. u = [j \in 1..l |-> u[j]] BY <1>6
    <2> QED BY <2>1, MadeSeq
  <1>8. ASSUME NEW j \in 1..l PROVE u[j] = t[j]
    <2>1. CASE j < k
      <3>1. j \in 1..(l - 1) BY <1>k, <2>1
      <3>2. r[j] = s[j] BY <1>2, <2>1, <3>1
      <3>3. t[j] = r[j] /\ j # k BY <1>4, <1>k, <2>1
      <3> QED BY <1>6, <3>2, <3>3
    <2>2. CASE j = k
      <3>1. t[j] = a BY <1>4, <1>k, <2>2
      <3> QED BY <1>6, <2>2, <3>1
    <2>3. CASE j > k
      <3>1. j - 1 \in 1..(l - 1) /\ ~(j - 1 < k) /\ (j - 1) + 1 = j /\ j # k BY <1>k, <2>3
      <3>2. r[j - 1] = s[j] BY <1>2, <3>1
      <3>3. t[j] = r[j - 1] BY <1>4, <1>k, <2>3
      <3> QED BY <1>6, <3>1, <3>2, <3>3
    <2> QED BY <1>k, <2>1, <2>2, <2>3
  <1>9. u = t
    <2>1. Len(u) = Len(t) /\ \A j \in 1..Len(u) : u[j] = t[j] BY <1>4, <1>7, <1>8
    <2> QED BY <1>4, <1>7, <2>1, SameSeq
  <1> QED BY <1>1, <1>3, <1>5, <1>9

-----------------------------------------------------------------------------
\* The inodes of values

EaShape(d) ==
    /\ d = [inode |-> d.inode, blk |-> d.blk, ea |-> d.ea, used |-> d.used]
    /\ d.ea = [e \in EaInodes |-> d.ea[e]]
    /\ \A e \in EaInodes : d.ea[e].ref \in Nat

\* Only inodes of values have changed.
EaOnly(d, u) == /\ EaShape(u)
                /\ u.inode = d.inode /\ u.blk = d.blk /\ u.used = d.used

LEMMA DecRefIs ==
    ASSUME NEW d, EaShape(d), NEW old \in EaInodes \cup {0}, old # 0 => d.ea[old].ref = 1
    PROVE  /\ EaOnly(d, DecRef(d, old)) /\ (old = 0 => DecRef(d, old) = d)
           /\ \A f \in EaInodes : f # old => DecRef(d, old).ea[f] = d.ea[f]
  <1>1. CASE old = 0 BY <1>1 DEF DecRef, EaOnly
  <1>2. CASE old # 0
    <2>1. PICK u : u = DecRef(d, old) OBVIOUS
    <2>2. u = [d EXCEPT !.ea[old] = IF @.ref = 1 THEN FreeInode ELSE [@ EXCEPT !.ref = @ - 1]]
      BY <1>2, <2>1 DEF DecRef
    <2>3. u = [inode |-> d.inode, blk |-> d.blk, used |-> d.used,
               ea |-> [d.ea EXCEPT ![old] = FreeInode]]
      BY <1>2, <2>2 DEF EaShape
    <2>4. u.ea = [f \in EaInodes |-> IF f = old THEN FreeInode ELSE d.ea[f]] BY <2>3 DEF EaShape
    <2>5. \A f \in EaInodes : u.ea[f].ref \in Nat BY <2>4 DEF EaShape, FreeInode
    <2> QED BY <1>2, <2>1, <2>3, <2>4, <2>5 DEF EaOnly, EaShape
  <1> QED BY <1>1, <1>2

LEMMA UpdateEntryIs ==
    ASSUME NEW d, EaShape(d), NEW old \in EaInodes \cup {0}, old # 0 => d.ea[old].ref = 1,
           NEW name, NEW v, NEW inInode \in BOOLEAN, NEW u, u = UpdateEntry(d, old, name, v, inInode)
    PROVE  /\ u.err # "ok" => u.d = d
           /\ u.err = "ok" => \E x \in EaInodes \cup {0} :
                /\ u.attr = Attr(name, v, x) /\ (x # 0 <=> inInode)
                /\ x # 0 => d.ea[x].ref = 0 /\ u.d.ea[x] = [ref |-> 1, value |-> v]
                /\ EaOnly(d, u.d)
                /\ \A f \in EaInodes : f # x /\ f # old => u.d.ea[f] = d.ea[f]
  <1>1. CASE ~inInode
    <2>1. u = [err |-> "ok", d |-> DecRef(d, old), attr |-> Attr(name, v, 0)]
      BY <1>1 DEF UpdateEntry
    <2> QED BY <1>1, <2>1, DecRefIs
  <1>2. CASE inInode /\ FreeEaInodes(d) = {}
    <2>1. u = [err |-> "no_inode", d |-> d, attr |-> Attr(name, v, 0)] BY <1>2 DEF UpdateEntry
    <2> QED BY <2>1
  <1>3. CASE inInode /\ FreeEaInodes(d) # {}
    <2>1. PICK e : e = CHOOSE x \in FreeEaInodes(d) : \A f \in FreeEaInodes(d) : x <= f OBVIOUS
    <2>2. FreeEaInodes(d) \in SUBSET Nat BY Constants DEF FreeEaInodes
    <2>3. \E x \in FreeEaInodes(d) : \A f \in FreeEaInodes(d) : x <= f BY <1>3, <2>2, Least
    <2>4. e \in FreeEaInodes(d) BY <2>1, <2>3, Zenon
    <2>5. e \in EaInodes /\ e # 0 /\ d.ea[e].ref = 0 BY <2>4, Constants DEF FreeEaInodes
    <2>6. e # old BY <2>5
    <2>7. PICK w : w = WithEaInode(d, e, v) OBVIOUS
    <2>8. w = [inode |-> d.inode, blk |-> d.blk, used |-> d.used,
               ea |-> [d.ea EXCEPT ![e] = [ref |-> 1, value |-> v]]]
      BY <2>5, <2>7 DEF WithEaInode, EaShape
    <2>9. w.ea = [f \in EaInodes |-> IF f = e THEN [ref |-> 1, value |-> v] ELSE d.ea[f]]
      BY <2>8 DEF EaShape
    <2>10. EaShape(w)
      <3>1. \A f \in EaInodes : w.ea[f].ref \in Nat BY <2>9 DEF EaShape
      <3> QED BY <2>8, <2>9, <3>1 DEF EaShape
    <2>11. old # 0 => w.ea[old].ref = 1 BY <2>6, <2>9
    <2>12. PICK y : y = DecRef(w, old) OBVIOUS
    <2>13. EaOnly(w, y) /\ \A f \in EaInodes : f # old => y.ea[f] = w.ea[f]
      BY <2>10, <2>11, <2>12, DecRefIs
    <2>14. u = [err |-> "ok", d |-> y, attr |-> Attr(name, v, e)]
      BY <1>3, <2>1, <2>7, <2>12 DEF UpdateEntry
    <2>15. EaOnly(d, y) BY <2>8, <2>13 DEF EaOnly
    <2>16. y.ea[e] = [ref |-> 1, value |-> v] BY <2>5, <2>6, <2>9, <2>13
    <2>17. \A f \in EaInodes : f # e /\ f # old => y.ea[f] = d.ea[f] BY <2>9, <2>13
    <2>18. u.err = "ok" /\ u.d = y /\ u.attr = Attr(name, v, e) BY <2>14
    <2> QED BY <1>3, <2>5, <2>15, <2>16, <2>17, <2>18, ZenonT(30)
  <1> QED BY <1>1, <1>2, <1>3

-----------------------------------------------------------------------------
\* xattr_array_update

\* The values that a handle's attributes have in inodes are there.
EaFits(d, h) ==
    \A c \in Elems(h.attrs) : c.ea # 0 => d.ea[c.ea] = [ref |-> 1, value |-> c.value]

OtherNames(h, name) == {c \in Elems(h.attrs) : c.name # name}

\* u: the handle and the inodes of values after a change of one attribute
Updating(d, h, name, v, u) ==
    \E x \in EaInodes \cup {0} :
      /\ x # 0 => /\ name # "system.data" /\ d.ea[x].ref = 0
                  /\ u.d.ea[x] = [ref |-> 1, value |-> v]
      /\ EaOnly(d, u.d)
      /\ \A f \in EaInodes : /\ f # x
                             /\ \A c \in Elems(h.attrs) : c.name = name => c.ea # f
                             => u.d.ea[f] = d.ea[f]
      /\ HandleOk(u.h) /\ u.h.ino = h.ino
      /\ Elems(u.h.attrs) = OtherNames(h, name) \cup {Attr(name, v, x)}
      /\ name = "system.data" => BlockPart(u.h) = BlockPart(h)

\* The list without the attribute, and the new one beside it
LEMMA WithoutName ==
    ASSUME NEW d, NEW h, HandleOk(h), EaFits(d, h), NEW name, NEW old, old = IndexOf(h.attrs, name),
           NEW g, g = IF old = 0 THEN h ELSE Dropped(h, old),
           NEW a, a.name = name, a.ea # 0 => d.ea[a.ea].ref = 0
    PROVE  /\ HandleOk(g) /\ g.ino = h.ino /\ Elems(g.attrs) = OtherNames(h, name)
           /\ \A n \in 1..Len(g.attrs) : Differ(g.attrs[n], a)
  <1>1. IsSeq(h.attrs) /\ Distinct(h.attrs) BY DEF HandleOk, HandleShape, List
  <1>2. HandleOk(g) /\ g.ino = h.ino /\ Elems(g.attrs) = OtherNames(h, name)
    <2>1. CASE old = 0
      <3>1. \A c \in Elems(h.attrs) : c.name # name
        <4>1. PICK s : s = h.attrs OBVIOUS
        <4>2. IsSeq(s) /\ Distinct(s) /\ IndexOf(s, name) = 0 BY <1>1, <2>1, <4>1
        <4>3. \A c \in Elems(s) : c.name # name BY <4>2, OneOfName
        <4> QED BY <4>1, <4>3
      <3>2. OtherNames(h, name) = Elems(h.attrs) BY <3>1 DEF OtherNames
      <3> QED BY <2>1, <3>2
    <2>2. CASE old # 0
      <3>1. old \in 1..Len(h.attrs) /\ h.attrs[old].name = name BY <1>1, <2>2, IndexIs
      <3>2. g = Dropped(h, old) BY <2>2
      <3>3. /\ HandleOk(g) /\ g.ino = h.ino
            /\ Elems(g.attrs) = {c \in Elems(h.attrs) : c.name # h.attrs[old].name}
        BY <3>1, <3>2, DroppedOk
      <3> QED BY <3>1, <3>3 DEF OtherNames
    <2> QED BY <2>1, <2>2
  <1>3. ASSUME NEW n \in 1..Len(g.attrs) PROVE Differ(g.attrs[n], a)
    <2>1. PICK c : c = g.attrs[n] OBVIOUS
    <2>2. c \in OtherNames(h, name) BY <1>2, <2>1 DEF Elems
    <2>3. c \in Elems(h.attrs) /\ c.name # name BY <2>2 DEF OtherNames
    <2>4. c.ea # 0 => d.ea[c.ea].ref = 1
      <3>1. c.ea # 0 => d.ea[c.ea] = [ref |-> 1, value |-> c.value] BY <2>3 DEF EaFits
      <3> QED BY <3>1
    <2>5. c.ea # 0 => c.ea # a.ea BY <2>4
    <2> QED BY <2>1, <2>3, <2>5 DEF Differ
  <1> QED BY <1>2, <1>3

\* The lengths that IbodyFree and BlockFree leave
LEMMA RoomIs ==
    ASSUME NEW h, HandleOk(h)
    PROVE  /\ SpaceUsed(IbodyPart(h)) \in Nat /\ SpaceUsed(BlockPart(h)) \in Nat
           /\ IbodyRoom \in Int /\ BlockRoom \in Int
           /\ InodeSize # 128 => IbodyFree(h) = IbodyRoom - 4 - SpaceUsed(IbodyPart(h))
           /\ InodeSize = 128 => IbodyFree(h) = 0 /\ h.ibody = 0
           /\ BlockFree(h) = BlockRoom - 4 - SpaceUsed(BlockPart(h))
  <1>1. List(IbodyPart(h)) /\ List(BlockPart(h)) BY HandleParts DEF HandleOk
  <1>2. SpaceUsed(IbodyPart(h)) \in Nat /\ SpaceUsed(BlockPart(h)) \in Nat BY <1>1, SpaceIs
  <1>3. IbodyRoom \in Int /\ BlockRoom \in Int BY Constants DEF IbodyRoom, BlockRoom, ExtraIsize
  <1>4. InodeSize = 128 => IbodyRoom < 0 BY DEF IbodyRoom, ExtraIsize
  <1>5. InodeSize = 128 => h.ibody = 0
    <2> SUFFICES ASSUME InodeSize = 128, h.ibody # 0 PROVE FALSE OBVIOUS
    <2>1. SpaceUsed(IbodyPart(h)) + 4 <= IbodyRoom BY DEF HandleOk
    <2> QED BY <1>2, <1>3, <1>4, <2>1
  <1> QED BY <1>2, <1>3, <1>5 DEF IbodyFree, BlockFree

\* Data are never in an inode of their own.
BesideEntry(name, inInode) == name = "system.data" => ~inInode

LEMMA ArrayUpdateIs ==
    ASSUME NEW d, EaShape(d), NEW h, HandleOk(h), EaFits(d, h), NEW name \in AllNames, NEW v,
           v.len \in Nat, NEW old, old = IndexOf(h.attrs, name), NEW inInode \in BOOLEAN, NEW bf,
           name = "system.data" => bf = 0 /\ ~(old > h.ibody),
           BesideEntry(name, inInode),
           name # "system.data" => bf = BlockFree(h),
           NEW u, u = ArrayUpdate(d, h, name, v, IbodyFree(h), bf, old, inInode)
    PROVE  /\ u.err # "ok" => u.d = d
           /\ u.err = "ok" => Updating(d, h, name, v, u)
  <1>s. IsSeq(h.attrs) /\ Distinct(h.attrs) /\ Len(h.attrs) \in Nat /\ h.ibody \in 0..Len(h.attrs)
    BY DEF HandleOk, HandleShape, List, IsSeq
  <1>a. \A n \in 1..Len(h.attrs) : AttrOk(h.attrs[n]) BY DEF HandleOk, HandleShape, List
  <1>o. old \in 0..Len(h.attrs) /\ (old # 0 => old \in 1..Len(h.attrs) /\ h.attrs[old].name = name)
    BY <1>s, IndexIs
  <1>e. PICK oldea : oldea = IF old = 0 THEN 0 ELSE h.attrs[old].ea OBVIOUS
  <1>f. oldea \in EaInodes \cup {0} /\ (oldea # 0 => d.ea[oldea].ref = 1)
    <2>1. CASE old = 0 BY <1>e, <2>1
    <2>2. CASE old # 0
      <3>1. h.attrs[old] \in Elems(h.attrs) BY <1>o, <2>2 DEF Elems
      <3>2. oldea # 0 => d.ea[oldea].ref = 1
        <4>1. PICK c : c = h.attrs[old] OBVIOUS
        <4>2. c.ea # 0 => d.ea[c.ea] = [ref |-> 1, value |-> c.value] BY <3>1, <4>1 DEF EaFits
        <4> QED BY <1>e, <2>2, <4>1, <4>2
      <3> QED BY <1>a, <1>e, <1>o, <2>2, <3>2 DEF AttrOk
    <2> QED BY <2>1, <2>2
  <1>u. PICK up : up = UpdateEntry(d, oldea, name, v, inInode) OBVIOUS
  <1>v. /\ up.err # "ok" => up.d = d
        /\ up.err = "ok" => \E x \in EaInodes \cup {0} :
                /\ up.attr = Attr(name, v, x) /\ (x # 0 <=> inInode)
                /\ x # 0 => d.ea[x].ref = 0 /\ up.d.ea[x] = [ref |-> 1, value |-> v]
                /\ EaOnly(d, up.d)
                /\ \A f \in EaInodes : f # x /\ f # oldea => up.d.ea[f] = d.ea[f]
    BY <1>f, <1>u, UpdateEntryIs, SMTT(30)
  <1>n. PICK needed : needed = Needed(name, v.len, inInode) OBVIOUS
  <1>r. PICK freed \in Nat : freed = IF old = 0 THEN 0 ELSE AttrSize(h.attrs[old])
    BY <1>a, <1>o, AttrSizes
  <1>d. u = IF needed <= IbodyFree(h) + (IF old \in 1..h.ibody THEN freed ELSE 0)
            THEN [err |-> up.err, d |-> up.d, h |-> IF up.err = "ok"
                   THEN IF old \in 1..h.ibody THEN Replaced(h, old, up.attr)
                        ELSE IF old > h.ibody THEN AppendToIbody(Dropped(h, old), up.attr)
                        ELSE AppendToIbody(h, up.attr) ELSE h]
            ELSE IF needed <= bf + (IF old > h.ibody THEN freed ELSE 0)
            THEN [err |-> up.err, d |-> up.d, h |-> IF up.err = "ok"
                   THEN IF old > h.ibody THEN Replaced(h, old, up.attr)
                        ELSE IF old \in 1..h.ibody THEN InsertInBlock(Dropped(h, old), up.attr)
                        ELSE InsertInBlock(h, up.attr) ELSE h]
            ELSE [err |-> "no_space", d |-> d, h |-> h]
    BY <1>e, <1>n, <1>r, <1>u DEF ArrayUpdate
  <1>1. CASE up.err # "ok" BY <1>1, <1>d, <1>v
  <1>2. CASE up.err = "ok"
    <2>x. PICK x \in EaInodes \cup {0} :
                /\ up.attr = Attr(name, v, x) /\ (x # 0 <=> inInode)
                /\ x # 0 => d.ea[x].ref = 0 /\ up.d.ea[x] = [ref |-> 1, value |-> v]
                /\ EaOnly(d, up.d)
                /\ \A f \in EaInodes : f # x /\ f # oldea => up.d.ea[f] = d.ea[f]
      BY <1>2, <1>v
    <2>a. PICK a : a = Attr(name, v, x) OBVIOUS
    <2>b. a.name = name /\ a.value = v /\ a.ea = x /\ AttrOk(a) BY <2>a DEF Attr, AttrOk
    <2>n. needed = AttrSize(a) /\ needed \in Nat /\ needed >= 16
      <3>1. needed = AttrSize(a) BY <1>n, <2>b, <2>x DEF AttrSize
      <3> QED BY <2>b, <3>1, AttrSizes
    <2>g. PICK g : g = IF old = 0 THEN h ELSE Dropped(h, old) OBVIOUS
    <2>h. /\ HandleOk(g) /\ g.ino = h.ino /\ Elems(g.attrs) = OtherNames(h, name)
          /\ \A n \in 1..Len(g.attrs) : Differ(g.attrs[n], a)
      BY <2>b, <2>g, <2>x, WithoutName, SMTT(30)
    <2>m. /\ SpaceUsed(IbodyPart(h)) \in Nat /\ SpaceUsed(BlockPart(h)) \in Nat
          /\ IbodyRoom \in Int /\ BlockRoom \in Int
          /\ InodeSize # 128 => IbodyFree(h) = IbodyRoom - 4 - SpaceUsed(IbodyPart(h))
          /\ InodeSize = 128 => IbodyFree(h) = 0 /\ h.ibody = 0
          /\ BlockFree(h) = BlockRoom - 4 - SpaceUsed(BlockPart(h))
      BY RoomIs
    <2>k. old # 0 =>
           /\ old <= h.ibody =>
                /\ BlockPart(g) = BlockPart(h) /\ g.ibody = h.ibody - 1
                /\ SpaceUsed(IbodyPart(g)) = SpaceUsed(IbodyPart(h)) - freed
           /\ old > h.ibody =>
                /\ IbodyPart(g) = IbodyPart(h) /\ g.ibody = h.ibody
                /\ old - h.ibody \in 1..(Len(BlockPart(g)) + 1)
                /\ Splits(BlockPart(g), old - h.ibody, name)
                /\ SpaceUsed(BlockPart(g)) = SpaceUsed(BlockPart(h)) - freed
           /\ Replaced(h, old, a) = Handle(g.ino, InsertAt(g.attrs, old, a), h.ibody)
      <3> SUFFICES ASSUME old # 0
                   PROVE /\ old <= h.ibody =>
                            /\ BlockPart(g) = BlockPart(h) /\ g.ibody = h.ibody - 1
                            /\ SpaceUsed(IbodyPart(g)) = SpaceUsed(IbodyPart(h)) - freed
                         /\ old > h.ibody =>
                            /\ IbodyPart(g) = IbodyPart(h) /\ g.ibody = h.ibody
                            /\ old - h.ibody \in 1..(Len(BlockPart(g)) + 1)
                            /\ Splits(BlockPart(g), old - h.ibody, name)
                            /\ SpaceUsed(BlockPart(g)) = SpaceUsed(BlockPart(h)) - freed
                         /\ Replaced(h, old, a) = Handle(g.ino, InsertAt(g.attrs, old, a), h.ibody)
        OBVIOUS
      <3>1. g = Dropped(h, old) /\ old \in 1..Len(h.attrs) /\ h.attrs[old].name = name
        BY <1>o, <2>g
      <3>2. freed = AttrSize(h.attrs[old]) BY <1>r
      <3>3. g.attrs = RemoveAt(h.attrs, old) BY <3>1, DroppedParts DEF HandleOk
      <3>4. [h.attrs EXCEPT ![old] = a] = InsertAt(g.attrs, old, a) BY <1>s, <3>1, <3>3, ReplacedIs
      <3>5. Replaced(h, old, a) = Handle(g.ino, InsertAt(g.attrs, old, a), h.ibody)
        BY <2>h, <3>4 DEF Replaced
      <3> QED BY <3>1, <3>2, <3>5, DroppedOk
    <2>e. old = 0 => g = h BY <2>g
    <2>1. ASSUME u.d = up.d, HandleOk(u.h), u.h.ino = h.ino,
                 Elems(u.h.attrs) = OtherNames(h, name) \cup {a},
                 name = "system.data" => BlockPart(u.h) = BlockPart(h)
          PROVE  Updating(d, h, name, v, u)
      <3>1. ASSUME NEW f \in EaInodes, f # x, \A c \in Elems(h.attrs) : c.name = name => c.ea # f
            PROVE  u.d.ea[f] = d.ea[f]
        <4>1. old # 0 => h.attrs[old] \in Elems(h.attrs) BY <1>o DEF Elems
        <4>2. f # oldea
          <5>1. CASE old = 0 BY <1>e, <5>1, Constants
          <5>2. CASE old # 0 BY <1>e, <1>o, <3>1, <4>1, <5>2
          <5> QED BY <5>1, <5>2
        <4> QED BY <2>1, <2>x, <3>1, <4>2
      <3>2. x # 0 => name # "system.data" BY <2>x DEF BesideEntry
      <3> QED BY <2>1, <2>a, <2>x, <3>1, <3>2 DEF Updating
    <2>2. CASE needed <= IbodyFree(h) + (IF old \in 1..h.ibody THEN freed ELSE 0)
      <3>1. /\ u.err = "ok" /\ u.d = up.d
            /\ u.h = IF old \in 1..h.ibody THEN Replaced(h, old, a)
                     ELSE IF old > h.ibody THEN AppendToIbody(Dropped(h, old), a)
                     ELSE AppendToIbody(h, a)
        BY <1>2, <1>d, <2>2, <2>a, <2>x
      <3>2. InodeSize # 128
        <4> SUFFICES ASSUME InodeSize = 128 PROVE FALSE OBVIOUS
        <4>1. IbodyFree(h) = 0 /\ old \notin 1..h.ibody BY <2>m
        <4> QED BY <2>2, <2>n, <4>1
      <3>3. IbodyFree(h) = IbodyRoom - 4 - SpaceUsed(IbodyPart(h)) BY <2>m, <3>2
      <3>4. ASSUME NEW k \in 1..(g.ibody + 1), u.h = Handle(g.ino, InsertAt(g.attrs, k, a), g.ibody + 1),
                   SpaceUsed(IbodyPart(g)) + AttrSize(a) + 4 <= IbodyRoom,
                   name = "system.data" => BlockPart(g) = BlockPart(h)
            PROVE  Updating(d, h, name, v, u)
        <4>1. /\ HandleOk(u.h) /\ u.h.ino = g.ino /\ Elems(u.h.attrs) = Elems(g.attrs) \cup {a}
              /\ BlockPart(u.h) = BlockPart(g)
          BY <2>b, <2>h, <3>4, PutIbodyOk
        <4> QED BY <2>1, <2>h, <3>1, <3>4, <4>1
      <3>5. CASE old \in 1..h.ibody
        <4>1. old # 0 /\ old <= h.ibody BY <1>s, <3>5
        <4>2. /\ BlockPart(g) = BlockPart(h) /\ g.ibody + 1 = h.ibody
              /\ SpaceUsed(IbodyPart(g)) = SpaceUsed(IbodyPart(h)) - freed
          BY <1>s, <2>k, <4>1
        <4>3. u.h = Handle(g.ino, InsertAt(g.attrs, old, a), g.ibody + 1) BY <2>k, <3>1, <3>5, <4>1, <4>2
        <4>4. SpaceUsed(IbodyPart(g)) + AttrSize(a) + 4 <= IbodyRoom
          <5>1. needed <= IbodyFree(h) + freed BY <2>2, <3>5
          <5> QED BY <2>m, <2>n, <3>3, <4>2, <5>1
        <4>5. old \in 1..(g.ibody + 1) /\ (name = "system.data" => BlockPart(g) = BlockPart(h))
          BY <3>5, <4>2
        <4> QED BY <3>1, <3>4, <4>3, <4>4, <4>5
      <3>6. CASE old \notin 1..h.ibody
        <4>1. needed <= IbodyFree(h) BY <2>2, <2>m, <2>n, <3>3, <3>6
        <4>2. u.h = AppendToIbody(g, a) /\ IbodyPart(g) = IbodyPart(h)
          <5>1. CASE old = 0
            <6>1. ~(old > h.ibody) BY <1>s, <5>1
            <6> QED BY <2>e, <3>1, <3>6, <5>1, <6>1
          <5>2. CASE old # 0
            <6>1. old > h.ibody BY <1>o, <1>s, <3>6, <5>2
            <6> QED BY <2>g, <2>k, <3>1, <3>6, <5>2, <6>1
          <5> QED BY <5>1, <5>2
        <4>3. name = "system.data" => BlockPart(g) = BlockPart(h)
          <5> HAVE name = "system.data"
          <5>1. ~(old > h.ibody) OBVIOUS
          <5>2. old = 0 BY <1>o, <1>s, <3>6, <5>1
          <5> QED BY <2>e, <5>2
        <4>4. SpaceUsed(IbodyPart(g)) + AttrSize(a) + 4 <= IbodyRoom
          BY <2>m, <2>n, <3>3, <4>1, <4>2
        <4>5. g.ibody + 1 \in 1..(g.ibody + 1)
          <5>1. g.ibody \in Nat BY <2>h DEF HandleOk, HandleShape, List, IsSeq
          <5> QED BY <5>1
        <4> QED BY <3>1, <3>4, <4>2, <4>3, <4>4, <4>5 DEF AppendToIbody
      <3> QED BY <3>5, <3>6
    <2>3. CASE ~(needed <= IbodyFree(h) + (IF old \in 1..h.ibody THEN freed ELSE 0))
               /\ needed <= bf + (IF old > h.ibody THEN freed ELSE 0)
      <3>1. /\ u.err = "ok" /\ u.d = up.d
            /\ u.h = IF old > h.ibody THEN Replaced(h, old, a)
                     ELSE IF old \in 1..h.ibody THEN InsertInBlock(Dropped(h, old), a)
                     ELSE InsertInBlock(h, a)
        BY <1>2, <1>d, <2>3, <2>a, <2>x
      <3>2. name # "system.data" BY <2>3, <2>n
      <3>3. bf = BlockRoom - 4 - SpaceUsed(BlockPart(h)) BY <2>m, <3>2
      <3>4. ASSUME NEW k \in 1..(Len(BlockPart(g)) + 1), Splits(BlockPart(g), k, name),
                   u.h = Handle(g.ino, InsertAt(g.attrs, g.ibody + k, a), g.ibody),
                   SpaceUsed(BlockPart(g)) + AttrSize(a) + 4 <= BlockRoom
            PROVE  Updating(d, h, name, v, u)
        <4>0. Splits(BlockPart(g), k, a.name) /\ a.name # "system.data" BY <2>b, <3>2, <3>4
        <4>1. PICK w : w = u.h OBVIOUS
        <4>p. PICK p : p = g.ibody + k OBVIOUS
        <4>2. w = Handle(g.ino, InsertAt(g.attrs, p, a), g.ibody) BY <3>4, <4>1, <4>p
        <4>3. SpaceUsed(BlockPart(g)) + AttrSize(a) + 4 <= BlockRoom BY <3>4
        <4>4. AttrOk(a) /\ HandleOk(g) /\ \A n \in 1..Len(g.attrs) : Differ(g.attrs[n], a)
          BY <2>b, <2>h
        <4>5. HandleOk(w) /\ w.ino = g.ino /\ Elems(w.attrs) = Elems(g.attrs) \cup {a}
          <5>1. GoesAt(g, k, p, a) BY <4>0, <4>3, <4>4, <4>p DEF GoesAt
          <5> QED BY <4>2, <4>4, <5>1, PutBlockOk
        <4> QED BY <2>1, <2>h, <3>1, <3>2, <4>1, <4>5
      <3>5. CASE old > h.ibody
        <4>1. old # 0 BY <1>s, <3>5
        <4>2. /\ g.ibody = h.ibody /\ old - h.ibody \in 1..(Len(BlockPart(g)) + 1)
              /\ Splits(BlockPart(g), old - h.ibody, name)
              /\ SpaceUsed(BlockPart(g)) = SpaceUsed(BlockPart(h)) - freed
          BY <2>k, <3>5, <4>1
        <4>3. PICK k \in 1..(Len(BlockPart(g)) + 1) : k = old - h.ibody /\ g.ibody + k = old
          BY <1>o, <1>s, <4>2
        <4>4. u.h = Handle(g.ino, InsertAt(g.attrs, g.ibody + k, a), g.ibody)
          BY <2>k, <3>1, <3>5, <4>1, <4>2, <4>3
        <4>5. SpaceUsed(BlockPart(g)) + AttrSize(a) + 4 <= BlockRoom
          <5>1. needed <= bf + freed BY <2>3, <3>5
          <5>2. PICK s \in Nat : s = SpaceUsed(BlockPart(h)) BY <2>m
          <5>3. needed <= (BlockRoom - 4 - s) + freed BY <3>3, <5>1, <5>2
          <5>4. (s - freed) + needed + 4 <= BlockRoom BY <1>r, <2>m, <2>n, <5>3, RoomLeft
          <5> QED BY <2>n, <4>2, <5>2, <5>4
        <4> QED BY <3>1, <3>4, <4>2, <4>3, <4>4, <4>5
      <3>6. CASE ~(old > h.ibody)
        <4>1. needed <= bf BY <2>3, <2>m, <2>n, <3>3, <3>6
        <4>2. u.h = InsertInBlock(g, a) /\ BlockPart(g) = BlockPart(h)
          <5>1. CASE old = 0
            <6>1. old \notin 1..h.ibody BY <5>1
            <6> QED BY <2>e, <3>1, <3>6, <5>1, <6>1
          <5>2. CASE old # 0
            <6>1. old \in 1..h.ibody /\ old <= h.ibody BY <1>o, <1>s, <3>6, <5>2
            <6> QED BY <2>g, <2>k, <3>1, <3>6, <5>2, <6>1
          <5> QED BY <5>1, <5>2
        <4>3. PICK k : k = FindPosition(BlockPart(g), name) OBVIOUS
        <4>4. k \in 1..(Len(BlockPart(g)) + 1) /\ Splits(BlockPart(g), k, name)
          <5>1. List(BlockPart(g)) /\ Sorted(BlockPart(g)) BY <2>h, HandleParts DEF HandleOk
          <5> QED BY <4>3, <5>1, PositionSplits
        <4>5. u.h = Handle(g.ino, InsertAt(g.attrs, g.ibody + k, a), g.ibody)
          BY <2>b, <4>2, <4>3 DEF InsertInBlock
        <4>6. SpaceUsed(BlockPart(g)) + AttrSize(a) + 4 <= BlockRoom
          BY <2>m, <2>n, <3>3, <4>1, <4>2
        <4> QED BY <3>1, <3>4, <4>4, <4>5, <4>6
      <3> QED BY <3>5, <3>6
    <2>4. CASE ~(needed <= IbodyFree(h) + (IF old \in 1..h.ibody THEN freed ELSE 0))
               /\ ~(needed <= bf + (IF old > h.ibody THEN freed ELSE 0))
      <3>1. u = [err |-> "no_space", d |-> d, h |-> h] BY <1>d, <2>4
      <3> QED BY <3>1
    <2>5. ASSUME Updating(d, h, name, v, u), u.err = "ok"
          PROVE  (u.err # "ok" => u.d = d) /\ (u.err = "ok" => Updating(d, h, name, v, u))
      BY <2>5
    <2>6. CASE ~(needed <= IbodyFree(h) + (IF old \in 1..h.ibody THEN freed ELSE 0)) BY <2>3, <2>4, <2>6
    <2> QED BY <2>2, <2>6
  <1> QED BY <1>1, <1>2

\* The disk and the handle after a change in memory: the attributes of this name
\* are gone, those of new are there (at most one).
Changing(d, h, name, new, u) ==
    /\ EaOnly(d, u.d) /\ HandleOk(u.h) /\ u.h.ino = h.ino
    /\ Elems(u.h.attrs) = OtherNames(h, name) \cup new
    /\ \A c \in new : c.ea # 0 => /\ name # "system.data" /\ d.ea[c.ea].ref = 0
                                  /\ u.d.ea[c.ea] = [ref |-> 1, value |-> c.value]
    /\ \A f \in EaInodes : /\ \A c \in new : c.ea # f
                           /\ \A c \in Elems(h.attrs) : c.name = name => c.ea # f
                           => u.d.ea[f] = d.ea[f]
    /\ name = "system.data" => BlockPart(u.h) = BlockPart(h)

LEMMA UpdatingIs ==
    ASSUME NEW d, NEW h, NEW name, NEW v, NEW u, Updating(d, h, name, v, u)
    PROVE  \E x \in EaInodes \cup {0} : Changing(d, h, name, {Attr(name, v, x)}, u)
  <1>1. PICK x \in EaInodes \cup {0} :
          /\ x # 0 => /\ name # "system.data" /\ d.ea[x].ref = 0
                      /\ u.d.ea[x] = [ref |-> 1, value |-> v]
          /\ EaOnly(d, u.d)
          /\ \A f \in EaInodes : /\ f # x
                                 /\ \A c \in Elems(h.attrs) : c.name = name => c.ea # f
                                 => u.d.ea[f] = d.ea[f]
          /\ HandleOk(u.h) /\ u.h.ino = h.ino
          /\ Elems(u.h.attrs) = OtherNames(h, name) \cup {Attr(name, v, x)}
          /\ name = "system.data" => BlockPart(u.h) = BlockPart(h)
    BY DEF Updating
  <1>2. PICK a : a = Attr(name, v, x) OBVIOUS
  <1>3. a.ea = x /\ a.value = v BY <1>2 DEF Attr
  <1>4. \A c \in {a} : c.ea # 0 => /\ name # "system.data" /\ d.ea[c.ea].ref = 0
                                   /\ u.d.ea[c.ea] = [ref |-> 1, value |-> c.value]
    BY <1>1, <1>3
  <1>5. Elems(u.h.attrs) = OtherNames(h, name) \cup {a} BY <1>1, <1>2
  <1>6. Changing(d, h, name, {a}, u) BY <1>1, <1>3, <1>4, <1>5 DEF Changing
  <1> QED BY <1>2, <1>6

LEMMA UpdatedIs ==
    ASSUME NEW d, EaShape(d), NEW h, HandleOk(h), EaFits(d, h), NEW name \in AllNames, NEW v,
           v.len \in Nat, NEW u, u = Updated(d, h, name, v)
    PROVE  /\ u.err # "ok" => u.d = d
           /\ u.err = "ok" => \E x \in EaInodes \cup {0} :
                                Changing(d, h, name, {Attr(name, v, x)}, u)
  <1>1. PICK old : old = IndexOf(h.attrs, name) OBVIOUS
  <1>2. PICK large \in BOOLEAN : large = (HasEaInode /\ v.len > MinLargeEaSize) OBVIOUS
  <1>3. PICK first : first = ArrayUpdate(d, h, name, v, IbodyFree(h), BlockFree(h), old, large) OBVIOUS
  <1>4. u = IF name = "system.data"
            THEN IF old > h.ibody THEN [err |-> "corrupted", d |-> d, h |-> h]
                 ELSE ArrayUpdate(d, h, name, v, IbodyFree(h), 0, old, FALSE)
            ELSE IF first.err = "no_space" /\ ~large /\ HasEaInode
            THEN ArrayUpdate(d, h, name, v, IbodyFree(h), BlockFree(h), old, TRUE)
            ELSE first
    BY <1>1, <1>2, <1>3 DEF Updated
  <1>5. (u.err # "ok" => u.d = d) /\ (u.err = "ok" => Updating(d, h, name, v, u))
    <2>1. CASE name = "system.data" /\ old > h.ibody
      <3>1. u = [err |-> "corrupted", d |-> d, h |-> h] BY <1>4, <2>1
      <3> QED BY <3>1
    <2>2. CASE name = "system.data" /\ ~(old > h.ibody)
      <3>1. u = ArrayUpdate(d, h, name, v, IbodyFree(h), 0, old, FALSE) BY <1>4, <2>2
      <3>2. PICK bf \in {0}, b \in BOOLEAN : ~b /\ b = FALSE OBVIOUS
      <3>3. u = ArrayUpdate(d, h, name, v, IbodyFree(h), bf, old, b) BY <3>1, <3>2
      <3>4. BesideEntry(name, b) BY <3>2 DEF BesideEntry
      <3> QED BY <1>1, <2>2, <3>2, <3>3, <3>4, ArrayUpdateIs
    <2>3. CASE name # "system.data"
      <3>1. \E b \in BOOLEAN : u = ArrayUpdate(d, h, name, v, IbodyFree(h), BlockFree(h), old, b)
        BY <1>3, <1>4, <2>3
      <3>2. PICK b \in BOOLEAN : u = ArrayUpdate(d, h, name, v, IbodyFree(h), BlockFree(h), old, b)
        BY <3>1
      <3>3. PICK bf : bf = BlockFree(h) OBVIOUS
      <3>4. u = ArrayUpdate(d, h, name, v, IbodyFree(h), bf, old, b) BY <3>2, <3>3
      <3>5. BesideEntry(name, b) BY <2>3 DEF BesideEntry
      <3> QED BY <1>1, <2>3, <3>3, <3>4, <3>5, ArrayUpdateIs
    <2> QED BY <2>1, <2>2, <2>3
  <1> QED BY <1>5, UpdatingIs

LEMMA RemovingIs ==
    ASSUME NEW d, EaShape(d), NEW h, HandleOk(h), EaFits(d, h), NEW name, NEW n,
           n = IndexOf(h.attrs, name), n # 0,
           NEW u, u = [d |-> DecRef(d, h.attrs[n].ea), h |-> Dropped(h, n)]
    PROVE  Changing(d, h, name, {}, u)
  <1>s. IsSeq(h.attrs) /\ Distinct(h.attrs) /\ Len(h.attrs) \in Nat /\ h.ibody \in 0..Len(h.attrs)
    BY DEF HandleOk, HandleShape, List, IsSeq
  <1>1. n \in 1..Len(h.attrs) /\ h.attrs[n].name = name BY <1>s, IndexIs
  <1>2. PICK old : old = h.attrs[n] OBVIOUS
  <1>3. old \in Elems(h.attrs) /\ AttrOk(old) BY <1>1, <1>2 DEF Elems, HandleOk, HandleShape, List
  <1>4. old.ea \in EaInodes \cup {0} BY <1>3 DEF AttrOk
  <1>5. old.ea # 0 => d.ea[old.ea].ref = 1
    <2>1. old.ea # 0 => d.ea[old.ea] = [ref |-> 1, value |-> old.value] BY <1>3 DEF EaFits
    <2> QED BY <2>1
  <1>6. PICK x : x = old.ea OBVIOUS
  <1>7. EaOnly(d, u.d) /\ \A f \in EaInodes : f # x => u.d.ea[f] = d.ea[f]
    <2>1. u.d = DecRef(d, x) BY <1>2, <1>6
    <2> QED BY <1>4, <1>5, <1>6, <2>1, DecRefIs
  <1>8. u.h = Dropped(h, n) OBVIOUS
  <1>9. /\ HandleOk(u.h) /\ u.h.ino = h.ino
        /\ Elems(u.h.attrs) = {c \in Elems(h.attrs) : c.name # h.attrs[n].name}
        /\ n <= h.ibody => BlockPart(u.h) = BlockPart(h)
        /\ n > h.ibody => h.attrs[n].name # "system.data"
    BY <1>1, <1>8, DroppedOk
  <1>10. Elems(u.h.attrs) = OtherNames(h, name) \cup {} BY <1>1, <1>9 DEF OtherNames
  <1>11. name = "system.data" => BlockPart(u.h) = BlockPart(h)
    <2>1. n <= h.ibody \/ n > h.ibody BY <1>1, <1>s
    <2> QED BY <1>1, <1>9, <2>1
  <1>12. ASSUME NEW f \in EaInodes, \A c \in Elems(h.attrs) : c.name = name => c.ea # f
         PROVE  u.d.ea[f] = d.ea[f]
    BY <1>1, <1>2, <1>3, <1>6, <1>7, <1>12
  <1> QED BY <1>7, <1>9, <1>10, <1>11, <1>12 DEF Changing

-----------------------------------------------------------------------------
\* No value's inode is named twice.

Apart(g, h) == \A c \in Elems(g.attrs), e \in Elems(h.attrs) : c.ea # 0 => c.ea # e.ea

LEMMA ElemsOk ==
    ASSUME NEW h, HandleOk(h), NEW c \in Elems(h.attrs)
    PROVE  AttrOk(c) /\ c.ea \in EaInodes \cup {0}
  BY DEF Elems, HandleOk, HandleShape, List, AttrOk

LEMMA ElemsDiffer ==
    ASSUME NEW h, HandleOk(h), NEW c \in Elems(h.attrs), NEW e \in Elems(h.attrs), c # e
    PROVE  Differ(c, e)
  BY DEF Elems, HandleOk, Distinct

LEMMA StillFits ==
    ASSUME NEW d, NEW h, HandleOk(h), EaFits(d, h), NEW name, NEW new, NEW u,
           Changing(d, h, name, new, u)
    PROVE  EaFits(u.d, u.h)
  <1>1. SUFFICES ASSUME NEW c \in Elems(u.h.attrs), c.ea # 0
                 PROVE  u.d.ea[c.ea] = [ref |-> 1, value |-> c.value]
    BY DEF EaFits
  <1>2. CASE c \in new BY <1>1, <1>2 DEF Changing
  <1>3. CASE c \in OtherNames(h, name)
    <2>1. c \in Elems(h.attrs) /\ c.name # name BY <1>3 DEF OtherNames
    <2>2. c.ea \in EaInodes BY <1>1, <2>1, ElemsOk
    <2>3. d.ea[c.ea] = [ref |-> 1, value |-> c.value] BY <1>1, <2>1 DEF EaFits
    <2>4. \A e \in new : e.ea # c.ea
      <3>1. d.ea[c.ea].ref = 1 BY <2>3
      <3>2. \A e \in new : e.ea # 0 => d.ea[e.ea].ref = 0 BY DEF Changing
      <3> QED BY <1>1, <3>1, <3>2
    <2>5. ASSUME NEW e \in Elems(h.attrs), e.name = name PROVE e.ea # c.ea
      <3>1. e # c BY <2>1, <2>5
      <3> QED BY <1>1, <2>1, <3>1, ElemsDiffer DEF Differ
    <2>6. u.d.ea[c.ea] = d.ea[c.ea] BY <2>2, <2>4, <2>5 DEF Changing
    <2> QED BY <2>3, <2>6
  <1> QED BY <1>2, <1>3 DEF Changing

LEMMA OthersFit ==
    ASSUME NEW d, NEW h, NEW name, NEW new, NEW u, Changing(d, h, name, new, u),
           NEW g, HandleOk(g), EaFits(d, g), Apart(g, h)
    PROVE  /\ Apart(g, u.h)
           /\ \A c \in Elems(g.attrs) : c.ea # 0 => u.d.ea[c.ea] = d.ea[c.ea]
  <1>1. ASSUME NEW c \in Elems(g.attrs), c.ea # 0
        PROVE  u.d.ea[c.ea] = d.ea[c.ea] /\ \A e \in Elems(u.h.attrs) : c.ea # e.ea
    <2>1. c.ea \in EaInodes BY <1>1, ElemsOk
    <2>2. d.ea[c.ea].ref = 1
      <3>1. d.ea[c.ea] = [ref |-> 1, value |-> c.value] BY <1>1 DEF EaFits
      <3> QED BY <3>1
    <2>3. \A e \in new : e.ea # c.ea
      <3>1. \A e \in new : e.ea # 0 => d.ea[e.ea].ref = 0 BY DEF Changing
      <3> QED BY <1>1, <2>2, <3>1
    <2>4. \A e \in Elems(h.attrs) : e.ea # c.ea BY <1>1 DEF Apart
    <2>5. u.d.ea[c.ea] = d.ea[c.ea] BY <2>1, <2>3, <2>4 DEF Changing
    <2>6. \A e \in Elems(u.h.attrs) : c.ea # e.ea BY <2>3, <2>4 DEF Changing, OtherNames
    <2> QED BY <2>5, <2>6
  <1> QED BY <1>1 DEF Apart

-----------------------------------------------------------------------------
\* The disk: what it is made of, and what a reader of an inode gets

UsersOf(d, b) == {i \in Inodes : d.inode[i].acl = b}

Shape(d) ==
    /\ EaShape(d)
    /\ d.inode = [i \in Inodes |-> d.inode[i]]
    /\ \A i \in Inodes :
         /\ d.inode[i] = [ibody |-> d.inode[i].ibody, acl |-> d.inode[i].acl,
                          iblocks |-> IF d.inode[i].acl = NoBlock THEN 0 ELSE 1]
         /\ IsSeq(d.inode[i].ibody) /\ d.inode[i].acl \in EaBlocks \cup {NoBlock}
    /\ d.blk = [b \in EaBlocks |-> d.blk[b]] /\ d.used \subseteq EaBlocks
    /\ \A b \in EaBlocks : UsersOf(d, b) # {} =>
         /\ b \in d.used /\ IsSeq(d.blk[b].entries)
         /\ d.blk[b] = [ref |-> Cardinality(UsersOf(d, b)), entries |-> d.blk[b].entries]

Good(d, i) == LET h == ReadHandle(d, i) IN HandleOk(h) /\ EaFits(d, h) /\ Readable(d, i)

LEMMA EmptyIsSeq == IsSeq(<<>>) /\ Len(<<>>) = 0
  <1>1. <<>> \in Seq({}) OBVIOUS
  <1> QED BY <1>1, SeqIs

LEMMA BlockOf ==
    ASSUME NEW d, Shape(d), NEW i \in Inodes
    PROVE  /\ IsSeq(BlockEntries(d, i))
           /\ d.inode[i].acl # NoBlock =>
                /\ d.inode[i].acl \in EaBlocks /\ i \in UsersOf(d, d.inode[i].acl)
                /\ BlockEntries(d, i) = d.blk[d.inode[i].acl].entries
           /\ d.inode[i].acl = NoBlock => BlockEntries(d, i) = <<>>
  <1>1. CASE d.inode[i].acl = NoBlock BY <1>1, EmptyIsSeq DEF BlockEntries
  <1>2. CASE d.inode[i].acl # NoBlock
    <2>1. d.inode[i].acl \in EaBlocks /\ i \in UsersOf(d, d.inode[i].acl)
      BY <1>2 DEF Shape, UsersOf
    <2>2. BlockEntries(d, i) = d.blk[d.inode[i].acl].entries BY <1>2 DEF BlockEntries
    <2>3. IsSeq(BlockEntries(d, i)) BY <2>1, <2>2 DEF Shape
    <2> QED BY <1>2, <2>1, <2>2, <2>3
  <1> QED BY <1>1, <1>2

Lists(d, i) == IsSeq(d.inode[i].ibody) /\ IsSeq(BlockEntries(d, i))

\* s and h: the entries of an inode, and the handle they are read into
Reading(d, i, s, h) ==
    /\ IsSeq(s) /\ Len(s) = Len(d.inode[i].ibody) + Len(BlockEntries(d, i))
    /\ \A n \in 1..Len(s) : s[n] = IF n <= Len(d.inode[i].ibody) THEN d.inode[i].ibody[n]
                                   ELSE BlockEntries(d, i)[n - Len(d.inode[i].ibody)]
    /\ h = Handle(i, h.attrs, Len(d.inode[i].ibody)) /\ h.ino = i /\ h.open = TRUE
    /\ h.ibody = Len(d.inode[i].ibody)
    /\ IsSeq(h.attrs) /\ Len(h.attrs) = Len(s)
    /\ \A n \in 1..Len(s) : h.attrs[n] = Attr(s[n].name, EntryValue(d, s[n]), s[n].ea)

LEMMA ReadIs ==
    ASSUME NEW d, NEW i, Lists(d, i)
    PROVE  Reading(d, i, Entries(d, i), ReadHandle(d, i))
  <1>s. PICK s : s = Entries(d, i) OBVIOUS
  <1>h. PICK h : h = ReadHandle(d, i) OBVIOUS
  <1>1. /\ IsSeq(s) /\ Len(s) = Len(d.inode[i].ibody) + Len(BlockEntries(d, i))
        /\ \A n \in 1..(Len(d.inode[i].ibody) + Len(BlockEntries(d, i))) :
             s[n] = IF n <= Len(d.inode[i].ibody) THEN d.inode[i].ibody[n]
                    ELSE BlockEntries(d, i)[n - Len(d.inode[i].ibody)]
    BY <1>s, Joined DEF Entries, Lists
  <1>2. h = Handle(i, ReadAttrs(d, s), Len(d.inode[i].ibody)) BY <1>s, <1>h DEF ReadHandle
  <1>3. h.attrs = ReadAttrs(d, s) /\ h.ino = i /\ h.ibody = Len(d.inode[i].ibody) /\ h.open = TRUE
    BY <1>2 DEF Handle
  <1>4. PICK l \in Nat : l = Len(s) BY <1>1 DEF IsSeq
  <1>5. h.attrs = [n \in 1..l |-> Attr(s[n].name, EntryValue(d, s[n]), s[n].ea)]
    BY <1>3, <1>4 DEF ReadAttrs
  <1>6. h.attrs = [n \in 1..l |-> h.attrs[n]] BY <1>5, Zenon
  <1>7. IsSeq(h.attrs) /\ Len(h.attrs) = l BY <1>6, MadeSeq
  <1>8. \A n \in 1..l : h.attrs[n] = Attr(s[n].name, EntryValue(d, s[n]), s[n].ea) BY <1>5, Zenon
  <1> QED BY <1>1, <1>2, <1>3, <1>4, <1>7, <1>8, <1>s, <1>h, SMTT(30) DEF Reading

\* Entries that stay, with the inodes of their values, are read the same.
LEMMA SameReading ==
    ASSUME NEW d, NEW e, NEW i, Lists(d, i),
           e.inode[i].ibody = d.inode[i].ibody, BlockEntries(e, i) = BlockEntries(d, i),
           NEW h, h = ReadHandle(d, i),
           \A c \in Elems(h.attrs) : c.ea # 0 => e.ea[c.ea] = d.ea[c.ea]
    PROVE  ReadHandle(e, i) = h /\ (Good(d, i) => Good(e, i))
  <1>1. PICK s : s = Entries(d, i) OBVIOUS
  <1>2. Entries(e, i) = s BY <1>1 DEF Entries
  <1>3. PICK g : g = ReadHandle(e, i) OBVIOUS
  <1>4. Reading(d, i, s, h) BY <1>1, ReadIs
  <1>5. Reading(e, i, s, g)
    <2>1. Lists(e, i) BY DEF Lists
    <2> QED BY <1>2, <1>3, <2>1, ReadIs
  <1>6. ASSUME NEW n \in 1..Len(s)
        PROVE  EntryValue(e, s[n]) = EntryValue(d, s[n]) /\ (s[n].ea # 0 => e.ea[s[n].ea] = d.ea[s[n].ea])
    <2>a. h.attrs[n] = Attr(s[n].name, EntryValue(d, s[n]), s[n].ea) /\ n \in 1..Len(h.attrs)
      BY <1>4 DEF Reading
    <2>1. h.attrs[n] \in Elems(h.attrs) /\ h.attrs[n].ea = s[n].ea BY <2>a DEF Elems, Attr
    <2>2. s[n].ea # 0 => e.ea[s[n].ea] = d.ea[s[n].ea] BY <2>1
    <2> QED BY <2>2 DEF EntryValue
  <1>7. \A n \in 1..Len(h.attrs) : h.attrs[n] = g.attrs[n] BY <1>4, <1>5, <1>6 DEF Reading
  <1>8. h.attrs = g.attrs BY <1>4, <1>5, <1>7, SameSeq DEF Reading
  <1>9. g = h BY <1>4, <1>5, <1>8 DEF Reading
  <1>10. ASSUME Good(d, i) PROVE Good(e, i)
    <2>1. EaFits(e, g)
      <3>1. EaFits(d, h) BY <1>10 DEF Good
      <3> QED BY <1>9, <3>1 DEF EaFits
    <2>2. ASSUME NEW n \in 1..Len(s) PROVE EntryOk(e, s[n])
      <3>1. EntryOk(d, s[n]) BY <1>1, <1>10 DEF Good, Readable
      <3> QED BY <1>6, <3>1 DEF EntryOk
    <2>3. Readable(e, i) BY <1>2, <2>2 DEF Readable
    <2> QED BY <1>3, <1>9, <1>10, <2>1, <2>3 DEF Good
  <1> QED BY <1>3, <1>9, <1>10

\* What is written is what is read.
ValueThere(d, a) == a.ea # 0 => d.ea[a.ea] = [ref |-> 1, value |-> a.value]

LEMMA EntryReads ==
    ASSUME NEW d, NEW a, AttrOk(a), ValueThere(d, a),
           NEW w \in BOOLEAN
    PROVE  /\ EntryOk(d, Entry(a, w))
           /\ Attr(Entry(a, w).name, EntryValue(d, Entry(a, w)), Entry(a, w).ea) = a
  <1>0. PICK e : e = Entry(a, w) OBVIOUS
  <1>1. /\ e.name = a.name /\ e.ea = a.ea /\ e.len = a.value.len
        /\ e.value = IF a.ea = 0 THEN a.value ELSE None
        /\ e.hash = IF w \/ a.ea # 0 THEN Hash(a.name, a.value) ELSE <<>>
    BY <1>0 DEF Entry
  <1>2. EntryValue(d, e) = a.value
    <2>1. CASE a.ea = 0 BY <1>1, <2>1 DEF EntryValue
    <2>2. CASE a.ea # 0
      <3>1. d.ea[a.ea].value = a.value BY <2>2 DEF ValueThere
      <3> QED BY <1>1, <2>2, <3>1 DEF EntryValue
    <2> QED BY <2>1, <2>2
  <1>3. Attr(e.name, EntryValue(d, e), e.ea) = a BY <1>1, <1>2 DEF AttrOk
  <1>4. e.hash # <<>> => e.hash = Hash(a.name, a.value) BY <1>1
  <1>5. e.ea # 0 => d.ea[e.ea].ref > 0
    <2> HAVE e.ea # 0
    <2>1. d.ea[e.ea].ref = 1 BY <1>1 DEF ValueThere
    <2> QED BY <2>1
  <1>6. EntryOk(d, e) BY <1>1, <1>2, <1>4, <1>5 DEF EntryOk
  <1> QED BY <1>0, <1>3, <1>6

\* A handle as it is written
IbodyEntries(h) == [n \in 1..h.ibody |-> Entry(h.attrs[n], FALSE)]
RestEntries(h)  == [n \in 1..Len(BlockPart(h)) |-> Entry(BlockPart(h)[n], TRUE)]

LEMMA WrittenReads ==
    ASSUME NEW d, NEW i, NEW h, HandleOk(h), h.ino = i, EaFits(d, h),
           d.inode[i].ibody = IbodyEntries(h), BlockEntries(d, i) = RestEntries(h)
    PROVE  /\ ReadHandle(d, i) = h /\ Good(d, i)
           /\ Lists(d, i)
  <1>h. /\ h = Handle(i, h.attrs, h.ibody) /\ IsSeq(h.attrs) /\ h.ibody \in 0..Len(h.attrs)
        /\ \A n \in 1..Len(h.attrs) : AttrOk(h.attrs[n])
    BY DEF HandleOk, HandleShape, List
  <1>l. PICK l \in Nat : l = Len(h.attrs) BY <1>h DEF IsSeq
  <1>b. PICK b \in Nat : b = h.ibody /\ b <= l BY <1>h, <1>l
  <1>q. PICK q : q = BlockPart(h) OBVIOUS
  <1>p. Len(q) = l - b /\ \A j \in 1..(l - b) : q[j] = h.attrs[b + j]
    BY <1>b, <1>l, <1>q, HandleParts DEF HandleOk
  <1>d. PICK ib : ib = d.inode[i].ibody OBVIOUS
  <1>e. PICK be : be = BlockEntries(d, i) OBVIOUS
  <1>1. ib = [n \in 1..b |-> Entry(h.attrs[n], FALSE)] BY <1>b, <1>d DEF IbodyEntries
  <1>2. IsSeq(ib) /\ Len(ib) = b /\ \A n \in 1..b : ib[n] = Entry(h.attrs[n], FALSE)
    <2>1. \A n \in 1..b : ib[n] = Entry(h.attrs[n], FALSE) BY <1>1, Zenon
    <2>2. ib = [n \in 1..b |-> ib[n]] BY <1>1, Zenon
    <2> QED BY <2>1, <2>2, MadeSeq
  <1>3. PICK m \in Nat : m = l - b BY <1>b, <1>l
  <1>4. be = [n \in 1..m |-> Entry(q[n], TRUE)] BY <1>3, <1>e, <1>p, <1>q DEF RestEntries
  <1>5. IsSeq(be) /\ Len(be) = m /\ \A n \in 1..m : be[n] = Entry(q[n], TRUE)
    <2>1. \A n \in 1..m : be[n] = Entry(q[n], TRUE) BY <1>4, Zenon
    <2>2. be = [n \in 1..m |-> be[n]] BY <1>4, Zenon
    <2> QED BY <2>1, <2>2, MadeSeq
  <1>6. PICK s : s = Entries(d, i) OBVIOUS
  <1>7. PICK g : g = ReadHandle(d, i) OBVIOUS
  <1>8. /\ IsSeq(s) /\ Len(s) = b + m
        /\ \A n \in 1..Len(s) : s[n] = IF n <= b THEN ib[n] ELSE be[n - b]
        /\ g = Handle(i, g.attrs, b)
        /\ IsSeq(g.attrs) /\ Len(g.attrs) = Len(s)
        /\ \A n \in 1..Len(s) : g.attrs[n] = Attr(s[n].name, EntryValue(d, s[n]), s[n].ea)
    <2>1. Len(d.inode[i].ibody) = b /\ Len(BlockEntries(d, i)) = m BY <1>2, <1>5, <1>d, <1>e
    <2>2. Lists(d, i) BY <1>2, <1>5, <1>d, <1>e DEF Lists
    <2>3. Reading(d, i, s, g) BY <1>6, <1>7, <2>2, ReadIs
    <2> QED BY <1>d, <1>e, <2>1, <2>3 DEF Reading
  <1>9. Len(s) = l BY <1>3, <1>8, <1>b
  <1>10. ASSUME NEW n \in 1..l PROVE \E w \in BOOLEAN : s[n] = Entry(h.attrs[n], w)
    <2>1. CASE n <= b
      <3>1. n \in 1..b BY <2>1
      <3> QED BY <1>2, <1>8, <1>9, <2>1, <3>1
    <2>2. CASE ~(n <= b)
      <3>1. n - b \in 1..m /\ n - b \in 1..(l - b) /\ b + (n - b) = n BY <1>3, <1>b, <2>2
      <3>2. s[n] = be[n - b] BY <1>8, <1>9, <2>2
      <3>3. q[n - b] = h.attrs[n] BY <1>p, <3>1
      <3> QED BY <1>5, <3>1, <3>2, <3>3
    <2> QED BY <2>1, <2>2
  <1>11. ASSUME NEW n \in 1..l PROVE EntryOk(d, s[n]) /\ g.attrs[n] = h.attrs[n]
    <2>1. PICK w \in BOOLEAN : s[n] = Entry(h.attrs[n], w) BY <1>10
    <2>2. PICK a : a = h.attrs[n] OBVIOUS
    <2>3. a \in Elems(h.attrs) /\ AttrOk(a) BY <1>h, <1>l, <2>2 DEF Elems
    <2>4. ValueThere(d, a) BY <2>3 DEF EaFits, ValueThere
    <2>5. PICK e : e = s[n] /\ e = Entry(a, w) BY <2>1, <2>2
    <2>6. EntryOk(d, e) /\ Attr(e.name, EntryValue(d, e), e.ea) = a
      BY <2>3, <2>4, <2>5, EntryReads
    <2> QED BY <1>8, <1>9, <2>2, <2>5, <2>6
  <1>12. g.attrs = h.attrs BY <1>8, <1>9, <1>11, <1>h, <1>l, SameSeq
  <1>13. g = h BY <1>8, <1>12, <1>b, <1>h
  <1>14. Readable(d, i) BY <1>6, <1>9, <1>11 DEF Readable
  <1> QED BY <1>2, <1>5, <1>7, <1>13, <1>14, <1>d, <1>e DEF Good, Lists

-----------------------------------------------------------------------------
\* An inode's block is another, or none.

Own(d, i)   == d.inode[i].acl = NoBlock \/ d.blk[d.inode[i].acl].ref = 1
NoneLost(d) == \A b \in d.used : UsersOf(d, b) # {}

\* The block that an inode leaves
Left(block) == IF block.ref = 1 THEN FreeBlock
               ELSE [ref |-> block.ref - 1, entries |-> block.entries]

\* The disk when inode i has entries ib in the inode and s in block b, which
\* only it uses.
Relink(d, i, ib, b, s) ==
    [inode |-> [d.inode EXCEPT ![i] =
                  [ibody |-> ib, acl |-> b, iblocks |-> IF b = NoBlock THEN 0 ELSE 1]],
     blk   |-> [c \in EaBlocks |-> IF c = b THEN [ref |-> 1, entries |-> s]
                                   ELSE IF c = d.inode[i].acl THEN Left(d.blk[c]) ELSE d.blk[c]],
     ea    |-> d.ea,
     used  |-> (IF d.inode[i].acl # b /\ d.inode[i].acl # NoBlock /\ d.blk[d.inode[i].acl].ref = 1
                THEN d.used \ {d.inode[i].acl} ELSE d.used) \cup ({b} \ {NoBlock})]

LEMMA OneUser ==
    ASSUME NEW d, Shape(d), NEW c \in EaBlocks, NEW i \in UsersOf(d, c)
    PROVE  /\ d.blk[c].ref = 1 <=> UsersOf(d, c) = {i}
           /\ d.blk[c].ref = Cardinality(UsersOf(d, c)) /\ d.blk[c].ref \in Nat
           /\ Cardinality(UsersOf(d, c) \ {i}) = d.blk[c].ref - 1
           /\ c \in d.used
  <1>1. PICK S : S = UsersOf(d, c) OBVIOUS
  <1>2. IsFiniteSet(S)
    <2>1. S \subseteq Inodes BY <1>1 DEF UsersOf
    <2> QED BY <2>1, Constants, FS_Subset
  <1>3. d.blk[c].ref = Cardinality(S) /\ c \in d.used
    <2>1. c \in d.used /\ d.blk[c] = [ref |-> Cardinality(S), entries |-> d.blk[c].entries]
      BY <1>1 DEF Shape
    <2> QED BY <2>1
  <1>4. Cardinality(S) \in Nat BY <1>2, FS_CardinalityType
  <1>5. Cardinality(S) = 1 <=> S = {i}
    <2>1. Cardinality(S) = 1 => \E x : S = {x} BY <1>2, FS_Singleton
    <2>2. Cardinality({i}) = 1 BY FS_Singleton
    <2> QED BY <1>1, <2>1, <2>2
  <1>6. Cardinality(S \ {i}) = Cardinality(S) - 1 BY <1>1, <1>2, FS_RemoveElement
  <1> QED BY <1>1, <1>3, <1>4, <1>5, <1>6

\* What Relink leaves of the other inodes
Others(d, e, i) ==
    \A j \in Inodes \ {i} : /\ e.inode[j] = d.inode[j] /\ BlockEntries(e, j) = BlockEntries(d, j)
                            /\ Own(d, j) => Own(e, j)

MayTake(d, i, b) == b # NoBlock => b \notin d.used \/ (b = d.inode[i].acl /\ d.blk[b].ref = 1)

LEMMA RelinkIs ==
    ASSUME NEW d, Shape(d), NEW i \in Inodes, NEW ib, IsSeq(ib), NEW b \in EaBlocks \cup {NoBlock},
           NEW s, IsSeq(s), MayTake(d, i, b), NEW e, e = Relink(d, i, ib, b, s)
    PROVE  /\ Shape(e) /\ e.ea = d.ea /\ e.inode[i].ibody = ib /\ Own(e, i)
           /\ BlockEntries(e, i) = IF b = NoBlock THEN <<>> ELSE s
           /\ Others(d, e, i) /\ (NoneLost(d) => NoneLost(e))
  <1>0. PICK old : old = d.inode[i].acl OBVIOUS
  <1>a. old \in EaBlocks \cup {NoBlock} BY <1>0 DEF Shape
  <1>1. /\ e.inode = [j \in Inodes |-> IF j = i THEN [ibody |-> ib, acl |-> b,
                                                      iblocks |-> IF b = NoBlock THEN 0 ELSE 1]
                                       ELSE d.inode[j]]
        /\ e.blk = [c \in EaBlocks |-> IF c = b THEN [ref |-> 1, entries |-> s]
                                       ELSE IF c = old THEN Left(d.blk[c]) ELSE d.blk[c]]
        /\ e.ea = d.ea
        /\ e.used = (IF old # b /\ old # NoBlock /\ d.blk[old].ref = 1
                     THEN d.used \ {old} ELSE d.used) \cup ({b} \ {NoBlock})
    <2>1. d.inode = [j \in Inodes |-> d.inode[j]] BY DEF Shape
    <2> QED BY <1>0, <2>1 DEF Relink
  <1>2. \A j \in Inodes \ {i} : e.inode[j] = d.inode[j] BY <1>1
  <1>3. /\ e.inode[i] = [ibody |-> ib, acl |-> b, iblocks |-> IF b = NoBlock THEN 0 ELSE 1]
        /\ e.inode[i].acl = b /\ e.inode[i].ibody = ib
    BY <1>1
  <1>4. ASSUME NEW c \in EaBlocks
        PROVE  UsersOf(e, c) = IF c = b THEN UsersOf(d, c) \cup {i} ELSE UsersOf(d, c) \ {i}
    BY <1>2, <1>3 DEF UsersOf
  <1>u. \A c \in EaBlocks : i \in UsersOf(d, c) <=> c = old BY <1>0 DEF UsersOf
  <1>5. b # NoBlock => UsersOf(d, b) \subseteq {i} /\ UsersOf(e, b) = {i}
    <2> HAVE b # NoBlock
    <2>0. b \in EaBlocks OBVIOUS
    <2>1. CASE b \notin d.used
      <3>1. UsersOf(d, b) = {} BY <2>0, <2>1 DEF Shape
      <3> QED BY <1>4, <2>0, <3>1
    <2>2. CASE b = old /\ d.blk[b].ref = 1
      <3>1. i \in UsersOf(d, b) BY <1>u, <2>0, <2>2
      <3>b. d.blk[b].ref = 1 <=> UsersOf(d, b) = {i} BY <2>0, <3>1, OneUser
      <3>2. UsersOf(d, b) = {i} BY <2>2, <3>b
      <3> QED BY <1>4, <2>0, <3>2
    <2> QED BY <1>0, <2>1, <2>2 DEF MayTake
  <1>6. ASSUME old \in EaBlocks, old # b, UsersOf(e, old) # {}
        PROVE  /\ d.blk[old].ref # 1 /\ old \in d.used /\ IsSeq(d.blk[old].entries)
               /\ e.blk[old] = [ref |-> Cardinality(UsersOf(e, old)), entries |-> d.blk[old].entries]
    <2>1. i \in UsersOf(d, old) BY <1>6, <1>u
    <2>2. UsersOf(e, old) = UsersOf(d, old) \ {i} BY <1>4, <1>6
    <2>3. d.blk[old].ref # 1 /\ old \in d.used /\ Cardinality(UsersOf(e, old)) = d.blk[old].ref - 1
      <3>1. /\ d.blk[old].ref = 1 <=> UsersOf(d, old) = {i}
            /\ Cardinality(UsersOf(d, old) \ {i}) = d.blk[old].ref - 1 /\ old \in d.used
        <4>1. old \in EaBlocks BY <1>6
        <4>2. PICK c \in EaBlocks : c = old BY <4>1
        <4>3. i \in UsersOf(d, c) BY <2>1, <4>2
        <4>4. /\ d.blk[c].ref = 1 <=> UsersOf(d, c) = {i}
              /\ Cardinality(UsersOf(d, c) \ {i}) = d.blk[c].ref - 1 /\ c \in d.used
          <5>1. d.blk[c].ref = 1 <=> UsersOf(d, c) = {i} BY <4>3, OneUser
          <5>2. Cardinality(UsersOf(d, c) \ {i}) = d.blk[c].ref - 1 BY <4>3, OneUser
          <5>3. c \in d.used BY <4>3, OneUser
          <5> QED BY <5>1, <5>2, <5>3
        <4> QED BY <4>2, <4>4
      <3> QED BY <1>6, <2>2, <3>1
    <2>4. IsSeq(d.blk[old].entries) BY <1>6, <2>1 DEF Shape
    <2>5. e.blk[old] = Left(d.blk[old]) BY <1>1, <1>6
    <2> QED BY <2>3, <2>4, <2>5 DEF Left
  <1>7. ASSUME NEW c \in EaBlocks, UsersOf(e, c) # {}
        PROVE  /\ c \in e.used /\ IsSeq(e.blk[c].entries)
               /\ e.blk[c] = [ref |-> Cardinality(UsersOf(e, c)), entries |-> e.blk[c].entries]
    <2>1. CASE c = b
      <3>1. c # NoBlock BY Constants
      <3>2. e.blk[c] = [ref |-> 1, entries |-> s] /\ c \in e.used BY <1>1, <2>1, <3>1
      <3>3. Cardinality(UsersOf(e, c)) = 1 BY <1>5, <2>1, <3>1, FS_Singleton
      <3> QED BY <3>2, <3>3
    <2>2. CASE c # b /\ c = old
      <3>1. /\ d.blk[c].ref # 1 /\ c \in d.used /\ IsSeq(d.blk[c].entries)
            /\ e.blk[c] = [ref |-> Cardinality(UsersOf(e, c)), entries |-> d.blk[c].entries]
        BY <1>6, <1>7, <2>2
      <3>2. c \in e.used BY <1>1, <2>2, <3>1
      <3> QED BY <3>1, <3>2
    <2>3. CASE c # b /\ c # old
      <3>1. e.blk[c] = d.blk[c] BY <1>1, <2>3
      <3>2. UsersOf(e, c) = UsersOf(d, c) BY <1>4, <1>u, <2>3
      <3>3. c \in d.used /\ IsSeq(d.blk[c].entries)
            /\ d.blk[c] = [ref |-> Cardinality(UsersOf(d, c)), entries |-> d.blk[c].entries]
        BY <1>7, <3>2 DEF Shape
      <3>4. c \in e.used BY <1>1, <2>3, <3>3
      <3> QED BY <3>1, <3>2, <3>3, <3>4
    <2> QED BY <2>1, <2>2, <2>3
  <1>8. EaShape(e)
    <2>1. e = [inode |-> e.inode, blk |-> e.blk, ea |-> e.ea, used |-> e.used] BY DEF Relink
    <2> QED BY <1>1, <2>1 DEF Shape, EaShape
  <1>9. \A j \in Inodes :
          /\ e.inode[j] = [ibody |-> e.inode[j].ibody, acl |-> e.inode[j].acl,
                           iblocks |-> IF e.inode[j].acl = NoBlock THEN 0 ELSE 1]
          /\ IsSeq(e.inode[j].ibody) /\ e.inode[j].acl \in EaBlocks \cup {NoBlock}
    <2> TAKE j \in Inodes
    <2>1. CASE j = i BY <1>3, <2>1
    <2>2. CASE j # i
      <3>1. e.inode[j] = d.inode[j] BY <1>2, <2>2
      <3> QED BY <3>1 DEF Shape
    <2> QED BY <2>1, <2>2
  <1>10. Shape(e)
    <2>1. e.inode = [j \in Inodes |-> e.inode[j]] BY <1>1
    <2>2. e.blk = [c \in EaBlocks |-> e.blk[c]] BY <1>1
    <2>3. e.used \subseteq EaBlocks
      <3>1. d.used \subseteq EaBlocks BY DEF Shape
      <3> QED BY <1>1, <3>1
    <2> QED BY <1>7, <1>8, <1>9, <2>1, <2>2, <2>3 DEF Shape
  <1>11. Own(e, i) /\ BlockEntries(e, i) = IF b = NoBlock THEN <<>> ELSE s
    <2>1. CASE b = NoBlock BY <1>3, <2>1 DEF Own, BlockEntries
    <2>2. CASE b # NoBlock
      <3>1. e.blk[b] = [ref |-> 1, entries |-> s] BY <1>1, <2>2
      <3> QED BY <1>3, <2>2, <3>1 DEF Own, BlockEntries
    <2> QED BY <2>1, <2>2
  <1>12. Others(d, e, i)
    <2> SUFFICES ASSUME NEW j \in Inodes \ {i}
                 PROVE /\ e.inode[j] = d.inode[j] /\ BlockEntries(e, j) = BlockEntries(d, j)
                       /\ Own(d, j) => Own(e, j)
      BY DEF Others
    <2>1. PICK c : c = d.inode[j].acl OBVIOUS
    <2>2. e.inode[j] = d.inode[j] BY <1>2
    <2>3. CASE c = NoBlock BY <2>1, <2>2, <2>3 DEF BlockEntries, Own
    <2>4. CASE c # NoBlock
      <3>1. c \in EaBlocks /\ j \in UsersOf(d, c) BY <2>1, <2>4 DEF Shape, UsersOf
      <3>2. c # b BY <1>5, <2>4, <3>1
      <3>3. e.blk[c].entries = d.blk[c].entries /\ (d.blk[c].ref = 1 => e.blk[c].ref = 1)
        <4>1. CASE c = old
          <5>1. j \in UsersOf(e, c) BY <1>4, <3>1, <3>2
          <5> QED BY <1>6, <3>1, <3>2, <4>1, <5>1
        <4>2. CASE c # old
          <5>1. e.blk[c] = d.blk[c] BY <1>1, <3>1, <3>2, <4>2
          <5> QED BY <5>1
        <4> QED BY <4>1, <4>2
      <3> QED BY <2>1, <2>2, <2>4, <3>3 DEF BlockEntries, Own
    <2> QED BY <2>3, <2>4
  <1>13. ASSUME NoneLost(d) PROVE NoneLost(e)
    <2> SUFFICES ASSUME NEW c \in e.used PROVE UsersOf(e, c) # {} BY DEF NoneLost
    <2>0. c \in EaBlocks BY <1>10 DEF Shape
    <2>1. CASE c = b BY <1>4, <2>0, <2>1
    <2>2. CASE c # b
      <3>1. c \in d.used BY <1>1, <2>2
      <3>2. UsersOf(d, c) # {} BY <1>13, <3>1 DEF NoneLost
      <3>3. UsersOf(e, c) = UsersOf(d, c) \ {i} BY <1>4, <2>0, <2>2
      <3>4. CASE c = old
        <4>1. i \in UsersOf(d, c) BY <1>u, <2>0, <3>4
        <4>2. c # NoBlock BY <2>0, Constants
        <4>3. d.blk[c].ref # 1
          <5> SUFFICES ASSUME d.blk[c].ref = 1 PROVE FALSE OBVIOUS
          <5>1. old # b /\ old # NoBlock /\ d.blk[old].ref = 1 BY <2>2, <3>4, <4>2
          <5>2. e.used = (d.used \ {old}) \cup ({b} \ {NoBlock}) BY <1>1, <5>1
          <5> QED BY <2>2, <3>4, <5>2
        <4>4. UsersOf(d, c) # {i} BY <2>0, <4>1, <4>3, OneUser
        <4> QED BY <3>2, <3>3, <4>4
      <3>5. CASE c # old BY <1>u, <2>0, <3>2, <3>3, <3>5
      <3> QED BY <3>4, <3>5
    <2> QED BY <2>1, <2>2
  <1> QED BY <1>1, <1>3, <1>10, <1>11, <1>12, <1>13

-----------------------------------------------------------------------------
\* Writing the attributes back

\* Where calls may stop halfway, and clients use what then is in the handle,
\* runs of the model find inodes with the wrong attributes; these are the others.
Careful == Faults \subseteq {"first", "head"} /\ ~KeepHandle /\ ~SharedLarge

\* What a write that failed leaves: every list as it was, a block at most lost
Kept(d, e) ==
    /\ Shape(e) /\ e.inode = d.inode /\ e.ea = d.ea
    /\ \A j \in Inodes : BlockEntries(e, j) = BlockEntries(d, j) /\ (Own(d, j) => Own(e, j))

\* What it writes: block b is none, the inode's own, or a new one.
TakesBlock(d, i, b, rest) ==
    /\ b \in EaBlocks \cup {NoBlock} /\ MayTake(d, i, b)
    /\ b = NoBlock => Len(rest) = 0
    /\ Own(d, i) /\ (d.inode[i].acl # NoBlock \/ rest = <<>>) => b = d.inode[i].acl

LEMMA LostBlockKeeps ==
    ASSUME NEW d, Shape(d), NEW b \in EaBlocks, b \notin d.used \/ UsersOf(d, b) # {}, NEW block,
           UsersOf(d, b) # {} => block = d.blk[b],
           NEW e, e = [inode |-> d.inode, blk |-> [d.blk EXCEPT ![b] = block], ea |-> d.ea,
                       used |-> d.used \cup {b}]
    PROVE  Kept(d, e)
  <1>1. e.inode = d.inode /\ e.ea = d.ea /\ e.used = d.used \cup {b} OBVIOUS
  <1>2. e.blk = [c \in EaBlocks |-> IF c = b THEN block ELSE d.blk[c]]
    <2>1. d.blk = [c \in EaBlocks |-> d.blk[c]] BY DEF Shape
    <2> QED BY <2>1
  <1>3. \A c \in EaBlocks : UsersOf(e, c) = UsersOf(d, c) BY <1>1 DEF UsersOf
  <1>4. ASSUME NEW c \in EaBlocks, UsersOf(d, c) # {} PROVE e.blk[c] = d.blk[c]
    BY <1>2, <1>4
  <1>5. EaShape(e)
    <2>1. e = [inode |-> e.inode, blk |-> e.blk, ea |-> e.ea, used |-> e.used] OBVIOUS
    <2> QED BY <1>1, <2>1 DEF Shape, EaShape
  <1>6. Shape(e)
    <2>1. \A c \in EaBlocks : UsersOf(e, c) # {} =>
             /\ c \in e.used /\ IsSeq(e.blk[c].entries)
             /\ e.blk[c] = [ref |-> Cardinality(UsersOf(e, c)), entries |-> e.blk[c].entries]
      <3> TAKE c \in EaBlocks
      <3> HAVE UsersOf(e, c) # {}
      <3>1. UsersOf(e, c) = UsersOf(d, c) /\ e.blk[c] = d.blk[c] BY <1>3, <1>4
      <3>2. c \in d.used /\ IsSeq(d.blk[c].entries)
            /\ d.blk[c] = [ref |-> Cardinality(UsersOf(d, c)), entries |-> d.blk[c].entries]
        BY <3>1 DEF Shape
      <3> QED BY <1>1, <3>1, <3>2
    <2>2. e.blk = [c \in EaBlocks |-> e.blk[c]] BY <1>2
    <2>3. e.used \subseteq EaBlocks
      <3>1. d.used \subseteq EaBlocks BY DEF Shape
      <3> QED BY <1>1, <3>1
    <2>4. /\ d.inode = [i \in Inodes |-> d.inode[i]]
          /\ \A i \in Inodes :
               /\ d.inode[i] = [ibody |-> d.inode[i].ibody, acl |-> d.inode[i].acl,
                                iblocks |-> IF d.inode[i].acl = NoBlock THEN 0 ELSE 1]
               /\ IsSeq(d.inode[i].ibody) /\ d.inode[i].acl \in EaBlocks \cup {NoBlock}
      BY DEF Shape
    <2> QED BY <1>1, <1>5, <2>1, <2>2, <2>3, <2>4, ZenonT(30) DEF Shape
  <1>7. ASSUME NEW j \in Inodes
        PROVE  BlockEntries(e, j) = BlockEntries(d, j) /\ (Own(d, j) => Own(e, j))
    <2>1. CASE d.inode[j].acl = NoBlock BY <1>1, <2>1 DEF BlockEntries, Own
    <2>2. CASE d.inode[j].acl # NoBlock
      <3>1. PICK c \in EaBlocks : c = d.inode[j].acl BY <2>2 DEF Shape
      <3>2. UsersOf(d, c) # {} BY <3>1 DEF UsersOf
      <3>3. e.blk[c] = d.blk[c] BY <1>4, <3>2
      <3> QED BY <1>1, <2>2, <3>1, <3>3 DEF BlockEntries, Own
    <2> QED BY <2>1, <2>2
  <1> QED BY <1>1, <1>6, <1>7 DEF Kept

LEMMA SameKeeps == ASSUME NEW d, Shape(d) PROVE Kept(d, d) BY DEF Kept

Stops(at, e) == IF MayFail(at) /\ faults < MaxFaults THEN {Outcome("io", e)} ELSE {}

NewInode(d, i, h) == [d.inode[i] EXCEPT !.ibody = IbodyEntries(h)]
Gone(released) == IF released THEN {"eainode"} ELSE {}
Cow(d, ino)    == IF SharedBlock(d, ino) THEN {"cow"} ELSE {}
InPlace(d, ino)   == IF OwnBlock(d, ino) THEN {"inode"} ELSE {}
BlocksFor(d, ino) == IF OwnBlock(d, ino) THEN {ino.acl} ELSE EaBlocks \ d.used
BlockCount(ino)   == ino.iblocks + (IF ino.acl = NoBlock THEN 1 ELSE 0)

\* The outcomes of a write without a block, and with one
NoBlockCases(d, i, ino, released, o) ==
    o = Outcome("ok", WithInode(d, i, ino)) \/ o \in Stops(Gone(released), d)
BlockCases(d, i, h, ino, released, o) ==
    \/ o \in Stops(Gone(released) \cup Cow(d, ino), Unshared(d, ino))
    \/ \E b \in BlocksFor(d, ino) :
         \/ o \in Stops(Gone(released) \cup Cow(d, ino), [Unshared(d, ino) EXCEPT !.used = @ \cup {b}])
         \/ o \in Stops(Gone(released) \cup Cow(d, ino) \cup InPlace(d, ino),
                       WriteIn(Unshared(d, ino), b, BlockPart(h)))
         \/ o = Outcome("ok", WithInode(WriteIn(Unshared(d, ino), b, BlockPart(h)), i,
                                 [ibody |-> IbodyEntries(h), acl |-> b, iblocks |-> BlockCount(ino)]))

LEMMA WriteCases ==
    ASSUME NEW d, NEW i, NEW h, NEW released, NEW o, o \in WriteXattrs(d, i, h, released),
           NEW ino, ino = NewInode(d, i, h)
    PROVE  IF BlockPart(h) = <<>> /\ ino.acl = NoBlock THEN NoBlockCases(d, i, ino, released, o)
           ELSE BlockCases(d, i, h, ino, released, o)
  <1> DEFINE ibody1  == [n \in 1..h.ibody |-> Entry(h.attrs[n], FALSE)]
             ino1    == [d.inode[i] EXCEPT !.ibody = ibody1]
             rest1   == BlockPart(h)
             done1   == IF released THEN {"eainode"} ELSE {}
             cow1    == IF SharedBlock(d, ino1) THEN {"cow"} ELSE {}
             Failed(at, x) == IF MayFail(at) /\ faults < MaxFaults THEN {Outcome("io", x)} ELSE {}
             e1      == Unshared(d, ino1)
             inPlace == OwnBlock(d, ino1)
             blocks1 == IF inPlace THEN {ino1.acl} ELSE EaBlocks \ d.used
             count1  == ino1.iblocks + (IF ino1.acl = NoBlock THEN 1 ELSE 0)
             Lost    == UNION {Failed(done1 \cup cow1, [e1 EXCEPT !.used = @ \cup {b}]) : b \in blocks1}
             Halfway == UNION {Failed(done1 \cup cow1 \cup (IF inPlace THEN {"inode"} ELSE {}),
                                      WriteIn(e1, b, rest1)) : b \in blocks1}
             Finished == {Outcome("ok", WithInode(WriteIn(e1, b, rest1), i,
                                   [ibody |-> ibody1, acl |-> b, iblocks |-> count1])) : b \in blocks1}
  <1>1. WriteXattrs(d, i, h, released) =
          IF rest1 = <<>> /\ ino1.acl = NoBlock
          THEN {Outcome("ok", WithInode(d, i, ino1))} \cup Failed(done1, d)
          ELSE Failed(done1 \cup cow1, e1) \cup Lost \cup Halfway \cup Finished
    BY DEF WriteXattrs
  <1>2. ibody1 = IbodyEntries(h) BY DEF IbodyEntries
  <1>3. ino1 = ino BY <1>2 DEF NewInode
  <1>4. /\ rest1 = BlockPart(h) /\ done1 = Gone(released) /\ cow1 = Cow(d, ino)
        /\ e1 = Unshared(d, ino) /\ blocks1 = BlocksFor(d, ino) /\ count1 = BlockCount(ino)
        /\ (IF inPlace THEN {"inode"} ELSE {}) = InPlace(d, ino)
    BY <1>3 DEF Gone, Cow, BlocksFor, BlockCount, InPlace
  <1>5. \A at, x : Failed(at, x) = Stops(at, x) BY DEF Stops
  <1> HIDE DEF ibody1, ino1, rest1, done1, cow1, Failed, e1, inPlace, blocks1, count1
  <1>8. o \in Lost => \E b \in blocks1 : o \in Failed(done1 \cup cow1, [e1 EXCEPT !.used = @ \cup {b}])
    BY Zenon
  <1>9. o \in Halfway => \E b \in blocks1 : o \in Failed(done1 \cup cow1 \cup (IF inPlace THEN {"inode"} ELSE {}),
                                         WriteIn(e1, b, rest1))
    BY Zenon
  <1>10. o \in Finished => \E b \in blocks1 : o = Outcome("ok", WithInode(WriteIn(e1, b, rest1), i,
                                   [ibody |-> ibody1, acl |-> b, iblocks |-> count1]))
    BY Zenon
  <1> HIDE DEF Lost, Halfway, Finished
  <1>6. CASE rest1 = <<>> /\ ino1.acl = NoBlock
    <2>1. o = Outcome("ok", WithInode(d, i, ino1)) \/ o \in Failed(done1, d) BY <1>1, <1>6
    <2>2. NoBlockCases(d, i, ino, released, o) BY <1>3, <1>4, <1>5, <2>1 DEF NoBlockCases
    <2> QED BY <1>3, <1>4, <1>6, <2>2
  <1>7. CASE ~(rest1 = <<>> /\ ino1.acl = NoBlock)
    <2>1. \/ o \in Failed(done1 \cup cow1, e1)
          \/ \E b \in blocks1 : o \in Failed(done1 \cup cow1, [e1 EXCEPT !.used = @ \cup {b}])
          \/ \E b \in blocks1 : o \in Failed(done1 \cup cow1 \cup (IF inPlace THEN {"inode"} ELSE {}),
                                         WriteIn(e1, b, rest1))
          \/ \E b \in blocks1 : o = Outcome("ok", WithInode(WriteIn(e1, b, rest1), i,
                                   [ibody |-> ibody1, acl |-> b, iblocks |-> count1]))
      BY <1>1, <1>7, <1>8, <1>9, <1>10
    <2>2. ~(BlockPart(h) = <<>> /\ ino.acl = NoBlock) BY <1>3, <1>4, <1>7
    <2>3. o \in Failed(done1 \cup cow1, e1) => BlockCases(d, i, h, ino, released, o)
      BY <1>4, <1>5 DEF BlockCases
    <2>4. ASSUME NEW b \in blocks1, o \in Failed(done1 \cup cow1, [e1 EXCEPT !.used = @ \cup {b}])
          PROVE  BlockCases(d, i, h, ino, released, o)
      <3>1. o \in Stops(done1 \cup cow1, [e1 EXCEPT !.used = @ \cup {b}]) BY <1>5, <2>4
      <3> QED BY <1>4, <3>1 DEF BlockCases
    <2>5. ASSUME NEW b \in blocks1, o \in Failed(done1 \cup cow1 \cup (IF inPlace THEN {"inode"} ELSE {}),
                                                WriteIn(e1, b, rest1))
          PROVE  BlockCases(d, i, h, ino, released, o)
      <3>1. o \in Stops(done1 \cup cow1 \cup (IF inPlace THEN {"inode"} ELSE {}), WriteIn(e1, b, rest1))
        BY <1>5, <2>5
      <3> QED BY <1>4, <3>1 DEF BlockCases
    <2>6. ASSUME NEW b \in blocks1, o = Outcome("ok", WithInode(WriteIn(e1, b, rest1), i,
                                   [ibody |-> ibody1, acl |-> b, iblocks |-> count1]))
          PROVE  BlockCases(d, i, h, ino, released, o)
      BY <1>2, <1>4, <2>6 DEF BlockCases
    <2> QED BY <2>1, <2>2, <2>3, <2>4, <2>5, <2>6, <1>3, <1>4, <1>7
  <1> QED BY <1>6, <1>7

LEMMA WriteIs ==
    ASSUME Careful, NEW d, Shape(d), NEW i \in Inodes, NEW h, HandleOk(h), NEW released \in BOOLEAN,
           NEW o, o \in WriteXattrs(d, i, h, released)
    PROVE  /\ o.err = "ok" \/ (o.err = "io" /\ ~released /\ faults < MaxFaults /\ Kept(d, o.d))
           /\ o.err = "ok" => \E b : /\ TakesBlock(d, i, b, BlockPart(h))
                                     /\ o.d = Relink(d, i, IbodyEntries(h), b, RestEntries(h))
  <1>i. PICK ibody : ibody = [n \in 1..h.ibody |-> Entry(h.attrs[n], FALSE)] OBVIOUS
  <1>r. PICK rest : rest = BlockPart(h) OBVIOUS
  <1>s. IsSeq(rest) /\ Len(rest) \in Nat BY <1>r, HandleParts DEF HandleOk, List, IsSeq
  <1>o. PICK old : old = d.inode[i].acl OBVIOUS
  <1>1. PICK ino : ino = [d.inode[i] EXCEPT !.ibody = ibody] OBVIOUS
  <1>2. /\ ino = [ibody |-> ibody, acl |-> old, iblocks |-> IF old = NoBlock THEN 0 ELSE 1]
        /\ old \in EaBlocks \cup {NoBlock}
    <2>1. d.inode[i] = [ibody |-> d.inode[i].ibody, acl |-> old,
                        iblocks |-> IF old = NoBlock THEN 0 ELSE 1]
          /\ d.inode[i].acl \in EaBlocks \cup {NoBlock}
      BY <1>o DEF Shape
    <2>2. PICK r : r = d.inode[i] OBVIOUS
    <2>3. ino = [r EXCEPT !.ibody = ibody]
          /\ r = [ibody |-> r.ibody, acl |-> old, iblocks |-> IF old = NoBlock THEN 0 ELSE 1]
      BY <1>1, <2>1, <2>2
    <2> QED BY <1>o, <2>1, <2>3
  <1>a. ino.acl = old BY <1>2
  <1>d. d = [inode |-> d.inode, blk |-> d.blk, ea |-> d.ea, used |-> d.used]
        /\ d.inode = [j \in Inodes |-> d.inode[j]] /\ d.blk = [c \in EaBlocks |-> d.blk[c]]
        /\ d.used \subseteq EaBlocks
    BY DEF Shape, EaShape
  <1>u. old # NoBlock => /\ old \in EaBlocks /\ old \in d.used /\ UsersOf(d, old) # {}
                         /\ d.blk[old] = [ref |-> d.blk[old].ref, entries |-> d.blk[old].entries]
    <2> HAVE old # NoBlock
    <2>1. i \in UsersOf(d, old) /\ old \in EaBlocks BY <1>2, <1>o DEF UsersOf
    <2>2. old \in d.used /\ d.blk[old] = [ref |-> Cardinality(UsersOf(d, old)),
                                          entries |-> d.blk[old].entries]
      BY <2>1 DEF Shape
    <2>3. PICK n : n = Cardinality(UsersOf(d, old)) OBVIOUS
    <2>4. d.blk[old] = [ref |-> n, entries |-> d.blk[old].entries] BY <2>2, <2>3
    <2> QED BY <2>1, <2>2, <2>4
  <1>3. ino = NewInode(d, i, h) BY <1>i, <1>1 DEF NewInode, IbodyEntries
  <1>n. /\ MayFail(Gone(released)) => ~released
        /\ MayFail(Gone(released) \cup Cow(d, ino)) => ~released /\ ~SharedBlock(d, ino)
        /\ MayFail(Gone(released) \cup Cow(d, ino) \cup InPlace(d, ino))
              => ~released /\ ~SharedBlock(d, ino) /\ ~OwnBlock(d, ino)
    BY DEF MayFail, Careful, Gone, Cow, InPlace
  <1>4. CASE rest = <<>> /\ old = NoBlock
    <2>1. NoBlockCases(d, i, ino, released, o) BY <1>3, <1>a, <1>r, <1>4, WriteCases
    <2>2. CASE o = Outcome("ok", WithInode(d, i, ino))
      <3>1. o.err = "ok" /\ o.d = [d EXCEPT !.inode[i] = ino] BY <2>2 DEF Outcome, WithInode
      <3>2. o.d = [inode |-> [d.inode EXCEPT ![i] = ino], blk |-> d.blk, ea |-> d.ea, used |-> d.used]
        BY <1>d, <3>1
      <3>3. ino = [ibody |-> IbodyEntries(h), acl |-> NoBlock, iblocks |-> IF NoBlock = NoBlock THEN 0 ELSE 1]
        BY <1>2, <1>4, <1>i DEF IbodyEntries
      <3>4. PICK b : b = NoBlock OBVIOUS
      <3>5. d.blk = [c \in EaBlocks |-> IF c = b THEN [ref |-> 1, entries |-> RestEntries(h)]
                                        ELSE IF c = old THEN Left(d.blk[c]) ELSE d.blk[c]]
        <4>1. \A c \in EaBlocks : c # b /\ c # old BY <1>4, <3>4, Constants
        <4>2. \A c \in EaBlocks : (IF c = b THEN [ref |-> 1, entries |-> RestEntries(h)]
                                    ELSE IF c = old THEN Left(d.blk[c]) ELSE d.blk[c]) = d.blk[c]
          BY <4>1
        <4> QED BY <1>d, <4>2, Zenon
      <3>6. d.used = (IF old # b /\ old # NoBlock /\ d.blk[old].ref = 1
                      THEN d.used \ {old} ELSE d.used) \cup ({b} \ {NoBlock})
        BY <1>4, <3>4
      <3>7. o.d = Relink(d, i, IbodyEntries(h), b, RestEntries(h))
        BY <1>o, <3>2, <3>3, <3>4, <3>5, <3>6, ZenonT(30) DEF Relink
      <3>8. TakesBlock(d, i, b, BlockPart(h)) BY <1>4, <1>o, <1>r, <3>4, EmptyIsSeq DEF TakesBlock, MayTake
      <3> QED BY <3>1, <3>7, <3>8
    <2>3. CASE o \in Stops(Gone(released), d)
      <3>1. MayFail(Gone(released)) /\ faults < MaxFaults /\ o = Outcome("io", d) BY <2>3 DEF Stops
      <3>2. o.err = "io" /\ o.d = d BY <3>1 DEF Outcome
      <3> QED BY <1>n, <3>1, <3>2, SameKeeps
    <2> QED BY <2>1, <2>2, <2>3 DEF NoBlockCases
  <1>5. CASE ~(rest = <<>> /\ old = NoBlock)
    <2>1. BlockCases(d, i, h, ino, released, o) BY <1>3, <1>a, <1>r, <1>5, WriteCases
    <2>e. PICK e : e = Unshared(d, ino) OBVIOUS
    <2>2. /\ e = [inode |-> d.inode, blk |-> e.blk, ea |-> d.ea, used |-> d.used]
          /\ e.blk = [c \in EaBlocks |-> IF c = old /\ d.blk[old].ref # 1 THEN Left(d.blk[c]) ELSE d.blk[c]]
      <3>1. CASE SharedBlock(d, ino)
        <4>1. old \in EaBlocks /\ d.blk[old].ref # 1 BY <1>a, <1>u, <3>1 DEF SharedBlock
        <4>2. e = [d EXCEPT !.blk[old].ref = @ - 1] BY <1>a, <2>e, <3>1 DEF Unshared
        <4>3. PICK f : f = d.blk OBVIOUS
        <4>4. PICK r : r = f[old] OBVIOUS
        <4>5. r = [ref |-> r.ref, entries |-> r.entries] /\ r.ref # 1
          BY <1>u, <4>1, <4>3, <4>4, Constants
        <4>6. e = [d EXCEPT !.blk = [f EXCEPT ![old] = [r EXCEPT !.ref = r.ref - 1]]]
          BY <4>2, <4>3, <4>4
        <4>7. [r EXCEPT !.ref = r.ref - 1] = Left(r) BY <4>5 DEF Left
        <4>8. e = [d EXCEPT !.blk = [f EXCEPT ![old] = Left(r)]] BY <4>6, <4>7
        <4>9. e = [inode |-> d.inode, blk |-> [f EXCEPT ![old] = Left(r)], ea |-> d.ea, used |-> d.used]
          BY <1>d, <4>8
        <4>10. [f EXCEPT ![old] = Left(r)] = [c \in EaBlocks |-> IF c = old THEN Left(r) ELSE f[c]]
          BY <1>d, <4>3
        <4>11. e.blk = [c \in EaBlocks |-> IF c = old THEN Left(r) ELSE f[c]] BY <4>9, <4>10
        <4>12. \A c \in EaBlocks : (IF c = old THEN Left(r) ELSE f[c])
                                    = (IF c = old /\ d.blk[old].ref # 1 THEN Left(d.blk[c]) ELSE d.blk[c])
          BY <4>1, <4>3, <4>4
        <4>13. e.blk = [c \in EaBlocks |-> IF c = old /\ d.blk[old].ref # 1 THEN Left(d.blk[c]) ELSE d.blk[c]]
          BY <4>11, <4>12, Zenon
        <4> QED BY <4>9, <4>13
      <3>2. CASE ~SharedBlock(d, ino)
        <4>1. e = d /\ ~(old # NoBlock /\ d.blk[old].ref # 1) BY <1>a, <2>e, <3>2 DEF Unshared, SharedBlock
        <4>2. \A c \in EaBlocks : ~(c = old /\ d.blk[old].ref # 1) BY <4>1, Constants
        <4>3. \A c \in EaBlocks : (IF c = old /\ d.blk[old].ref # 1 THEN Left(d.blk[c]) ELSE d.blk[c]) = d.blk[c]
          BY <4>2
        <4>4. d.blk = [c \in EaBlocks |-> IF c = old /\ d.blk[old].ref # 1 THEN Left(d.blk[c]) ELSE d.blk[c]]
          BY <1>d, <4>3, Zenon
        <4> QED BY <1>d, <4>1, <4>4
      <3> QED BY <3>1, <3>2
    <2>3. ~SharedBlock(d, ino) => e = d BY <2>e DEF Unshared
    <2>4. CASE o \in Stops(Gone(released) \cup Cow(d, ino), Unshared(d, ino))
      <3>1. o = Outcome("io", e) /\ faults < MaxFaults /\ MayFail(Gone(released) \cup Cow(d, ino))
        BY <2>4, <2>e DEF Stops
      <3>2. o.err = "io" /\ o.d = d BY <1>n, <2>3, <3>1 DEF Outcome
      <3> QED BY <1>n, <3>1, <3>2, SameKeeps
    <2>5. ASSUME NEW b \in BlocksFor(d, ino)
          PROVE  /\ b \in EaBlocks /\ (b \notin d.used \/ UsersOf(d, b) # {})
                 /\ OwnBlock(d, ino) => b = old /\ d.blk[b].ref = 1
                 /\ ~OwnBlock(d, ino) => b \notin d.used
      <3>1. CASE OwnBlock(d, ino)
        <4>1. b = old /\ old # NoBlock /\ d.blk[old].ref = 1 BY <1>a, <3>1 DEF OwnBlock, BlocksFor
        <4> QED BY <1>u, <3>1, <4>1
      <3>2. CASE ~OwnBlock(d, ino) BY <3>2 DEF BlocksFor
      <3> QED BY <3>1, <3>2
    <2>6. ASSUME NEW b \in BlocksFor(d, ino),
                 o \in Stops(Gone(released) \cup Cow(d, ino), [Unshared(d, ino) EXCEPT !.used = @ \cup {b}])
          PROVE  o.err = "io" /\ ~released /\ faults < MaxFaults /\ Kept(d, o.d)
      <3>1. /\ o = Outcome("io", [e EXCEPT !.used = @ \cup {b}]) /\ faults < MaxFaults
            /\ MayFail(Gone(released) \cup Cow(d, ino))
        BY <2>6, <2>e DEF Stops
      <3>2. o.err = "io" /\ o.d = [d EXCEPT !.used = @ \cup {b}] BY <1>n, <2>3, <3>1 DEF Outcome
      <3>3. d.blk = [d.blk EXCEPT ![b] = d.blk[b]] BY <1>d
      <3>4. PICK block : block = d.blk[b] OBVIOUS
      <3>5. o.d = [inode |-> d.inode, blk |-> [d.blk EXCEPT ![b] = block], ea |-> d.ea, used |-> d.used \cup {b}]
        BY <1>d, <3>2, <3>3, <3>4
      <3>6. Kept(d, o.d) BY <2>5, <3>4, <3>5, LostBlockKeeps
      <3> QED BY <1>n, <3>1, <3>2, <3>6
    <2>7. ASSUME NEW b \in BlocksFor(d, ino),
                 o \in Stops(Gone(released) \cup Cow(d, ino) \cup InPlace(d, ino),
                           WriteIn(Unshared(d, ino), b, BlockPart(h)))
          PROVE  o.err = "io" /\ ~released /\ faults < MaxFaults /\ Kept(d, o.d)
      <3>1. /\ o = Outcome("io", WriteIn(e, b, rest)) /\ faults < MaxFaults
            /\ MayFail(Gone(released) \cup Cow(d, ino) \cup InPlace(d, ino))
        BY <1>r, <2>7, <2>e DEF Stops
      <3>2. o.err = "io" /\ o.d = WriteIn(d, b, rest) BY <1>n, <2>3, <3>1 DEF Outcome
      <3>3. PICK block : block = [ref |-> 1, entries |-> [n \in 1..Len(rest) |-> Entry(rest[n], TRUE)]]
        OBVIOUS
      <3>5. o.d = [inode |-> d.inode, blk |-> [d.blk EXCEPT ![b] = block], ea |-> d.ea, used |-> d.used \cup {b}]
        BY <3>2, <3>3 DEF WriteIn
      <3>6. UsersOf(d, b) = {} /\ b \notin d.used
        <4>1. b \notin d.used /\ b \in EaBlocks BY <1>n, <2>5, <3>1
        <4> QED BY <4>1 DEF Shape
      <3>7. Kept(d, o.d) BY <2>5, <3>5, <3>6, LostBlockKeeps
      <3> QED BY <1>n, <3>1, <3>2, <3>7
    <2>8. ASSUME NEW b \in BlocksFor(d, ino),
                 o = Outcome("ok", WithInode(WriteIn(Unshared(d, ino), b, BlockPart(h)), i,
                                   [ibody |-> IbodyEntries(h), acl |-> b, iblocks |-> BlockCount(ino)]))
          PROVE  /\ o.err = "ok" /\ TakesBlock(d, i, b, BlockPart(h))
                 /\ o.d = Relink(d, i, IbodyEntries(h), b, RestEntries(h))
      <3>0. PICK s : s = RestEntries(h) OBVIOUS
      <3>1. BlockCount(ino) = 1 BY <1>2 DEF BlockCount
      <3>2. b \in EaBlocks /\ b # NoBlock /\ (b = old => d.blk[b].ref = 1)
        <4>1. CASE OwnBlock(d, ino) BY <2>5, <4>1, Constants
        <4>2. CASE ~OwnBlock(d, ino)
          <5>1. b \in EaBlocks /\ b \notin d.used BY <2>5, <4>2
          <5> QED BY <1>u, <5>1, Constants
        <4> QED BY <4>1, <4>2
      <3>3. PICK ino2 : ino2 = [ibody |-> IbodyEntries(h), acl |-> b,
                                iblocks |-> IF b = NoBlock THEN 0 ELSE 1]
        OBVIOUS
      <3>4. PICK w : w = WriteIn(e, b, rest) OBVIOUS
      <3>5. w = [inode |-> d.inode, blk |-> [e.blk EXCEPT ![b] = [ref |-> 1, entries |-> s]],
                 ea |-> d.ea, used |-> d.used \cup {b}]
        <4>1. w = WriteIn(e, b, BlockPart(h)) BY <1>r, <3>4
        <4>2. w = [inode |-> e.inode, blk |-> [e.blk EXCEPT ![b] = [ref |-> 1, entries |-> RestEntries(h)]],
                   ea |-> e.ea, used |-> e.used \cup {b}]
          BY <4>1 DEF WriteIn, RestEntries
        <4> QED BY <2>2, <3>0, <4>2, SMTT(30)
      <3>6. o = Outcome("ok", WithInode(w, i, ino2)) BY <1>r, <2>8, <2>e, <3>1, <3>2, <3>3, <3>4
      <3>7. o.err = "ok" /\ o.d = [w EXCEPT !.inode[i] = ino2] BY <3>6 DEF Outcome, WithInode
      <3>8. o.d = [inode |-> [d.inode EXCEPT ![i] = ino2],
                   blk |-> [e.blk EXCEPT ![b] = [ref |-> 1, entries |-> s]],
                   ea |-> d.ea, used |-> d.used \cup {b}]
        BY <3>5, <3>7
      <3>9. [e.blk EXCEPT ![b] = [ref |-> 1, entries |-> s]]
              = [c \in EaBlocks |-> IF c = b THEN [ref |-> 1, entries |-> s]
                                    ELSE IF c = old THEN Left(d.blk[c]) ELSE d.blk[c]]
        <4>1. PICK f : f = e.blk OBVIOUS
        <4>2. f = [c \in EaBlocks |-> IF c = old /\ d.blk[old].ref # 1 THEN Left(d.blk[c]) ELSE d.blk[c]]
          BY <2>2, <4>1
        <4>3. [f EXCEPT ![b] = [ref |-> 1, entries |-> s]]
                = [c \in EaBlocks |-> IF c = b THEN [ref |-> 1, entries |-> s] ELSE f[c]]
          BY <4>2
        <4>4. \A c \in EaBlocks : c # b => (c = old => d.blk[old].ref # 1)
          <5> TAKE c \in EaBlocks
          <5> HAVE c # b
          <5> HAVE c = old
          <5>1. ~OwnBlock(d, ino) BY <2>5
          <5>2. c # NoBlock BY Constants
          <5> QED BY <1>a, <5>1, <5>2 DEF OwnBlock
        <4>5. \A c \in EaBlocks : (IF c = b THEN [ref |-> 1, entries |-> s] ELSE f[c])
                 = (IF c = b THEN [ref |-> 1, entries |-> s]
                    ELSE IF c = old THEN Left(d.blk[c]) ELSE d.blk[c])
          BY <4>2, <4>4
        <4> QED BY <4>1, <4>3, <4>5, Zenon
      <3>10. d.used \cup {b} = (IF old # b /\ old # NoBlock /\ d.blk[old].ref = 1
                                THEN d.used \ {old} ELSE d.used) \cup ({b} \ {NoBlock})
        <4>1. ~(old # b /\ old # NoBlock /\ d.blk[old].ref = 1)
          BY <1>a, <2>5 DEF OwnBlock
        <4> QED BY <3>2, <4>1
      <3>11. o.d = Relink(d, i, IbodyEntries(h), b, s) BY <1>o, <3>3, <3>8, <3>9, <3>10 DEF Relink
      <3>12. TakesBlock(d, i, b, BlockPart(h))
        <4>1. MayTake(d, i, b) BY <1>o, <1>a, <2>5 DEF MayTake, OwnBlock
        <4>2. Own(d, i) /\ (old # NoBlock \/ BlockPart(h) = <<>>) => b = old
          <5>1. ASSUME Own(d, i), old # NoBlock \/ BlockPart(h) = <<>> PROVE b = old
            <6>1. old # NoBlock BY <1>5, <1>r, <5>1
            <6>2. OwnBlock(d, ino) BY <1>a, <1>o, <5>1, <6>1 DEF Own, OwnBlock
            <6> QED BY <2>5, <6>2
          <5> QED BY <5>1
        <4> QED BY <1>o, <3>2, <4>1, <4>2 DEF TakesBlock
      <3> QED BY <3>0, <3>7, <3>11, <3>12
    <2> QED BY <2>1, <2>4, <2>6, <2>7, <2>8 DEF BlockCases
  <1> QED BY <1>4, <1>5

-----------------------------------------------------------------------------
\* What holds of the disk between calls

DiskInv(d) ==
    /\ Shape(d)
    /\ \A i \in Inodes : Good(d, i)
    /\ \A i, j \in Inodes : i # j => Apart(ReadHandle(d, i), ReadHandle(d, j))

LEMMA EaOnlyIs ==
    ASSUME NEW d, Shape(d), NEW e, EaOnly(d, e)
    PROVE  /\ Shape(e) /\ (NoneLost(d) <=> NoneLost(e))
           /\ \A i \in Inodes : /\ e.inode[i] = d.inode[i] /\ BlockEntries(e, i) = BlockEntries(d, i)
                                /\ Own(d, i) <=> Own(e, i)
  <1>1. EaShape(e) /\ e.inode = d.inode /\ e.blk = d.blk /\ e.used = d.used BY DEF EaOnly
  <1>2. \A b : UsersOf(e, b) = UsersOf(d, b) BY <1>1 DEF UsersOf
  <1>3. Shape(e)
    <2>1. d.inode = [i \in Inodes |-> d.inode[i]] BY DEF Shape
    <2>2. \A i \in Inodes :
             /\ d.inode[i] = [ibody |-> d.inode[i].ibody, acl |-> d.inode[i].acl,
                              iblocks |-> IF d.inode[i].acl = NoBlock THEN 0 ELSE 1]
             /\ IsSeq(d.inode[i].ibody) /\ d.inode[i].acl \in EaBlocks \cup {NoBlock}
      BY DEF Shape
    <2>3. d.blk = [b \in EaBlocks |-> d.blk[b]] /\ d.used \subseteq EaBlocks BY DEF Shape
    <2>4. \A b \in EaBlocks : UsersOf(e, b) # {} =>
             /\ b \in e.used /\ IsSeq(e.blk[b].entries)
             /\ e.blk[b] = [ref |-> Cardinality(UsersOf(e, b)), entries |-> e.blk[b].entries]
      <3> TAKE b \in EaBlocks
      <3> HAVE UsersOf(e, b) # {}
      <3>1. b \in d.used /\ IsSeq(d.blk[b].entries)
            /\ d.blk[b] = [ref |-> Cardinality(UsersOf(d, b)), entries |-> d.blk[b].entries]
        BY <1>2 DEF Shape
      <3> QED BY <1>1, <1>2, <3>1
    <2> QED BY <1>1, <2>1, <2>2, <2>3, <2>4 DEF Shape
  <1>4. NoneLost(d) <=> NoneLost(e) BY <1>1, <1>2 DEF NoneLost
  <1>5. \A i \in Inodes : /\ e.inode[i] = d.inode[i] /\ BlockEntries(e, i) = BlockEntries(d, i)
                          /\ Own(d, i) <=> Own(e, i)
    BY <1>1 DEF BlockEntries, Own
  <1> QED BY <1>3, <1>4, <1>5

LEMMA ApartBoth == ASSUME NEW g, NEW h, Apart(g, h) PROVE Apart(h, g)
  BY DEF Apart

\* One inode's attributes change, and the others' do not.
LEMMA StepKeeps ==
    ASSUME NEW d, DiskInv(d), NEW i \in Inodes, NEW e, Shape(e), Good(e, i),
           NEW g, g = ReadHandle(e, i),
           \A j \in Inodes \ {i} : /\ ReadHandle(e, j) = ReadHandle(d, j)
                                   /\ Good(e, j) /\ Apart(ReadHandle(d, j), g)
    PROVE  DiskInv(e)
  <1>1. \A j \in Inodes : Good(e, j) OBVIOUS
  <1>2. ASSUME NEW j \in Inodes, NEW k \in Inodes, j # k
        PROVE  Apart(ReadHandle(e, j), ReadHandle(e, k))
    <2>1. CASE j # i /\ k # i BY <1>2, <2>1 DEF DiskInv
    <2>2. CASE j # i /\ k = i BY <2>2
    <2>3. CASE j = i /\ k # i BY <2>3, ApartBoth
    <2> QED BY <1>2, <2>1, <2>2, <2>3
  <1> QED BY <1>1, <1>2 DEF DiskInv

\* The handles of other inodes than the one whose attributes are changed
LEMMA OthersRead ==
    ASSUME NEW d, DiskInv(d), NEW i \in Inodes, NEW h, h = ReadHandle(d, i),
           NEW name, NEW new, NEW u, Changing(d, h, name, new, u),
           NEW j \in Inodes \ {i}, NEW e, e.ea = u.d.ea,
           e.inode[j] = d.inode[j], BlockEntries(e, j) = BlockEntries(d, j)
    PROVE  ReadHandle(e, j) = ReadHandle(d, j) /\ Good(e, j) /\ Apart(ReadHandle(d, j), u.h)
  <1>1. PICK g : g = ReadHandle(d, j) OBVIOUS
  <1>2. Good(d, j) /\ Apart(g, h) BY <1>1 DEF DiskInv
  <1>3. HandleOk(g) /\ EaFits(d, g) BY <1>1, <1>2 DEF Good
  <1>4. Apart(g, u.h) /\ \A c \in Elems(g.attrs) : c.ea # 0 => u.d.ea[c.ea] = d.ea[c.ea]
    BY <1>2, <1>3, OthersFit
  <1>5. Lists(d, j)
    <2>1. Shape(d) BY DEF DiskInv
    <2>2. IsSeq(BlockEntries(d, j)) BY <2>1, BlockOf
    <2>3. IsSeq(d.inode[j].ibody) BY <2>1 DEF Shape
    <2> QED BY <2>2, <2>3 DEF Lists
  <1>6. \A c \in Elems(g.attrs) : c.ea # 0 => e.ea[c.ea] = d.ea[c.ea] BY <1>4
  <1>7. e.inode[j].ibody = d.inode[j].ibody OBVIOUS
  <1>8. ReadHandle(e, j) = g /\ Good(e, j) BY <1>1, <1>2, <1>5, <1>6, <1>7, SameReading
  <1> QED BY <1>1, <1>4, <1>8

\* A value that is dropped is in the handle's block or inode, not in one of its own.
NoneDropped(h, name) == \A c \in Elems(h.attrs) : c.name = name => c.ea = 0

\* After a write of u.h, the handle h of inode i with one attribute changed
WriteDone(d, i, h, name, u, o) ==
    /\ DiskInv(o.d)
    /\ \A j \in Inodes \ {i} : ReadHandle(o.d, j) = ReadHandle(d, j) /\ o.d.inode[j] = d.inode[j]
    /\ \A j \in Inodes : Own(d, j) => Own(o.d, j)
    /\ o.err = "ok" \/ (o.err = "io" /\ faults < MaxFaults /\ ReadHandle(o.d, i) = h
                          /\ o.d.inode = d.inode)
    /\ o.err = "ok" => /\ ReadHandle(o.d, i) = u.h /\ Own(o.d, i) /\ (NoneLost(d) => NoneLost(o.d))
                       /\ name = "system.data" /\ Own(d, i) => o.d.inode[i].acl = d.inode[i].acl

LEMMA WriteKeeps ==
    ASSUME Careful, NEW d, DiskInv(d), NEW i \in Inodes, NEW h, h = ReadHandle(d, i),
           NEW name, NEW new, NEW u, Changing(d, h, name, new, u),
           NEW released \in BOOLEAN, ~released => NoneDropped(h, name),
           NEW o, o \in WriteXattrs(u.d, i, u.h, released)
    PROVE  WriteDone(d, i, h, name, u, o)
  <1>1. Shape(d) /\ Good(d, i) BY DEF DiskInv
  <1>2. HandleOk(h) /\ EaFits(d, h) BY <1>1 DEF Good
  <1>3. EaOnly(d, u.d) /\ HandleOk(u.h) /\ u.h.ino = h.ino BY DEF Changing
  <1>4. EaFits(u.d, u.h) BY <1>2, StillFits
  <1>5. PICK x : x = u.d OBVIOUS
  <1>6. /\ Shape(x) /\ (NoneLost(d) <=> NoneLost(x))
        /\ \A j \in Inodes : /\ x.inode[j] = d.inode[j] /\ BlockEntries(x, j) = BlockEntries(d, j)
                             /\ Own(d, j) <=> Own(x, j)
    BY <1>1, <1>3, <1>5, EaOnlyIs
  <1>7. x.inode = d.inode BY <1>3, <1>5 DEF EaOnly
  <1>l. Lists(d, i) /\ IsSeq(d.inode[i].ibody) /\ IsSeq(BlockEntries(d, i))
    <2>1. IsSeq(BlockEntries(d, i)) BY <1>1, BlockOf
    <2>2. IsSeq(d.inode[i].ibody) BY <1>1 DEF Shape
    <2> QED BY <2>1, <2>2 DEF Lists
  <1>8. h.ino = i
    <2>1. Reading(d, i, Entries(d, i), h) BY <1>l, ReadIs
    <2> QED BY <2>1 DEF Reading
  <1>9. PICK e : e = o.d OBVIOUS
  <1>10. /\ o.err = "ok" \/ (o.err = "io" /\ ~released /\ faults < MaxFaults /\ Kept(x, e))
         /\ o.err = "ok" => \E b : /\ TakesBlock(x, i, b, BlockPart(u.h))
                                   /\ e = Relink(x, i, IbodyEntries(u.h), b, RestEntries(u.h))
    <2>1. PICK g : g = u.h OBVIOUS
    <2>2. HandleOk(g) /\ o \in WriteXattrs(x, i, g, released) BY <1>3, <1>5, <2>1
    <2> QED BY <1>6, <1>9, <2>1, <2>2, WriteIs
  <1>11. ASSUME NEW j \in Inodes \ {i}, e.ea = x.ea, e.inode[j] = x.inode[j],
                BlockEntries(e, j) = BlockEntries(x, j)
         PROVE  ReadHandle(e, j) = ReadHandle(d, j) /\ Good(e, j) /\ Apart(ReadHandle(d, j), u.h)
    <2>1. e.ea = u.d.ea /\ e.inode[j] = d.inode[j] /\ BlockEntries(e, j) = BlockEntries(d, j)
      BY <1>5, <1>6, <1>11
    <2> QED BY <2>1, OthersRead
  <1>12. CASE o.err = "ok"
    <2>1. PICK b : /\ TakesBlock(x, i, b, BlockPart(u.h))
                   /\ e = Relink(x, i, IbodyEntries(u.h), b, RestEntries(u.h))
      BY <1>10, <1>12
    <2>2. PICK ib : ib = IbodyEntries(u.h) OBVIOUS
    <2>3. PICK s : s = RestEntries(u.h) OBVIOUS
    <2>4. IsSeq(ib) /\ IsSeq(s)
      <3>1. u.h.ibody \in Nat /\ Len(BlockPart(u.h)) \in Nat
        BY <1>3, HandleParts DEF HandleOk, HandleShape, List, IsSeq
      <3>2. ib = [n \in 1..u.h.ibody |-> ib[n]] BY <2>2, Zenon DEF IbodyEntries
      <3>3. s = [n \in 1..Len(BlockPart(u.h)) |-> s[n]] BY <2>3, Zenon DEF RestEntries
      <3> QED BY <3>1, <3>2, <3>3, MadeSeq
    <2>5. b \in EaBlocks \cup {NoBlock} /\ MayTake(x, i, b) /\ (b = NoBlock => Len(BlockPart(u.h)) = 0)
      BY <2>1 DEF TakesBlock
    <2>6. /\ Shape(e) /\ e.ea = x.ea /\ e.inode[i].ibody = ib /\ Own(e, i)
          /\ BlockEntries(e, i) = IF b = NoBlock THEN <<>> ELSE s
          /\ Others(x, e, i) /\ (NoneLost(x) => NoneLost(e))
      BY <1>6, <2>1, <2>2, <2>3, <2>4, <2>5, RelinkIs
    <2>7. BlockEntries(e, i) = s
      <3>1. CASE b = NoBlock
        <4>1. Len(s) = 0
          <5>1. s = [n \in 1..Len(BlockPart(u.h)) |-> Entry(BlockPart(u.h)[n], TRUE)]
            BY <2>3 DEF RestEntries
          <5>2. PICK k \in Nat : k = 0 /\ k = Len(BlockPart(u.h)) BY <2>5, <3>1
          <5>3. s = [n \in 1..k |-> s[n]] BY <5>1, <5>2, Zenon
          <5> QED BY <5>2, <5>3, MadeSeq
        <4>2. s = <<>> BY <2>4, <4>1, EmptyIsSeq, SameSeq
        <4> QED BY <2>6, <3>1, <4>2
      <3> QED BY <2>6, <3>1
    <2>8. ReadHandle(e, i) = u.h /\ Good(e, i)
      <3>1. PICK g : g = u.h OBVIOUS
      <3>2. HandleOk(g) /\ g.ino = i BY <1>3, <1>8, <3>1
      <3>3. EaFits(e, g) BY <1>4, <1>5, <2>6, <3>1 DEF EaFits
      <3>4. e.inode[i].ibody = IbodyEntries(g)
        BY <2>2, <2>6, <3>1
      <3>5. BlockEntries(e, i) = RestEntries(g)
        BY <2>3, <2>7, <3>1
      <3> QED BY <3>1, <3>2, <3>3, <3>4, <3>5, WrittenReads
    <2>9. \A j \in Inodes \ {i} : /\ e.inode[j] = x.inode[j] /\ BlockEntries(e, j) = BlockEntries(x, j)
                                  /\ Own(x, j) => Own(e, j)
      BY <2>6 DEF Others
    <2>10. \A j \in Inodes \ {i} : /\ ReadHandle(e, j) = ReadHandle(d, j) /\ Good(e, j)
                                   /\ Apart(ReadHandle(d, j), u.h)
      BY <1>11, <2>6, <2>9
    <2>11. DiskInv(e) BY <2>6, <2>8, <2>10, StepKeeps
    <2>12. name = "system.data" /\ Own(d, i) => e.inode[i].acl = d.inode[i].acl
      <3> SUFFICES ASSUME name = "system.data", Own(d, i) PROVE e.inode[i].acl = d.inode[i].acl OBVIOUS
      <3>1. BlockPart(u.h) = BlockPart(h) BY DEF Changing
      <3>2. d.inode[i].acl # NoBlock \/ BlockPart(u.h) = <<>>
        <4> SUFFICES ASSUME d.inode[i].acl = NoBlock PROVE BlockPart(h) = <<>> BY <3>1
        <4>1. BlockEntries(d, i) = <<>> BY <1>1, BlockOf
        <4>2. Reading(d, i, Entries(d, i), h) BY <1>l, ReadIs
        <4>3. Len(h.attrs) = Len(d.inode[i].ibody) + Len(BlockEntries(d, i))
              /\ h.ibody = Len(d.inode[i].ibody) /\ Len(d.inode[i].ibody) \in Nat
          BY <4>2, <1>l DEF Reading, IsSeq
        <4>4. Len(BlockPart(h)) = Len(h.attrs) - h.ibody /\ IsSeq(BlockPart(h))
          BY <1>2, HandleParts DEF HandleOk, List
        <4>5. Len(BlockPart(h)) = 0 BY <4>1, <4>3, <4>4, EmptyIsSeq
        <4> QED BY <4>4, <4>5, EmptyIsSeq, SameSeq
      <3>3. b = x.inode[i].acl
        <4>1. Own(x, i) BY <1>6
        <4>2. x.inode[i].acl # NoBlock \/ BlockPart(u.h) = <<>> BY <1>6, <3>2
        <4> QED BY <2>1, <4>1, <4>2 DEF TakesBlock
      <3>4. e.inode[i].acl = b
        <4>1. e.inode = [x.inode EXCEPT ![i] =
                  [ibody |-> IbodyEntries(u.h), acl |-> b, iblocks |-> IF b = NoBlock THEN 0 ELSE 1]]
          BY <2>1 DEF Relink
        <4>2. x.inode = [j \in Inodes |-> x.inode[j]] BY <1>6 DEF Shape
        <4>3. e.inode[i] = [ibody |-> IbodyEntries(u.h), acl |-> b, iblocks |-> IF b = NoBlock THEN 0 ELSE 1]
          BY <4>1, <4>2
        <4> QED BY <4>3
      <3> QED BY <1>6, <3>3, <3>4
    <2>13. \A j \in Inodes : Own(d, j) => Own(e, j) BY <1>6, <2>6, <2>9
    <2> QED BY <1>6, <1>9, <1>12, <2>6, <2>8, <2>9, <2>10, <2>11, <2>12, <2>13 DEF WriteDone
  <1>13. CASE o.err # "ok"
    <2>1. o.err = "io" /\ ~released /\ faults < MaxFaults /\ Kept(x, e) BY <1>10, <1>13
    <2>2. /\ Shape(e) /\ e.inode = x.inode /\ e.ea = x.ea
          /\ \A j \in Inodes : BlockEntries(e, j) = BlockEntries(x, j) /\ (Own(x, j) => Own(e, j))
      BY <2>1 DEF Kept
    <2>3. \A j \in Inodes \ {i} : ReadHandle(e, j) = ReadHandle(d, j) /\ Good(e, j)
      BY <1>11, <2>2
    <2>4. \A c \in Elems(h.attrs) : c.ea # 0 => e.ea[c.ea] = d.ea[c.ea]
      <3> SUFFICES ASSUME NEW c \in Elems(h.attrs), c.ea # 0 PROVE e.ea[c.ea] = d.ea[c.ea] OBVIOUS
      <3>1. PICK f \in EaInodes : f = c.ea BY <1>2, ElemsOk
      <3>2. d.ea[f] = [ref |-> 1, value |-> c.value] BY <1>2, <3>1 DEF EaFits
      <3>3. \A a \in new : a.ea # f
        <4> SUFFICES ASSUME NEW a \in new, a.ea = f PROVE FALSE OBVIOUS
        <4>1. f # 0 BY <3>1
        <4>2. d.ea[f].ref = 0 BY <4>1 DEF Changing
        <4> QED BY <3>2, <4>2
      <3>4. \A a \in Elems(h.attrs) : a.name = name => a.ea # f
        <4> SUFFICES ASSUME NEW a \in Elems(h.attrs), a.name = name, a.ea = f PROVE FALSE OBVIOUS
        <4>1. a.ea = 0 BY <2>1 DEF NoneDropped
        <4> QED BY <3>1, <4>1
      <3>5. u.d.ea[f] = d.ea[f] BY <3>3, <3>4 DEF Changing
      <3> QED BY <1>5, <2>2, <3>1, <3>5
    <2>5. ReadHandle(e, i) = h /\ Good(e, i)
      <3>1. e.inode[i].ibody = d.inode[i].ibody /\ BlockEntries(e, i) = BlockEntries(d, i)
        BY <1>6, <1>7, <2>2
      <3> QED BY <1>1, <1>l, <2>4, <3>1, SameReading
    <2>6. \A j \in Inodes \ {i} : Apart(ReadHandle(d, j), h) BY DEF DiskInv
    <2>7. DiskInv(e) BY <2>2, <2>3, <2>5, <2>6, StepKeeps
    <2>8. \A j \in Inodes : Own(d, j) => Own(e, j) BY <1>6, <2>2
    <2> QED BY <1>7, <1>9, <1>13, <2>1, <2>2, <2>3, <2>5, <2>7, <2>8 DEF WriteDone
  <1> QED BY <1>12, <1>13


-----------------------------------------------------------------------------
\* Calls on a handle

\* What a client gets for a name, out of a handle
Held(h, name) == LET n == IndexOf(h.attrs, name)
                 IN  IF n = 0 THEN None ELSE Got(name, h.attrs[n].value)

LEMMA HeldIs ==
    ASSUME NEW h, HandleOk(h), NEW name
    PROVE  /\ (\A c \in Elems(h.attrs) : c.name # name) => Held(h, name) = None
           /\ \A c \in Elems(h.attrs) : c.name = name => Held(h, name) = Got(name, c.value)
  <1>1. IsSeq(h.attrs) /\ Distinct(h.attrs) BY DEF HandleOk, HandleShape, List
  <1>2. PICK n : n = IndexOf(h.attrs, name) OBVIOUS
  <1>3. /\ n = 0 <=> \A c \in Elems(h.attrs) : c.name # name
        /\ n # 0 => /\ h.attrs[n] \in Elems(h.attrs) /\ h.attrs[n].name = name
                    /\ \A c \in Elems(h.attrs) : c.name = name => c = h.attrs[n]
    BY <1>1, <1>2, OneOfName
  <1>4. Held(h, name) = IF n = 0 THEN None ELSE Got(name, h.attrs[n].value) BY <1>2 DEF Held
  <1> QED BY <1>3, <1>4

\* g is h with other attributes of the name.
Renewed(h, g, name, new) == /\ HandleOk(h) /\ HandleOk(g)
                            /\ Elems(g.attrs) = OtherNames(h, name) \cup new
                            /\ \A c \in new : c.name = name

\* The names that are not written are read as before.
LEMMA OthersHeld ==
    ASSUME NEW h, NEW g, NEW name, NEW new, Renewed(h, g, name, new), NEW m, m # name
    PROVE  Held(g, m) = Held(h, m)
  <1>0. /\ HandleOk(h) /\ HandleOk(g)
        /\ Elems(g.attrs) = OtherNames(h, name) \cup new
        /\ \A c \in new : c.name = name
    BY DEF Renewed
  <1>1. CASE \A c \in Elems(h.attrs) : c.name # m
    <2>1. \A c \in Elems(g.attrs) : c.name # m BY <1>0, <1>1 DEF OtherNames
    <2> QED BY <1>0, <1>1, <2>1, HeldIs
  <1>2. CASE \E c \in Elems(h.attrs) : c.name = m
    <2>1. PICK c \in Elems(h.attrs) : c.name = m BY <1>2
    <2>2. c \in Elems(g.attrs) BY <1>0, <2>1 DEF OtherNames
    <2> QED BY <1>0, <2>1, <2>2, HeldIs
  <1> QED BY <1>1, <1>2

DataBeside(h) == \A c \in Elems(h.attrs) : c.name = "system.data" => c.ea = 0

\* After a call on the handle h of inode i that makes w of the name
CallDone(d, i, h, name, w, o) ==
    /\ DiskInv(o.d)
    /\ \A j \in Inodes \ {i} : ReadHandle(o.d, j) = ReadHandle(d, j) /\ o.d.inode[j] = d.inode[j]
    /\ \A j \in Inodes : Own(d, j) => Own(o.d, j)
    /\ o.err = "io" => faults < MaxFaults
    /\ o.err # "io" => (NoneLost(d) => NoneLost(o.d))
    /\ o.err # "ok" => ReadHandle(o.d, i) = h /\ o.d.inode = d.inode
    /\ o.err = "ok" =>
         /\ o.h = ReadHandle(o.d, i) /\ Held(o.h, name) = w
         /\ \A m : m # name => Held(o.h, m) = Held(h, m)
         /\ DataBeside(h) => DataBeside(o.h)
         /\ Held(h, name) # w => Own(o.d, i)
         /\ name = "system.data" /\ Own(d, i) => o.d.inode[i].acl = d.inode[i].acl

LEMMA WrittenIs ==
    ASSUME Careful, NEW d, DiskInv(d), NEW i \in Inodes, NEW h, h = ReadHandle(d, i),
           NEW name, NEW new, NEW w, NEW u, Changing(d, h, name, new, u),
           \A c \in new : c.name = name /\ Got(name, c.value) = w, new = {} => w = None,
           NEW released, released = Releases(h, name), NEW o, o \in Written(i, u, released)
    PROVE  CallDone(d, i, h, name, w, o)
  <1>1. Good(d, i) BY DEF DiskInv
  <1>2. HandleOk(h) BY <1>1 DEF Good
  <1>3. IsSeq(h.attrs) /\ Distinct(h.attrs) BY <1>2 DEF HandleOk, HandleShape, List
  <1>4. released \in BOOLEAN /\ (~released => NoneDropped(h, name))
    <2>1. PICK n : n = IndexOf(h.attrs, name) OBVIOUS
    <2>2. released <=> n # 0 /\ h.attrs[n].ea # 0 BY <2>1 DEF Releases
    <2>3. /\ n = 0 => \A c \in Elems(h.attrs) : c.name # name
          /\ n # 0 => \A c \in Elems(h.attrs) : c.name = name => c = h.attrs[n]
      BY <1>3, <2>1, OneOfName
    <2>4. released \in BOOLEAN BY DEF Releases
    <2>5. ~released => NoneDropped(h, name) BY <2>2, <2>3 DEF NoneDropped
    <2> QED BY <2>4, <2>5
  <1>5. PICK p \in WriteXattrs(u.d, i, u.h, released) : o = [err |-> p.err, d |-> p.d, h |-> u.h]
    BY DEF Written
  <1>6. o.err = p.err /\ o.d = p.d /\ o.h = u.h BY <1>5
  <1>7. WriteDone(d, i, h, name, u, p)
    <2>1. PICK b \in BOOLEAN : b = released BY <1>4
    <2>2. (~b => NoneDropped(h, name)) /\ p \in WriteXattrs(u.d, i, u.h, b) BY <1>4, <1>5, <2>1
    <2> QED BY <2>2, WriteKeeps
  <1>8. HandleOk(u.h) /\ Elems(u.h.attrs) = OtherNames(h, name) \cup new BY DEF Changing
  <1>9. \A c \in new : c.name = name OBVIOUS
  <1>10. \A m : m # name => Held(u.h, m) = Held(h, m)
    <2> TAKE m
    <2> HAVE m # name
    <2>1. Renewed(h, u.h, name, new) BY <1>2, <1>8, <1>9 DEF Renewed
    <2> QED BY <2>1, OthersHeld
  <1>11. Held(u.h, name) = w
    <2>1. CASE new = {}
      <3>1. \A c \in Elems(u.h.attrs) : c.name # name BY <1>8, <2>1 DEF OtherNames
      <3> QED BY <1>8, <2>1, <3>1, HeldIs
    <2>2. CASE new # {}
      <3>1. PICK c \in new : c.name = name /\ Got(name, c.value) = w BY <2>2
      <3>2. c \in Elems(u.h.attrs) BY <1>8, <3>1
      <3> QED BY <1>8, <3>1, <3>2, HeldIs
    <2> QED BY <2>1, <2>2
  <1>12. DataBeside(h) => DataBeside(u.h)
    <2> SUFFICES ASSUME DataBeside(h), NEW c \in Elems(u.h.attrs), c.name = "system.data"
                 PROVE c.ea = 0
      BY DEF DataBeside
    <2>1. CASE c \in OtherNames(h, name) BY <2>1 DEF OtherNames, DataBeside
    <2>2. CASE c \in new
      <3>1. c.name = name /\ (c.ea # 0 => name # "system.data") BY <2>2 DEF Changing
      <3> QED BY <3>1
    <2> QED BY <1>8, <2>1, <2>2
  <1> QED BY <1>6, <1>7, <1>10, <1>11, <1>12 DEF WriteDone, CallDone

LEMMA UpdatedErrors ==
    ASSUME NEW d, NEW h, NEW name, NEW v
    PROVE  Updated(d, h, name, v).err \in {"ok", "no_inode", "no_space", "corrupted"}
  <1>1. \A old, inInode : UpdateEntry(d, old, name, v, inInode).err \in {"ok", "no_inode"}
    <2> TAKE old, inInode
    <2>1. CASE ~inInode \/ FreeEaInodes(d) = {} BY <2>1 DEF UpdateEntry
    <2>2. CASE ~(~inInode \/ FreeEaInodes(d) = {}) BY <2>2 DEF UpdateEntry
    <2> QED BY <2>1, <2>2
  <1>2. \A ifree, bfree, old, inInode :
          ArrayUpdate(d, h, name, v, ifree, bfree, old, inInode).err \in {"ok", "no_inode", "no_space"}
    <2> TAKE ifree, bfree, old, inInode
    <2>1. PICK ea : ea = IF old = 0 THEN 0 ELSE h.attrs[old].ea OBVIOUS
    <2>2. PICK up : up = UpdateEntry(d, ea, name, v, inInode) OBVIOUS
    <2>3. up.err \in {"ok", "no_inode"} BY <1>1, <2>2
    <2>4. PICK u : u = ArrayUpdate(d, h, name, v, ifree, bfree, old, inInode) OBVIOUS
    <2>5. \/ \E g : u = [err |-> up.err, d |-> up.d, h |-> g]
          \/ u = [err |-> "no_space", d |-> d, h |-> h]
      BY <2>1, <2>2, <2>4 DEF ArrayUpdate
    <2> QED BY <2>3, <2>4, <2>5
  <1> QED BY <1>2 DEF Updated

LEMMA SetIs ==
    ASSUME Careful, NEW d, DiskInv(d), NEW i \in Inodes, NEW h, h = ReadHandle(d, i),
           NEW name \in AllNames, NEW value, NEW v, v = Stored(name, value), v.len \in Nat,
           NEW o, o \in SetOutcomes(d, h, name, value)
    PROVE  CallDone(d, i, h, name, Got(name, v), o)
  <1>1. Good(d, i) /\ EaShape(d) BY DEF DiskInv, Shape
  <1>2. HandleOk(h) /\ EaFits(d, h) BY <1>1 DEF Good
  <1>3. IsSeq(h.attrs) /\ Distinct(h.attrs) BY <1>2 DEF HandleOk, HandleShape, List
  <1>4. h.ino = i BY DEF ReadHandle, Handle
  <1>5. PICK u : u = Updated(d, h, name, v) OBVIOUS
  <1>6. PICK n : n = IndexOf(h.attrs, name) OBVIOUS
  <1>7. o \in (IF SameInHandle(h, n, v) THEN {[err |-> "ok", d |-> d, h |-> h]}
               ELSE IF u.err # "ok" THEN {u} ELSE Written(i, u, Releases(h, name)))
    BY <1>4, <1>5, <1>6 DEF SetOutcomes
  <1>8. /\ u.err # "ok" => u.d = d
        /\ u.err = "ok" => \E x \in EaInodes \cup {0} : Changing(d, h, name, {Attr(name, v, x)}, u)
    BY <1>1, <1>2, <1>5, UpdatedIs
  <1>9. CASE SameInHandle(h, n, v)
    <2>1. o.err = "ok" /\ o.d = d /\ o.h = h BY <1>7, <1>9
    <2>2. n # 0 /\ h.attrs[n].value = v BY <1>9 DEF SameInHandle
    <2>3. Held(h, name) = Got(name, v) BY <1>6, <2>2 DEF Held
    <2> QED BY <2>1, <2>3 DEF CallDone
  <1>10. CASE ~SameInHandle(h, n, v) /\ u.err # "ok"
    <2>1. o = u BY <1>7, <1>10
    <2>2. o.err # "ok" /\ o.d = d BY <1>8, <1>10, <2>1
    <2>3. o.err # "io" BY <1>5, <2>1, UpdatedErrors
    <2> QED BY <2>2, <2>3 DEF CallDone
  <1>11. CASE ~SameInHandle(h, n, v) /\ u.err = "ok"
    <2>1. o \in Written(i, u, Releases(h, name)) BY <1>7, <1>11
    <2>2. PICK x \in EaInodes \cup {0} : Changing(d, h, name, {Attr(name, v, x)}, u) BY <1>8, <1>11
    <2>3. PICK new : new = {Attr(name, v, x)} OBVIOUS
    <2>4. PICK w : w = Got(name, v) OBVIOUS
    <2>5. /\ \A c \in new : c.name = name /\ Got(name, c.value) = w
          /\ new # {}
      BY <2>3, <2>4 DEF Attr
    <2>6. Changing(d, h, name, new, u) BY <2>2, <2>3
    <2>7. PICK released : released = Releases(h, name) OBVIOUS
    <2>8. CallDone(d, i, h, name, w, o) BY <2>1, <2>5, <2>6, <2>7, WrittenIs
    <2> QED BY <2>4, <2>8
  <1> QED BY <1>9, <1>10, <1>11

LEMMA RemoveIs ==
    ASSUME Careful, NEW d, DiskInv(d), NEW i \in Inodes, NEW h, h = ReadHandle(d, i),
           NEW name, NEW o, o \in RemoveOutcomes(d, h, name)
    PROVE  CallDone(d, i, h, name, None, o)
  <1>1. Good(d, i) /\ EaShape(d) BY DEF DiskInv, Shape
  <1>2. HandleOk(h) /\ EaFits(d, h) BY <1>1 DEF Good
  <1>3. IsSeq(h.attrs) /\ Distinct(h.attrs) BY <1>2 DEF HandleOk, HandleShape, List
  <1>4. h.ino = i BY DEF ReadHandle, Handle
  <1>5. PICK n : n = IndexOf(h.attrs, name) OBVIOUS
  <1>6. PICK u : u = [d |-> DecRef(d, h.attrs[n].ea), h |-> Dropped(h, n)] OBVIOUS
  <1>7. o \in (IF n = 0 THEN {[err |-> "ok", d |-> d, h |-> h]}
               ELSE Written(i, u, Releases(h, name)))
    BY <1>4, <1>5, <1>6 DEF RemoveOutcomes
  <1>8. CASE n = 0
    <2>1. o.err = "ok" /\ o.d = d /\ o.h = h BY <1>7, <1>8
    <2>2. Held(h, name) = None BY <1>5, <1>8 DEF Held
    <2> QED BY <2>1, <2>2 DEF CallDone
  <1>9. CASE n # 0
    <2>1. PICK new : new = {} OBVIOUS
    <2>2. Changing(d, h, name, new, u) BY <1>1, <1>2, <1>5, <1>6, <1>9, <2>1, RemovingIs
    <2>3. PICK released : released = Releases(h, name) OBVIOUS
    <2>4. o \in Written(i, u, released) BY <1>7, <1>9, <2>3
    <2>5. PICK w : w = None OBVIOUS
    <2>6. CallDone(d, i, h, name, w, o) BY <2>1, <2>2, <2>3, <2>4, <2>5, WrittenIs
    <2> QED BY <2>5, <2>6
  <1> QED BY <1>8, <1>9

-----------------------------------------------------------------------------
\* Freeing the block of an inode

LEMMA FreedIs ==
    ASSUME NEW d, DiskInv(d), NEW i \in Inodes, d.inode[i].acl # NoBlock, NEW e, e = Freed(d, i)
    PROVE  /\ Shape(e) /\ e.ea = d.ea /\ e.inode[i].ibody = d.inode[i].ibody
           /\ BlockEntries(e, i) = <<>> /\ Own(e, i) /\ Others(d, e, i)
           /\ NoneLost(d) => NoneLost(e)
  <1>1. Shape(d) BY DEF DiskInv
  <1>2. PICK old \in EaBlocks : old = d.inode[i].acl BY <1>1 DEF Shape
  <1>3. i \in UsersOf(d, old) BY <1>2 DEF UsersOf
  <1>4. d.inode[i] = [ibody |-> d.inode[i].ibody, acl |-> old, iblocks |-> 1] /\ IsSeq(d.inode[i].ibody)
    BY <1>1, <1>2 DEF Shape
  <1>5. PICK ib : ib = d.inode[i].ibody OBVIOUS
  <1>6. PICK b : b = NoBlock OBVIOUS
  <1>7. d.blk[old] = [ref |-> d.blk[old].ref, entries |-> d.blk[old].entries]
    <2>1. PICK n : n = Cardinality(UsersOf(d, old)) OBVIOUS
    <2>2. d.blk[old] = [ref |-> n, entries |-> d.blk[old].entries] BY <1>1, <1>3, <2>1 DEF Shape
    <2> QED BY <2>2
  <1>8. e = Relink(d, i, ib, b, <<>>)
    <2>1. PICK ino : ino = [ibody |-> ib, acl |-> b, iblocks |-> IF b = NoBlock THEN 0 ELSE 1] OBVIOUS
    <2>2. PICK r : r = d.blk[old] OBVIOUS
    <2>3. PICK last \in BOOLEAN : last <=> r.ref = 1 OBVIOUS
    <2>4. d.inode[i].iblocks - 1 = 0 BY <1>4
    <2>5. e.inode = [d.inode EXCEPT ![i] = ino]
      BY <1>5, <1>6, <2>1, <2>4 DEF Freed
    <2>6. e.blk = [d.blk EXCEPT ![old] = IF last THEN FreeBlock ELSE [ref |-> r.ref - 1, entries |-> r.entries]]
      BY <1>2, <2>2, <2>3 DEF Freed
    <2>7. (IF last THEN FreeBlock ELSE [ref |-> r.ref - 1, entries |-> r.entries]) = Left(r)
      BY <2>3 DEF Left
    <2>8. PICK f : f = d.blk /\ f = [c \in EaBlocks |-> f[c]] BY <1>1 DEF Shape
    <2>9. e.blk = [c \in EaBlocks |-> IF c = old THEN Left(r) ELSE f[c]]
      <3>1. e.blk = [f EXCEPT ![old] = Left(r)] BY <2>6, <2>7, <2>8
      <3> QED BY <2>8, <3>1
    <2>10. \A c \in EaBlocks : (IF c = old THEN Left(r) ELSE f[c])
               = (IF c = b THEN [ref |-> 1, entries |-> <<>>] ELSE IF c = old THEN Left(d.blk[c]) ELSE d.blk[c])
      <3>1. \A c \in EaBlocks : c # b BY <1>6, Constants
      <3> QED BY <2>2, <2>8, <3>1
    <2>11. e.blk = [c \in EaBlocks |-> IF c = b THEN [ref |-> 1, entries |-> <<>>]
                                      ELSE IF c = old THEN Left(d.blk[c]) ELSE d.blk[c]]
      BY <2>9, <2>10, Zenon
    <2>12. e.used = (IF old # b /\ old # NoBlock /\ d.blk[old].ref = 1
                     THEN d.used \ {old} ELSE d.used) \cup ({b} \ {NoBlock})
      <3>1. e.used = IF d.blk[old].ref = 1 THEN d.used \ {old} ELSE d.used BY <1>2 DEF Freed
      <3>2. old # b /\ old # NoBlock BY <1>6, Constants
      <3> QED BY <1>6, <3>1, <3>2
    <2>13. e = [inode |-> e.inode, blk |-> e.blk, ea |-> d.ea, used |-> e.used] BY DEF Freed
    <2> QED BY <1>2, <2>1, <2>5, <2>11, <2>12, <2>13 DEF Relink
  <1>9. IsSeq(ib) /\ b \in EaBlocks \cup {NoBlock} /\ MayTake(d, i, b) BY <1>4, <1>5, <1>6 DEF MayTake
  <1>10. PICK s : s = <<>> OBVIOUS
  <1>11. IsSeq(s) /\ e = Relink(d, i, ib, b, s) BY <1>8, <1>10, EmptyIsSeq
  <1>12. /\ Shape(e) /\ e.ea = d.ea /\ e.inode[i].ibody = ib /\ Own(e, i)
         /\ BlockEntries(e, i) = IF b = NoBlock THEN <<>> ELSE s
         /\ Others(d, e, i) /\ (NoneLost(d) => NoneLost(e))
    BY <1>1, <1>9, <1>11, RelinkIs
  <1> QED BY <1>5, <1>6, <1>12

\* After the block of inode i has been freed
FreeDone(d, i, e) ==
    /\ DiskInv(e)
    /\ \A j \in Inodes \ {i} : ReadHandle(e, j) = ReadHandle(d, j) /\ e.inode[j] = d.inode[j]
    /\ \A j \in Inodes : Own(d, j) => Own(e, j)
    /\ NoneLost(d) => NoneLost(e)
    /\ \A name : Held(ReadHandle(e, i), name) =
                   IF IndexOf(BlockEntries(d, i), name) # 0 THEN None ELSE Held(ReadHandle(d, i), name)
    /\ DataBeside(ReadHandle(d, i)) => DataBeside(ReadHandle(e, i))

LEMMA FreeKeeps ==
    ASSUME NEW d, DiskInv(d), NEW i \in Inodes, d.inode[i].acl # NoBlock, NEW e, e = Freed(d, i)
    PROVE  FreeDone(d, i, e)
  <1>1. Shape(d) /\ Good(d, i) BY DEF DiskInv
  <1>2. /\ Shape(e) /\ e.ea = d.ea /\ e.inode[i].ibody = d.inode[i].ibody
        /\ BlockEntries(e, i) = <<>> /\ Own(e, i) /\ Others(d, e, i)
        /\ NoneLost(d) => NoneLost(e)
    BY FreedIs
  <1>3. PICK h : h = ReadHandle(d, i) OBVIOUS
  <1>4. PICK g : g = ReadHandle(e, i) OBVIOUS
  <1>5. PICK ib : ib = d.inode[i].ibody OBVIOUS
  <1>6. PICK be : be = BlockEntries(d, i) OBVIOUS
  <1>7. IsSeq(ib) /\ IsSeq(be) /\ Lists(d, i) /\ Lists(e, i)
    <2>1. IsSeq(ib) BY <1>1, <1>5 DEF Shape
    <2>2. IsSeq(be) BY <1>1, <1>6, BlockOf
    <2>3. IsSeq(<<>>) BY EmptyIsSeq
    <2> QED BY <1>2, <1>5, <1>6, <2>1, <2>2, <2>3 DEF Lists
  <1>8. PICK l \in Nat : l = Len(ib) BY <1>7 DEF IsSeq
  <1>9. PICK k \in Nat : k = Len(be) BY <1>7 DEF IsSeq
  <1>10. PICK s : s = Entries(d, i) OBVIOUS
  <1>11. PICK r : r = Entries(e, i) OBVIOUS
  <1>12. /\ IsSeq(s) /\ Len(s) = l + k /\ h = Handle(i, h.attrs, l) /\ h.ibody = l
         /\ \A n \in 1..(l + k) : s[n] = IF n <= l THEN ib[n] ELSE be[n - l]
         /\ IsSeq(h.attrs) /\ Len(h.attrs) = l + k
         /\ \A n \in 1..(l + k) : h.attrs[n] = Attr(s[n].name, EntryValue(d, s[n]), s[n].ea)
    <2>1. Reading(d, i, s, h) BY <1>3, <1>7, <1>10, ReadIs
    <2> QED BY <1>5, <1>6, <1>8, <1>9, <2>1 DEF Reading
  <1>n. \A n \in 1..(l + k) : h.attrs[n].name = s[n].name
    <2> TAKE n \in 1..(l + k)
    <2>1. PICK v : v = EntryValue(d, s[n]) OBVIOUS
    <2>2. h.attrs[n] = Attr(s[n].name, v, s[n].ea) BY <1>12, <2>1
    <2> QED BY <2>2 DEF Attr
  <1>13. /\ IsSeq(r) /\ Len(r) = l /\ g = Handle(i, g.attrs, l) /\ g.ibody = l /\ g.ino = i
         /\ \A n \in 1..l : r[n] = ib[n]
         /\ IsSeq(g.attrs) /\ Len(g.attrs) = l
         /\ \A n \in 1..l : g.attrs[n] = Attr(r[n].name, EntryValue(e, r[n]), r[n].ea)
    <2>1. Reading(e, i, r, g) BY <1>4, <1>7, <1>11, ReadIs
    <2>2. Len(BlockEntries(e, i)) = 0 BY <1>2, EmptyIsSeq
    <2> QED BY <1>2, <1>5, <1>8, <2>1, <2>2 DEF Reading
  <1>14. \A c : EntryValue(e, c) = EntryValue(d, c) /\ (EntryOk(e, c) <=> EntryOk(d, c))
    BY <1>2 DEF EntryValue, EntryOk
  <1>15. \A n \in 1..l : n \in 1..(l + k) /\ r[n] = s[n] /\ g.attrs[n] = h.attrs[n]
    BY <1>12, <1>13, <1>14
  <1>16. HandleOk(h) /\ EaFits(d, h) /\ Readable(d, i) BY <1>1, <1>3 DEF Good
  <1>17. Readable(e, i)
    <2>1. \A n \in 1..(l + k) : EntryOk(d, s[n]) BY <1>10, <1>12, <1>16 DEF Readable
    <2> QED BY <1>11, <1>13, <1>14, <1>15, <2>1 DEF Readable
  <1>18. \A c \in Elems(g.attrs) : c \in Elems(h.attrs) BY <1>12, <1>13, <1>15 DEF Elems
  <1>19. HandleShape(g)
    <2>1. \A n \in 1..l : AttrOk(g.attrs[n]) BY <1>12, <1>15, <1>16 DEF HandleOk, HandleShape, List
    <2>2. g = Handle(g.ino, g.attrs, g.ibody) /\ g.ibody \in 0..Len(g.attrs) BY <1>13
    <2> QED BY <1>13, <2>1, <2>2 DEF HandleShape, List
  <1>20. /\ IsSeq(IbodyPart(g)) /\ Len(IbodyPart(g)) = l /\ Len(BlockPart(g)) = 0
         /\ \A n \in 1..l : IbodyPart(g)[n] = g.attrs[n]
    BY <1>13, <1>19, HandleParts DEF List
  <1>21. /\ IsSeq(IbodyPart(h)) /\ Len(IbodyPart(h)) = l
         /\ \A n \in 1..l : IbodyPart(h)[n] = h.attrs[n]
    BY <1>12, <1>16, HandleParts DEF HandleOk, List
  <1>22. IbodyPart(g) = IbodyPart(h) BY <1>15, <1>20, <1>21, SameSeq
  <1>23. HandleOk(g)
    <2>1. Distinct(g.attrs)
      <3>1. Distinct(h.attrs) BY <1>16 DEF HandleOk
      <3> QED BY <1>12, <1>13, <1>15, <3>1 DEF Distinct
    <2>2. g.ibody # 0 => SpaceUsed(IbodyPart(g)) + 4 <= IbodyRoom
      BY <1>12, <1>13, <1>16, <1>22 DEF HandleOk
    <2>3. Sorted(BlockPart(g)) /\ \A n \in 1..Len(BlockPart(g)) : BlockPart(g)[n].name # "system.data"
      BY <1>20 DEF Sorted
    <2> QED BY <1>19, <1>20, <2>1, <2>2, <2>3 DEF HandleOk
  <1>24. EaFits(e, g) BY <1>2, <1>16, <1>18 DEF EaFits
  <1>25. Good(e, i) BY <1>4, <1>17, <1>23, <1>24 DEF Good
  <1>26. \A j \in Inodes \ {i} : /\ ReadHandle(e, j) = ReadHandle(d, j)
                                 /\ Good(e, j) /\ Apart(ReadHandle(d, j), g)
    <2> SUFFICES ASSUME NEW j \in Inodes \ {i}
                 PROVE  /\ ReadHandle(e, j) = ReadHandle(d, j)
                        /\ Good(e, j) /\ Apart(ReadHandle(d, j), g)
      OBVIOUS
    <2>1. e.inode[j] = d.inode[j] /\ BlockEntries(e, j) = BlockEntries(d, j) BY <1>2 DEF Others
    <2>2. PICK hj : hj = ReadHandle(d, j) OBVIOUS
    <2>3. Lists(d, j)
      <3>1. IsSeq(BlockEntries(d, j)) BY <1>1, BlockOf
      <3>2. IsSeq(d.inode[j].ibody) BY <1>1 DEF Shape
      <3> QED BY <3>1, <3>2 DEF Lists
    <2>4. ReadHandle(e, j) = hj /\ (Good(d, j) => Good(e, j))
      <3>1. e.inode[j].ibody = d.inode[j].ibody BY <2>1
      <3>2. \A c \in Elems(hj.attrs) : c.ea # 0 => e.ea[c.ea] = d.ea[c.ea] BY <1>2
      <3> QED BY <2>1, <2>2, <2>3, <3>1, <3>2, SameReading
    <2>5. Good(d, j) /\ Apart(hj, h) BY <1>3, <2>2 DEF DiskInv
    <2>6. Apart(hj, g) BY <1>18, <2>5 DEF Apart
    <2> QED BY <2>2, <2>4, <2>5, <2>6
  <1>27. DiskInv(e) BY <1>2, <1>4, <1>25, <1>26, StepKeeps
  <1>28. ASSUME NEW name
         PROVE  Held(g, name) = IF IndexOf(be, name) # 0 THEN None ELSE Held(h, name)
    <2>1. IndexOf(be, name) # 0 => \E n \in (l + 1)..(l + k) : h.attrs[n].name = name
      <3> HAVE IndexOf(be, name) # 0
      <3>1. PICK m \in 1..k : be[m].name = name BY <1>7, <1>9, IndexIs
      <3>2. l + m \in (l + 1)..(l + k) /\ l + m \in 1..(l + k) /\ (l + m) - l = m /\ ~(l + m <= l)
        BY <3>1
      <3>3. s[l + m] = be[m] BY <1>12, <3>2
      <3>4. h.attrs[l + m].name = name BY <1>n, <3>1, <3>2, <3>3
      <3> QED BY <3>2, <3>4
    <2>2. IndexOf(be, name) = 0 => \A n \in (l + 1)..(l + k) : h.attrs[n].name # name
      <3> HAVE IndexOf(be, name) = 0
      <3> TAKE n \in (l + 1)..(l + k)
      <3>1. n \in 1..(l + k) /\ ~(n <= l) /\ n - l \in 1..k OBVIOUS
      <3>2. be[n - l].name # name BY <1>7, <1>9, <3>1, IndexIs
      <3>3. s[n] = be[n - l] BY <1>12, <3>1
      <3> QED BY <1>n, <3>1, <3>2, <3>3
    <2>3. CASE IndexOf(be, name) # 0
      <3>1. PICK n \in (l + 1)..(l + k) : h.attrs[n].name = name BY <2>1, <2>3
      <3>2. \A m \in 1..l : g.attrs[m].name # name
        <4> TAKE m \in 1..l
        <4>1. m \in 1..Len(h.attrs) /\ n \in 1..Len(h.attrs) /\ m # n BY <1>12
        <4>2. Differ(h.attrs[m], h.attrs[n]) BY <1>16, <4>1 DEF HandleOk, Distinct
        <4> QED BY <1>15, <3>1, <4>2 DEF Differ
      <3>3. \A c \in Elems(g.attrs) : c.name # name BY <1>13, <3>2 DEF Elems
      <3> QED BY <1>23, <2>3, <3>3, HeldIs
    <2>4. CASE IndexOf(be, name) = 0
      <3>1. CASE \A c \in Elems(h.attrs) : c.name # name
        <4>1. \A c \in Elems(g.attrs) : c.name # name BY <1>18, <3>1
        <4> QED BY <1>16, <1>23, <2>4, <3>1, <4>1, HeldIs
      <3>2. CASE \E c \in Elems(h.attrs) : c.name = name
        <4>1. PICK c \in Elems(h.attrs) : c.name = name BY <3>2
        <4>2. PICK n \in 1..(l + k) : c = h.attrs[n] BY <1>12, <4>1 DEF Elems
        <4>3. n \in 1..l BY <2>2, <2>4, <4>1, <4>2
        <4>4. c \in Elems(g.attrs) BY <1>13, <1>15, <4>2, <4>3 DEF Elems
        <4> QED BY <1>16, <1>23, <2>4, <4>1, <4>4, HeldIs
      <3> QED BY <3>1, <3>2
    <2> QED BY <2>3, <2>4
  <1>29. DataBeside(h) => DataBeside(g) BY <1>18 DEF DataBeside
  <1>30. \A j \in Inodes \ {i} : ReadHandle(e, j) = ReadHandle(d, j) /\ e.inode[j] = d.inode[j]
    BY <1>2, <1>26 DEF Others
  <1>31. \A j \in Inodes : Own(d, j) => Own(e, j) BY <1>2 DEF Others
  <1> QED BY <1>2, <1>3, <1>4, <1>6, <1>27, <1>28, <1>29, <1>30, <1>31 DEF FreeDone

-----------------------------------------------------------------------------
\* What the properties say, of a disk with DiskInv

\* Where a list names inode f
Naming(s, f) == {n \in 1..Len(s) : s[n].ea = f}

\* What an entry of an inode names is what its handle has.
LEMMA EntryInHandle ==
    ASSUME NEW d, DiskInv(d), NEW i \in Inodes, NEW f
    PROVE  /\ Naming(d.inode[i].ibody, f) # {} =>
                \E m \in Naming(ReadHandle(d, i).attrs, f) : m <= Len(d.inode[i].ibody)
           /\ Naming(BlockEntries(d, i), f) # {} =>
                \E m \in Naming(ReadHandle(d, i).attrs, f) : m > Len(d.inode[i].ibody)
  <1>1. Shape(d) BY DEF DiskInv
  <1>2. PICK h : h = ReadHandle(d, i) OBVIOUS
  <1>3. PICK ib : ib = d.inode[i].ibody OBVIOUS
  <1>4. PICK be : be = BlockEntries(d, i) OBVIOUS
  <1>5. IsSeq(ib) /\ IsSeq(be) /\ Lists(d, i)
    <2>1. IsSeq(BlockEntries(d, i)) BY <1>1, BlockOf
    <2>2. IsSeq(d.inode[i].ibody) BY <1>1 DEF Shape
    <2> QED BY <1>3, <1>4, <2>1, <2>2 DEF Lists
  <1>6. PICK l \in Nat : l = Len(ib) BY <1>5 DEF IsSeq
  <1>7. PICK k \in Nat : k = Len(be) BY <1>5 DEF IsSeq
  <1>8. PICK s : s = Entries(d, i) OBVIOUS
  <1>9. /\ Len(h.attrs) = l + k
        /\ \A n \in 1..(l + k) : s[n] = IF n <= l THEN ib[n] ELSE be[n - l]
        /\ \A n \in 1..(l + k) : h.attrs[n] = Attr(s[n].name, EntryValue(d, s[n]), s[n].ea)
    <2>1. Reading(d, i, s, h) BY <1>2, <1>5, <1>8, ReadIs
    <2> QED BY <1>3, <1>4, <1>6, <1>7, <2>1 DEF Reading
  <1>10. \A n \in 1..(l + k) : h.attrs[n].ea = s[n].ea
    <2> TAKE n \in 1..(l + k)
    <2>1. PICK v : v = EntryValue(d, s[n]) OBVIOUS
    <2>2. h.attrs[n] = Attr(s[n].name, v, s[n].ea) BY <1>9, <2>1
    <2> QED BY <2>2 DEF Attr
  <1>11. \A n \in 1..l : ib[n].ea = f => \E m \in 1..Len(h.attrs) : m <= l /\ h.attrs[m].ea = f
    <2> TAKE n \in 1..l
    <2> HAVE ib[n].ea = f
    <2>1. n \in 1..(l + k) /\ n <= l OBVIOUS
    <2> QED BY <1>9, <1>10, <2>1
  <1>12. \A n \in 1..k : be[n].ea = f => \E m \in 1..Len(h.attrs) : m > l /\ h.attrs[m].ea = f
    <2> TAKE n \in 1..k
    <2> HAVE be[n].ea = f
    <2>1. PICK m \in 1..(l + k) : m = l + n /\ m - l = n /\ ~(m <= l) /\ m > l OBVIOUS
    <2>2. s[m] = be[n] BY <1>9, <2>1
    <2>3. h.attrs[m].ea = f BY <1>10, <2>2
    <2> QED BY <1>9, <2>1, <2>3
  <1>13. Naming(ib, f) # {} => \E m \in Naming(h.attrs, f) : m <= l BY <1>6, <1>11 DEF Naming
  <1>14. Naming(be, f) # {} => \E m \in Naming(h.attrs, f) : m > l BY <1>7, <1>12 DEF Naming
  <1> QED BY <1>2, <1>3, <1>4, <1>6, <1>13, <1>14

LEMMA PlacesCounted ==
    ASSUME DiskInv(disk), NEW f \in EaInodes
    PROVE  Places(f) <= disk.ea[f].ref
  <1> DEFINE S == {b \in EaBlocks : Users(b) # {}
                     /\ \E n \in 1..Len(disk.blk[b].entries) : disk.blk[b].entries[n].ea = f}
             T == {i \in Inodes : \E n \in 1..Len(disk.inode[i].ibody) : disk.inode[i].ibody[n].ea = f}
             Has(i, m) == m \in 1..Len(ReadHandle(disk, i).attrs) /\ ReadHandle(disk, i).attrs[m].ea = f
  <1>1. f # 0 /\ disk.ea[f].ref \in Nat BY Constants DEF DiskInv, Shape, EaShape
  <1>2. ASSUME NEW i \in Inodes, NEW m, Has(i, m), NEW j \in Inodes, NEW n, Has(j, n)
        PROVE  i = j /\ m = n /\ disk.ea[f].ref = 1
    <2>0. PICK g : g = ReadHandle(disk, i) OBVIOUS
    <2>1. PICK h : h = ReadHandle(disk, j) OBVIOUS
    <2>2. PICK a : a = g.attrs[m] OBVIOUS
    <2>3. PICK c : c = h.attrs[n] OBVIOUS
    <2>4. m \in 1..Len(g.attrs) /\ a \in Elems(g.attrs) /\ a.ea = f BY <1>2, <2>0, <2>2 DEF Elems
    <2>5. n \in 1..Len(h.attrs) /\ c \in Elems(h.attrs) /\ c.ea = f BY <1>2, <2>1, <2>3 DEF Elems
    <2>6. i = j
      <3> SUFFICES ASSUME i # j PROVE FALSE OBVIOUS
      <3>1. Apart(g, h) BY <2>0, <2>1 DEF DiskInv
      <3> QED BY <1>1, <2>4, <2>5, <3>1 DEF Apart
    <2>7. Good(disk, i) BY DEF DiskInv
    <2>8. HandleOk(g) /\ EaFits(disk, g) BY <2>0, <2>7 DEF Good
    <2>9. m = n
      <3> SUFFICES ASSUME m # n PROVE FALSE OBVIOUS
      <3>1. Differ(a, c) BY <2>0, <2>1, <2>2, <2>3, <2>4, <2>5, <2>6, <2>8 DEF HandleOk, Distinct
      <3> QED BY <1>1, <2>4, <2>5, <3>1 DEF Differ
    <2>10. disk.ea[f] = [ref |-> 1, value |-> a.value] BY <1>1, <2>4, <2>8 DEF EaFits
    <2> QED BY <2>6, <2>9, <2>10
  <1>3. ASSUME NEW i \in T PROVE \E m : Has(i, m) /\ m <= Len(disk.inode[i].ibody)
    <2>1. Naming(disk.inode[i].ibody, f) # {} BY DEF Naming
    <2>2. PICK m \in Naming(ReadHandle(disk, i).attrs, f) : m <= Len(disk.inode[i].ibody)
      BY <2>1, EntryInHandle
    <2> QED BY <2>2 DEF Naming
  <1>s. ASSUME NEW b \in S
        PROVE  /\ Users(b) # {}
               /\ \E n \in 1..Len(disk.blk[b].entries) : disk.blk[b].entries[n].ea = f
    OBVIOUS
  <1>t. T \subseteq Inodes OBVIOUS
  <1>b. S \subseteq EaBlocks OBVIOUS
  <1>h. ASSUME NEW i, NEW m, Has(i, m) PROVE m \in Int BY <1>h
  <1>H. ASSUME NEW i, NEW m \in 1..Len(ReadHandle(disk, i).attrs), ReadHandle(disk, i).attrs[m].ea = f
        PROVE  Has(i, m)
    BY <1>H
  <1>u. Places(f) = Cardinality(S) + Cardinality(T) BY DEF Places
  <1> HIDE DEF S, T, Has
  <1>4. ASSUME NEW b \in S
        PROVE  \E i \in Inodes : /\ disk.inode[i].acl = b
                                 /\ \E m : Has(i, m) /\ m > Len(disk.inode[i].ibody)
    <2>b. b # NoBlock BY <1>b, Constants
    <2>1. PICK i \in Inodes : disk.inode[i].acl = b BY <1>s DEF Users
    <2>2. b # NoBlock /\ BlockEntries(disk, i) = disk.blk[b].entries
      BY <2>1, <2>b, Constants DEF BlockEntries
    <2>3. Naming(BlockEntries(disk, i), f) # {} BY <1>s, <2>2 DEF Naming
    <2>4. PICK m \in Naming(ReadHandle(disk, i).attrs, f) : m > Len(disk.inode[i].ibody)
      BY <2>3, EntryInHandle
    <2>5. Has(i, m) BY <1>H, <2>4 DEF Naming
    <2> QED BY <2>1, <2>4, <2>5
  <1>5. S # {} => disk.ea[f].ref = 1 /\ T = {} /\ \E b : S = {b}
    <2> HAVE S # {}
    <2>1. PICK b \in S : TRUE OBVIOUS
    <2>2. PICK i \in Inodes : /\ disk.inode[i].acl = b
                              /\ \E m : Has(i, m) /\ m > Len(disk.inode[i].ibody)
      BY <1>4
    <2>3. PICK m : Has(i, m) /\ m > Len(disk.inode[i].ibody) BY <2>2
    <2>4. disk.ea[f].ref = 1 BY <1>2, <2>3
    <2>5. T = {}
      <3> SUFFICES ASSUME NEW j \in T PROVE FALSE OBVIOUS
      <3>1. PICK n : Has(j, n) /\ n <= Len(disk.inode[j].ibody) BY <1>3
      <3>2. j = i /\ n = m BY <1>2, <1>t, <2>3, <3>1
      <3>3. IsSeq(disk.inode[i].ibody) BY DEF DiskInv, Shape
      <3>4. Len(disk.inode[i].ibody) \in Nat /\ m \in Int BY <1>h, <2>3, <3>3 DEF IsSeq
      <3> QED BY <2>3, <3>1, <3>2, <3>4
    <2>6. S = {b}
      <3> SUFFICES ASSUME NEW c \in S PROVE c = b OBVIOUS
      <3>1. PICK j \in Inodes : disk.inode[j].acl = c /\ \E n : Has(j, n) BY <1>4
      <3>2. j = i BY <1>2, <2>3, <3>1
      <3> QED BY <2>2, <3>1, <3>2
    <2> QED BY <2>4, <2>5, <2>6
  <1>6. T # {} => disk.ea[f].ref = 1 /\ \E i : T = {i}
    <2> HAVE T # {}
    <2>1. PICK i \in T : TRUE OBVIOUS
    <2>2. PICK m : Has(i, m) BY <1>3
    <2>3. T = {i}
      <3> SUFFICES ASSUME NEW j \in T PROVE j = i OBVIOUS
      <3>1. PICK n : Has(j, n) BY <1>3
      <3> QED BY <1>2, <1>t, <2>2, <3>1
    <2> QED BY <1>2, <1>t, <2>1, <2>2, <2>3
  <1>7. Places(f) = Cardinality(S) + Cardinality(T) BY <1>u
  <1>8. Cardinality({}) = 0 /\ \A x : Cardinality({x}) = 1 BY FS_EmptySet, FS_Singleton
  <1>9. CASE S # {}
    <2>1. disk.ea[f].ref = 1 /\ T = {} BY <1>5, <1>9
    <2>2. PICK b : S = {b} BY <1>5, <1>9
    <2>3. Cardinality(S) = 1 /\ Cardinality(T) = 0 BY <1>8, <2>1, <2>2
    <2> QED BY <1>7, <2>1, <2>3
  <1>10. CASE S = {} /\ T # {} 
    <2>1. PICK i : T = {i} BY <1>6, <1>10
    <2>2. Cardinality(S) = 0 /\ Cardinality(T) = 1 BY <1>8, <1>10, <2>1
    <2> QED BY <1>6, <1>7, <1>10, <2>2
  <1>11. CASE S = {} /\ T = {} BY <1>1, <1>7, <1>8, <1>11
  <1> QED BY <1>9, <1>10, <1>11

\* What a client reads afresh is what its handle would hold.
LEMMA ContentsHeld ==
    ASSUME NEW d, DiskInv(d), NEW i \in Inodes, NEW name \in Names
    PROVE  Contents(d, i)[name] = Held(ReadHandle(d, i), name)
  <1>1. Shape(d) BY DEF DiskInv
  <1>2. PICK h : h = ReadHandle(d, i) OBVIOUS
  <1>3. PICK s : s = Entries(d, i) OBVIOUS
  <1>4. Lists(d, i)
    <2>1. IsSeq(BlockEntries(d, i)) BY <1>1, BlockOf
    <2>2. IsSeq(d.inode[i].ibody) BY <1>1 DEF Shape
    <2> QED BY <2>1, <2>2 DEF Lists
  <1>5. /\ IsSeq(s) /\ IsSeq(h.attrs) /\ Len(h.attrs) = Len(s)
        /\ \A n \in 1..Len(s) : h.attrs[n] = Attr(s[n].name, EntryValue(d, s[n]), s[n].ea)
    <2>1. Reading(d, i, s, h) BY <1>2, <1>3, <1>4, ReadIs
    <2> QED BY <2>1 DEF Reading
  <1>6. \A n \in 1..Len(s) : h.attrs[n].name = s[n].name /\ h.attrs[n].value = EntryValue(d, s[n])
    <2> TAKE n \in 1..Len(s)
    <2>1. PICK v : v = EntryValue(d, s[n]) OBVIOUS
    <2>2. h.attrs[n] = Attr(s[n].name, v, s[n].ea) BY <1>5, <2>1
    <2> QED BY <2>1, <2>2 DEF Attr
  <1>7. IndexOf(s, name) = IndexOf(h.attrs, name)
    <2>1. PICK at : at = {n \in 1..Len(s) : s[n].name = name} OBVIOUS
    <2>2. at = {n \in 1..Len(h.attrs) : h.attrs[n].name = name} BY <1>5, <1>6, <2>1
    <2>3. IndexOf(s, name) = IF at = {} THEN 0 ELSE CHOOSE n \in at : TRUE
      BY <2>1 DEF IndexOf
    <2>4. IndexOf(h.attrs, name) = IF at = {} THEN 0 ELSE CHOOSE n \in at : TRUE
      BY <2>2 DEF IndexOf
    <2> QED BY <2>3, <2>4
  <1>8. PICK n : n = IndexOf(s, name) OBVIOUS
  <1>9. n # 0 => n \in 1..Len(s) BY <1>5, <1>8, IndexIs
  <1>10. Contents(d, i)[name] = IF n = 0 THEN None ELSE Got(name, EntryValue(d, s[n]))
    <2>1. Contents(d, i)[name] = LET m == IndexOf(Entries(d, i), name)
                                 IN  IF m = 0 THEN None ELSE Got(name, EntryValue(d, Entries(d, i)[m]))
      BY Zenon DEF Contents
    <2> QED BY <1>3, <1>8, <2>1
  <1>11. Held(h, name) = IF n = 0 THEN None ELSE Got(name, h.attrs[n].value)
    BY <1>7, <1>8 DEF Held
  <1>12. n # 0 => h.attrs[n].value = EntryValue(d, s[n]) BY <1>6, <1>9
  <1> QED BY <1>2, <1>10, <1>11, <1>12

\* The two parts of a handle are what the two lists of entries say.
LEMMA PartsRead ==
    ASSUME NEW d, DiskInv(d), NEW i \in Inodes, NEW ibody, ibody = d.inode[i].ibody,
           NEW block, block = BlockEntries(d, i)
    PROVE  /\ ReadAttrs(d, ibody) = IbodyPart(ReadHandle(d, i))
           /\ ReadAttrs(d, block) = BlockPart(ReadHandle(d, i))
  <1>1. Shape(d) /\ Good(d, i) BY DEF DiskInv
  <1>2. PICK h : h = ReadHandle(d, i) OBVIOUS
  <1>3. HandleOk(h) BY <1>1, <1>2 DEF Good
  <1>4. IsSeq(ibody) /\ IsSeq(block) /\ Lists(d, i)
    <2>1. IsSeq(BlockEntries(d, i)) BY <1>1, BlockOf
    <2>2. IsSeq(d.inode[i].ibody) BY <1>1 DEF Shape
    <2> QED BY <2>1, <2>2 DEF Lists
  <1>5. PICK l \in Nat : l = Len(ibody) BY <1>4 DEF IsSeq
  <1>6. PICK k \in Nat : k = Len(block) BY <1>4 DEF IsSeq
  <1>7. PICK s : s = Entries(d, i) OBVIOUS
  <1>8. /\ Len(s) = l + k /\ Len(h.attrs) = l + k /\ h.ibody = l
        /\ \A n \in 1..(l + k) : s[n] = IF n <= l THEN ibody[n] ELSE block[n - l]
        /\ \A n \in 1..(l + k) : h.attrs[n] = Attr(s[n].name, EntryValue(d, s[n]), s[n].ea)
    <2>1. Reading(d, i, s, h) BY <1>2, <1>4, <1>7, ReadIs
    <2> QED BY <1>5, <1>6, <2>1 DEF Reading
  <1>9. /\ IsSeq(IbodyPart(h)) /\ Len(IbodyPart(h)) = l
        /\ \A j \in 1..l : IbodyPart(h)[j] = h.attrs[j]
        /\ IsSeq(BlockPart(h)) /\ Len(BlockPart(h)) = k
        /\ \A j \in 1..k : BlockPart(h)[j] = h.attrs[l + j]
    <2>1. HandleShape(h) BY <1>3 DEF HandleOk
    <2>2. /\ List(IbodyPart(h)) /\ Len(IbodyPart(h)) = h.ibody
          /\ \A j \in 1..h.ibody : IbodyPart(h)[j] = h.attrs[j]
          /\ List(BlockPart(h)) /\ Len(BlockPart(h)) = Len(h.attrs) - h.ibody
          /\ \A j \in 1..(Len(h.attrs) - h.ibody) : BlockPart(h)[j] = h.attrs[h.ibody + j]
      BY <2>1, HandleParts
    <2>3. IsSeq(IbodyPart(h)) /\ IsSeq(BlockPart(h)) BY <2>2 DEF List
    <2>4. Len(h.attrs) - h.ibody = k BY <1>8
    <2> QED BY <1>8, <2>2, <2>3, <2>4
  <1>10. ReadAttrs(d, ibody) = IbodyPart(h)
    <2>1. PICK q : q = ReadAttrs(d, ibody) OBVIOUS
    <2>2. q = [n \in 1..l |-> q[n]] BY <1>5, <2>1, Zenon DEF ReadAttrs
    <2>3. \A n \in 1..l : q[n] = Attr(ibody[n].name, EntryValue(d, ibody[n]), ibody[n].ea)
      BY <1>5, <2>1, Zenon DEF ReadAttrs
    <2>4. IsSeq(q) /\ Len(q) = l BY <2>2, MadeSeq
    <2>5. \A n \in 1..l : q[n] = IbodyPart(h)[n]
      <3> TAKE n \in 1..l
      <3>1. n \in 1..(l + k) /\ n <= l OBVIOUS
      <3>2. s[n] = ibody[n] BY <1>8, <3>1
      <3> QED BY <1>8, <1>9, <2>3, <3>1, <3>2, ZenonT(30)
    <2> QED BY <1>9, <2>1, <2>4, <2>5, SameSeq
  <1>11. ReadAttrs(d, block) = BlockPart(h)
    <2>1. PICK q : q = ReadAttrs(d, block) OBVIOUS
    <2>2. q = [n \in 1..k |-> q[n]] BY <1>6, <2>1, Zenon DEF ReadAttrs
    <2>3. \A n \in 1..k : q[n] = Attr(block[n].name, EntryValue(d, block[n]), block[n].ea)
      BY <1>6, <2>1, Zenon DEF ReadAttrs
    <2>4. IsSeq(q) /\ Len(q) = k BY <2>2, MadeSeq
    <2>5. \A n \in 1..k : q[n] = BlockPart(h)[n]
      <3> TAKE n \in 1..k
      <3>1. PICK m \in 1..(l + k) : m = l + n /\ ~(m <= l) /\ m - l = n OBVIOUS
      <3>2. s[m] = block[n] BY <1>8, <3>1
      <3>3. BlockPart(h)[n] = h.attrs[m] BY <1>9, <3>1
      <3> QED BY <1>8, <2>3, <3>1, <3>2, <3>3, ZenonT(30)
    <2> QED BY <1>9, <2>1, <2>4, <2>5, SameSeq
  <1> QED BY <1>2, <1>10, <1>11

\* The attributes are where the next call looks for them.
LEMMA PlacedFollows ==
    ASSUME DiskInv(disk)
    PROVE  Placed
  <1> SUFFICES ASSUME NEW i \in Inodes, NEW ibody, ibody = disk.inode[i].ibody,
                      NEW block, block = BlockEntries(disk, i)
               PROVE  /\ ibody # <<>> => Size(ibody) + 4 <= IbodyRoom
                      /\ block # <<>> => Size(block) + 4 <= BlockRoom
                      /\ \A n \in 1..(Len(block) - 1) :
                           /\ SortsBefore(Key(block[n].name), Key(block[n + 1].name))
                           /\ block[n].name # block[n + 1].name
                      /\ IndexOf(block, "system.data") = 0
    BY DEF Placed
  <1>1. Shape(disk) /\ Good(disk, i) BY DEF DiskInv
  <1>2. PICK h : h = ReadHandle(disk, i) OBVIOUS
  <1>3. HandleOk(h) BY <1>1, <1>2 DEF Good
  <1>4. IsSeq(ibody) /\ IsSeq(block) /\ Lists(disk, i)
    <2>1. IsSeq(BlockEntries(disk, i)) BY <1>1, BlockOf
    <2>2. IsSeq(disk.inode[i].ibody) BY <1>1 DEF Shape
    <2> QED BY <2>1, <2>2 DEF Lists
  <1>5. PICK l \in Nat : l = Len(ibody) BY <1>4 DEF IsSeq
  <1>6. PICK k \in Nat : k = Len(block) BY <1>4 DEF IsSeq
  <1>7. PICK s : s = Entries(disk, i) OBVIOUS
  <1>8. /\ Len(s) = l + k /\ Len(h.attrs) = l + k /\ h.ibody = l
        /\ \A n \in 1..(l + k) : s[n] = IF n <= l THEN ibody[n] ELSE block[n - l]
        /\ \A n \in 1..(l + k) : h.attrs[n] = Attr(s[n].name, EntryValue(disk, s[n]), s[n].ea)
    <2>1. Reading(disk, i, s, h) BY <1>2, <1>4, <1>7, ReadIs
    <2> QED BY <1>5, <1>6, <2>1 DEF Reading
  <1>9. /\ IsSeq(IbodyPart(h)) /\ Len(IbodyPart(h)) = l
        /\ \A j \in 1..l : IbodyPart(h)[j] = h.attrs[j]
        /\ IsSeq(BlockPart(h)) /\ Len(BlockPart(h)) = k
        /\ \A j \in 1..k : BlockPart(h)[j] = h.attrs[l + j]
    <2>1. HandleShape(h) BY <1>3 DEF HandleOk
    <2>2. /\ List(IbodyPart(h)) /\ Len(IbodyPart(h)) = h.ibody
          /\ \A j \in 1..h.ibody : IbodyPart(h)[j] = h.attrs[j]
          /\ List(BlockPart(h)) /\ Len(BlockPart(h)) = Len(h.attrs) - h.ibody
          /\ \A j \in 1..(Len(h.attrs) - h.ibody) : BlockPart(h)[j] = h.attrs[h.ibody + j]
      BY <2>1, HandleParts
    <2>3. IsSeq(IbodyPart(h)) /\ IsSeq(BlockPart(h)) BY <2>2 DEF List
    <2>4. Len(h.attrs) - h.ibody = k BY <1>8
    <2> QED BY <1>8, <2>2, <2>3, <2>4
  <1>10. ReadAttrs(disk, ibody) = IbodyPart(h) BY <1>2, PartsRead
  <1>11. ReadAttrs(disk, block) = BlockPart(h) BY <1>2, PartsRead
  <1>12. \A n \in 1..k : block[n].name = BlockPart(h)[n].name
    <2> TAKE n \in 1..k
    <2>1. PICK v : v = EntryValue(disk, block[n]) OBVIOUS
    <2>2. ReadAttrs(disk, block)[n] = Attr(block[n].name, v, block[n].ea)
      BY <1>6, <2>1, Zenon DEF ReadAttrs
    <2> QED BY <1>11, <2>2 DEF Attr
  <1>13. ibody # <<>> => Size(ibody) + 4 <= IbodyRoom
    <2> HAVE ibody # <<>>
    <2>1. l # 0 BY <1>4, <1>5, EmptyIsSeq, SameSeq
    <2> QED BY <1>3, <1>8, <1>10, <2>1 DEF HandleOk, Size
  <1>14. block # <<>> => Size(block) + 4 <= BlockRoom
    <2> HAVE block # <<>>
    <2>1. k # 0 BY <1>4, <1>6, EmptyIsSeq, SameSeq
    <2> QED BY <1>3, <1>9, <1>11, <2>1 DEF HandleOk, Size
  <1>15. \A n \in 1..(k - 1) : /\ SortsBefore(Key(block[n].name), Key(block[n + 1].name))
                               /\ block[n].name # block[n + 1].name
    <2> TAKE n \in 1..(k - 1)
    <2>1. PICK m \in 1..k : m = n + 1 /\ n \in 1..k /\ n < m OBVIOUS
    <2>2. PICK q : q = BlockPart(h) OBVIOUS
    <2>3. SortsBefore(Key(q[n].name), Key(q[m].name)) BY <1>3, <1>9, <2>1, <2>2 DEF HandleOk, Sorted
    <2>4. q[n].name # q[m].name
      <3>1. l + n \in 1..(l + k) /\ l + m \in 1..(l + k) /\ l + n # l + m BY <2>1
      <3>2. Differ(h.attrs[l + n], h.attrs[l + m]) BY <1>3, <1>8, <3>1 DEF HandleOk, Distinct
      <3> QED BY <1>9, <2>1, <2>2, <3>2 DEF Differ
    <2> QED BY <1>12, <2>1, <2>2, <2>3, <2>4
  <1>16. IndexOf(block, "system.data") = 0
    <2>1. \A n \in 1..k : block[n].name # "system.data" BY <1>3, <1>9, <1>12 DEF HandleOk
    <2> QED BY <1>4, <1>6, <2>1, IndexIs
  <1> QED BY <1>6, <1>13, <1>14, <1>15, <1>16

=============================================================================
