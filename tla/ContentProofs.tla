--------------------------- MODULE ContentProofs ---------------------------
(***************************************************************************)
(* The bytes of a version, for any segment size, any number of segments    *)
(* and any number of writes (fs/version.cc).  Two inductive invariants:    *)
(*                                                                         *)
(*   ContentInv - types, and a list that covers the size: for every call   *)
(*                the clients may make, whatever Env says;                 *)
(*   PlainInv   - every segment but the last is full, none is missing and  *)
(*                none has lost its bytes, and what was acknowledged last  *)
(*                is in the draft: for clients that append (Appending).    *)
(*                                                                         *)
(* Before and read_rest are recursive functions.  What they compute is     *)
(* proved by the least counterexample (lemmas Least, Induction).           *)
(***************************************************************************)
EXTENDS ContentProperties, WellFoundedInduction, SequenceTheorems, TLAPS

-----------------------------------------------------------------------------
(* Offsets and segments                                                     *)

LEMMA Sizes == SegSize \in Nat /\ SegSize > 0 /\ MaxSegs \in Nat /\ MaxSegs > 0 /\ MaxWrites \in Nat
               /\ MaxSize = SegSize * MaxSegs /\ MaxSize \in Nat /\ MaxSize > 0
<1>1. SegSize \in Nat /\ SegSize > 0 /\ MaxSegs \in Nat /\ MaxSegs > 0 /\ MaxWrites \in Nat
  BY ConstantsAssumption DEF ConstantsAssumption
<1> QED BY <1>1 DEF MaxSize

\* The start of a segment, and of the next.
LEMMA Times ==
    ASSUME NEW i \in Int, NEW j \in Int, i <= j
    PROVE  /\ i * SegSize \in Int /\ i * SegSize <= j * SegSize
           /\ (i + 1) * SegSize = i * SegSize + SegSize
           /\ i < j => i * SegSize + SegSize <= j * SegSize
<1>1. SegSize \in Int /\ SegSize > 0
  BY Sizes
<1>2. i * SegSize \in Int /\ j * SegSize \in Int /\ (i + 1) * SegSize = i * SegSize + SegSize
  BY <1>1
<1>3. (j - i) * SegSize >= 0 /\ (j - i) * SegSize = j * SegSize - i * SegSize
  BY <1>1
<1>4. ASSUME i < j PROVE (j - i - 1) * SegSize >= 0 /\ (j - i - 1) * SegSize = j * SegSize - i * SegSize - SegSize
  BY <1>1, <1>4
<1> QED BY <1>1, <1>2, <1>3, <1>4

LEMMA Order ==
    ASSUME NEW i \in Int, NEW j \in Int, i * SegSize < j * SegSize
    PROVE  i < j
<1>1. i * SegSize \in Int /\ j * SegSize \in Int
  BY Sizes
<1>2. j <= i => j * SegSize <= i * SegSize
  BY Times
<1> QED BY <1>1, <1>2

\* An offset is in segment off \div SegSize, and in no other.
LEMMA Quotient ==
    ASSUME NEW n \in Nat
    PROVE  LET q == n \div SegSize
           IN  q \in Nat /\ q * SegSize <= n /\ n < q * SegSize + SegSize /\ n % SegSize = n - q * SegSize
<1>1. SegSize \in Nat /\ SegSize > 0
  BY Sizes
<1> QED BY <1>1

LEMMA QuotientIs ==
    ASSUME NEW n \in Nat, NEW q \in Int, q * SegSize <= n, n < q * SegSize + SegSize
    PROVE  n \div SegSize = q
<1> DEFINE p == n \div SegSize
<1>1. p \in Nat /\ p * SegSize <= n /\ n < p * SegSize + SegSize
  BY Quotient
<1>2. SegSize \in Nat /\ q * SegSize \in Int
  BY Sizes
<1>3. ~(p < q)
  <2>1. p < q => p * SegSize + SegSize <= q * SegSize
    BY Times, <1>1
  <2> QED BY <2>1, <1>1, <1>2
<1>4. ~(q < p)
  <2>1. q < p => q * SegSize + SegSize <= p * SegSize
    BY Times, <1>1
  <2> QED BY <2>1, <1>1, <1>2
<1> QED BY <1>1, <1>3, <1>4

\* The segment of a byte and its place there.
LEMMA Position ==
    ASSUME NEW i \in Nat, NEW r \in 0..(SegSize - 1), NEW m \in Nat, m = i * SegSize + r
    PROVE  m \div SegSize = i /\ m % SegSize = r
<1>1. i * SegSize \in Nat /\ SegSize \in Nat
  BY Sizes
<1>2. m \div SegSize = i
  BY <1>1, QuotientIs
<1>3. m % SegSize = m - (m \div SegSize) * SegSize
  BY Quotient
<1> QED BY <1>1, <1>2, <1>3

-----------------------------------------------------------------------------
(* Induction up to a bound: a set of naturals that is not empty has a       *)
(* least element.                                                           *)

LEMMA Least ==
    ASSUME NEW T \in SUBSET Nat, T # {}
    PROVE  \E n \in T : \A m \in T : n <= m
<1>1. \E x \in T : \A y \in T : ~ (<<y, x>> \in OpToRel(<, Nat))
  BY NatLessThanWellFounded, WFMin
<1>2. PICK n \in T : \A y \in T : ~ (<<y, n>> \in OpToRel(<, Nat))
  BY <1>1
<1>3. \A m \in T : ~(m < n)
  BY <1>2 DEF OpToRel
<1> QED BY <1>3

LEMMA Induction ==
    ASSUME NEW m \in Nat, NEW G, 0 \in G, \A k \in 1..m : k - 1 \in G => k \in G
    PROVE  \A k \in 0..m : k \in G
<1> SUFFICES ASSUME (0..m) \ G # {} PROVE FALSE
  OBVIOUS
<1> DEFINE T == (0..m) \ G
<1>0. T \in SUBSET Nat /\ T # {}
  OBVIOUS
<1>1. PICK n \in T : \A k \in T : n <= k
  <2> HIDE DEF T
  <2> QED BY <1>0, Least
<1>2. n \in 1..m
  BY <1>1
<1>3. n - 1 \in 0..m /\ ~(n <= n - 1)
  BY <1>2
<1>4. n - 1 \in G
  BY <1>1, <1>3
<1> QED BY <1>1, <1>2, <1>4

-----------------------------------------------------------------------------
(* The bytes before a segment                                               *)

Segments == {seg \in [SegNums -> Seq(Bytes)] : \A i \in SegNums : Len(seg[i]) <= SegSize}
Versions == [here : BOOLEAN, list : 0..MaxSegs, size : 0..MaxSize, seg : Segments]

\* The function that Before defines exists: its values up to m, for every m.
LEMMA SumExists ==
    ASSUME NEW seg \in Segments
    PROVE  \E f : f = [k \in 0..MaxSegs |-> IF k = 0 THEN 0 ELSE f[k - 1] + Len(seg[k - 1])]
<1> DEFINE Sum(f, m) == /\ f \in [0..m -> Nat] /\ f[0] = 0
                        /\ \A k \in 1..m : f[k] = f[k - 1] + Len(seg[k - 1])
           G == {m \in 0..MaxSegs : \E f : Sum(f, m)}
<1>1. MaxSegs \in Nat /\ \A i \in SegNums : seg[i] \in Seq(Bytes) /\ Len(seg[i]) \in Nat
  BY Sizes DEF Segments
<1>2. 0 \in G
  <2> DEFINE f == [k \in 0..0 |-> 0]
  <2>1. f \in [0..0 -> Nat] /\ f[0] = 0
    OBVIOUS
  <2>2. \A k \in 1..0 : FALSE
    OBVIOUS
  <2>3. Sum(f, 0)
    BY <2>1, <2>2
  <2> HIDE DEF Sum
  <2> QED BY <2>3, <1>1
<1>3. ASSUME NEW m \in 1..MaxSegs, m - 1 \in G PROVE m \in G
  <2>1. PICK f : Sum(f, m - 1)
    BY <1>3
  <2> DEFINE g == [k \in 0..m |-> IF k = m THEN f[m - 1] + Len(seg[m - 1]) ELSE f[k]]
  <2>2. f[m - 1] \in Nat /\ Len(seg[m - 1]) \in Nat
    BY <2>1, <1>1 DEF SegNums
  <2>3. g \in [0..m -> Nat] /\ g[0] = 0
    BY <2>1, <2>2
  <2>4. ASSUME NEW k \in 1..m PROVE g[k] = g[k - 1] + Len(seg[k - 1])
    BY <2>1, <2>2
  <2>5. Sum(g, m)
    BY <2>3, <2>4
  <2> HIDE DEF Sum
  <2> QED BY <2>5
<1>4. MaxSegs \in G
  <2> HIDE DEF G
  <2> QED BY <1>1, <1>2, <1>3, Induction
<1>5. PICK f : Sum(f, MaxSegs)
  BY <1>4
<1>6. f = [k \in 0..MaxSegs |-> IF k = 0 THEN 0 ELSE f[k - 1] + Len(seg[k - 1])]
  BY <1>5, <1>1
<1> QED BY <1>6

\* What Before adds up.
LEMMA BeforeSum ==
    ASSUME NEW v, v.seg \in Segments
    PROVE  /\ Before(v, 0) = 0
           /\ \A k \in 1..MaxSegs : Before(v, k) = Before(v, k - 1) + Len(v.seg[k - 1])
           /\ \A k \in 0..MaxSegs : Before(v, k) \in Nat
<1> DEFINE sum == CHOOSE f : f = [k \in 0..MaxSegs |-> IF k = 0 THEN 0 ELSE f[k - 1] + Len(v.seg[k - 1])]
           G == {k \in 0..MaxSegs : sum[k] \in Nat}
<1>1. sum = [k \in 0..MaxSegs |-> IF k = 0 THEN 0 ELSE sum[k - 1] + Len(v.seg[k - 1])]
  BY SumExists
<1>2. \A k : Before(v, k) = sum[k]
  BY DEF Before
<1> HIDE DEF sum
<1>3. MaxSegs \in Nat /\ \A i \in SegNums : Len(v.seg[i]) \in Nat
  BY Sizes DEF Segments
<1>4. sum[0] = 0 /\ \A k \in 1..MaxSegs : sum[k] = sum[k - 1] + Len(v.seg[k - 1])
  BY <1>1, <1>3
<1>5. 0 \in G /\ \A k \in 1..MaxSegs : k - 1 \in G => k \in G
  BY <1>3, <1>4 DEF SegNums
<1>6. \A k \in 0..MaxSegs : k \in G
  <2> HIDE DEF G
  <2> QED BY <1>5, <1>3, Induction
<1> QED BY <1>2, <1>4, <1>6

LEMMA BeforeBound ==
    ASSUME NEW v, v.seg \in Segments, NEW i \in 0..MaxSegs
    PROVE  Before(v, i) <= i * SegSize
<1> DEFINE G == {k \in 0..MaxSegs : Before(v, k) <= k * SegSize}
<1>1. MaxSegs \in Nat /\ 0 * SegSize = 0 /\ SegSize \in Nat
  BY Sizes
<1>2. 0 \in G
  BY <1>1, BeforeSum
<1>3. ASSUME NEW k \in 1..MaxSegs, k - 1 \in G PROVE k \in G
  <2>1. Len(v.seg[k - 1]) \in Nat /\ Len(v.seg[k - 1]) <= SegSize
    BY <1>1 DEF Segments, SegNums
  <2>2. Before(v, k) = Before(v, k - 1) + Len(v.seg[k - 1]) /\ Before(v, k - 1) \in Nat
    BY BeforeSum, <1>1
  <2>3. k * SegSize = (k - 1) * SegSize + SegSize /\ (k - 1) * SegSize \in Int
    BY <1>1
  <2> QED BY <2>1, <2>2, <2>3, <1>1, <1>3
<1>4. i \in G
  <2> HIDE DEF G
  <2> QED BY <1>1, <1>2, <1>3, Induction
<1> QED BY <1>4

LEMMA MinOfTwo ==
    ASSUME NEW a \in Int, NEW b \in Int
    PROVE  Min({a, b}) = IF a <= b THEN a ELSE b
BY DEF Min

LEMMA MaxOfTwo ==
    ASSUME NEW a \in Int, NEW b \in Int
    PROVE  Max({a, b}) = IF a <= b THEN b ELSE a
BY DEF Max

LEMMA MinOfSet ==
    ASSUME NEW T \in SUBSET Nat, T # {}
    PROVE  Min(T) \in T /\ \A k \in T : Min(T) <= k
BY Least DEF Min

\* Where the copying loop stops, and that it did not stop earlier.
LEMMA CopyEndFirst ==
    ASSUME cur.seg \in Segments, NEW n \in Nat
    PROVE  /\ CopyEnd(n) \in 0..MaxSegs
           /\ Before(cur, CopyEnd(n)) >= n \/ Seg(cur, CopyEnd(n)) \in {<<>>, Cut}
           /\ \A i \in 0..(CopyEnd(n) - 1) : Before(cur, i) < n /\ Seg(cur, i) \notin {<<>>, Cut}
<1> DEFINE T == {i \in 0..MaxSegs : Before(cur, i) >= n \/ Seg(cur, i) \in {<<>>, Cut}}
<1>1. MaxSegs \in Nat /\ MaxSegs \notin SegNums
  BY Sizes DEF SegNums
<1>2. MaxSegs \in T
  BY <1>1 DEF Seg
<1>3. CopyEnd(n) = Min(T)
  BY DEF CopyEnd
<1>4. Min(T) \in T /\ \A k \in T : Min(T) <= k
  <2> T \in SUBSET Nat
    BY <1>1
  <2> HIDE DEF T
  <2> QED BY <1>2, MinOfSet
<1>5. ASSUME NEW i \in 0..(Min(T) - 1) PROVE i \in 0..MaxSegs /\ i \notin T
  BY <1>4, <1>1
<1>6. \A i \in 0..MaxSegs : Before(cur, i) \in Nat
  BY BeforeSum
<1> QED BY <1>3, <1>4, <1>5, <1>6

-----------------------------------------------------------------------------
(* Types of what is read, copied and stored                                 *)

\* A part of a sequence.
LEMMA PartOf ==
    ASSUME NEW A, NEW s \in Seq(A), NEW a \in Nat, NEW b \in Int, b <= Len(s)
    PROVE  /\ SubSeq(s, a + 1, b) \in Seq(A)
           /\ Len(SubSeq(s, a + 1, b)) = IF a <= b THEN b - a ELSE 0
           /\ \A k \in 1..(b - a) : SubSeq(s, a + 1, b)[k] = s[a + k]
<1>1. \A k \in (a + 1)..b : s[k] \in A
  OBVIOUS
<1>2. a + 1 \in Int
  OBVIOUS
<1> DEFINE p == SubSeq(s, a + 1, b)
<1>3. /\ p \in Seq(A) /\ Len(p) = IF a + 1 <= b THEN b - (a + 1) + 1 ELSE 0
      /\ \A k \in 1..(b - (a + 1) + 1) : p[k] = s[a + 1 + k - 1]
  BY <1>1, <1>2, SubSeqProperties
<1> HIDE DEF p
<1>4. b - (a + 1) + 1 = b - a /\ (~(a + 1 <= b) /\ a <= b => b - a = 0)
  OBVIOUS
<1>5. \A k \in 1..(b - a) : p[k] = s[a + k]
  BY <1>3
<1>6. Len(p) = IF a <= b THEN b - a ELSE 0
  BY <1>3, <1>4
<1> QED BY <1>3, <1>5, <1>6 DEF p

LEMMA PrefixOf ==
    ASSUME NEW A, NEW s \in Seq(A), NEW b \in 0..Len(s)
    PROVE  /\ SubSeq(s, 1, b) \in Seq(A) /\ Len(SubSeq(s, 1, b)) = b
           /\ \A k \in 1..b : SubSeq(s, 1, b)[k] = s[k]
<1>1. b \in Int /\ b <= Len(s) /\ 0 \in Nat /\ 0 + 1 = 1
  OBVIOUS
<1> DEFINE p == SubSeq(s, 0 + 1, b)
<1>2. /\ p \in Seq(A) /\ Len(p) = IF 0 <= b THEN b - 0 ELSE 0
      /\ \A k \in 1..(b - 0) : p[k] = s[0 + k]
  BY <1>1, PartOf
<1>3. p = SubSeq(s, 1, b)
  BY <1>1
<1> HIDE DEF p
<1>4. p \in Seq(A) /\ Len(p) = b /\ \A k \in 1..b : p[k] = s[k]
  BY <1>2
<1> QED BY <1>3, <1>4

\* The segment of an offset inside the bound.
LEMMA SegmentOf ==
    ASSUME NEW n \in 0..(MaxSize - 1)
    PROVE  n \div SegSize \in SegNums
<1> DEFINE q == n \div SegSize
<1>1. n \in Nat /\ q \in Nat /\ q * SegSize <= n
  BY Quotient, Sizes
<1>2. SegSize * MaxSegs = MaxSegs * SegSize
  BY Sizes
<1>3. MaxSegs <= q => MaxSegs * SegSize <= q * SegSize
  BY Times, <1>1, Sizes
<1> QED BY <1>1, <1>2, <1>3, Sizes DEF SegNums

LEMMA CopiedType ==
    ASSUME cur.seg \in Segments, tmp.seg \in Segments, NEW n \in 0..MaxSize
    PROVE  Copied(n) \in Segments
<1>1. SegNums \in SUBSET Nat /\ n \in Nat
  BY Sizes DEF SegNums
<1>2. /\ cur.seg \in [SegNums -> Seq(Bytes)] /\ tmp.seg \in [SegNums -> Seq(Bytes)]
      /\ \A i \in SegNums : /\ Len(cur.seg[i]) \in Nat /\ Len(cur.seg[i]) <= SegSize
                            /\ Len(tmp.seg[i]) <= SegSize
  BY DEF Segments
<1>3. ASSUME NEW i \in SegNums, i < CopyEnd(n)
      PROVE  LET p == SubSeq(cur.seg[i], 1, Min({Len(cur.seg[i]), n - Before(cur, i)}))
             IN  p \in Seq(Bytes) /\ Len(p) <= SegSize
  <2> DEFINE l == Len(cur.seg[i])
             m == n - Before(cur, i)
  <2>1. CopyEnd(n) \in 0..MaxSegs /\ \A j \in 0..(CopyEnd(n) - 1) : Before(cur, j) < n
    BY CopyEndFirst, <1>1
  <2>2. i \in 0..(CopyEnd(n) - 1) /\ i \in 0..MaxSegs
    BY <2>1, <1>1, <1>3, Sizes DEF SegNums
  <2>3. l \in Nat /\ m \in Nat
    BY <2>1, <2>2, <1>1, <1>2, BeforeSum
  <2> DEFINE b == Min({l, m})
  <2>4. b \in 0..l
    BY <2>3, MinOfTwo
  <2>5. cur.seg[i] \in Seq(Bytes) /\ l <= SegSize
    BY <1>2
  <2> HIDE DEF b
  <2>6. SubSeq(cur.seg[i], 1, b) \in Seq(Bytes) /\ Len(SubSeq(cur.seg[i], 1, b)) = b
    BY <2>4, <2>5, PrefixOf
  <2>7. b <= SegSize
    BY <2>3, <2>4, <2>5, Sizes
  <2> QED BY <2>6, <2>7 DEF b
<1>4. \A i \in SegNums : Copied(n)[i] \in Seq(Bytes) /\ Len(Copied(n)[i]) <= SegSize
  BY <1>2, <1>3 DEF Copied
<1>5. Copied(n) = [i \in SegNums |-> Copied(n)[i]]
  BY DEF Copied
<1> QED BY <1>4, <1>5 DEF Segments

\* What a write may be added to: the bytes it keeps of a segment are there.
Keeps(v, off) ==
    off % SegSize = 0 \/ off % SegSize < Len(v.seg[seek_segment(off)])

Kept(v, off) == SubSeq(v.seg[seek_segment(off)], 1, off - seek_segment(off) * SegSize)
WholeData(v, off, buf) == Kept(v, off) \o buf

LEMMA KeptPart ==
    ASSUME NEW v, v.seg \in Segments, NEW off \in 0..(MaxSize - 1), Keeps(v, off)
    PROVE  /\ Kept(v, off) \in Seq(Bytes)
           /\ Len(Kept(v, off)) = off - seek_segment(off) * SegSize
           /\ off % SegSize = off - seek_segment(off) * SegSize
<1> DEFINE q == seek_segment(off)
           b == off - q * SegSize
<1>1. q \in Nat /\ q \in SegNums /\ b \in Nat /\ off % SegSize = b
  BY Quotient, SegmentOf, Sizes DEF seek_segment
<1>2. v.seg[q] \in Seq(Bytes) /\ Len(v.seg[q]) \in Nat
  BY <1>1 DEF Segments
<1>3. b \in 0..Len(v.seg[q])
  BY <1>1, <1>2 DEF Keeps
<1> HIDE DEF q, b
<1>4. SubSeq(v.seg[q], 1, b) \in Seq(Bytes) /\ Len(SubSeq(v.seg[q], 1, b)) = b
  BY <1>2, <1>3, PrefixOf
<1> QED BY <1>1, <1>4 DEF q, b, Kept

\* How much of size bytes is in segment i.
Filled(size, i) ==
    IF i * SegSize + SegSize <= size THEN SegSize
    ELSE IF i * SegSize <= size THEN size - i * SegSize ELSE 0

LEMMA PieceType ==
    ASSUME NEW v, v.seg \in Segments, NEW off \in 0..(MaxSize - 1), Keeps(v, off),
           NEW buf \in Seq(Bytes), NEW i \in Nat, i >= seek_segment(off)
    PROVE  LET a == (i - seek_segment(off)) * SegSize
               l == off - seek_segment(off) * SegSize + Len(buf)
               p == Piece(v, off, buf, i)
           IN  /\ p \in Seq(Bytes) /\ Len(p) = Filled(l, i - seek_segment(off))
               /\ \A k \in 1..Len(p) : p[k] = WholeData(v, off, buf)[a + k]
<1> DEFINE q == seek_segment(off)
           a == (i - q) * SegSize
           t == off - q * SegSize
           whole == WholeData(v, off, buf)
           b == Min({(i - q + 1) * SegSize, Len(whole)})
<1>1. q \in Nat /\ i - q \in Nat /\ t \in Nat
  BY Quotient, Sizes DEF seek_segment
<1>2. a \in Nat /\ (i - q + 1) * SegSize = a + SegSize /\ SegSize \in Nat
  BY <1>1, Sizes
<1>3. whole \in Seq(Bytes) /\ Len(whole) = t + Len(buf) /\ Len(whole) \in Nat
  <2>1. Kept(v, off) \in Seq(Bytes) /\ Len(Kept(v, off)) = t
    BY KeptPart
  <2>2. /\ Kept(v, off) \o buf \in Seq(Bytes)
        /\ Len(Kept(v, off) \o buf) = Len(Kept(v, off)) + Len(buf)
    BY <2>1, ConcatProperties
  <2>3. Len(buf) \in Nat
    OBVIOUS
  <2> HIDE DEF t
  <2> QED BY <2>1, <2>2, <2>3, <1>1 DEF WholeData
<1>4. b = IF a + SegSize <= Len(whole) THEN a + SegSize ELSE Len(whole)
  BY <1>2, <1>3, MinOfTwo
<1>5. a \in Nat /\ b \in Int /\ b <= Len(whole) /\ whole \in Seq(Bytes)
  BY <1>2, <1>3, <1>4
<1>6. Piece(v, off, buf, i) = SubSeq(whole, a + 1, b)
  BY DEF Piece, Kept, WholeData
<1> HIDE DEF whole, a, b, t, q
<1>7. /\ SubSeq(whole, a + 1, b) \in Seq(Bytes)
      /\ Len(SubSeq(whole, a + 1, b)) = IF a <= b THEN b - a ELSE 0
      /\ \A k \in 1..(b - a) : SubSeq(whole, a + 1, b)[k] = whole[a + k]
  BY <1>5, PartOf
<1> DEFINE p == SubSeq(whole, a + 1, b)
<1>8. Len(p) = IF a + SegSize <= Len(whole) THEN SegSize
               ELSE IF a <= Len(whole) THEN Len(whole) - a ELSE 0
  BY <1>2, <1>3, <1>4, <1>7
<1>9. \A k \in 1..Len(p) : p[k] = whole[a + k]
  BY <1>2, <1>5, <1>7
<1>10. Len(p) = Filled(t + Len(buf), i - q)
  BY <1>3, <1>8 DEF Filled, a
<1> QED BY <1>3, <1>6, <1>7, <1>9, <1>10 DEF whole, a, b, t, q

\* The last segment a write touches.
LEMMA LastSegment ==
    ASSUME NEW off \in Nat, NEW l \in Nat \ {0}, off + l <= MaxSize
    PROVE  LET e == seek_segment(off + l - 1)
           IN  /\ e + 1 \in 1..MaxSegs /\ seek_segment(off) <= e /\ e <= seek_segment(off + l)
               /\ e \in SegNums
               /\ e * SegSize < off + l /\ off + l <= (e + 1) * SegSize
<1> DEFINE n == off + l - 1
           e == seek_segment(n)
           q == seek_segment(off)
           z == seek_segment(off + l)
<1>1. n \in Nat /\ n \in 0..(MaxSize - 1) /\ off + l \in Nat
  BY Sizes
<1>2. /\ e \in SegNums /\ e \in Nat /\ e * SegSize <= n /\ n < e * SegSize + SegSize
      /\ q \in Nat /\ q * SegSize <= off
      /\ z \in Nat /\ off + l < z * SegSize + SegSize
  BY <1>1, Quotient, SegmentOf DEF seek_segment
<1> HIDE DEF n, e, q, z
<1>3. (e + 1) * SegSize = e * SegSize + SegSize /\ e * SegSize \in Nat /\ z * SegSize \in Nat
      /\ q * SegSize \in Nat
  BY <1>2, Sizes
<1>4. ~(e < q)
  <2>1. e < q => e * SegSize + SegSize <= q * SegSize
    BY <1>2, Times
  <2> QED BY <2>1, <1>1, <1>2, <1>3, Sizes DEF n
<1>5. ~(z < e)
  <2>1. z < e => z * SegSize + SegSize <= e * SegSize
    BY <1>2, Times
  <2> QED BY <2>1, <1>1, <1>2, <1>3, Sizes DEF n
<1>6. e + 1 \in 1..MaxSegs
  BY <1>2, Sizes DEF SegNums
<1>7. q <= e /\ e <= z
  BY <1>2, <1>4, <1>5
<1>8. e * SegSize < off + l /\ off + l <= (e + 1) * SegSize
  <2>1. n + 1 = off + l /\ n \in Int
    BY <1>1 DEF n
  <2>2. (e + 1) * SegSize = e * SegSize + SegSize /\ e * SegSize \in Int /\ SegSize \in Int
    BY <1>3, Sizes
  <2> QED BY <1>1, <1>2, <2>1, <2>2
<1> QED BY <1>2, <1>6, <1>7, <1>8 DEF n, e, q, z

LEMMA StoredType ==
    ASSUME NEW v \in Versions, NEW off \in 0..(MaxSize - 1), Keeps(v, off),
           NEW buf \in Seq(Bytes), buf # <<>>, off + Len(buf) <= MaxSize
    PROVE  Stored(v, off, buf) \in Versions
<1> DEFINE q == seek_segment(off)
           e == seek_segment(off + Len(buf) - 1) + 1
           seg == StoredSegs(v, off, buf)
<1>1. v.seg \in Segments /\ \A i \in SegNums : v.seg[i] \in Seq(Bytes) /\ Len(v.seg[i]) <= SegSize
  BY DEF Versions, Segments
<1>2. Len(buf) \in Nat \ {0} /\ off \in Nat /\ SegSize \in Nat
  BY Sizes, EmptySeq
<1>3. e \in 1..MaxSegs /\ q \in Nat
  BY <1>2, LastSegment, Quotient DEF seek_segment
<1>4. ASSUME NEW i \in SegNums, i \in q..(e - 1)
      PROVE  Piece(v, off, buf, i) \in Seq(Bytes) /\ Len(Piece(v, off, buf, i)) <= SegSize
  <2> DEFINE p == Piece(v, off, buf, i)
             a == (i - q) * SegSize
             l == off - q * SegSize + Len(buf)
  <2>1. i \in Nat /\ i >= q
    BY <1>3, <1>4, Sizes DEF SegNums
  <2>2. p \in Seq(Bytes) /\ Len(p) = Filled(l, i - q)
    BY <1>1, <2>1, PieceType
  <2>3. a \in Int /\ l \in Int
    BY <1>2, <1>3, <2>1
  <2> HIDE DEF p, a, l
  <2>4. Len(p) <= SegSize
    <3>1. Filled(l, i - q) = IF a + SegSize <= l THEN SegSize ELSE IF a <= l THEN l - a ELSE 0
      BY DEF Filled, a
    <3> QED BY <3>1, <2>2, <2>3, <1>2
  <2> QED BY <2>2, <2>4 DEF p
<1>5. ASSUME NEW i \in SegNums PROVE seg[i] \in Seq(Bytes) /\ Len(seg[i]) <= SegSize
  <2>1. seg[i] \in {Piece(v, off, buf, i), <<>>, v.seg[i]}
        /\ (seg[i] = Piece(v, off, buf, i) \/ seg[i] \in {<<>>, v.seg[i]})
    BY DEF StoredSegs
  <2>2. CASE i \in q..(e - 1) /\ v.seg[i] = <<>>
    <3>1. seg[i] = Piece(v, off, buf, i)
      BY <2>2 DEF StoredSegs
    <3> QED BY <3>1, <2>2, <1>4
  <2>3. CASE ~(i \in q..(e - 1) /\ v.seg[i] = <<>>)
    <3>1. seg[i] \in {<<>>, v.seg[i]}
      BY <2>3 DEF StoredSegs
    <3>2. <<>> \in Seq(Bytes) /\ Len(<<>>) <= SegSize
      BY <1>2
    <3>3. v.seg[i] \in Seq(Bytes) /\ Len(v.seg[i]) <= SegSize
      BY <1>1
    <3> HIDE DEF seg
    <3> QED BY <3>1, <3>2, <3>3
  <2> QED BY <2>2, <2>3
<1>6. seg = [i \in SegNums |-> seg[i]]
  BY DEF StoredSegs
<1>7. seg \in Segments
  <2> HIDE DEF seg
  <2> QED BY <1>5, <1>6 DEF Segments
<1>8. off + Len(buf) \in 0..MaxSize /\ e \in 0..MaxSegs
  BY <1>2, <1>3, Sizes
<1>9. Stored(v, off, buf) = [here |-> TRUE, list |-> e, size |-> off + Len(buf), seg |-> seg]
  BY DEF Stored
<1> HIDE DEF seg, e
<1> QED BY <1>7, <1>8, <1>9 DEF Versions

LEMMA PreparedType ==
    ASSUME cur \in Versions, tmp \in Versions, NEW n \in 0..MaxSize
    PROVE  /\ Prepared(n) \in Versions
           /\ [tmp EXCEPT !.seg = Copied(n)] \in Versions
<1>1. Copied(n) \in Segments
  BY CopiedType DEF Versions
<1>2. CopyEnd(n) \in 0..MaxSegs
  <2> n \in Nat
    BY Sizes
  <2> QED BY CopyEndFirst DEF Versions
<1>3. [here |-> TRUE, list |-> CopyEnd(n), size |-> n, seg |-> Copied(n)] \in Versions
  BY <1>1, <1>2 DEF Versions
<1>4. [tmp EXCEPT !.seg = Copied(n)] \in Versions
  BY <1>1 DEF Versions
<1> QED BY <1>3, <1>4 DEF Prepared

LEMMA ShortenType ==
    ASSUME tmp \in Versions, NEW n \in 0..(MaxSize - 1)
    PROVE  LET doc == [tmp EXCEPT !.list = ListAfterCut(n), !.size = n]
           IN  /\ doc \in Versions
               /\ [doc EXCEPT !.seg[seek_segment(n)] = Cut] \in Versions
<1> DEFINE doc == [tmp EXCEPT !.list = ListAfterCut(n), !.size = n]
           e == seek_segment(n)
<1>1. e \in SegNums /\ ListAfterCut(n) \in 0..MaxSegs /\ n \in 0..MaxSize
  BY SegmentOf, Sizes DEF ListAfterCut, seek_segment, SegNums
<1>2. doc \in Versions /\ doc.seg \in Segments
  BY <1>1 DEF Versions
<1>3. Cut \in Seq(Bytes) /\ Len(Cut) <= SegSize
  <2>1. CutByte \in Bytes
    BY DEF Bytes
  <2> QED BY <2>1, Sizes DEF Cut
<1>4. [doc.seg EXCEPT ![e] = Cut] \in Segments
  <2> DEFINE s == doc.seg
  <2>1. s \in [SegNums -> Seq(Bytes)] /\ \A i \in SegNums : Len(s[i]) <= SegSize
    BY <1>2 DEF Segments
  <2> HIDE DEF s, e
  <2>2. [s EXCEPT ![e] = Cut] \in Segments
    BY <1>1, <1>3, <2>1 DEF Segments
  <2> QED BY <2>2 DEF s, e
<1> HIDE DEF doc, e
<1>5. [doc EXCEPT !.seg[e] = Cut] \in Versions
  BY <1>2, <1>4 DEF Versions
<1> QED BY <1>2, <1>5 DEF doc, e

-----------------------------------------------------------------------------
(* Types, and the list of a version                                         *)

Alive == {"ok", "copy_assert", "tail_assert", "size_assert", "killed"}
Written == [off : 0..MaxSize, data : Seq(Bytes)]

\* A version's list covers its size and at most one segment more.
Covers(v) == v.here => v.size <= v.list * SegSize /\ v.list <= v.size \div SegSize + 1

ContentInv ==
    /\ cur \in Versions /\ tmp \in Versions
    /\ writing \in BOOLEAN /\ alive \in Alive /\ writes \in 0..MaxWrites /\ last \in Written
    /\ Covers(cur) /\ Covers(tmp)

LEMMA Nothing == NoVersion \in Versions /\ ~NoVersion.here /\ NoWrite \in Written
<1>1. <<>> \in Seq(Bytes) /\ Len(<<>>) = 0
  OBVIOUS
<1>2. [i \in SegNums |-> <<>>] \in Segments
  BY <1>1, Sizes DEF Segments
<1> QED BY <1>1, <1>2, Sizes DEF NoVersion, NoWrite, Versions, Written

LEMMA ContentInit == Init => ContentInv
BY Nothing, Sizes DEF Init, ContentInv, Covers, Alive

\* A copy that is done has reached the segment of its end, and no further.
LEMMA PreparedCovers ==
    ASSUME ContentInv, NEW n \in 0..MaxSize, tmp.here \/ CopyDone(n)
    PROVE  Prepared(n) \in Versions /\ Covers(Prepared(n)) /\ Prepared(n).here
<1> USE DEF ContentInv
<1>1. Prepared(n) \in Versions
  BY PreparedType
<1>2. CASE tmp.here
  BY <1>1, <1>2 DEF Prepared
<1>3. CASE ~tmp.here
  <2> DEFINE e == CopyEnd(n)
             q == seek_segment(n)
  <2>1. Before(cur, e) >= n /\ e <= q
    BY <1>3 DEF CopyDone
  <2>2. e \in 0..MaxSegs /\ cur.seg \in Segments /\ n \in Nat
    <3> cur.seg \in Segments /\ n \in Nat
      BY Sizes DEF Versions
    <3> QED BY CopyEndFirst
  <2>3. Before(cur, e) <= e * SegSize /\ Before(cur, e) \in Nat /\ e * SegSize \in Int
    BY <2>2, BeforeBound, BeforeSum, Sizes
  <2>4. q \in Nat /\ q = n \div SegSize
    BY <2>2, Quotient DEF seek_segment
  <2>5. Prepared(n) = [here |-> TRUE, list |-> e, size |-> n, seg |-> Copied(n)]
    BY <1>3 DEF Prepared
  <2> HIDE DEF e, q
  <2>6. n <= e * SegSize /\ e <= q + 1
    BY <2>1, <2>2, <2>3, <2>4
  <2> QED BY <1>1, <2>4, <2>5, <2>6 DEF Covers
<1> QED BY <1>2, <1>3

LEMMA StoredCovers ==
    ASSUME NEW v, NEW off \in Nat, NEW buf \in Seq(Bytes), buf # <<>>,
           off + Len(buf) <= MaxSize
    PROVE  Covers(Stored(v, off, buf))
<1> DEFINE e == seek_segment(off + Len(buf) - 1)
<1>1. Len(buf) \in Nat \ {0} /\ off + Len(buf) \in Nat
  BY EmptySeq
<1>2. /\ e <= seek_segment(off + Len(buf)) /\ e \in SegNums
      /\ off + Len(buf) <= (e + 1) * SegSize
  BY <1>1, LastSegment
<1>3. e \in Nat /\ seek_segment(off + Len(buf)) \in Nat
      /\ seek_segment(off + Len(buf)) = (off + Len(buf)) \div SegSize
  BY <1>1, <1>2, Quotient, Sizes DEF seek_segment, SegNums
<1>4. Stored(v, off, buf).list = e + 1 /\ Stored(v, off, buf).size = off + Len(buf)
  BY DEF Stored
<1> HIDE DEF e
<1> QED BY <1>2, <1>3, <1>4 DEF Covers

LEMMA CopyFailsKeeps ==
    ASSUME ContentInv, NEW n \in 0..MaxSize, CopyFails(n)
    PROVE  tmp' \in Versions /\ Covers(tmp') /\ alive' \in Alive /\ last' = last
<1>1. tmp' \in {tmp, [tmp EXCEPT !.seg = Copied(n)]} /\ alive' \in {alive, "killed", "copy_assert"}
  BY DEF CopyFails
<1>2. [tmp EXCEPT !.seg = Copied(n)] \in Versions /\ Covers([tmp EXCEPT !.seg = Copied(n)])
  BY PreparedType DEF ContentInv, Covers, Versions
<1> QED BY <1>1, <1>2 DEF ContentInv, Alive, CopyFails

-----------------------------------------------------------------------------
(* A write, a truncate, every step                                          *)

\* The data of a write.
LEMMA Data ==
    ASSUME NEW w \in 1..MaxWrites, NEW n \in 1..MaxSize
    PROVE  LET buf == [k \in 1..n |-> <<w, k>>]
           IN  /\ buf \in Seq(Bytes) /\ Len(buf) = n /\ buf # <<>>
               /\ \A k \in 1..n : buf[k] = <<w, k>> /\ buf[k] # CutByte
<1> DEFINE buf == [k \in 1..n |-> <<w, k>>]
<1>1. \A k \in 1..n : <<w, k>> \in Bytes
  BY Sizes DEF Bytes
<1>2. n \in Nat /\ n > 0
  BY Sizes
<1>3. buf \in Seq(Bytes) /\ Len(buf) = n
  BY <1>1, <1>2
<1>4. \A k \in 1..n : buf[k] = <<w, k>> /\ <<w, k>> # CutByte
  BY Sizes DEF CutByte
<1> HIDE DEF buf
<1>5. buf # <<>>
  BY <1>2, <1>3
<1> QED BY <1>3, <1>4, <1>5 DEF buf

LEMMA WriteKeeps ==
    ASSUME ContentInv, NEW off \in 0..(MaxSize - 1), NEW n \in 1..(MaxSize - off), Write(off, n)
    PROVE  ContentInv'
<1> DEFINE buf == [k \in 1..n |-> <<writes', k>>]
<1>1. /\ writes' \in 1..MaxWrites /\ n \in 1..MaxSize /\ off \in 0..MaxSize /\ off \in Nat
      /\ writes' \in 0..MaxWrites
  BY Sizes DEF ContentInv, Write
<1>2. buf \in Seq(Bytes) /\ Len(buf) = n /\ buf # <<>>
  BY <1>1, Data
<1>3. CASE CopyFails(off)
  <2>1. tmp' \in Versions /\ Covers(tmp') /\ alive' \in Alive /\ last' = last
    BY <1>1, <1>3, CopyFailsKeeps
  <2> QED BY <1>1, <2>1 DEF ContentInv, Write
<1>4. CASE (tmp.here \/ CopyDone(off)) /\ Put(Prepared(off), off, buf)
  <2> DEFINE v == Prepared(off)
  <2>1. v \in Versions /\ Covers(v)
    BY <1>1, <1>4, PreparedCovers
  <2>2. off + Len(buf) <= MaxSize
    BY <1>1, <1>2, Sizes
  <2> HIDE DEF v, buf
  <2>3. CASE /\ off % SegSize = 0 \/ off % SegSize < Len(v.seg[seek_segment(off)])
             /\ tmp' = Stored(v, off, buf) /\ last' = [off |-> off, data |-> buf]
             /\ alive' = alive
    <3>1. Keeps(v, off)
      BY <2>3 DEF Keeps
    <3>2. tmp' \in Versions /\ Covers(tmp')
      BY <1>1, <1>2, <2>1, <2>2, <2>3, <3>1, StoredType, StoredCovers
    <3>3. last' \in Written
      BY <1>1, <1>2, <2>3 DEF Written
    <3> QED BY <1>1, <2>3, <3>2, <3>3 DEF ContentInv, Write
  <2>4. CASE tmp' = v /\ alive' \in {alive, "tail_assert", "killed"} /\ last' = last
    BY <1>1, <2>1, <2>4 DEF ContentInv, Write, Alive
  <2> QED BY <1>4, <2>3, <2>4 DEF Put, v, buf
<1> QED BY <1>3, <1>4 DEF Write

LEMMA TruncateKeeps ==
    ASSUME ContentInv, NEW n \in 0..MaxSize, Truncate(n)
    PROVE  ContentInv'
<1>1. CASE CopyFails(n)
  <2>1. tmp' \in Versions /\ Covers(tmp') /\ alive' \in Alive /\ last' = last
    BY <1>1, CopyFailsKeeps
  <2> QED BY <2>1 DEF ContentInv, Truncate
<1>2. CASE CopyDone(n) /\ tmp' = Prepared(n) /\ last' = NoWrite /\ alive' = alive
  <2>1. tmp' \in Versions /\ Covers(tmp')
    BY <1>2, PreparedCovers
  <2> QED BY <1>2, <2>1, Nothing DEF ContentInv, Truncate
<1>3. CASE tmp.here /\ n < tmp.size /\ Shorten(n) /\ last' = NoWrite
  <2> DEFINE doc == [tmp EXCEPT !.list = ListAfterCut(n), !.size = n]
             cut == [doc EXCEPT !.seg[seek_segment(n)] = Cut]
             q == seek_segment(n)
  <2>1. n \in 0..(MaxSize - 1) /\ n \in Nat
    BY <1>3, Sizes DEF ContentInv, Versions
  <2>2. doc \in Versions /\ cut \in Versions
    BY <2>1, ShortenType DEF ContentInv
  <2>3. doc.list = q + 1 /\ doc.size = n /\ cut.list = q + 1 /\ cut.size = n
    BY DEF ContentInv, Versions, ListAfterCut
  <2>4. n <= (q + 1) * SegSize /\ q = n \div SegSize /\ q \in Nat
    <3>1. q = n \div SegSize /\ q \in Nat /\ n < q * SegSize + SegSize
      BY <2>1, Quotient DEF seek_segment
    <3>2. (q + 1) * SegSize = q * SegSize + SegSize /\ q * SegSize \in Int /\ SegSize \in Int
      BY <3>1, Sizes
    <3> HIDE DEF q
    <3> QED BY <3>1, <3>2, <2>1
  <2>5. tmp' \in {doc, cut} /\ alive' \in {alive, "killed", "size_assert"}
    BY <1>3 DEF Shorten
  <2> HIDE DEF doc, cut, q
  <2>6. Covers(doc) /\ Covers(cut)
    BY <2>3, <2>4 DEF Covers
  <2> QED BY <1>3, <2>2, <2>5, <2>6, Nothing DEF ContentInv, Truncate, Alive
<1> QED BY <1>1, <1>2, <1>3 DEF Truncate

LEMMA ContentStep == ContentInv /\ [Next]_vars => ContentInv'
<1> SUFFICES ASSUME ContentInv, [Next]_vars PROVE ContentInv'
  OBVIOUS
<1>1. CASE Open \/ Release
  BY <1>1, Nothing DEF Open, Release, ContentInv, Covers
<1>2. CASE \E n \in 0..MaxSize : Truncate(n)
  BY <1>2, TruncateKeeps
<1>3. CASE \E off \in 0..(MaxSize - 1) : \E n \in 1..(MaxSize - off) : Write(off, n)
  BY <1>3, WriteKeeps
<1>4. CASE \E off \in 0..(MaxSize - 1) : \E n \in 1..(MaxSize - off) : Read(off, n)
  BY <1>4 DEF Read, ContentInv, Alive, Covers
<1>5. CASE UNCHANGED vars
  BY <1>5 DEF vars, ContentInv, Covers
<1> QED BY <1>1, <1>2, <1>3, <1>4, <1>5 DEF Next

\* However clients write and truncate, versions have segments of at most
\* SegSize bytes, sizes and lists stay in bounds and the process has ended,
\* if it has, in one of the ways the handlers have.
THEOREM ContentTyped == Spec => []TypeOK
<1>1. ContentInv => TypeOK
  BY DEF ContentInv, TypeOK, VersionOK, Versions, Segments, Written, Alive
<1> QED BY <1>1, ContentInit, ContentStep, PTL DEF Spec

\* However clients write and truncate, aligned or not, the list of segments of
\* a version covers its size and names at most one segment more: a copy, a
\* write and a truncate set the two fields together (fs/version.cc:182, 281,
\* 385), each from its own offset.
THEOREM ListAlways == Spec => []ListCoversSize
<1>1. ContentInv => ListCoversSize
  BY DEF ContentInv, ListCoversSize, Covers
<1> QED BY <1>1, ContentInit, ContentStep, PTL DEF Spec

-----------------------------------------------------------------------------
(* Versions made of whole segments                                          *)

Plain(v) ==
    /\ ~v.here => v.size = 0
    /\ \A i \in SegNums :
           /\ Len(v.seg[i]) = Filled(v.size, i)
           /\ \A k \in 1..Len(v.seg[i]) : v.seg[i][k] # CutByte

\* Its bytes, one after the other.
Flat(v) == [k \in 1..v.size |-> v.seg[(k - 1) \div SegSize][((k - 1) % SegSize) + 1]]

\* Segments before the end are full, those after it are empty.
LEMMA FilledBy ==
    ASSUME NEW size \in Nat, NEW i \in Nat
    PROVE  /\ Filled(size, i) \in 0..SegSize
           /\ \A j \in Int : j > i /\ j * SegSize <= size => Filled(size, i) = SegSize
           /\ \A j \in Int : j <= i /\ size <= j * SegSize => Filled(size, i) = 0
           /\ i * SegSize < size => Filled(size, i) > 0 /\ i * SegSize + Filled(size, i) <= size
           /\ Filled(size, i) < SegSize => i * SegSize + Filled(size, i) >= size
<1>1. SegSize \in Nat /\ SegSize > 0 /\ i * SegSize \in Nat
  BY Sizes
<1>2. ASSUME NEW j \in Int, j > i, j * SegSize <= size PROVE Filled(size, i) = SegSize
  <2>1. i * SegSize + SegSize <= j * SegSize /\ j * SegSize \in Int
    BY <1>2, Times
  <2> QED BY <2>1, <1>1, <1>2 DEF Filled
<1>3. ASSUME NEW j \in Int, j <= i, size <= j * SegSize PROVE Filled(size, i) = 0
  <2>1. j * SegSize <= i * SegSize /\ j * SegSize \in Int
    BY <1>3, Times
  <2> QED BY <2>1, <1>1, <1>3 DEF Filled
<1>4. Filled(size, i) \in 0..SegSize
  BY <1>1 DEF Filled
<1>5. i * SegSize < size => Filled(size, i) > 0 /\ i * SegSize + Filled(size, i) <= size
  BY <1>1 DEF Filled
<1>6. Filled(size, i) < SegSize => i * SegSize + Filled(size, i) >= size
  BY <1>1 DEF Filled
<1> QED BY <1>2, <1>3, <1>4, <1>5, <1>6

LEMMA PlainSegment ==
    ASSUME NEW v \in Versions, Plain(v), NEW i \in SegNums
    PROVE  /\ v.size \in Nat /\ v.size <= MaxSize /\ i \in Nat
           /\ v.seg[i] \in Seq(Bytes) /\ v.seg[i] # Cut
           /\ Len(v.seg[i]) = Filled(v.size, i) /\ Len(v.seg[i]) \in Nat
           /\ v.seg[i] = <<>> <=> Filled(v.size, i) = 0
<1>1. v.size \in Nat /\ v.size <= MaxSize /\ i \in Nat /\ v.seg[i] \in Seq(Bytes)
  BY Sizes DEF Versions, Segments, SegNums
<1>2. Len(v.seg[i]) = Filled(v.size, i) /\ \A k \in 1..Len(v.seg[i]) : v.seg[i][k] # CutByte
  BY DEF Plain
<1>3. v.seg[i] # Cut
  <2>1. Len(Cut) = 1 /\ Cut[1] = CutByte
    BY DEF Cut
  <2> QED BY <2>1, <1>2
<1>4. Len(v.seg[i]) \in Nat /\ (v.seg[i] = <<>> <=> Len(v.seg[i]) = 0)
  BY <1>1, EmptySeq
<1> QED BY <1>1, <1>2, <1>3, <1>4

LEMMA FlatBytes ==
    ASSUME NEW v \in Versions, Plain(v)
    PROVE  /\ Flat(v) \in Seq(Bytes) /\ Len(Flat(v)) = v.size
           /\ \A k \in 1..v.size : Flat(v)[k] # CutByte
           /\ \A i \in SegNums : \A k \in 1..Len(v.seg[i]) :
                  i * SegSize + k \in 1..v.size /\ Flat(v)[i * SegSize + k] = v.seg[i][k]
<1>1. v.size \in Nat /\ v.size <= MaxSize /\ SegSize \in Nat /\ SegSize > 0
  BY Sizes DEF Versions
<1>2. ASSUME NEW k \in 1..v.size PROVE Flat(v)[k] \in Bytes /\ Flat(v)[k] # CutByte
  <2> DEFINE q == (k - 1) \div SegSize
             r == (k - 1) % SegSize
  <2>1. k - 1 \in Nat /\ k - 1 \in 0..(MaxSize - 1)
    BY <1>1, Sizes
  <2>2. q \in SegNums /\ q \in Nat /\ q * SegSize <= k - 1 /\ k - 1 < q * SegSize + SegSize
        /\ r = k - 1 - q * SegSize /\ q * SegSize \in Nat
    BY <2>1, SegmentOf, Quotient, Sizes
  <2>3. Flat(v)[k] = v.seg[q][r + 1]
    BY DEF Flat
  <2> HIDE DEF q, r
  <2>4. r + 1 \in 1..Filled(v.size, q)
    BY <1>1, <2>1, <2>2 DEF Filled
  <2>5. v.seg[q] \in Seq(Bytes) /\ Len(v.seg[q]) = Filled(v.size, q)
    BY <2>2, PlainSegment
  <2> QED BY <2>2, <2>3, <2>4, <2>5 DEF Plain
<1>3. Flat(v) \in [1..v.size -> Bytes]
  BY <1>2 DEF Flat
<1>4. Flat(v) \in Seq(Bytes) /\ Len(Flat(v)) = v.size
  BY <1>1, <1>3
<1>5. ASSUME NEW i \in SegNums, NEW k \in 1..Len(v.seg[i])
      PROVE  i * SegSize + k \in 1..v.size /\ Flat(v)[i * SegSize + k] = v.seg[i][k]
  <2> DEFINE a == i * SegSize
  <2>1. i \in Nat /\ a \in Nat /\ Len(v.seg[i]) = Filled(v.size, i)
    BY PlainSegment, <1>1
  <2>1a. Filled(v.size, i) \in 0..SegSize
    BY <1>1, <2>1, FilledBy
  <2>2. a + k <= v.size /\ a + k - 1 \in Nat /\ a + k - 1 < a + SegSize /\ a <= a + k - 1
        /\ a + k \in 1..v.size /\ k \in Nat
    BY <2>1a, <2>1, <1>1 DEF Filled
  <2> HIDE DEF a
  <2> DEFINE x == a + k
  <2>3. x - 1 \in Nat /\ k - 1 \in 0..(SegSize - 1) /\ x - 1 = a + (k - 1)
    BY <2>1a, <2>1, <2>2, <1>1
  <2> HIDE DEF x
  <2>4. (x - 1) \div SegSize = i /\ (x - 1) % SegSize = k - 1
    BY <2>1, <2>3, Position DEF a
  <2>5. x \in 1..v.size /\ k - 1 + 1 = k
    BY <2>2 DEF x
  <2>6. Flat(v)[x] = v.seg[(x - 1) \div SegSize][((x - 1) % SegSize) + 1]
    BY <2>5 DEF Flat
  <2>7. Flat(v)[x] = v.seg[i][k]
    BY <2>4, <2>5, <2>6
  <2> QED BY <2>5, <2>7 DEF a, x
<1> QED BY <1>2, <1>4, <1>5

\* The bytes of a version from offset a on, at most n of them.
Part(v, a, n) == SubSeq(Flat(v), a + 1, IF a + n <= v.size THEN a + n ELSE v.size)
PartLength(v, a, n) == IF a + n <= v.size THEN n ELSE IF a <= v.size THEN v.size - a ELSE 0

LEMMA PartBytes ==
    ASSUME NEW v \in Versions, Plain(v), NEW a \in Nat, NEW n \in Nat
    PROVE  /\ Part(v, a, n) \in Seq(Bytes) /\ Len(Part(v, a, n)) = PartLength(v, a, n)
           /\ PartLength(v, a, n) \in Nat
           /\ \A k \in 1..PartLength(v, a, n) :
                  a + k \in 1..v.size /\ Part(v, a, n)[k] = Flat(v)[a + k]
<1> DEFINE b == IF a + n <= v.size THEN a + n ELSE v.size
           l == IF a + n <= v.size THEN n ELSE IF a <= v.size THEN v.size - a ELSE 0
<1>1. Flat(v) \in Seq(Bytes) /\ Len(Flat(v)) = v.size /\ v.size \in Nat
  BY FlatBytes DEF Versions
<1>2. b \in Int /\ b <= Len(Flat(v)) /\ l \in Nat /\ l = IF a <= b THEN b - a ELSE 0
  BY <1>1
<1>3. Part(v, a, n) = SubSeq(Flat(v), a + 1, b)
  BY DEF Part
<1>4. l <= b - a \/ l = 0
  BY <1>1
<1>5. \A k \in 1..l : a + k \in 1..v.size
  BY <1>1
<1> HIDE DEF b, l
<1>6. /\ SubSeq(Flat(v), a + 1, b) \in Seq(Bytes)
      /\ Len(SubSeq(Flat(v), a + 1, b)) = IF a <= b THEN b - a ELSE 0
      /\ \A k \in 1..(b - a) : SubSeq(Flat(v), a + 1, b)[k] = Flat(v)[a + k]
  BY <1>1, <1>2, PartOf
<1>7. \A k \in 1..l : k \in 1..(b - a)
  BY <1>2, <1>4
<1>8. PartLength(v, a, n) = l
  BY DEF PartLength, l
<1> QED BY <1>2, <1>3, <1>5, <1>6, <1>7, <1>8

\* Reading from the start of a segment gives the part of it that is asked for.
LEMMA ReadSegment ==
    ASSUME NEW v \in Versions, Plain(v), NEW i \in SegNums, NEW n \in Nat
    PROVE  LET s == read_segment(v, i, n, 0)
               l == IF Filled(v.size, i) <= n THEN Filled(v.size, i) ELSE n
           IN  /\ s \in Seq(Bytes) /\ Len(s) = l /\ l \in Nat
               /\ \A k \in 1..l : s[k] = Flat(v)[i * SegSize + k]
<1> DEFINE c == v.seg[i]
           l == IF Filled(v.size, i) <= n THEN Filled(v.size, i) ELSE n
           s == read_segment(v, i, n, 0)
<1>1. c \in Seq(Bytes) /\ Len(c) = Filled(v.size, i) /\ Len(c) \in Nat /\ c # Cut
  BY PlainSegment
<1>2. Seg(v, i) = c
  BY DEF Seg
<1>3. Min({Len(c), n}) = l /\ l \in Nat /\ l <= Len(c)
  BY <1>1, MinOfTwo
<1> HIDE DEF c
<1>4. s = [k \in 1..l |-> IF 0 + k <= Len(c) THEN c[0 + k] ELSE Junk]
  BY <1>1, <1>2, <1>3 DEF read_segment
<1> HIDE DEF l, s
<1>5. \A k \in 1..l : s[k] = c[k] /\ c[k] \in Bytes /\ k \in 1..Len(c)
  BY <1>1, <1>3, <1>4
<1>6. s \in Seq(Bytes) /\ Len(s) = l
  BY <1>3, <1>4, <1>5
<1>7. \A k \in 1..Len(c) : Flat(v)[i * SegSize + k] = c[k]
  BY FlatBytes DEF c
<1> QED BY <1>3, <1>5, <1>6, <1>7 DEF s, l

\* What is read of a segment and of those after it, put together.
LEMMA ReadOn ==
    ASSUME NEW v \in Versions, Plain(v), NEW i \in SegNums, NEW n \in Nat \ {0},
           i * SegSize < v.size
    PROVE  LET s == read_segment(v, i, n, 0)
               m == Max({0, n - Len(s)})
           IN  /\ s # <<>> /\ Len(s) \in Nat /\ m \in 0..n
               /\ s \o Part(v, (i + 1) * SegSize, m) = Part(v, i * SegSize, n)
<1> DEFINE s == read_segment(v, i, n, 0)
           f == Filled(v.size, i)
           l == IF f <= n THEN f ELSE n
           m == Max({0, n - Len(s)})
           a == i * SegSize
           b == (i + 1) * SegSize
           p == Part(v, b, m)
           w == Part(v, a, n)
<1>1. /\ s \in Seq(Bytes) /\ Len(s) = l /\ l \in Nat
      /\ \A k \in 1..l : s[k] = Flat(v)[a + k]
  BY ReadSegment
<1>2. a \in Nat /\ b = a + SegSize /\ SegSize \in Nat /\ i \in Nat /\ v.size \in Nat
  BY Sizes DEF SegNums, Versions
<1>3. f \in 0..SegSize /\ f > 0 /\ a + f <= v.size /\ (f < SegSize => a + f >= v.size)
  BY <1>2, FilledBy
<1>4. a < v.size
  OBVIOUS
<1> HIDE DEF a, b, f, s
<1>5. l > 0 /\ l <= n
  BY <1>2, <1>3
<1>6. m \in 0..n /\ m = n - l
  BY <1>1, <1>5, MaxOfTwo
<1> HIDE DEF m
<1> DEFINE lp == PartLength(v, b, m)
           lw == PartLength(v, a, n)
<1>7. /\ p \in Seq(Bytes) /\ Len(p) = lp /\ lp \in Nat
      /\ \A k \in 1..lp : p[k] = Flat(v)[b + k]
  <2> b \in Nat /\ m \in Nat
    BY <1>2, <1>6
  <2> QED BY PartBytes
<1>8. /\ w \in Seq(Bytes) /\ Len(w) = lw /\ lw \in Nat
      /\ \A k \in 1..lw : w[k] = Flat(v)[a + k]
  <2> a \in Nat /\ n \in Nat
    BY <1>2
  <2> QED BY PartBytes
<1>9. lw = l + lp /\ (lp > 0 => l = SegSize)
  BY <1>2, <1>3, <1>4, <1>6 DEF PartLength
<1> HIDE DEF p, w, l, lp, lw
<1> DEFINE z == s \o p
<1>10. /\ z \in Seq(Bytes) /\ Len(z) = Len(s) + Len(p)
       /\ \A k \in 1..(Len(s) + Len(p)) : (z)[k] = IF k <= Len(s) THEN s[k] ELSE p[k - Len(s)]
  BY <1>1, <1>7, ConcatProperties
<1> HIDE DEF z
<1>11. ASSUME NEW k \in 1..lw PROVE (z)[k] = w[k]
  <2>1. CASE k <= l
    <3>1. k \in 1..l
      BY <2>1, <1>1, <1>8
    <3>2. k \in 1..(Len(s) + Len(p)) /\ k <= Len(s)
      BY <3>1, <1>1, <1>7
    <3>3. z[k] = s[k]
      BY <3>2, <1>10
    <3>4. s[k] = Flat(v)[a + k] /\ w[k] = Flat(v)[a + k]
      BY <3>1, <1>1, <1>8
    <3> QED BY <3>3, <3>4, Zenon
  <2>2. CASE k > l
    <3>1. k - l \in 1..lp /\ ~(k <= l) /\ l = SegSize
      BY <2>2, <1>1, <1>7, <1>8, <1>9
    <3>2. (z)[k] = p[k - l]
      BY <3>1, <1>1, <1>7, <1>8, <1>9, <1>10
    <3>3. p[k - l] = Flat(v)[b + (k - l)] /\ b + (k - l) = a + k
      BY <3>1, <1>2, <1>7, <1>8
    <3>4. w[k] = Flat(v)[a + k]
      BY <1>8
    <3> QED BY <3>2, <3>3, <3>4, Zenon
  <2>3. k <= l \/ k > l
    BY <1>1, <1>8
  <2> QED BY <2>1, <2>2, <2>3
<1>12. z = w
  BY <1>1, <1>7, <1>8, <1>9, <1>10, <1>11, SeqEqual
<1>13. s # <<>>
  BY <1>1, <1>5
<1> QED BY <1>1, <1>6, <1>12, <1>13 DEF a, b, s, p, w, m, z

LEMMA NoPart ==
    ASSUME NEW v \in Versions, Plain(v), NEW a \in Nat, NEW n \in Nat, n = 0 \/ v.size <= a
    PROVE  Part(v, a, n) = <<>>
<1> DEFINE p == Part(v, a, n)
<1>1. p \in Seq(Bytes) /\ Len(p) = PartLength(v, a, n)
  BY PartBytes
<1>2. v.size \in Nat
  BY DEF Versions
<1> HIDE DEF p
<1>3. Len(p) = 0
  BY <1>1, <1>2 DEF PartLength
<1>4. p = <<>>
  BY <1>1, <1>3, EmptySeq
<1> QED BY <1>4 DEF p

\* One turn of the reading loop.
LEMMA ReadLoop ==
    ASSUME NEW v \in Versions, Plain(v), NEW i \in Nat, NEW n \in Nat
    PROVE  LET s == read_segment(v, i, n, 0)
               m == Max({0, n - Len(s)})
           IN  /\ Part(v, i * SegSize, n)
                      = IF n = 0 \/ s = <<>> THEN <<>> ELSE s \o Part(v, (i + 1) * SegSize, m)
               /\ ~(n = 0 \/ s = <<>>) => i \in SegNums /\ m \in 0..n
<1> DEFINE s == read_segment(v, i, n, 0)
<1>1. i * SegSize \in Nat /\ v.size \in Nat /\ MaxSegs \in Nat /\ v.size <= MaxSize
      /\ MaxSize = MaxSegs * SegSize
  BY Sizes DEF Versions
<1>2. CASE n = 0
  BY <1>1, <1>2, NoPart
<1>3. CASE i \notin SegNums
  <2>1. s = <<>>
    <3>1. Seg(v, i) = <<>> /\ <<>> # Cut /\ Len(<<>>) = 0
      BY <1>3 DEF Seg, Cut
    <3>2. Min({0, n}) = 0
      BY MinOfTwo
    <3> DEFINE empty == Seg(v, i)
    <3>3. s = [k \in 1..Min({Len(empty), n}) |->
                  IF 0 + k <= Len(empty) THEN empty[0 + k] ELSE Junk]
      BY <3>1, Zenon DEF read_segment
    <3>4. 1..Min({Len(empty), n}) = {}
      BY <3>1, <3>2
    <3> HIDE DEF s, empty
    <3>5. s = [k \in {} |-> IF 0 + k <= Len(empty) THEN empty[0 + k] ELSE Junk]
      BY <3>3, <3>4, Zenon
    <3>6. s \in Seq(Bytes) /\ Len(s) = 0
      BY <3>5
    <3> QED BY <3>6, EmptySeq
  <2>2. MaxSegs <= i
    BY <1>1, <1>3 DEF SegNums
  <2>3. MaxSegs * SegSize <= i * SegSize
    BY <2>2, <1>1, Times
  <2>4. v.size <= i * SegSize
    BY <2>3, <1>1, Sizes
  <2> QED BY <2>1, <2>4, <1>1, NoPart
<1>4. CASE i \in SegNums /\ v.size <= i * SegSize
  <2>1. Filled(v.size, i) = 0
    <3> i <= i /\ i \in Int
      OBVIOUS
    <3> QED BY <1>1, <1>4, FilledBy
  <2>2. s \in Seq(Bytes) /\ Len(s) = 0
    BY <1>4, <2>1, ReadSegment
  <2>3. s = <<>>
    <3> HIDE DEF s
    <3> QED BY <2>2, EmptySeq
  <2> QED BY <2>3, <1>4, <1>1, NoPart
<1>5. CASE i \in SegNums /\ i * SegSize < v.size /\ n # 0
  BY <1>5, ReadOn
<1> QED BY <1>1, <1>2, <1>3, <1>4, <1>5

\* All the turns: the bytes from the start of a segment on.
LEMMA ReadRest ==
    ASSUME NEW v \in Versions, Plain(v), NEW first \in 0..MaxSegs, NEW size \in Nat
    PROVE  read_rest(v, first, size) = Part(v, first * SegSize, size)
<1> DEFINE I == first..(MaxSegs + 1)
           L == 0..size
           Turn(f, i, n) ==
               LET s == read_segment(v, i, n, 0)
               IN  IF n = 0 \/ s = <<>> THEN <<>> ELSE s \o f[i + 1][Max({0, n - Len(s)})]
           Loops(f) == f = [i \in I |-> [n \in L |-> Turn(f, i, n)]]
           g == [i \in I |-> [n \in L |-> Part(v, i * SegSize, n)]]
           rest == CHOOSE f : Loops(f)
<1>1. MaxSegs \in Nat /\ I \subseteq Nat /\ L \subseteq Nat /\ first \in I /\ size \in L
  BY Sizes
<1>2. \A i \in I : i \in SegNums => i + 1 \in I
  BY <1>1 DEF SegNums
<1> HIDE DEF I, L
\* A function that agrees with the parts after segment i agrees at i.
<1>3. ASSUME NEW f, NEW i \in I, NEW n \in L,
             i + 1 \in I => \A m \in L : f[i + 1][m] = Part(v, (i + 1) * SegSize, m)
      PROVE  Turn(f, i, n) = Part(v, i * SegSize, n)
  <2> DEFINE s == read_segment(v, i, n, 0)
             m == Max({0, n - Len(s)})
  <2>1. /\ Part(v, i * SegSize, n)
              = IF n = 0 \/ s = <<>> THEN <<>> ELSE s \o Part(v, (i + 1) * SegSize, m)
        /\ ~(n = 0 \/ s = <<>>) => i \in SegNums /\ m \in 0..n
    BY <1>1, ReadLoop
  <2>2. Turn(f, i, n) = IF n = 0 \/ s = <<>> THEN <<>> ELSE s \o f[i + 1][m]
    OBVIOUS
  <2> HIDE DEF s, m, Turn
  <2>3. ~(n = 0 \/ s = <<>>) => f[i + 1][m] = Part(v, (i + 1) * SegSize, m)
    <3>1. m \in 0..n => m \in L
      BY <1>1 DEF L
    <3> QED BY <1>2, <1>3, <2>1, <3>1
  <2> QED BY <2>1, <2>2, <2>3
<1>4. Loops(g)
  <2>1. \A i \in I : \A n \in L : g[i][n] = Part(v, i * SegSize, n)
    OBVIOUS
  <2>2. \A i \in I : \A n \in L : Turn(g, i, n) = Part(v, i * SegSize, n)
    <3> HIDE DEF g, Turn
    <3> QED BY <1>3, <2>1
  <2> HIDE DEF Turn
  <2> QED BY <2>2
<1>5. Loops(rest)
  <2> HIDE DEF g, Loops
  <2> QED BY <1>4
<1>6. read_rest(v, first, size) = rest[first][size]
  BY DEF read_rest, I, L
<1> HIDE DEF rest, g
<1>7. \A i \in I : \A n \in L : rest[i][n] = Turn(rest, i, n)
  <2> HIDE DEF Turn
  <2> QED BY <1>5
<1> HIDE DEF Turn
\* Backwards from the last segment.
<1> DEFINE last_i == MaxSegs + 1
           Agrees == {j \in 0..(last_i - first) : \A n \in L : rest[last_i - j][n] = Part(v, (last_i - j) * SegSize, n)}
<1>8. 0 \in Agrees
  <2>1. last_i \in I /\ ~(last_i + 1 \in I) /\ last_i - 0 = last_i /\ 0 \in 0..(last_i - first)
    BY <1>1 DEF I
  <2>2. \A n \in L : rest[last_i][n] = Part(v, last_i * SegSize, n)
    <3> HIDE DEF last_i
    <3> QED BY <1>3, <1>7, <2>1
  <2> HIDE DEF last_i
  <2> QED BY <2>1, <2>2
<1>9. ASSUME NEW j \in 1..(last_i - first), j - 1 \in Agrees PROVE j \in Agrees
  <2> DEFINE i == last_i - j
  <2>1. i \in I /\ last_i - (j - 1) = i + 1 /\ j \in 0..(last_i - first)
    BY <1>1 DEF I
  <2>2. \A n \in L : rest[i + 1][n] = Part(v, (i + 1) * SegSize, n)
    <3>1. \A n \in L : rest[last_i - (j - 1)][n] = Part(v, (last_i - (j - 1)) * SegSize, n)
      BY <1>9
    <3> HIDE DEF last_i, i
    <3> QED BY <2>1, <3>1
  <2> HIDE DEF last_i
  <2>3. \A n \in L : rest[i][n] = Part(v, i * SegSize, n)
    <3> HIDE DEF i
    <3> QED BY <1>3, <1>7, <2>1, <2>2
  <2> QED BY <2>1, <2>3
<1>10. last_i - first \in Agrees
  <2> last_i - first \in Nat
    BY <1>1
  <2> HIDE DEF Agrees, last_i
  <2> QED BY <1>8, <1>9, Induction
<1>11. last_i - (last_i - first) = first
  BY <1>1
<1> HIDE DEF last_i
<1> QED BY <1>1, <1>6, <1>10, <1>11

\* A read from the start of a segment returns the bytes it asks for.
LEMMA ReadVersion ==
    ASSUME NEW v \in Versions, Plain(v), NEW off \in Nat, off % SegSize = 0, NEW n \in Nat
    PROVE  read_version(v, off, n) = Part(v, off, n)
<1> DEFINE q == seek_segment(off)
           m == Min({n, v.size - off})
           head == read_segment(v, q, m, 0)
           left == Max({0, m - Len(head)})
<1>1. q \in Nat /\ q * SegSize = off /\ off - q * SegSize = 0
  BY Quotient, Sizes DEF seek_segment
<1>2. read_version(v, off, n) =
          IF ~v.here \/ v.size <= off \/ head = <<>> THEN <<>>
          ELSE head \o read_rest(v, q + 1, left)
  BY <1>1 DEF read_version
<1>3. v.size \in Nat /\ v.size <= MaxSize
  BY Sizes DEF Versions
<1>4. CASE ~v.here \/ v.size <= off
  <2>1. v.size <= off
    BY <1>3, <1>4 DEF Plain
  <2> QED BY <1>2, <2>1, NoPart
<1>5. CASE v.here /\ off < v.size
  <2>1. m = (IF n <= v.size - off THEN n ELSE v.size - off) /\ m \in Nat
    BY <1>3, <1>5, MinOfTwo
  <2>2. q \in SegNums /\ q + 1 \in 0..MaxSegs
    <3>1. off \in 0..(MaxSize - 1)
      BY <1>3, <1>5, Sizes
    <3> QED BY <3>1, SegmentOf, Sizes DEF SegNums, seek_segment
  <2>3. Part(v, off, m) = Part(v, off, n)
    <3>1. (IF off + m <= v.size THEN off + m ELSE v.size) = IF off + n <= v.size THEN off + n ELSE v.size
      BY <2>1, <1>3, <1>5
    <3> HIDE DEF m
    <3> QED BY <3>1 DEF Part
  <2> HIDE DEF q, m
  <2>4. CASE m = 0
    <3>1. head \in Seq(Bytes) /\ Len(head) = 0
      <4>1. q \in Nat /\ Filled(v.size, q) \in 0..SegSize /\ SegSize \in Nat
        BY <1>1, <1>3, FilledBy, Sizes
      <4>2. head \in Seq(Bytes) /\ Len(head) = IF Filled(v.size, q) <= m THEN Filled(v.size, q) ELSE m
        BY <2>1, <2>2, ReadSegment
      <4> HIDE DEF head
      <4> QED BY <4>1, <4>2, <2>4
    <3>2. head = <<>>
      <4> HIDE DEF head
      <4> QED BY <3>1, EmptySeq
    <3>3. Part(v, off, m) = <<>>
      BY <2>1, <2>4, NoPart
    <3> QED BY <1>2, <2>3, <3>2, <3>3
  <2>5. CASE m # 0
    <3>1. /\ head # <<>> /\ left \in 0..m
          /\ head \o Part(v, (q + 1) * SegSize, left) = Part(v, q * SegSize, m)
      <4> m \in Nat \ {0} /\ q * SegSize < v.size
        BY <2>1, <2>5, <1>1, <1>5
      <4> QED BY <2>2, ReadOn
    <3> HIDE DEF head, left
    <3>2. read_rest(v, q + 1, left) = Part(v, (q + 1) * SegSize, left)
      BY <2>1, <2>2, <3>1, ReadRest
    <3> QED BY <1>1, <1>2, <1>5, <1>3, <2>3, <3>1, <3>2
  <2> QED BY <2>4, <2>5
<1> QED BY <1>3, <1>4, <1>5

\* What a reader sees of a version is its bytes.
LEMMA WholeContent ==
    ASSUME NEW v \in Versions, Plain(v)
    PROVE  ContentOf(v) = Flat(v)
<1>1. Flat(v) \in Seq(Bytes) /\ Len(Flat(v)) = v.size /\ v.size \in Nat
  BY FlatBytes DEF Versions
<1>2. 0 % SegSize = 0
  BY Sizes, Quotient
<1>3. ContentOf(v) = Part(v, 0, v.size)
  BY <1>1, <1>2, ReadVersion DEF ContentOf
<1>4. Part(v, 0, v.size) = SubSeq(Flat(v), 1, v.size)
  BY <1>1 DEF Part
<1>5. SubSeq(Flat(v), 1, Len(Flat(v))) = Flat(v)
  BY <1>1, SubSeqFull
<1> QED BY <1>1, <1>3, <1>4, <1>5

\* What is read from a segment on is the slice of the whole.
LEMMA ReadSlice ==
    ASSUME NEW v \in Versions, Plain(v), NEW off \in Nat, off % SegSize = 0, NEW n \in Nat
    PROVE  read_version(v, off, n) = Slice(v, off, n)
<1>1. ContentOf(v) = Flat(v) /\ Len(Flat(v)) = v.size /\ v.size \in Nat
  BY WholeContent, FlatBytes DEF Versions
<1>2. Min({off + n, v.size}) = IF off + n <= v.size THEN off + n ELSE v.size
  BY <1>1, MinOfTwo
<1>3. Slice(v, off, n) = SubSeq(Flat(v), off + 1, Min({off + n, v.size}))
  BY <1>1 DEF Slice
<1> QED BY <1>2, <1>3, ReadVersion DEF Part

\* No read ends the process, wherever it starts: what is read inside a segment
\* is the segment's bytes and bytes from beyond its end.
Clean(s) == s \in Seq(Bytes) /\ \A k \in 1..Len(s) : s[k] # CutByte

LEMMA CleanLives ==
    ASSUME NEW s, Clean(s)
    PROVE  ~Dies(s)
<1>1. s \in Seq(Bytes) /\ DOMAIN s = 1..Len(s) /\ \A k \in 1..Len(s) : s[k] # CutByte
  BY DEF Clean
<1> QED BY <1>1 DEF Dies, ToSet

LEMMA CleanJoin ==
    ASSUME NEW s, Clean(s), NEW t, Clean(t)
    PROVE  Clean(s \o t)
<1> DEFINE z == s \o t
<1>1. /\ z \in Seq(Bytes) /\ Len(z) = Len(s) + Len(t) /\ Len(s) \in Nat /\ Len(t) \in Nat
      /\ \A k \in 1..(Len(s) + Len(t)) : z[k] = IF k <= Len(s) THEN s[k] ELSE t[k - Len(s)]
  BY ConcatProperties, LenProperties DEF Clean
<1> HIDE DEF z
<1>2. ASSUME NEW k \in 1..Len(z) PROVE z[k] # CutByte
  <2>1. CASE k <= Len(s)
    <3> k \in 1..Len(s)
      BY <1>1, <2>1
    <3> QED BY <1>1, <2>1 DEF Clean
  <2>2. CASE ~(k <= Len(s))
    <3> k - Len(s) \in 1..Len(t)
      BY <1>1, <2>2
    <3> QED BY <1>1, <2>2 DEF Clean
  <2> QED BY <2>1, <2>2
<1>3. Clean(z)
  BY <1>1, <1>2 DEF Clean
<1> QED BY <1>3 DEF z

LEMMA CleanSegment ==
    ASSUME NEW v \in Versions, Plain(v), NEW i \in SegNums, NEW limit \in Nat, NEW off \in Nat
    PROVE  Clean(read_segment(v, i, limit, off))
<1> DEFINE c == v.seg[i]
           l == Min({Len(c), limit})
           s == [k \in 1..l |-> IF off + k <= Len(c) THEN c[off + k] ELSE Junk]
<1>1. c \in Seq(Bytes) /\ c # Cut /\ Len(c) \in Nat /\ \A k \in 1..Len(c) : c[k] # CutByte
  BY PlainSegment DEF Plain
<1>2. read_segment(v, i, limit, off) = s
  BY <1>1 DEF read_segment, Seg
<1>3. l \in Nat
  BY <1>1, MinOfTwo
<1>4. Junk \in Bytes /\ Junk # CutByte
  BY DEF Junk, CutByte, Bytes
<1> HIDE DEF c, l
<1>5. ASSUME NEW k \in 1..l PROVE s[k] \in Bytes /\ s[k] # CutByte
  <2>1. CASE off + k <= Len(c)
    <3> off + k \in 1..Len(c)
      BY <1>1, <1>3, <2>1
    <3>1. c[off + k] \in Bytes /\ c[off + k] # CutByte
      BY <1>1
    <3> QED BY <2>1, <3>1
  <2>2. CASE ~(off + k <= Len(c))
    BY <1>4, <2>2
  <2> QED BY <2>1, <2>2
<1>6. s \in Seq(Bytes) /\ Len(s) = l
  <2>1. s = [k \in 1..l |-> s[k]]
    OBVIOUS
  <2> HIDE DEF s
  <2> QED BY <1>3, <1>5, <2>1
<1> HIDE DEF s
<1>7. Clean(s)
  BY <1>5, <1>6 DEF Clean
<1> QED BY <1>2, <1>7

LEMMA CleanPart ==
    ASSUME NEW v \in Versions, Plain(v), NEW a \in Nat, NEW n \in Nat
    PROVE  Clean(Part(v, a, n))
<1> DEFINE p == Part(v, a, n)
           l == PartLength(v, a, n)
<1>1. /\ p \in Seq(Bytes) /\ Len(p) = l
      /\ \A k \in 1..l : a + k \in 1..v.size /\ p[k] = Flat(v)[a + k]
  BY PartBytes
<1> HIDE DEF p, l
<1>2. \A k \in 1..Len(p) : p[k] # CutByte
  BY <1>1, FlatBytes
<1>3. Clean(p)
  BY <1>1, <1>2 DEF Clean
<1> QED BY <1>3 DEF p

LEMMA NeverDies ==
    ASSUME NEW v \in Versions, Plain(v), NEW off \in Nat, NEW n \in Nat
    PROVE  ~Dies(read_version(v, off, n))
<1> DEFINE q == seek_segment(off)
           m == Min({n, v.size - off})
           head == read_segment(v, q, m, off - q * SegSize)
           left == Max({0, m - Len(head)})
<1>1. q \in Nat /\ q * SegSize \in Nat /\ q * SegSize <= off /\ off - q * SegSize \in Nat
  BY Quotient, Sizes DEF seek_segment
<1>2. read_version(v, off, n) =
          IF ~v.here \/ v.size <= off \/ head = <<>> THEN <<>>
          ELSE head \o read_rest(v, q + 1, left)
  BY DEF read_version
<1>3. v.size \in Nat /\ v.size <= MaxSize
  BY Sizes DEF Versions
<1>4. Clean(<<>>)
  BY DEF Clean
<1>5. CASE off < v.size
  <2>1. m \in Nat
    BY <1>3, <1>5, MinOfTwo
  <2>2. q \in SegNums /\ q + 1 \in 0..MaxSegs
    <3>1. off \in 0..(MaxSize - 1)
      BY <1>3, <1>5, Sizes
    <3> QED BY <3>1, SegmentOf, Sizes DEF SegNums, seek_segment
  <2> HIDE DEF q, m
  <2>3. Clean(head)
    BY <1>1, <2>1, <2>2, CleanSegment
  <2> HIDE DEF head
  <2>4. left \in Nat
    BY <2>1, <2>3, MaxOfTwo DEF Clean
  <2>5. (q + 1) * SegSize \in Nat
    BY <1>1, Sizes
  <2> HIDE DEF left
  <2>6. Clean(read_rest(v, q + 1, left))
    BY <2>2, <2>4, <2>5, ReadRest, CleanPart
  <2>7. Clean(read_version(v, off, n))
    BY <1>2, <1>4, <2>3, <2>6, CleanJoin
  <2> QED BY <2>7, CleanLives
<1>6. CASE ~(off < v.size)
  <2>1. read_version(v, off, n) = <<>>
    BY <1>2, <1>3, <1>6
  <2> QED BY <2>1, <1>4, CleanLives
<1> QED BY <1>5, <1>6

-----------------------------------------------------------------------------
(* Copies and writes of whole segments                                      *)

LEMMA PlainBefore ==
    ASSUME NEW v \in Versions, Plain(v), NEW i \in 0..MaxSegs
    PROVE  Before(v, i) = IF i * SegSize <= v.size THEN i * SegSize ELSE v.size
<1> DEFINE G == {k \in 0..MaxSegs : Before(v, k) = IF k * SegSize <= v.size THEN k * SegSize ELSE v.size}
<1>1. MaxSegs \in Nat /\ v.size \in Nat /\ SegSize \in Nat /\ v.seg \in Segments /\ 0 * SegSize = 0
  BY Sizes DEF Versions
<1>2. 0 \in G
  BY <1>1, BeforeSum
<1>3. ASSUME NEW k \in 1..MaxSegs, k - 1 \in G PROVE k \in G
  <2> DEFINE j == k - 1
             a == j * SegSize
  <2>1. j \in SegNums /\ j \in Nat /\ k = j + 1 /\ k \in 0..MaxSegs
    BY <1>1 DEF SegNums
  <2>2. a \in Nat /\ k * SegSize = a + SegSize
    BY <2>1, <1>1
  <2>3. Before(v, k) = Before(v, j) + Filled(v.size, j)
    BY <1>1, <2>1, BeforeSum, PlainSegment
  <2>4. Before(v, j) = IF a <= v.size THEN a ELSE v.size
    BY <1>3
  <2>5. Filled(v.size, j) = IF a + SegSize <= v.size THEN SegSize ELSE IF a <= v.size THEN v.size - a ELSE 0
    BY DEF Filled
  <2> HIDE DEF j, a
  <2>6. Before(v, k) = IF k * SegSize <= v.size THEN k * SegSize ELSE v.size
    BY <1>1, <2>2, <2>3, <2>4, <2>5
  <2> QED BY <2>1, <2>6
<1>4. i \in G
  <2> HIDE DEF G
  <2> QED BY <1>1, <1>2, <1>3, Induction
<1> QED BY <1>4

\* A copy up to a segment's start finds all the segments before it.
LEMMA PlainCopyEnd ==
    ASSUME cur \in Versions, Plain(cur), NEW n \in Nat, n % SegSize = 0, n <= cur.size
    PROVE  LET q == seek_segment(n)
           IN  /\ q \in 0..MaxSegs /\ q * SegSize = n
               /\ CopyEnd(n) = q /\ Before(cur, q) = n
<1> DEFINE q == seek_segment(n)
           e == CopyEnd(n)
<1>1. q \in Nat /\ q * SegSize = n
  BY Quotient, Sizes DEF seek_segment
<1>2. /\ cur.size \in Nat /\ cur.size <= MaxSegs * SegSize /\ MaxSegs \in Nat
      /\ cur.seg \in Segments /\ SegSize \in Nat /\ SegSize > 0
  BY Sizes DEF Versions
<1> HIDE DEF q, e
<1>3. q \in 0..MaxSegs
  <2>1. MaxSegs < q => MaxSegs * SegSize + SegSize <= q * SegSize
    BY <1>1, <1>2, Times
  <2>2. MaxSegs * SegSize \in Nat
    BY <1>2
  <2> QED BY <2>1, <2>2, <1>1, <1>2
<1>4. Before(cur, q) = n
  BY <1>1, <1>3, PlainBefore
<1>5. /\ e \in 0..MaxSegs
      /\ Before(cur, e) >= n \/ Seg(cur, e) \in {<<>>, Cut}
      /\ \A i \in 0..(e - 1) : Before(cur, i) < n
  BY <1>2, CopyEndFirst DEF e
<1>6. ~(q < e)
  <2>1. q < e => q \in 0..(e - 1)
    BY <1>3, <1>5
  <2> QED BY <2>1, <1>4, <1>5
<1>7. ~(e < q)
  <2> SUFFICES ASSUME e < q PROVE FALSE
    OBVIOUS
  <2>1. e \in SegNums /\ e \in Nat
    BY <1>2, <1>3, <1>5 DEF SegNums
  <2>2. e * SegSize + SegSize <= n /\ e * SegSize \in Nat
    BY <1>1, <1>2, <2>1, Times
  <2>3. Before(cur, e) = e * SegSize
    BY <1>2, <1>5, <2>2, PlainBefore
  <2>4. Filled(cur.size, e) = SegSize
    BY <1>2, <2>2 DEF Filled
  <2>5. Seg(cur, e) \notin {<<>>, Cut}
    BY <1>2, <2>1, <2>4, PlainSegment DEF Seg
  <2> QED BY <1>2, <1>5, <2>2, <2>3, <2>5
<1>8. e = q
  BY <1>3, <1>5, <1>6, <1>7
<1> QED BY <1>1, <1>3, <1>4, <1>8 DEF q, e

\* Whatever its end, a copy within the version finds its bytes; it passes
\* assert(i <= seg_off) only if the end is a segment's start.
LEMMA CopyWithin ==
    ASSUME cur \in Versions, Plain(cur), NEW n \in Nat, n <= cur.size
    PROVE  /\ Before(cur, CopyEnd(n)) >= n
           /\ CopyEnd(n) <= seek_segment(n) => n % SegSize = 0
<1> DEFINE q == seek_segment(n)
           e == CopyEnd(n)
<1>1. q \in Nat /\ q * SegSize \in Nat /\ q * SegSize <= n /\ n % SegSize = n - q * SegSize
  BY Quotient, Sizes DEF seek_segment
<1>2. /\ cur.size \in Nat /\ cur.size <= MaxSegs * SegSize /\ MaxSegs \in Nat
      /\ cur.seg \in Segments
  BY Sizes DEF Versions
<1>3. e \in 0..MaxSegs /\ (Before(cur, e) >= n \/ Seg(cur, e) \in {<<>>, Cut})
  BY <1>2, CopyEndFirst
<1> HIDE DEF q, e
<1>4. /\ e \in Nat /\ e * SegSize \in Nat /\ MaxSegs * SegSize \in Nat
      /\ Before(cur, e) = IF e * SegSize <= cur.size THEN e * SegSize ELSE cur.size
  BY <1>2, <1>3, PlainBefore, Sizes
<1>5. Before(cur, e) >= n
  <2> SUFFICES ASSUME Before(cur, e) < n PROVE FALSE
    BY <1>2, <1>4
  <2>1. e * SegSize < cur.size /\ e * SegSize < MaxSegs * SegSize
    BY <1>2, <1>4
  <2>2. e < MaxSegs
    BY <1>2, <1>4, <2>1, Order
  <2>3. e \in SegNums
    BY <1>2, <1>4, <2>2 DEF SegNums
  <2>3a. Filled(cur.size, e) > 0
    BY <1>2, <1>4, <2>1, FilledBy
  <2>4. Seg(cur, e) \notin {<<>>, Cut}
    BY <2>3, <2>3a, PlainSegment DEF Seg
  <2> QED BY <1>2, <1>3, <1>4, <2>4
<1>6. ASSUME e <= q PROVE n % SegSize = 0
  <2>1. e * SegSize <= q * SegSize
    BY <1>1, <1>4, <1>6, Times
  <2>2. n <= e * SegSize
    BY <1>2, <1>4, <1>5
  <2> QED BY <1>1, <1>4, <2>1, <2>2
<1> QED BY <1>5, <1>6 DEF q, e

\* What the copy makes is a version with the first n bytes.
LEMMA PlainCopy ==
    ASSUME cur \in Versions, tmp \in Versions, Plain(cur), Plain(tmp), ~tmp.here,
           NEW n \in 0..MaxSize, n % SegSize = 0, n <= cur.size
    PROVE  /\ Prepared(n) \in Versions /\ Plain(Prepared(n))
           /\ Prepared(n).here /\ Prepared(n).size = n
           /\ Flat(Prepared(n)) = SubSeq(Flat(cur), 1, n)
<1> DEFINE q == seek_segment(n)
           v == Prepared(n)
<1>1. n \in Nat /\ SegSize \in Nat /\ cur.size \in Nat /\ tmp.size = 0
  BY Sizes DEF Versions, Plain
<1>2. q \in 0..MaxSegs /\ q \in Nat /\ q * SegSize = n /\ CopyEnd(n) = q
  BY <1>1, PlainCopyEnd, Sizes
<1>3. v \in Versions
  BY PreparedType
<1>4. v = [here |-> TRUE, list |-> q, size |-> n, seg |-> Copied(n)]
  BY <1>2 DEF Prepared
<1> HIDE DEF q
<1>5. ASSUME NEW i \in SegNums PROVE tmp.seg[i] = <<>>
  <2>1. i * SegSize \in Nat /\ i \in Nat
    BY <1>1, Sizes DEF SegNums
  <2>2. Filled(tmp.size, i) = 0
    BY <1>1, <2>1 DEF Filled, Plain
  <2> QED BY <2>2, PlainSegment
<1>6. ASSUME NEW i \in SegNums, i < q
      PROVE  v.seg[i] = cur.seg[i] /\ Len(v.seg[i]) = SegSize
  <2> DEFINE c == cur.seg[i]
             a == i * SegSize
  <2>1. i \in Nat /\ a \in Nat /\ a + SegSize <= n
    <3>1. i \in Nat
      BY Sizes DEF SegNums
    <3> QED BY <3>1, <1>1, <1>2, <1>6, Times
  <2>2. Len(c) = SegSize /\ c \in Seq(Bytes)
    <3>1. Filled(cur.size, i) = SegSize
      BY <1>1, <2>1 DEF Filled
    <3> QED BY <3>1, PlainSegment
  <2>3. Before(cur, i) = a
    <3>1. i \in 0..MaxSegs
      BY Sizes DEF SegNums
    <3>2. a <= cur.size
      <4> HIDE DEF a
      <4> QED BY <1>1, <2>1
    <3> QED BY <3>1, <3>2, PlainBefore
  <2>4. v.seg[i] = SubSeq(c, 1, Min({Len(c), n - Before(cur, i)}))
    <3>1. Copied(n)[i] = SubSeq(cur.seg[i], 1, Min({Len(cur.seg[i]), n - Before(cur, i)}))
      BY <1>2, <1>5, <1>6 DEF Copied
    <3>2. v.seg = Copied(n)
      BY <1>4
    <3> HIDE DEF v
    <3> QED BY <3>1, <3>2
  <2> HIDE DEF a, c
  <2>5. Min({Len(c), n - Before(cur, i)}) = Len(c)
    BY <1>1, <2>1, <2>2, <2>3, MinOfTwo
  <2>6. v.seg[i] = c
    BY <2>2, <2>4, <2>5, SubSeqFull
  <2> QED BY <2>2, <2>6 DEF c
<1>7. ASSUME NEW i \in SegNums, ~(i < q) PROVE v.seg[i] = <<>>
  BY <1>2, <1>4, <1>5, <1>7 DEF Copied
<1>8. Plain(v)
  <2>1. ASSUME NEW i \in SegNums
        PROVE  Len(v.seg[i]) = Filled(n, i) /\ \A k \in 1..Len(v.seg[i]) : v.seg[i][k] # CutByte
    <3>1. i \in Nat
      BY Sizes DEF SegNums
    <3>2. CASE i < q
      <4>1. Filled(n, i) = SegSize
        <5> q \in Int /\ q > i /\ q * SegSize <= n
          BY <1>1, <1>2, <3>1, <3>2
        <5> QED BY <1>1, <3>1, FilledBy
      <4> QED BY <1>6, <3>2, <4>1 DEF Plain
    <3>3. CASE ~(i < q)
      <4>1. Filled(n, i) = 0
        <5> q \in Int /\ q <= i /\ n <= q * SegSize
          BY <1>1, <1>2, <3>1, <3>3
        <5> QED BY <1>1, <3>1, FilledBy
      <4>2. Len(<<>>) = 0 /\ \A k \in 1..0 : FALSE
        OBVIOUS
      <4> QED BY <1>7, <3>3, <4>1, <4>2
    <3> QED BY <3>2, <3>3
  <2> QED BY <1>4, <2>1 DEF Plain
<1>9. Flat(v) = SubSeq(Flat(cur), 1, n)
  <2> DEFINE w == SubSeq(Flat(cur), 1, n)
  <2>1. Flat(v) \in Seq(Bytes) /\ Len(Flat(v)) = n
    BY <1>3, <1>4, <1>8, FlatBytes
  <2>2. w \in Seq(Bytes) /\ Len(w) = n /\ \A k \in 1..n : w[k] = Flat(cur)[k]
    <3> n \in 0..Len(Flat(cur)) /\ Flat(cur) \in Seq(Bytes)
      BY <1>1, FlatBytes
    <3> QED BY PrefixOf
  <2>3. ASSUME NEW k \in 1..n PROVE Flat(v)[k] = Flat(cur)[k]
    <3> DEFINE i == (k - 1) \div SegSize
    <3>1. i \in SegNums /\ i \in Nat /\ i * SegSize <= k - 1
      <4> k - 1 \in 0..(MaxSize - 1) /\ k - 1 \in Nat
        BY <1>1, Sizes
      <4> QED BY SegmentOf, Quotient
    <3>2. i < q
      <4>1. q <= i => q * SegSize <= i * SegSize
        BY <1>2, <3>1, Times
      <4>2. i * SegSize \in Nat
        BY <3>1, <1>1
      <4> HIDE DEF i
      <4> QED BY <4>1, <4>2, <1>1, <1>2, <3>1
    <3>3. v.seg[i] = cur.seg[i]
      BY <1>6, <3>1, <3>2
    <3>4. k \in 1..v.size /\ k \in 1..cur.size
      BY <1>1, <1>4
    <3> HIDE DEF v
    <3> QED BY <3>3, <3>4 DEF Flat
  <2> HIDE DEF w, v
  <2>4. Len(Flat(v)) = Len(w) /\ \A k \in 1..Len(Flat(v)) : Flat(v)[k] = w[k]
    BY <2>1, <2>2, <2>3
  <2>5. Flat(v) = w
    BY <2>1, <2>2, <2>4, SeqEqual
  <2> QED BY <2>5 DEF w
<1>10. v.here /\ v.size = n
  <2> HIDE DEF v
  <2> QED BY <1>4
<1> HIDE DEF v
<1> QED BY <1>3, <1>8, <1>9, <1>10 DEF v

LEMMA StoredAt ==
    ASSUME NEW v, NEW off, NEW buf, NEW i \in SegNums,
           NEW q \in Nat, q = seek_segment(off),
           NEW e \in Nat, e = seek_segment(off + Len(buf) - 1)
    PROVE  Stored(v, off, buf).seg[i] =
               IF i \in q..e /\ v.seg[i] = <<>> THEN Piece(v, off, buf, i)
               ELSE IF i > e /\ i < v.list THEN <<>> ELSE v.seg[i]
<1> DEFINE end == seek_segment(off + Len(buf) - 1) + 1
<1>1. Stored(v, off, buf).seg[i] =
          IF i \in seek_segment(off)..(end - 1) /\ v.seg[i] = <<>> THEN Piece(v, off, buf, i)
          ELSE IF i >= end /\ i < v.list THEN <<>> ELSE v.seg[i]
  <2>1. Stored(v, off, buf).seg = StoredSegs(v, off, buf)
    BY DEF Stored
  <2> QED BY <2>1, Zenon DEF StoredSegs
<1>2. seek_segment(off)..(end - 1) = q..e /\ (i >= end <=> i > e)
  <2>1. i \in Nat /\ end = e + 1 /\ end - 1 = e
    BY Sizes DEF SegNums
  <2> HIDE DEF end
  <2> QED BY <2>1
<1> HIDE DEF end
<1> QED BY <1>1, <1>2, Zenon

LEMMA Appended ==
    ASSUME NEW v \in Versions, NEW off \in 0..(MaxSize - 1), off % SegSize = 0,
           NEW buf \in Seq(Bytes), NEW i \in Nat, i >= seek_segment(off)
    PROVE  LET a == (i - seek_segment(off)) * SegSize
               l == Len(buf)
               p == Piece(v, off, buf, i)
           IN  /\ p \in Seq(Bytes) /\ Len(p) = Filled(l, i - seek_segment(off))
               /\ \A k \in 1..Len(p) : p[k] = buf[a + k]
<1> DEFINE q == seek_segment(off)
           a == (i - q) * SegSize
           m == off - q * SegSize + Len(buf)
           p == Piece(v, off, buf, i)
           c == WholeData(v, off, buf)
<1>1. v.seg \in Segments /\ Keeps(v, off)
  BY DEF Versions, Keeps
<1>2. /\ p \in Seq(Bytes) /\ Len(p) = Filled(m, i - q)
      /\ \A k \in 1..Len(p) : p[k] = c[a + k]
  BY <1>1, PieceType
<1>3. off - q * SegSize = 0 /\ Len(buf) \in Nat
  BY Quotient, Sizes DEF seek_segment
<1>4. c = buf
  <2>1. Kept(v, off) \in Seq(Bytes) /\ Len(Kept(v, off)) = 0
    BY <1>1, <1>3, KeptPart
  <2>2. Kept(v, off) = <<>>
    BY <2>1, EmptySeq
  <2> QED BY <2>2, ConcatEmptySeq DEF WholeData
<1>5. m = Len(buf)
  BY <1>3
<1> HIDE DEF q, a, m, p, c
<1> QED BY <1>2, <1>4, <1>5 DEF q, a, p

\* A write at the end of full segments appends its data.
LEMMA PlainWrite ==
    ASSUME NEW v \in Versions, Plain(v), NEW off \in 0..(MaxSize - 1), v.size = off,
           off % SegSize = 0, NEW buf \in Seq(Bytes), buf # <<>>, off + Len(buf) <= MaxSize,
           \A k \in 1..Len(buf) : buf[k] # CutByte
    PROVE  LET w == Stored(v, off, buf)
           IN  /\ w \in Versions /\ Plain(w) /\ w.here /\ w.size = off + Len(buf)
               /\ Flat(w) = Flat(v) \o buf
<1> DEFINE w == Stored(v, off, buf)
           q == seek_segment(off)
           l == Len(buf)
           e == seek_segment(off + l - 1)
<1>1. off \in Nat /\ l \in Nat \ {0} /\ SegSize \in Nat /\ SegSize > 0 /\ MaxSegs \in Nat
  BY Sizes, EmptySeq
<1>2. q \in Nat /\ q * SegSize = off /\ off - q * SegSize = 0
  BY <1>1, Quotient DEF seek_segment
<1>3. /\ e \in SegNums /\ e \in Nat /\ q <= e
      /\ e * SegSize < off + l /\ off + l <= (e + 1) * SegSize
  <2> e \in SegNums => e \in Nat
    BY <1>1 DEF SegNums
  <2> QED BY <1>1, LastSegment
<1>4. Keeps(v, off)
  BY DEF Keeps
<1>5. w \in Versions
  BY <1>4, StoredType
<1>6. w = [here |-> TRUE, list |-> e + 1, size |-> off + l, seg |-> StoredSegs(v, off, buf)]
  BY DEF Stored
<1>7. w.here /\ w.size = off + l /\ w.seg = StoredSegs(v, off, buf)
  BY <1>6
<1> DEFINE p(i) == Piece(v, off, buf, i)
<1>21. ASSUME NEW i \in SegNums
       PROVE  w.seg[i] = IF i \in q..e /\ v.seg[i] = <<>> THEN p(i)
                         ELSE IF i > e /\ i < v.list THEN <<>> ELSE v.seg[i]
  BY <1>2, <1>3, StoredAt
<1>22. ASSUME NEW i \in Nat, i >= q
       PROVE  LET a == (i - q) * SegSize
              IN  /\ p(i) \in Seq(Bytes) /\ Len(p(i)) = Filled(l, i - q)
                  /\ \A k \in 1..Len(p(i)) : p(i)[k] = buf[a + k]
  BY <1>22, Appended
<1> HIDE DEF w, q, l, e, p
<1>9. ASSUME NEW i \in SegNums, i < q
      PROVE  w.seg[i] = v.seg[i] /\ Filled(off, i) = SegSize /\ Filled(off + l, i) = SegSize
  <2>1. i \in Nat /\ off + l \in Nat
    BY Sizes, <1>1 DEF SegNums
  <2>2. Filled(off, i) = SegSize
    <3> q \in Int /\ q > i /\ q * SegSize <= off
      BY <1>1, <1>2, <1>9, <2>1
    <3> QED BY <1>1, <2>1, FilledBy
  <2>3. Filled(off + l, i) = SegSize
    <3> q \in Int /\ q > i /\ q * SegSize <= off + l
      BY <1>1, <1>2, <1>9, <2>1
    <3> QED BY <1>1, <2>1, FilledBy
  <2>4. w.seg[i] = v.seg[i]
    <3>1. ~(i \in q..e) /\ ~(i > e)
      BY <1>2, <1>3, <1>9, <2>1
    <3> QED BY <1>21, <3>1
  <2> QED BY <2>2, <2>3, <2>4
<1>10. ASSUME NEW i \in SegNums, ~(i < q)
       PROVE  v.seg[i] = <<>>
  <2>1. i \in Nat
    BY Sizes DEF SegNums
  <2>2. Filled(off, i) = 0
    <3> q \in Int /\ q <= i /\ off <= q * SegSize
      BY <1>1, <1>2, <1>10, <2>1
    <3> QED BY <1>1, <2>1, FilledBy
  <2> QED BY <2>2, PlainSegment
<1>11. ASSUME NEW i \in SegNums, i > e
       PROVE  w.seg[i] = <<>> /\ Filled(off + l, i) = 0
  <2>1. i \in Nat /\ off + l \in Nat
    BY Sizes, <1>1 DEF SegNums
  <2>2. Filled(off + l, i) = 0
    <3> e + 1 \in Int /\ e + 1 <= i /\ off + l <= (e + 1) * SegSize
      BY <1>3, <1>11, <2>1
    <3> QED BY <1>1, <2>1, FilledBy
  <2>3. ~(i \in q..e) /\ ~(i < q)
    BY <1>2, <1>3, <1>11, <2>1
  <2>4. v.seg[i] = <<>>
    BY <1>10, <2>3
  <2>5. w.seg[i] = <<>>
    BY <1>21, <2>3, <2>4
  <2> QED BY <2>2, <2>5
<1>12. ASSUME NEW i \in SegNums, ~(i < q), ~(i > e)
       PROVE  /\ Len(w.seg[i]) = Filled(off + l, i)
              /\ \A k \in 1..Len(w.seg[i]) :
                     i * SegSize - off + k \in 1..l /\ w.seg[i][k] = buf[i * SegSize - off + k]
  <2> DEFINE a == i * SegSize - off
  <2>1. i \in Nat /\ i >= q /\ i \in q..e
    BY <1>2, <1>3, <1>12, Sizes DEF SegNums
  <2>2. a = (i - q) * SegSize /\ a \in Nat
    <3>1. (i - q) * SegSize = i * SegSize - q * SegSize
      BY <2>1, <1>1, <1>2
    <3>2. q * SegSize <= i * SegSize /\ i * SegSize \in Int
      BY <2>1, <1>2, Times
    <3> QED BY <3>1, <3>2, <1>1, <1>2
  <2>3. w.seg[i] = p(i)
    <3>1. v.seg[i] = <<>>
      BY <1>10, <1>12
    <3> QED BY <1>21, <2>1, <3>1
  <2>4. /\ p(i) \in Seq(Bytes)
        /\ Len(p(i)) = IF a + SegSize <= l THEN SegSize ELSE IF a <= l THEN l - a ELSE 0
        /\ \A k \in 1..Len(p(i)) : p(i)[k] = buf[a + k]
    <3> HIDE DEF a
    <3> DEFINE b == (i - q) * SegSize
    <3>1. /\ p(i) \in Seq(Bytes)
          /\ Len(p(i)) = IF b + SegSize <= l THEN SegSize ELSE IF b <= l THEN l - b ELSE 0
          /\ \A k \in 1..Len(p(i)) : p(i)[k] = buf[b + k]
      BY <1>22, <2>1 DEF Filled
    <3>2. a = b
      BY <2>2
    <3> HIDE DEF b
    <3> QED BY <3>1, <3>2
  <2>5. Filled(off + l, i) = IF a + SegSize <= l THEN SegSize ELSE IF a <= l THEN l - a ELSE 0
    <3> DEFINE b == i * SegSize
    <3>1. b \in Nat
      BY <2>1, <1>1
    <3> HIDE DEF b
    <3> QED BY <3>1, <1>1 DEF Filled, b
  <2> HIDE DEF a
  <2>6. \A k \in 1..Len(p(i)) : a + k \in 1..l
    BY <2>2, <2>4, <1>1
  <2>7. Len(p(i)) = Filled(off + l, i)
    BY <2>2, <2>4, <2>5, <1>1
  <2> QED BY <2>3, <2>4, <2>6, <2>7 DEF a
<1>13. Plain(w)
  <2>1. ASSUME NEW i \in SegNums
        PROVE  Len(w.seg[i]) = Filled(w.size, i) /\ \A k \in 1..Len(w.seg[i]) : w.seg[i][k] # CutByte
    <3>1. CASE i < q
      BY <1>7, <1>9, <3>1, PlainSegment DEF Plain
    <3>2. CASE i > e
      <4> Len(<<>>) = 0 /\ \A k \in 1..0 : FALSE
        OBVIOUS
      <4> QED BY <1>7, <1>11, <3>2
    <3>3. CASE ~(i < q) /\ ~(i > e)
      BY <1>7, <1>12, <3>3 DEF l
    <3> QED BY <3>1, <3>2, <3>3
  <2> QED BY <1>7, <2>1 DEF Plain
<1>14. Flat(v) \in Seq(Bytes) /\ Len(Flat(v)) = off
  BY FlatBytes
<1>15. Flat(w) \in Seq(Bytes) /\ Len(Flat(w)) = off + l
  BY <1>5, <1>7, <1>13, FlatBytes
<1>16. ASSUME NEW k \in 1..off PROVE Flat(w)[k] = Flat(v)[k]
  <2> DEFINE i == (k - 1) \div SegSize
  <2>1. i \in SegNums /\ i \in Nat /\ i * SegSize <= k - 1
    <3> k - 1 \in 0..(MaxSize - 1) /\ k - 1 \in Nat
      BY <1>1, Sizes
    <3> QED BY SegmentOf, Quotient
  <2>2. i < q
    <3> HIDE DEF i
    <3>1. i * SegSize \in Nat
      BY <2>1, <1>1
    <3>2. i * SegSize < off
      BY <3>1, <2>1, <1>1
    <3>3. i * SegSize < q * SegSize
      BY <3>2, <1>2
    <3> QED BY <3>3, <1>2, <2>1, Order
  <2>3. w.seg[i] = v.seg[i]
    BY <1>9, <2>1, <2>2
  <2>4. k \in 1..w.size /\ k \in 1..v.size
    BY <1>1, <1>7
  <2> QED BY <2>3, <2>4 DEF Flat
<1>17. ASSUME NEW j \in 1..l PROVE Flat(w)[off + j] = buf[j]
  <2> DEFINE m == off + j - 1
             i == m \div SegSize
             r == m - i * SegSize
  <2>1. m \in Nat /\ m \in 0..(MaxSize - 1) /\ off + j \in 1..w.size /\ m < off + l /\ off <= m
    BY <1>1, <1>7, Sizes DEF l
  <2>2. i \in SegNums /\ i \in Nat /\ i * SegSize <= m /\ m < i * SegSize + SegSize
        /\ m % SegSize = r /\ i * SegSize \in Nat
    <3> HIDE DEF m
    <3> QED BY <2>1, SegmentOf, Quotient, <1>1
  <2>3. off + j - 1 = m
    OBVIOUS
  <2>4. Flat(w)[off + j] = w.seg[i][r + 1]
    <3> DEFINE x == off + j
    <3>1. x - 1 = m /\ x \in 1..w.size
      BY <2>1
    <3>2. Flat(w)[x] = w.seg[(x - 1) \div SegSize][((x - 1) % SegSize) + 1]
      BY <3>1 DEF Flat
    <3> HIDE DEF x, r, m
    <3> QED BY <2>2, <3>1, <3>2 DEF x
  <2> HIDE DEF i
  <2>5. ~(i < q)
    <3>1. i < q => i * SegSize + SegSize <= q * SegSize
      BY <1>2, <2>2, Times
    <3>2. m < i * SegSize + SegSize /\ q * SegSize <= m /\ q * SegSize \in Int
          /\ i * SegSize + SegSize \in Int /\ m \in Int
      <4> HIDE DEF m, r
      <4> QED BY <1>1, <1>2, <2>1, <2>2
    <3> HIDE DEF m, r
    <3> QED BY <3>1, <3>2
  <2>6. ~(i > e)
    <3>1. i > e => (e + 1) * SegSize <= i * SegSize
      BY <1>3, <2>2, Times
    <3>2. (e + 1) * SegSize \in Nat
      BY <1>1, <1>3
    <3>3. i * SegSize <= m /\ m < off + l /\ off + l <= (e + 1) * SegSize /\ m \in Int /\ off + l \in Int
      <4> HIDE DEF m, r
      <4> QED BY <1>1, <1>3, <2>1, <2>2
    <3> HIDE DEF m, r
    <3> QED BY <3>1, <3>2, <3>3, <2>2
  <2>7. r + 1 \in 1..Len(w.seg[i])
    <3>1. Len(w.seg[i]) = Filled(off + l, i)
      BY <1>12, <2>2, <2>5, <2>6
    <3>2. Filled(off + l, i) >= r + 1 /\ r \in Nat /\ Filled(off + l, i) \in Int
      <4> DEFINE b == i * SegSize
      <4>1. b \in Nat /\ b <= m /\ m < b + SegSize /\ m < off + l /\ m \in Nat /\ r = m - b
        <5> HIDE DEF m
        <5> QED BY <2>1, <2>2
      <4> HIDE DEF b, m, r
      <4> QED BY <4>1, <1>1 DEF Filled, b
    <3> QED BY <3>1, <3>2
  <2>8. w.seg[i][r + 1] = buf[i * SegSize - off + (r + 1)]
    <3> HIDE DEF r
    <3> QED BY <1>12, <2>2, <2>5, <2>6, <2>7
  <2>9. i * SegSize - off + (r + 1) = j
    BY <1>1, <2>2
  <2> HIDE DEF r
  <2> QED BY <2>4, <2>8, <2>9
<1>18. /\ Flat(v) \o buf \in Seq(Bytes) /\ Len(Flat(v) \o buf) = off + l
       /\ \A k \in 1..(off + l) : (Flat(v) \o buf)[k] = IF k <= off THEN Flat(v)[k] ELSE buf[k - off]
  <2> Len(Flat(v) \o buf) = Len(Flat(v)) + Len(buf)
    BY <1>14, ConcatProperties
  <2> QED BY <1>14, ConcatProperties DEF l
<1>19. ASSUME NEW k \in 1..(off + l) PROVE Flat(w)[k] = (Flat(v) \o buf)[k]
  <2>1. CASE k <= off
    <3> k \in 1..off
      BY <1>1, <2>1
    <3> QED BY <1>16, <1>18, <2>1
  <2>2. CASE ~(k <= off)
    <3>1. k - off \in 1..l /\ off + (k - off) = k
      BY <1>1, <2>2
    <3>2. Flat(w)[off + (k - off)] = buf[k - off]
      BY <1>17, <3>1
    <3> QED BY <1>18, <2>2, <3>1, <3>2
  <2> QED BY <2>1, <2>2
<1>20. Flat(w) = Flat(v) \o buf
  BY <1>15, <1>18, <1>19, SeqEqual
<1> QED BY <1>5, <1>7, <1>13, <1>20 DEF w, l

-----------------------------------------------------------------------------
(* Clients that append                                                      *)

\* No client writes over what is there, beyond the end, or shortens a draft.
Appending == Env \subseteq {"unaligned"}
\* Nor in the middle of a segment.
WholeSegments == Env = {}

DraftBytes == IF tmp.here THEN Flat(tmp) ELSE Flat(cur)

\* The last write is in the draft.
Acked ==
    last.data # <<>> =>
        /\ last.off % SegSize = 0 /\ tmp.size = last.off + Len(last.data)
        /\ \A k \in 1..Len(last.data) : Flat(tmp)[last.off + k] = last.data[k]

PlainInv ==
    /\ ContentInv
    /\ Plain(cur) /\ (tmp.here \/ alive = "ok" => Plain(tmp))
    /\ alive = "ok" => Acked /\ (~writing => ~tmp.here)

LEMMA NothingPlain == Plain(NoVersion) /\ Flat(NoVersion) = <<>> /\ NoWrite.data = <<>>
<1>1. \A i \in SegNums : NoVersion.seg[i] = <<>>
  BY DEF NoVersion
<1>2. NoVersion.size = 0
  BY DEF NoVersion
<1>3. \A i \in SegNums : Filled(0, i) = 0
  <2>1. \A i \in SegNums : i * SegSize \in Nat /\ SegSize > 0
    BY Sizes DEF SegNums
  <2> QED BY <2>1, Sizes DEF Filled
<1>4. Len(<<>>) = 0 /\ \A k \in 1..0 : FALSE
  OBVIOUS
<1>5. Plain(NoVersion)
  BY <1>1, <1>2, <1>3, <1>4 DEF Plain
<1>6. Flat(NoVersion) \in Seq(Bytes) /\ Len(Flat(NoVersion)) = 0
  BY <1>2, <1>5, Nothing, FlatBytes
<1>7. Flat(NoVersion) = <<>>
  BY <1>6, EmptySeq
<1> QED BY <1>5, <1>7 DEF NoWrite

LEMMA PlainInit == Init => PlainInv
BY ContentInit, NothingPlain DEF Init, PlainInv, Acked

\* How a call ends that changes nothing: refused, or with a failed assertion,
\* when the copy may have left segments that no version has.
Unchanged == tmp' = tmp /\ last' = last /\ alive' = alive
Asserted(off) ==
    /\ off % SegSize # 0 /\ alive' # "ok" /\ last' = last
    /\ tmp' = tmp \/ (~tmp.here /\ ~tmp'.here)

LEMMA CopyRefused ==
    ASSUME PlainInv, NEW n \in 0..MaxSize, CopyFails(n)
    PROVE  Unchanged \/ Asserted(n)
<1>1. n \in Nat /\ cur.size \in Nat /\ cur \in Versions /\ tmp \in Versions /\ Plain(cur)
  BY Sizes DEF PlainInv, ContentInv, Versions
<1>2. ASSUME Tried(n)
      PROVE  /\ ~tmp.here /\ ~(Before(cur, CopyEnd(n)) < n)
             /\ n % SegSize = 0 => ~(CopyEnd(n) > seek_segment(n))
  <2>1. n <= cur.size /\ ~tmp.here
    <3>1. n = 0 => n <= cur.size
      BY <1>1
    <3>2. n > 0 => ~(cur.size < n)
      BY <1>2 DEF Tried, Refused
    <3> QED BY <1>1, <1>2, <3>1, <3>2 DEF Tried
  <2>2. Before(cur, CopyEnd(n)) >= n
    BY <1>1, <2>1, CopyWithin
  <2>3. CopyEnd(n) \in 0..MaxSegs /\ MaxSegs \in Nat /\ Before(cur, CopyEnd(n)) \in Nat
    <3>1. cur.seg \in Segments /\ MaxSegs \in Nat
      BY <1>1, Sizes DEF Versions
    <3>2. CopyEnd(n) \in 0..MaxSegs
      BY <1>1, <3>1, CopyEndFirst
    <3> QED BY <3>1, <3>2, BeforeSum
  <2>4. n % SegSize = 0 => CopyEnd(n) = seek_segment(n) /\ seek_segment(n) \in Nat
    BY <1>1, <2>1, PlainCopyEnd, Sizes
  <2> QED BY <1>1, <2>1, <2>2, <2>3, <2>4
<1>3. ~CopyBreaks(n) /\ ~CopyKilled(n)
  BY <1>2 DEF CopyBreaks, CopyKilled
<1>4. CASE CopyAsserts(n) /\ tmp' = [tmp EXCEPT !.seg = Copied(n)] /\ alive' = "copy_assert"
  <2>1. ~tmp.here /\ n % SegSize # 0
    BY <1>2, <1>4 DEF CopyAsserts
  <2>2. ~tmp'.here
    BY <1>1, <1>4, <2>1 DEF Versions
  <2> QED BY <1>4, <2>1, <2>2 DEF CopyFails, Asserted
<1> QED BY <1>3, <1>4 DEF CopyFails, Unchanged

\* A copy that is done is the draft up to its end.
LEMMA CopyMade ==
    ASSUME PlainInv, alive = "ok", NEW n \in 0..MaxSize, CopyDone(n)
    PROVE  /\ n % SegSize = 0
           /\ Prepared(n) \in Versions /\ Plain(Prepared(n))
           /\ Prepared(n).here /\ Prepared(n).size = n
           /\ n <= Len(DraftBytes) /\ Flat(Prepared(n)) = SubSeq(DraftBytes, 1, n)
<1>1. n \in Nat /\ cur.size \in Nat /\ cur \in Versions /\ tmp \in Versions
      /\ Plain(cur) /\ Plain(tmp)
  BY Sizes DEF PlainInv, ContentInv, Versions
<1>2. ~tmp.here /\ n <= cur.size
  <2>1. n = 0 => n <= cur.size
    BY <1>1
  <2>2. n > 0 => ~(cur.size < n)
    BY DEF CopyDone, Tried, Refused
  <2> QED BY <1>1, <2>1, <2>2 DEF CopyDone, Tried
<1>3. n % SegSize = 0
  BY <1>1, <1>2, CopyWithin DEF CopyDone
<1>4. Len(Flat(cur)) = cur.size
  BY <1>1, FlatBytes
<1> QED BY <1>1, <1>2, <1>3, <1>4, PlainCopy DEF DraftBytes

\* What a write does to the draft: its data goes behind what was there, and a
\* write that would start inside a segment ends the process.
Appends(off, n) ==
    LET buf == [k \in 1..n |-> <<writes', k>>]
    IN  /\ tmp' \in Versions /\ Plain(tmp') /\ tmp'.here /\ tmp'.size = off + n
        /\ off <= Len(DraftBytes) /\ off % SegSize = 0
        /\ Flat(tmp') = SubSeq(DraftBytes, 1, off) \o buf
        /\ last' = [off |-> off, data |-> buf] /\ alive' = alive

LEMMA AppendWrite ==
    ASSUME Appending, PlainInv,
           NEW off \in 0..(MaxSize - 1), NEW n \in 1..(MaxSize - off), Write(off, n)
    PROVE  Unchanged \/ Asserted(off) \/ Appends(off, n)
<1> DEFINE buf == [k \in 1..n |-> <<writes', k>>]
           v == Prepared(off)
<1>1. /\ writes' \in 1..MaxWrites /\ n \in 1..MaxSize /\ off \in 0..MaxSize /\ off \in Nat
      /\ n \in Nat /\ off + n <= MaxSize /\ alive = "ok"
  BY Sizes DEF PlainInv, ContentInv, Write
<1>2. /\ buf \in Seq(Bytes) /\ Len(buf) = n /\ buf # <<>>
      /\ \A k \in 1..Len(buf) : buf[k] # CutByte
  BY <1>1, Data
<1>3. (tmp.here => off >= tmp.size) /\ off <= End
  BY DEF Appending, Write
<1>4. CASE CopyFails(off)
  BY <1>1, <1>4, CopyRefused
<1>5. CASE (tmp.here \/ CopyDone(off)) /\ Put(v, off, buf)
  <2>1. /\ v \in Versions /\ Plain(v) /\ v.size = off
        /\ off <= Len(DraftBytes) /\ Flat(v) = SubSeq(DraftBytes, 1, off)
        /\ v = tmp \/ off % SegSize = 0
    <3>1. CASE tmp.here
      <4>1. tmp \in Versions /\ Plain(tmp) /\ tmp.size \in Nat
        BY <3>1 DEF PlainInv, ContentInv, Versions
      <4>2. tmp.size = off
        BY <1>1, <1>3, <3>1, <4>1 DEF End
      <4>3. Flat(tmp) \in Seq(Bytes) /\ Len(Flat(tmp)) = off
        BY <4>1, <4>2, FlatBytes
      <4>4. SubSeq(Flat(tmp), 1, off) = Flat(tmp)
        BY <4>3, SubSeqFull
      <4> QED BY <1>1, <3>1, <4>1, <4>2, <4>3, <4>4 DEF DraftBytes, Prepared
    <3>2. CASE ~tmp.here
      <4>1. CopyDone(off)
        BY <1>5, <3>2
      <4> QED BY <1>1, <4>1, CopyMade
    <3> QED BY <3>1, <3>2
  <2> HIDE DEF v, buf
  <2>2. CASE off % SegSize = 0
    <3>1. tmp' = Stored(v, off, buf) /\ last' = [off |-> off, data |-> buf] /\ alive' = alive
      BY <1>5, <2>2 DEF Put
    <3>2. /\ tmp' \in Versions /\ Plain(tmp') /\ tmp'.here /\ tmp'.size = off + Len(buf)
          /\ Flat(tmp') = Flat(v) \o buf
      BY <1>1, <1>2, <2>1, <2>2, <3>1, PlainWrite
    <3> QED BY <1>2, <2>1, <2>2, <3>1, <3>2 DEF Appends, buf
  <2>3. CASE off % SegSize # 0
    <3> DEFINE q == seek_segment(off)
               r == off % SegSize
    <3>1. /\ q \in Nat /\ q * SegSize \in Nat /\ r \in Nat /\ r > 0 /\ r = off - q * SegSize
          /\ off < q * SegSize + SegSize
      BY <1>1, <2>3, Quotient, Sizes DEF seek_segment
    <3>2. q \in SegNums
      BY SegmentOf DEF seek_segment
    <3> HIDE DEF q, r
    <3>3. Filled(v.size, q) = r
      BY <1>1, <2>1, <3>1, Sizes DEF Filled
    <3>4. v.seg[q] \notin {<<>>, Cut} /\ Len(v.seg[q]) = r
      BY <2>1, <3>1, <3>2, <3>3, PlainSegment
    <3>5. tmp' = v /\ alive' = "tail_assert" /\ last' = last
      BY <1>5, <3>1, <3>4 DEF Put, q, r
    <3> QED BY <2>1, <2>3, <3>5 DEF Asserted
  <2> QED BY <2>2, <2>3
<1> QED BY <1>4, <1>5 DEF Write

\* What a truncate does to it.
CutsTo(n) ==
    /\ tmp' \in Versions /\ Plain(tmp') /\ tmp'.here
    /\ n <= Len(DraftBytes) /\ Flat(tmp') = SubSeq(DraftBytes, 1, n)
    /\ last' = NoWrite /\ alive' = alive

LEMMA AppendTruncate ==
    ASSUME Appending, PlainInv, NEW n \in 0..MaxSize, Truncate(n)
    PROVE  Unchanged \/ Asserted(n) \/ CutsTo(n)
<1>1. alive = "ok"
  BY DEF Truncate
<1>2. CASE CopyFails(n)
  BY <1>2, CopyRefused
<1>3. CASE CopyDone(n) /\ tmp' = Prepared(n) /\ last' = NoWrite /\ alive' = alive
  BY <1>1, <1>3, CopyMade DEF CutsTo
<1> QED BY <1>2, <1>3 DEF Appending, Truncate

LEMMA AppendRead ==
    ASSUME PlainInv, NEW off \in 0..(MaxSize - 1), NEW n \in 1..(MaxSize - off)
    PROVE  ~Read(off, n)
<1>1. off \in Nat /\ n \in Nat /\ cur \in Versions /\ Plain(cur)
  BY Sizes DEF PlainInv, ContentInv
<1>2. Read(off, n) => Dies(read_version(cur, off, n))
  BY DEF Read
<1> QED BY <1>1, <1>2, NeverDies

LEMMA DraftSequence ==
    ASSUME PlainInv
    PROVE  DraftBytes \in Seq(Bytes) /\ Len(DraftBytes) \in Nat
BY FlatBytes DEF PlainInv, ContentInv, DraftBytes

\* What is appended stands behind what was there.
LEMMA AppendedAfter ==
  ASSUME NEW A, NEW s \in Seq(A), NEW t \in Seq(A)
  PROVE  \A k \in 1..Len(t) : (s \o t)[Len(s) + k] = t[k]
<1> DEFINE joined == s \o t
<1>1. /\ Len(s) \in Nat /\ Len(t) \in Nat
      /\ \A i \in 1..(Len(s) + Len(t)) :
             joined[i] = IF i <= Len(s) THEN s[i] ELSE t[i - Len(s)]
  BY ConcatProperties, LenProperties
<1> HIDE DEF joined
<1> SUFFICES ASSUME NEW k \in 1..Len(t) PROVE joined[Len(s) + k] = t[k]
  BY DEF joined
<1>2. /\ Len(s) + k \in 1..(Len(s) + Len(t)) /\ ~(Len(s) + k <= Len(s))
      /\ Len(s) + k - Len(s) = k
  BY <1>1
<1> QED BY <1>1, <1>2

LEMMA PlainStep ==
    ASSUME Appending, PlainInv, [Next]_vars
    PROVE  PlainInv'
<1>1. ContentInv'
  BY ContentStep DEF PlainInv
<1>2. CASE Open
  BY <1>1, <1>2 DEF Open, PlainInv, Plain, Acked, Flat
<1>3. CASE Release
  <2>1. /\ last' = NoWrite /\ tmp' = NoVersion /\ cur' \in {cur, tmp} /\ alive' = alive
        /\ ~writing' /\ alive = "ok"
    BY <1>3 DEF Release
  <2>2. Plain(cur') /\ Plain(tmp') /\ last'.data = <<>> /\ ~tmp'.here
    BY <2>1, NothingPlain, Nothing DEF PlainInv
  <2> QED BY <1>1, <2>1, <2>2 DEF PlainInv, Acked, Plain
\* A call that changes nothing.
<1>8. ASSUME cur' = cur, writing' = writing, alive = "ok",
             Unchanged \/ (\E off \in Nat : Asserted(off))
      PROVE  PlainInv'
  <2>1. CASE Unchanged
    BY <1>1, <1>8, <2>1 DEF Unchanged, PlainInv, Plain, Acked, Flat
  <2>2. CASE \E off \in Nat : Asserted(off)
    <3>1. alive' # "ok" /\ (tmp' = tmp \/ ~tmp'.here)
      BY <2>2 DEF Asserted
    <3>2. Plain(cur) /\ Plain(tmp)
      BY <1>8 DEF PlainInv
    <3> QED BY <1>1, <1>8, <3>1, <3>2 DEF PlainInv, Plain
  <2> QED BY <1>8, <2>1, <2>2
<1>4. ASSUME NEW n \in 0..MaxSize, Truncate(n) PROVE PlainInv'
  <2>1. cur' = cur /\ writing' = writing /\ writing /\ alive = "ok" /\ n \in Nat
    BY <1>4, Sizes DEF Truncate
  <2>2. CASE Unchanged \/ Asserted(n)
    BY <1>8, <2>1, <2>2
  <2>3. CASE CutsTo(n)
    BY <1>1, <2>1, <2>3, NothingPlain DEF CutsTo, PlainInv, Plain, Acked
  <2> QED BY <1>4, <2>2, <2>3, AppendTruncate
<1>5. ASSUME NEW off \in 0..(MaxSize - 1), NEW n \in 1..(MaxSize - off), Write(off, n)
      PROVE  PlainInv'
  <2> DEFINE buf == [k \in 1..n |-> <<writes', k>>]
             kept == SubSeq(DraftBytes, 1, off)
  <2>1. cur' = cur /\ writing' = writing /\ writing /\ alive = "ok" /\ off \in Nat
    BY <1>5, Sizes DEF Write
  <2>2. CASE Unchanged \/ Asserted(off)
    BY <1>8, <2>1, <2>2
  <2>3. CASE /\ Plain(tmp') /\ tmp'.size = off + n /\ off <= Len(DraftBytes)
             /\ off % SegSize = 0 /\ Flat(tmp') = kept \o buf
             /\ last' = [off |-> off, data |-> buf] /\ alive' = alive
    <3>1. writes' \in 1..MaxWrites /\ n \in 1..MaxSize /\ off \in Nat
      BY <1>5, Sizes DEF PlainInv, ContentInv, Write
    <3>2. buf \in Seq(Bytes) /\ Len(buf) = n
      BY <3>1, Data
    <3>3. kept \in Seq(Bytes) /\ Len(kept) = off
      <4> off \in 0..Len(DraftBytes)
        BY <3>1, <2>3, DraftSequence
      <4> QED BY DraftSequence, PrefixOf
    <3> HIDE DEF buf, kept
    <3> DEFINE joined == kept \o buf
    <3>4. \A k \in 1..Len(buf) : joined[Len(kept) + k] = buf[k]
      BY <3>2, <3>3, AppendedAfter
    <3>5. \A k \in 1..n : joined[off + k] = buf[k]
      BY <3>2, <3>3, <3>4, Zenon
    <3> HIDE DEF joined
    <3>6. Acked'
      <4>1. \A k \in 1..Len(buf) : Flat(tmp')[off + k] = buf[k]
        BY <2>3, <3>2, <3>5, Zenon DEF joined
      <4>2. Flat(tmp)' = Flat(tmp')
        BY DEF Flat
      <4>3. tmp'.size = off + Len(buf) /\ last'.off = off /\ last'.data = buf
        BY <2>3, <3>2
      <4> QED BY <2>3, <4>1, <4>2, <4>3 DEF Acked
    <3> QED BY <1>1, <2>1, <2>3, <3>6 DEF PlainInv, Plain
  <2> QED BY <1>5, <2>2, <2>3, AppendWrite DEF Appends
<1>6. ASSUME NEW off \in 0..(MaxSize - 1), NEW n \in 1..(MaxSize - off), Read(off, n)
      PROVE  PlainInv'
  BY <1>6, AppendRead
<1>7. CASE UNCHANGED vars
  BY <1>1, <1>7 DEF vars, PlainInv, Plain, Acked, Flat
<1> QED BY <1>2, <1>3, <1>4, <1>5, <1>6, <1>7 DEF Next

LEMMA PlainInvariant == ASSUME Appending PROVE Spec => []PlainInv
<1>1. PlainInv /\ [Next]_vars => PlainInv'
  BY PlainStep
<1> QED BY <1>1, PlainInit, PTL DEF Spec

\* As long as clients append whole segments, no assert() of fs/version.cc
\* or fs/segment.cc fails (177, 228, 354; 130) and no caller of
\* get_segment_data_raw (fs/segment.cc) is given a segment that is not binary.
THEOREM UpAlways == ASSUME WholeSegments PROVE Spec => []StaysUp
<1>1. Init => StaysUp
  BY DEF Init, StaysUp
<1>2. PlainInv /\ StaysUp /\ [Next]_vars => StaysUp'
  <2> SUFFICES ASSUME PlainInv, alive = "ok", [Next]_vars PROVE alive' = "ok"
    BY DEF StaysUp
  <2>1. Appending
    BY DEF WholeSegments, Appending
  <2>2. ASSUME NEW n \in 0..MaxSize, Truncate(n) PROVE alive' = "ok"
    <3> n % SegSize = 0
      BY <2>2 DEF WholeSegments, Truncate
    <3> QED BY <2>1, <2>2, AppendTruncate DEF Unchanged, Asserted, CutsTo
  <2>3. ASSUME NEW off \in 0..(MaxSize - 1), NEW n \in 1..(MaxSize - off), Write(off, n)
        PROVE  alive' = "ok"
    <3> off % SegSize = 0
      BY <2>3 DEF WholeSegments, Write
    <3> QED BY <2>1, <2>3, AppendWrite DEF Unchanged, Asserted, Appends
  <2>4. ASSUME NEW off \in 0..(MaxSize - 1), NEW n \in 1..(MaxSize - off) PROVE ~Read(off, n)
    BY AppendRead
  <2>5. CASE Open \/ Release \/ UNCHANGED vars
    BY <2>5 DEF Open, Release, vars
  <2> QED BY <2>2, <2>3, <2>4, <2>5 DEF Next
<1>3. Appending
  BY DEF WholeSegments, Appending
<1> QED BY <1>1, <1>2, <1>3, PlainInvariant, PTL DEF Spec

\* As long as clients append, wherever they try to, read_version
\* (fs/version.cc:90) started at any segment returns the bytes that a read of
\* the whole version has there, and returns all that are asked for and exist.
THEOREM SlicesAlways == ASSUME Appending PROVE Spec => []ReadsSlice
<1>1. PlainInv => ReadsSlice
  <2> SUFFICES ASSUME PlainInv, NEW v \in {cur, tmp}, NEW off \in Starts, NEW n \in 1..MaxSize,
                      v.here
               PROVE  read_version(v, off, n) = Slice(v, off, n)
    BY DEF ReadsSlice
  <2>1. v \in Versions /\ Plain(v) /\ off \in Nat /\ off % SegSize = 0 /\ n \in Nat
    BY Sizes DEF PlainInv, ContentInv, Starts
  <2> QED BY <2>1, ReadSlice
<1> QED BY <1>1, PlainInvariant, PTL

\* As long as clients append, what a write acknowledged (fs/file.cc:196) is
\* read back from the draft at its offset, until the next write or truncate.
THEOREM AckedAlways == ASSUME Appending PROVE Spec => []AckedStored
<1>1. PlainInv => AckedStored
  <2> SUFFICES ASSUME PlainInv, alive = "ok", last.data # <<>>
               PROVE  read_version(tmp, last.off, Len(last.data)) = last.data
    BY DEF AckedStored
  <2> DEFINE l == Len(last.data)
             p == Part(tmp, last.off, l)
  <2>1. /\ tmp \in Versions /\ Plain(tmp) /\ last.off \in Nat /\ last.data \in Seq(Bytes)
        /\ l \in Nat /\ tmp.size \in Nat
    BY Sizes DEF PlainInv, ContentInv, Written, Versions
  <2>2. /\ last.off % SegSize = 0 /\ tmp.size = last.off + l
        /\ \A k \in 1..l : Flat(tmp)[last.off + k] = last.data[k]
    BY DEF PlainInv, Acked
  <2>3. p \in Seq(Bytes) /\ Len(p) = l /\ \A k \in 1..l : p[k] = Flat(tmp)[last.off + k]
    <3> DEFINE m == PartLength(tmp, last.off, l)
    <3>1. p \in Seq(Bytes) /\ Len(p) = m /\ \A k \in 1..m : p[k] = Flat(tmp)[last.off + k]
      BY <2>1, PartBytes
    <3>2. m = l
      BY <2>1, <2>2 DEF PartLength
    <3> HIDE DEF m, l, p
    <3> QED BY <3>1, <3>2
  <2>4. p = last.data
    <3> HIDE DEF p
    <3> QED BY <2>1, <2>2, <2>3, SeqEqual
  <2> QED BY <2>1, <2>2, <2>4, ReadVersion
<1> QED BY <1>1, PlainInvariant, PTL

-----------------------------------------------------------------------------
(* The handlers implement Draft                                             *)

\* What Draft shows of the versions.
Committed == ContentOf(cur)
Drafted == IF tmp.here THEN ContentOf(tmp) ELSE ContentOf(cur)
Shows == Committed = Flat(cur) /\ Drafted = DraftBytes

LEMMA ShowsBytes == PlainInv => Shows
BY WholeContent DEF PlainInv, ContentInv, DraftBytes, Shows, Committed, Drafted

LEMMA DraftStart == Init => Abstract!DraftInit
<1> SUFFICES ASSUME Init PROVE Abstract!DraftInit
  OBVIOUS
<1>1. Flat(cur) = <<>> /\ DraftBytes = <<>> /\ writing = TRUE
  BY NothingPlain DEF Init, DraftBytes
<1>2. Committed = <<>> /\ Drafted = <<>>
  BY <1>1, PlainInit, ShowsBytes DEF Shows
<1> QED BY <1>1, <1>2 DEF Abstract!DraftInit, Committed, Drafted

LEMMA DraftStep ==
    ASSUME Appending, PlainInv, Shows, Shows', [Next]_vars
    PROVE  [Abstract!DraftNext]_Abstract!draftVars
<1>1. /\ Committed = Flat(cur) /\ Drafted = DraftBytes
      /\ Committed' = Flat(cur') /\ Drafted' = DraftBytes'
      /\ DraftBytes' = IF tmp'.here THEN Flat(tmp') ELSE Flat(cur')
  BY DEF Shows, DraftBytes, Flat
<1>2. SUFFICES \/ /\ ~writing /\ writing' = TRUE
                  /\ Drafted' = Committed /\ Committed' = Committed
               \/ \E p \in 0..MaxSize :
                      \/ /\ writing /\ p <= Len(Drafted) /\ Drafted' = SubSeq(Drafted, 1, p)
                         /\ Committed' = Committed /\ writing' = writing
                      \/ \E buf \in Buffers :
                             /\ writing /\ p <= Len(Drafted)
                             /\ Drafted' = SubSeq(Drafted, 1, p) \o buf
                             /\ Committed' = Committed /\ writing' = writing
               \/ /\ writing /\ writing' = FALSE
                  /\ Committed' = Drafted /\ Drafted' = Drafted
               \/ Committed' = Committed /\ writing' = writing /\ Drafted' = Drafted
  BY DEF Abstract!DraftNext, Abstract!DraftOpen, Abstract!DraftCommit, Abstract!DraftWrite,
         Abstract!DraftTruncate, Abstract!draftVars, Committed, Drafted
<1>3. CASE Open
  <2>1. ~writing /\ writing' = TRUE /\ cur' = cur /\ tmp' = tmp /\ ~tmp.here
    BY <1>3 DEF Open, PlainInv
  <2> QED BY <1>1, <2>1 DEF DraftBytes
<1>4. CASE Release
  <2>1. /\ writing /\ writing' = FALSE /\ ~tmp'.here
        /\ cur' = IF tmp.here THEN tmp ELSE cur
    BY <1>4, Nothing DEF Release
  <2> QED BY <1>1, <2>1 DEF DraftBytes
<1>5. ASSUME tmp' = tmp \/ (~tmp.here /\ ~tmp'.here), cur' = cur
      PROVE  Committed' = Committed /\ Drafted' = Drafted
  BY <1>1, <1>5 DEF DraftBytes
<1>6. ASSUME NEW n \in 0..MaxSize, Truncate(n)
      PROVE  \/ /\ writing /\ n <= Len(Drafted) /\ Drafted' = SubSeq(Drafted, 1, n)
                /\ Committed' = Committed /\ writing' = writing
             \/ Committed' = Committed /\ writing' = writing /\ Drafted' = Drafted
  <2>1. writing /\ writing' = writing /\ cur' = cur
    BY <1>6 DEF Truncate
  <2>2. CASE Unchanged \/ Asserted(n)
    BY <1>5, <2>1, <2>2 DEF Unchanged, Asserted
  <2>3. CASE tmp'.here /\ n <= Len(DraftBytes) /\ Flat(tmp') = SubSeq(DraftBytes, 1, n)
    BY <1>1, <2>1, <2>3
  <2> QED BY <1>6, <2>2, <2>3, AppendTruncate DEF CutsTo
<1>7. ASSUME NEW off \in 0..(MaxSize - 1), NEW n \in 1..(MaxSize - off), Write(off, n)
      PROVE  \/ /\ off \in 0..MaxSize
                /\ \E buf \in Buffers :
                       /\ writing /\ off <= Len(Drafted)
                       /\ Drafted' = SubSeq(Drafted, 1, off) \o buf
                       /\ Committed' = Committed /\ writing' = writing
             \/ Committed' = Committed /\ writing' = writing /\ Drafted' = Drafted
  <2> DEFINE buf == [k \in 1..n |-> <<writes', k>>]
  <2>1. writing /\ writing' = writing /\ cur' = cur
    BY <1>7 DEF Write
  <2>2. writes' \in 1..MaxWrites /\ n \in 1..MaxSize /\ off \in 0..MaxSize
    BY <1>7, Sizes DEF PlainInv, ContentInv, Write
  <2>3. buf \in Buffers
    BY <2>2 DEF Buffers
  <2>4. CASE Unchanged \/ Asserted(off)
    BY <1>5, <2>1, <2>4 DEF Unchanged, Asserted
  <2>5. CASE tmp'.here /\ off <= Len(DraftBytes) /\ Flat(tmp') = SubSeq(DraftBytes, 1, off) \o buf
    <3> HIDE DEF buf
    <3>1. Drafted' = SubSeq(Drafted, 1, off) \o buf /\ off <= Len(Drafted) /\ Committed' = Committed
      BY <1>1, <2>1, <2>5
    <3> QED BY <2>1, <2>2, <2>3, <3>1
  <2> QED BY <1>7, <2>4, <2>5, AppendWrite DEF Appends
<1>8. ASSUME NEW off \in 0..(MaxSize - 1), NEW n \in 1..(MaxSize - off)
      PROVE  ~Read(off, n)
  BY AppendRead
<1>9. CASE UNCHANGED vars
  BY <1>5, <1>9 DEF vars
<1> QED BY <1>3, <1>4, <1>6, <1>7, <1>8, <1>9 DEF Next

\* As long as clients append, the handlers implement Draft: a write keeps
\* exactly the prefix before its offset and adds its data, a truncate keeps
\* exactly the prefix before its length (copied from the current version,
\* fs/version.cc:149), and release publishes the draft; an append or a truncate
\* inside a segment that fails an assertion and ends the process does neither.
THEOREM ContentImplements == ASSUME Appending PROVE Spec => ImplementsDraft
<1>1. PlainInv /\ Shows /\ Shows' /\ [Next]_vars => [Abstract!DraftNext]_Abstract!draftVars
  BY DraftStep
<1> QED BY <1>1, DraftStart, ShowsBytes, PlainInvariant, PTL
           DEF Spec, ImplementsDraft, Abstract!DraftSpec
=============================================================================
