---------------------------- MODULE ServerProofs ----------------------------
(***************************************************************************)
(* What the servers find in a collection that does not change, whatever    *)
(* its depth, the order and the repetitions of its lists, and the entries  *)
(* that are missing.                                                       *)
(***************************************************************************)
EXTENDS ServerProperties, WellFoundedInduction, SequenceTheorems, TLAPS

-----------------------------------------------------------------------------
(* Induction up to a bound: a set of naturals that is not empty has a       *)
(* least element.                                                           *)

LEMMA LeastNumber ==
    ASSUME NEW T \in SUBSET Nat, T # {}
    PROVE  \E n \in T : \A m \in T : n <= m
<1>1. PICK n \in T : \A y \in T : <<y, n>> \notin OpToRel(<, Nat)
  BY NatLessThanWellFounded, WFMin
<1>2. \A m \in T : ~(m < n)
  BY <1>1 DEF OpToRel
<1> QED  BY <1>2

LEMMA UpTo ==
    ASSUME NEW m \in Nat, NEW G, 0 \in G, \A k \in 1..m : k - 1 \in G => k \in G
    PROVE  \A k \in 0..m : k \in G
<1> SUFFICES ASSUME (0..m) \ G # {} PROVE FALSE
  OBVIOUS
<1>1. PICK n \in (0..m) \ G : \A k \in (0..m) \ G : n <= k
  <2> DEFINE T == (0..m) \ G
  <2>1. T \in SUBSET Nat /\ T # {}
    OBVIOUS
  <2> HIDE DEF T
  <2>2. \E n \in T : \A k \in T : n <= k
    BY <2>1, LeastNumber
  <2> QED  BY <2>2 DEF T
<1>2. n \in 1..m /\ n - 1 \in 0..m /\ ~(n <= n - 1)
  BY <1>1
<1> QED  BY <1>1, <1>2

-----------------------------------------------------------------------------
(* std::sort: there is a permutation that puts a list in order.              *)

LEMMA LargestExists ==
    ASSUME NEW n \in Nat \ {0}, NEW s \in [1..n -> Int]
    PROVE  \E m \in 1..n : \A i \in 1..n : s[i] <= s[m]
<1> DEFINE G == {k \in 0..n : k = 0 \/ \E m \in 1..k : \A i \in 1..k : s[i] <= s[m]}
<1>1. ASSUME NEW k \in 1..n, k - 1 \in G PROVE k \in G
  <2>1. CASE k = 1
    BY <2>1
  <2>2. CASE k # 1
    <3>1. PICK m \in 1..(k - 1) : \A i \in 1..(k - 1) : s[i] <= s[m]
      BY <1>1, <2>2
    <3>2. \A i \in 1..k : i = k \/ i \in 1..(k - 1)
      OBVIOUS
    <3>3. s[k] \in Int /\ s[m] \in Int /\ m \in 1..k /\ \A i \in 1..k : s[i] \in Int
      OBVIOUS
    <3>4. CASE s[k] <= s[m]
      BY <3>1, <3>2, <3>3, <3>4
    <3>5. CASE ~(s[k] <= s[m])
      <4>1. \A i \in 1..k : s[i] <= s[k]
        BY <3>1, <3>2, <3>3, <3>5
      <4> QED  BY <4>1
    <3> QED  BY <3>4, <3>5
  <2> QED  BY <2>1, <2>2
<1>2. 0 \in G
  OBVIOUS
<1> HIDE DEF G
<1>3. \A k \in 0..n : k \in G
  BY <1>1, <1>2, UpTo
<1>4. n \in 0..n /\ n # 0
  OBVIOUS
<1>5. n \in G
  BY <1>3, <1>4
<1> QED  BY <1>4, <1>5 DEF G

Sorts(p, s, n) ==
    /\ p \in [1..n -> 1..n]
    /\ \A i, j \in 1..n : p[i] = p[j] => i = j
    /\ \A k \in 1..n : \E i \in 1..n : p[i] = k
    /\ \A i, j \in 1..n : i < j => s[p[i]] <= s[p[j]]

LEMMA SortExists ==
    ASSUME NEW n \in Nat, NEW s \in [1..n -> Int]
    PROVE  \E p : Sorts(p, s, n)
<1> DEFINE G == {k \in 0..n : \A t \in [1..k -> Int] : \E p : Sorts(p, t, k)}
<1>1. 0 \in G
  <2> SUFFICES ASSUME NEW t \in [1..0 -> Int] PROVE \E p : Sorts(p, t, 0)
    OBVIOUS
  <2>1. Sorts([i \in 1..0 |-> i], t, 0)
    BY DEF Sorts
  <2> QED  BY <2>1
<1>2. ASSUME NEW k \in 1..n, k - 1 \in G PROVE k \in G
  <2> SUFFICES ASSUME NEW t \in [1..k -> Int] PROVE \E p : Sorts(p, t, k)
    OBVIOUS
  <2>1. PICK m \in 1..k : \A i \in 1..k : t[i] <= t[m]
    <3>1. k \in Nat \ {0}
      OBVIOUS
    <3> QED  BY <3>1, LargestExists
  <2> DEFINE h == [i \in 1..(k - 1) |-> IF i = m THEN k ELSE i]
             u == [i \in 1..(k - 1) |-> t[h[i]]]
  <2>2. /\ \A i \in 1..(k - 1) : h[i] \in 1..k /\ h[i] # m
        /\ \A i, j \in 1..(k - 1) : h[i] = h[j] => i = j
        /\ \A x \in 1..k : x = m \/ \E i \in 1..(k - 1) : h[i] = x
    <3>1. \A x \in 1..k : x = m \/ \E i \in 1..(k - 1) : h[i] = x
      <4> TAKE x \in 1..k
      <4>1. CASE x = k
        BY <4>1
      <4>2. CASE x # k
        BY <4>2
      <4> QED  BY <4>1, <4>2
    <3> QED  BY <3>1
  <2>3. u \in [1..(k - 1) -> Int]
    BY <2>2
  <2>4. PICK q : Sorts(q, u, k - 1)
    BY <1>2, <2>3
  <2> HIDE DEF h
  <2> DEFINE p == [i \in 1..k |-> IF i = k THEN m ELSE h[q[i]]]
  <2>5. \A i \in 1..k : i = k \/ i \in 1..(k - 1)
    OBVIOUS
  <2>6. /\ q \in [1..(k - 1) -> 1..(k - 1)]
        /\ \A i, j \in 1..(k - 1) : q[i] = q[j] => i = j
        /\ \A x \in 1..(k - 1) : \E i \in 1..(k - 1) : q[i] = x
        /\ \A i, j \in 1..(k - 1) : i < j => u[q[i]] <= u[q[j]]
    BY <2>4 DEF Sorts
  <2>7. p \in [1..k -> 1..k]
    BY <2>2, <2>5, <2>6
  <2>8. p[k] = m /\ \A i \in 1..(k - 1) : p[i] = h[q[i]] /\ p[i] # m /\ t[p[i]] = u[q[i]]
    <3>1. p[k] = m
      OBVIOUS
    <3>2. ASSUME NEW i \in 1..(k - 1) PROVE p[i] = h[q[i]]
      <4>1. i \in 1..k /\ i # k
        OBVIOUS
      <4> QED  BY <4>1
    <3>3. \A i \in 1..(k - 1) : q[i] \in 1..(k - 1) /\ u[q[i]] = t[h[q[i]]]
      BY <2>6
    <3> HIDE DEF p
    <3> QED  BY <2>2, <3>1, <3>2, <3>3
  <2> HIDE DEF p, u
  <2>9. ASSUME NEW i \in 1..k, NEW j \in 1..k, p[i] = p[j] PROVE i = j
    <3>1. CASE i = k \/ j = k
      BY <2>5, <2>8, <2>9, <3>1
    <3>2. CASE i \in 1..(k - 1) /\ j \in 1..(k - 1)
      <4>1. h[q[i]] = h[q[j]] /\ q[i] \in 1..(k - 1) /\ q[j] \in 1..(k - 1)
        BY <2>6, <2>8, <2>9, <3>2
      <4>2. q[i] = q[j]
        BY <2>2, <4>1
      <4> QED  BY <2>6, <3>2, <4>2
    <3> QED  BY <2>5, <3>1, <3>2
  <2>10. ASSUME NEW x \in 1..k PROVE \E i \in 1..k : p[i] = x
    <3>1. CASE x = m
      BY <2>8, <3>1
    <3>2. CASE x # m
      <4>1. PICK y \in 1..(k - 1) : h[y] = x
        BY <2>2, <3>2
      <4>2. PICK i \in 1..(k - 1) : q[i] = y
        BY <2>6
      <4>3. i \in 1..k /\ p[i] = x
        BY <2>8, <4>1, <4>2
      <4> QED  BY <4>3
    <3> QED  BY <3>1, <3>2
  <2>11. ASSUME NEW i \in 1..k, NEW j \in 1..k, i < j PROVE t[p[i]] <= t[p[j]]
    <3>1. CASE j = k
      BY <2>1, <2>7, <2>8, <3>1
    <3>2. CASE j # k
      <4>1. i \in 1..(k - 1) /\ j \in 1..(k - 1)
        BY <2>11, <3>2
      <4> QED  BY <2>6, <2>8, <2>11, <4>1
    <3> QED  BY <3>1, <3>2
  <2>12. Sorts(p, t, k)
    BY <2>7, <2>9, <2>10, <2>11 DEF Sorts
  <2> QED  BY <2>12
<1> HIDE DEF G
<1>3. \A k \in 0..n : k \in G
  BY <1>1, <1>2, UpTo
<1>4. n \in G
  BY <1>3
<1> QED  BY <1>4 DEF G

\* Ordered(s) has the members of s, the smaller ones first.
LEMMA OrderedSorts ==
    ASSUME NEW s \in Seq(Int)
    PROVE  /\ Ordered(s) \in Seq(Int) /\ Len(Ordered(s)) = Len(s)
           /\ \A i, j \in 1..Len(s) : i < j => Ordered(s)[i] <= Ordered(s)[j]
           /\ \A i \in 1..Len(s) : Ordered(s)[i] \in ToSet(s)
           /\ \A x \in ToSet(s) : \E i \in 1..Len(s) : Ordered(s)[i] = x
<1> DEFINE D == DOMAIN s
           good(p) == \A i, j \in D : i < j => s[p[i]] <= s[p[j]]
<1>1. Len(s) \in Nat /\ D = 1..Len(s) /\ s \in [D -> Int]
  BY LenProperties
<1>2. PICK q : q = CHOOSE p \in Bijection(D, D) : good(p)
  OBVIOUS
<1>3. q \in Bijection(D, D) /\ good(q)
  <2>1. PICK p : Sorts(p, s, Len(s))
    BY <1>1, SortExists
  <2>2. p \in Bijection(D, D) /\ good(p)
    BY <1>1, <2>1 DEF Sorts, Bijection, Injection, Surjection, IsInjective
  <2> QED  BY <1>2, <2>2
<1>4. q \in [D -> D] /\ \A x \in D : \E i \in D : q[i] = x
  BY <1>3 DEF Bijection, Injection, Surjection
<1>5. Ordered(s) = [i \in D |-> s[q[i]]]
  BY <1>2 DEF Ordered
<1>6. Ordered(s) \in Seq(Int) /\ Len(Ordered(s)) = Len(s)
  BY <1>1, <1>4, <1>5
<1>7. \A i \in D : Ordered(s)[i] \in ToSet(s)
  BY <1>4, <1>5 DEF ToSet
<1>8. \A x \in ToSet(s) : \E i \in D : Ordered(s)[i] = x
  BY <1>4, <1>5 DEF ToSet
<1>9. \A i, j \in D : i < j => Ordered(s)[i] <= Ordered(s)[j]
  BY <1>3, <1>4, <1>5
<1> QED  BY <1>1, <1>6, <1>7, <1>8, <1>9

-----------------------------------------------------------------------------
(* Paths.                                                                    *)

LEMMA PrefixIs ==
    ASSUME NEW p \in Seq(Int), NEW q \in Seq(Int)
    PROVE  IsPrefix(p, q) <=> Len(p) <= Len(q) /\ \A i \in 1..Len(p) : p[i] = q[i]
<1>1. Len(p) \in Nat /\ Len(q) \in Nat
  BY LenProperties
<1>2. SubSeq(p, 1, Len(p)) = p
  BY SubSeqFull
<1>3. ASSUME Len(p) <= Len(q)
      PROVE  p = SubSeq(q, 1, Len(p)) <=> \A i \in 1..Len(p) : p[i] = q[i]
  <2> DEFINE r == SubSeq(q, 1, Len(p))
  <2>1. \A i \in 1..Len(p) : q[i] \in Int
    BY <1>1, <1>3, ElementOfSeq
  <2>2. r \in Seq(Int) /\ Len(r) = Len(p) /\ \A i \in 1..Len(p) : r[i] = q[i]
    BY <1>1, <2>1, SubSeqProperties
  <2> HIDE DEF r
  <2>3. ASSUME \A i \in 1..Len(p) : p[i] = q[i] PROVE p = r
    BY <2>2, <2>3, SeqEqual
  <2> QED  BY <2>2, <2>3 DEF r
<1> QED  BY <1>2, <1>3 DEF IsPrefix

LEMMA PartIs ==
    ASSUME NEW p \in Seq(Int), NEW k \in Nat, k <= Len(p)
    PROVE  /\ SubSeq(p, 1, k) \in Seq(Int) /\ Len(SubSeq(p, 1, k)) = k
           /\ \A i \in 1..k : SubSeq(p, 1, k)[i] = p[i]
           /\ IsPrefix(SubSeq(p, 1, k), p)
<1>1. \A i \in 1..k : p[i] \in Int
  BY LenProperties, ElementOfSeq
<1>2. /\ SubSeq(p, 1, k) \in Seq(Int) /\ Len(SubSeq(p, 1, k)) = k
      /\ \A i \in 1..k : SubSeq(p, 1, k)[i] = p[i]
  BY <1>1, SubSeqProperties
<1> QED  BY <1>2, PrefixIs

\* Two paths that share a beginning share its parts.
LEMMA PartsAre ==
    ASSUME NEW p \in Seq(Int), NEW q \in Seq(Int), NEW k \in Nat, k <= Len(p), k <= Len(q),
           \A i \in 1..k : p[i] = q[i]
    PROVE  SubSeq(p, 1, k) = SubSeq(q, 1, k)
<1>1. /\ SubSeq(p, 1, k) \in Seq(Int) /\ Len(SubSeq(p, 1, k)) = k
      /\ \A i \in 1..k : SubSeq(p, 1, k)[i] = p[i]
  BY PartIs
<1>2. /\ SubSeq(q, 1, k) \in Seq(Int) /\ Len(SubSeq(q, 1, k)) = k
      /\ \A i \in 1..k : SubSeq(q, 1, k)[i] = q[i]
  BY PartIs
<1> QED  BY <1>1, <1>2, SeqEqual

LEMMA PrefixStep ==
    ASSUME NEW p \in Seq(Int), NEW q \in Seq(Int), IsPrefix(p, q), q # p
    PROVE  /\ Len(p) \in 0..(Len(q) - 1) /\ q[Len(p) + 1] \in Int
           /\ SubSeq(q, 1, Len(p)) = p
           /\ IsPrefix(Append(p, q[Len(p) + 1]), q)
<1>1. Len(p) \in Nat /\ Len(q) \in Nat /\ Len(p) <= Len(q) /\ \A i \in 1..Len(p) : p[i] = q[i]
  BY LenProperties, PrefixIs
<1>2. Len(p) # Len(q)
  BY <1>1, SeqEqual
<1>3. Len(p) \in 0..(Len(q) - 1) /\ q[Len(p) + 1] \in Int
  BY <1>1, <1>2, ElementOfSeq
<1>4. SubSeq(q, 1, Len(p)) = p
  BY <1>1, PartsAre, SubSeqFull
<1> DEFINE r == Append(p, q[Len(p) + 1])
<1>5. r \in Seq(Int) /\ Len(r) = Len(p) + 1 /\ (\A i \in 1..Len(p) : r[i] = p[i]) /\ r[Len(p) + 1] = q[Len(p) + 1]
  BY <1>3, AppendProperties
<1> HIDE DEF r
<1>6. \A i \in 1..Len(r) : i \in 1..Len(p) \/ i = Len(p) + 1
  BY <1>1, <1>5
<1>7. Len(r) <= Len(q) /\ \A i \in 1..Len(r) : r[i] = q[i]
  BY <1>1, <1>3, <1>5, <1>6
<1>8. IsPrefix(r, q)
  BY <1>5, <1>7, PrefixIs
<1> QED  BY <1>3, <1>4, <1>8 DEF r

\* Below a path one component further: what it is below and what it comes
\* before, it still is and does.
LEMMA ChildIs ==
    ASSUME NEW p \in Seq(Int), NEW x \in Int
    PROVE  LET c == Append(p, x)
           IN  /\ c \in Seq(Int) /\ Len(c) = Len(p) + 1 /\ c[Len(p) + 1] = x
               /\ \A i \in 1..Len(p) : c[i] = p[i]
               /\ \A k \in 0..Len(p) : SubSeq(c, 1, k) = SubSeq(p, 1, k)
               /\ SubSeq(c, 1, Len(p)) = p
               /\ \A n \in Seq(Int) : IsPrefix(n, p) => IsPrefix(n, c)
               /\ \A q \in Seq(Int) : Before(p, q) => Before(c, q)
               /\ \A q \in Seq(Int) : IsPrefix(p, q) /\ Len(q) > Len(p) /\ x < q[Len(p) + 1] => Before(c, q)
<1> DEFINE c == Append(p, x)
<1>1. /\ c \in Seq(Int) /\ Len(c) = Len(p) + 1 /\ c[Len(p) + 1] = x
      /\ \A i \in 1..Len(p) : c[i] = p[i]
  BY AppendProperties
<1>2. Len(p) \in Nat
  BY LenProperties
<1> HIDE DEF c
<1>3. \A k \in 0..Len(p) : SubSeq(c, 1, k) = SubSeq(p, 1, k)
  <2> TAKE k \in 0..Len(p)
  <2>1. k \in Nat /\ k <= Len(p) /\ k <= Len(c) /\ \A i \in 1..k : c[i] = p[i]
    BY <1>1, <1>2
  <2> QED  BY <1>1, <2>1, PartsAre
<1>4. SubSeq(c, 1, Len(p)) = p
  BY <1>2, <1>3, SubSeqFull
<1>5. ASSUME NEW n \in Seq(Int), IsPrefix(n, p) PROVE IsPrefix(n, c)
  <2>1. Len(n) <= Len(p) /\ (\A i \in 1..Len(n) : n[i] = p[i]) /\ Len(n) \in Nat
    BY <1>5, PrefixIs, LenProperties
  <2>2. Len(n) <= Len(c) /\ \A i \in 1..Len(n) : n[i] = c[i]
    BY <1>1, <1>2, <2>1
  <2> QED  BY <1>1, <2>2, PrefixIs
<1>6. ASSUME NEW q \in Seq(Int), Before(p, q) PROVE Before(c, q)
  <2>1. PICK k \in 1..Len(p) : k <= Len(q) /\ p[k] < q[k] /\ \A j \in 1..(k - 1) : p[j] = q[j]
    BY <1>6 DEF Before
  <2>2. k \in 1..Len(c) /\ c[k] < q[k] /\ \A j \in 1..(k - 1) : c[j] = q[j]
    BY <1>1, <1>2, <2>1
  <2> QED  BY <2>1, <2>2 DEF Before
<1>7. ASSUME NEW q \in Seq(Int), IsPrefix(p, q), Len(q) > Len(p), x < q[Len(p) + 1]
      PROVE  Before(c, q)
  <2>1. \A i \in 1..Len(p) : p[i] = q[i]
    BY <1>7, PrefixIs
  <2>2. Len(p) + 1 \in 1..Len(c) /\ Len(p) + 1 <= Len(q) /\ c[Len(p) + 1] < q[Len(p) + 1]
    BY <1>1, <1>2, <1>7, LenProperties
  <2>3. \A j \in 1..(Len(p) + 1 - 1) : c[j] = q[j]
    BY <1>1, <1>2, <2>1
  <2> QED  BY <2>2, <2>3 DEF Before
<1> QED  BY <1>1, <1>3, <1>4, <1>5, <1>6, <1>7 DEF c

-----------------------------------------------------------------------------
(* What lies on the way from a name to a segment.                            *)

LEMMA EntriesAre ==
    ASSUME Tree(coll), NEW p \in DOMAIN coll
    PROVE  /\ Query(p) = coll[p] /\ p \in Seq(Int)
           /\ coll[p].type \in {"dir", "file", "ver", "seg"} /\ coll[p].data \in Seq(Int)
           /\ coll[p].type = "file" => Len(coll[p].data) = 1
           /\ coll[p].type = "ver" => coll[p].data = [k \in 1..Len(coll[p].data) |-> k - 1]
<1>1. p \in Seq(Int \ {NoName})
  BY DEF Tree
<1>2. p \in Seq(Int)
  BY <1>1, SeqMonotonic
<1> QED  BY <1>2 DEF Query, Tree, Holds

LEMMA NothingIs == NoEntry.type = "none" /\ NoEntry.data = <<>>
BY DEF NoEntry, Entry

LEMMA QueryIs ==
    ASSUME Tree(coll), NEW p
    PROVE  /\ Query(p).type \in {"dir", "file", "ver", "seg", "none"} /\ Query(p).data \in Seq(Int)
           /\ p \in DOMAIN coll <=> Query(p).type # "none"
           /\ p \in DOMAIN coll => Query(p) = coll[p]
           /\ \A x \in Members(p) : x \in Int /\ p \in DOMAIN coll
           /\ Query(p).type = "none" => Query(p).data = <<>>
<1>1. CASE p \in DOMAIN coll
  <2>1. Query(p) = coll[p] /\ coll[p].type \in {"dir", "file", "ver", "seg"} /\ coll[p].data \in Seq(Int)
    BY <1>1, EntriesAre
  <2>2. \A x \in Members(p) : x \in Int
    <3> DEFINE d == coll[p].data
    <3>1. d \in Seq(Int) /\ DOMAIN d = 1..Len(d)
      BY <2>1, LenProperties
    <3> HIDE DEF d
    <3>2. \A i \in DOMAIN d : d[i] \in Int
      BY <3>1, ElementOfSeq
    <3> QED  BY <2>1, <3>2 DEF Members, ToSet, d
  <2> QED  BY <1>1, <2>1, <2>2
<1>2. CASE p \notin DOMAIN coll
  <2>1. Query(p) = NoEntry
    BY <1>2 DEF Query
  <2>2. Members(p) = {}
    BY <2>1, NothingIs DEF Members, ToSet
  <2> QED  BY <1>2, <2>1, <2>2, NothingIs, EmptySeq
<1> QED  BY <1>1, <1>2

\* The child of p on the way to q is there, and listed in p.
LEMMA WayIs ==
    ASSUME Tree(coll), NEW n \in Seq(Int), NEW p \in Seq(Int), NEW q \in DOMAIN coll,
           Leads(n, q), Len(n) <= Len(p), IsPrefix(p, q), q # p
    PROVE  LET x == q[Len(p) + 1]
           IN  /\ p \in DOMAIN coll /\ x \in Members(p) /\ x \in Int /\ Len(p) < Len(q)
               /\ Append(p, x) \in DOMAIN coll /\ IsPrefix(Append(p, x), q)
               /\ coll[Append(p, x)].type \in Holds[coll[p].type]
<1> DEFINE x == q[Len(p) + 1]
           c == Append(p, x)
<1>1. q \in Seq(Int)
  BY EntriesAre
<1>2. /\ Len(p) \in 0..(Len(q) - 1) /\ x \in Int /\ SubSeq(q, 1, Len(p)) = p /\ IsPrefix(c, q)
  BY <1>1, PrefixStep
<1>3. Len(n) \in Nat /\ Len(p) \in Nat /\ Len(q) \in Nat
  BY <1>1, LenProperties
<1>4. x \in Members(p) /\ p \in DOMAIN coll
  <2>1. Len(p) \in Len(n)..(Len(q) - 1)
    BY <1>2, <1>3
  <2>2. x \in Members(p)
    BY <1>2, <2>1 DEF Leads
  <2> QED  BY <2>2, QueryIs
<1>5. c \in Seq(Int) /\ Len(c) = Len(p) + 1
  BY <1>2, AppendProperties
<1> HIDE DEF c, x
<1>6. c \in DOMAIN coll
  <2>1. CASE c = q
    BY <2>1
  <2>2. CASE c # q
    <3>1. Len(c) \in 0..(Len(q) - 1) /\ SubSeq(q, 1, Len(c)) = c
      BY <1>1, <1>2, <1>5, <2>2, PrefixStep
    <3>2. Len(c) \in Len(n)..(Len(q) - 1)
      BY <1>3, <1>5, <3>1
    <3>3. q[Len(c) + 1] \in Members(c)
      BY <3>1, <3>2 DEF Leads
    <3> QED  BY <3>3, QueryIs
  <2> QED  BY <2>1, <2>2
<1>7. coll[c].type \in Holds[coll[p].type]
  <2>1. x \in ToSet(coll[p].data)
    BY <1>4, EntriesAre DEF Members
  <2> QED  BY <1>4, <1>6, <2>1 DEF Tree, c
<1> QED  BY <1>2, <1>3, <1>4, <1>6, <1>7 DEF c, x

\* No segment, and nothing that is missing, is on the way to another entry; a
\* segment is listed in a version.
LEMMA WayHolds ==
    ASSUME Tree(coll), NEW n \in Seq(Int), NEW p \in Seq(Int), NEW q \in DOMAIN coll,
           Leads(n, q), Len(n) <= Len(p), IsPrefix(p, q), q # p
    PROVE  /\ Query(p).type \in {"dir", "file", "ver"}
           /\ coll[q].type = "seg" /\ Len(q) = Len(p) + 1 => Query(p).type = "ver"
           /\ Query(p).type # "dir" => Query(Append(p, q[Len(p) + 1])).type # "dir"
<1> DEFINE x == q[Len(p) + 1]
           c == Append(p, x)
<1>1. /\ p \in DOMAIN coll /\ x \in Int /\ c \in DOMAIN coll /\ IsPrefix(c, q)
      /\ coll[c].type \in Holds[coll[p].type]
  BY WayIs
<1>2. Query(p) = coll[p] /\ coll[p].type \in {"dir", "file", "ver", "seg"} /\ Query(c) = coll[c]
  BY <1>1, EntriesAre
<1>3. ASSUME Len(q) = Len(p) + 1 PROVE c = q
  <2>1. c \in Seq(Int) /\ Len(c) = Len(p) + 1
    BY <1>1, AppendProperties
  <2> HIDE DEF c
  <2>2. q \in Seq(Int)
    BY EntriesAre
  <2>3. \A i \in 1..Len(c) : c[i] = q[i]
    BY <1>1, <2>1, <2>2, PrefixIs
  <2> QED  BY <1>3, <2>1, <2>2, <2>3, SeqEqual
<1> HIDE DEF c, x
<1>4. /\ coll[p].type \in {"dir", "file", "ver"}
      /\ coll[c].type = "seg" => coll[p].type = "ver"
      /\ coll[p].type # "dir" => coll[c].type # "dir"
  BY <1>1, <1>2 DEF Holds
<1> QED  BY <1>2, <1>3, <1>4 DEF c, x

LEMMA SelectedIs ==
    ASSUME Tree(coll), NEW i \in Interests, NEW p \in DOMAIN coll, coll[p].type = "seg",
           IsPrefix(i.name, p), Leads(i.name, p)
    PROVE  Preferred(i, p) <=> Selected(i, p)
<1> DEFINE n == i.name
           T == {k \in Len(n)..(Len(p) - 1) : Lists(Query(SubSeq(p, 1, k)))}
<1>1. p \in Seq(Int) /\ n \in Seq(Int) /\ Len(p) \in Nat /\ Len(n) \in Nat /\ Len(n) <= Len(p)
  <2>1. p \in Seq(Int) /\ n \in Seq(Int)
    BY EntriesAre DEF Interests
  <2> QED  BY <2>1, LenProperties, PrefixIs
<1>2. CASE p = n
  BY <1>1, <1>2 DEF Preferred, Selected
<1>3. CASE p # n
  <2>1. Len(p) - 1 \in T
    <3> DEFINE k == Len(p) - 1
               f == SubSeq(p, 1, k)
    <3>1. Len(n) # Len(p)
      <4>1. Len(n) = Len(p) => \A j \in 1..Len(p) : n[j] = p[j]
        BY <1>1, PrefixIs
      <4> QED  BY <1>1, <1>3, <4>1, SeqEqual
    <3>2. k \in Len(n)..(Len(p) - 1) /\ k \in Nat /\ k <= Len(p) /\ k # Len(p) /\ Len(p) = k + 1
      BY <1>1, <3>1
    <3> HIDE DEF k
    <3>3. f \in Seq(Int) /\ Len(f) = k /\ IsPrefix(f, p)
      BY <1>1, <3>2, PartIs
    <3> HIDE DEF f
    <3>4. p # f
      BY <3>2, <3>3
    <3>5. Len(n) <= Len(f) /\ Len(p) = Len(f) + 1
      BY <1>1, <3>2, <3>3
    <3>6. Query(f).type = "ver"
      BY <1>1, <3>3, <3>4, <3>5, WayHolds
    <3> QED  BY <3>2, <3>6 DEF f, k, Lists
  <2>2. T \in SUBSET Nat
    BY <1>1
  <2>3. PICK k \in T : \A j \in T : k <= j
    <3> HIDE DEF T
    <3> QED  BY <2>1, <2>2, LeastNumber
  <2>4. k \in Len(n)..(Len(p) - 1) /\ IsFirstList(n, p, k)
    BY <1>1, <2>3 DEF IsFirstList
  <2>5. \A j \in Len(n)..(Len(p) - 1) : IsFirstList(n, p, j) => j = k
    <3> TAKE j \in Len(n)..(Len(p) - 1)
    <3> HAVE IsFirstList(n, p, j)
    <3>1. k <= j
      BY <2>3 DEF IsFirstList
    <3>2. ~(k < j)
      BY <1>1, <2>4 DEF IsFirstList
    <3> QED  BY <1>1, <2>4, <3>1, <3>2
  <2>6. FirstList(n, p) = k
    <3>1. \A j \in Len(n)..(Len(p) - 1) :
            IsFirstList(n, p, j) <=> /\ Lists(Query(SubSeq(p, 1, j)))
                                     /\ \A l \in Len(n)..(j - 1) : ~Lists(Query(SubSeq(p, 1, l)))
      BY DEF IsFirstList
    <3> QED  BY <2>4, <2>5, <3>1 DEF FirstList
  <2> QED  BY <1>3, <2>4, <2>5, <2>6 DEF Preferred, Selected
<1> QED  BY <1>2, <1>3

LEMMA MatchesAre ==
    ASSUME Tree(coll), NEW i \in Interests
    PROVE  /\ \A q \in Matches(i) : /\ q \in DOMAIN coll /\ q \in Seq(Int) /\ Query(q).type = "seg"
                                    /\ Reached(i, q) /\ CheckSuffix(q, i)
           /\ \A q \in DOMAIN coll : Query(q).type = "seg" /\ Reached(i, q) /\ CheckSuffix(q, i)
                                      => q \in Matches(i)
<1>1. ASSUME NEW q \in DOMAIN coll, coll[q].type = "seg", IsPrefix(i.name, q), Leads(i.name, q)
      PROVE  (Preferred(i, q) /\ (Len(q) + 1) - Len(i.name) \in Lengths(i))
             <=> (Selected(i, q) /\ CheckSuffix(q, i))
  <2>1. q \in Seq(Int) /\ i.name \in Seq(Int)
    BY EntriesAre DEF Interests
  <2>2. Len(q) \in Nat /\ Len(i.name) \in Nat /\ Len(i.name) <= Len(q)
    BY <1>1, <2>1, LenProperties, PrefixIs
  <2>3. (Len(q) + 1) - Len(i.name) \in Nat /\ (Len(q) + 1) - Len(i.name) = Len(q) - Len(i.name) + 1
    BY <2>2
  <2>4. (Len(q) + 1) - Len(i.name) \in Lengths(i) <=> CheckSuffix(q, i)
    BY <2>3 DEF Lengths, CheckSuffix
  <2> QED  BY <1>1, <2>4, SelectedIs
<1>2. \A q \in DOMAIN coll : Query(q) = coll[q] /\ q \in Seq(Int)
  BY EntriesAre
<1> QED  BY <1>1, <1>2 DEF Matches, Reached

-----------------------------------------------------------------------------
(* The stack.                                                                *)

SrvTyped ==
    /\ srv \in [pc : {"idle", "search", "fetch", "down"}, js : BOOLEAN, want : Interests,
                todo : Seq(Seq(Int)), set : BOOLEAN, hit : Seq(Int)]
    /\ srv.hit \in {<<>>} \cup DOMAIN coll

\* A step beyond p keeps to what the interest asks for, if it takes the child
\* that the selector asks for when p is the first list.
LEMMA ChildReached ==
    ASSUME Tree(coll), NEW i \in Interests, NEW p \in Seq(Int), Reached(i, p), NEW x \in Members(p),
           Lists(Query(p)) /\ ~PassedList(i.name, p) =>
              \A y \in Members(p) : i.sel = "right" => x >= y
    PROVE  /\ Reached(i, Append(p, x))
           /\ PassedList(i.name, Append(p, x)) <=> PassedList(i.name, p) \/ Lists(Query(p))
<1> DEFINE c == Append(p, x)
           n == i.name
<1>1. x \in Int /\ n \in Seq(Int)
  BY QueryIs DEF Interests
<1>2. /\ c \in Seq(Int) /\ Len(c) = Len(p) + 1 /\ c[Len(p) + 1] = x
      /\ \A k \in 1..Len(p) : c[k] = p[k]
      /\ \A k \in 0..Len(p) : SubSeq(c, 1, k) = SubSeq(p, 1, k)
      /\ SubSeq(c, 1, Len(p)) = p
      /\ \A m \in Seq(Int) : IsPrefix(m, p) => IsPrefix(m, c)
  BY <1>1, ChildIs
<1>3. Len(n) \in Nat /\ Len(p) \in Nat /\ Len(n) <= Len(p)
  BY <1>1, LenProperties, PrefixIs DEF Reached
<1> HIDE DEF c
<1>4. \A k \in Len(n)..(Len(c) - 1) : k = Len(p) \/ k \in Len(n)..(Len(p) - 1)
  <2>1. Len(c) = Len(p) + 1
    BY <1>2
  <2> QED  BY <1>3, <2>1
<1>5. \A k \in Len(n)..(Len(p) - 1) : /\ SubSeq(c, 1, k) = SubSeq(p, 1, k) /\ c[k + 1] = p[k + 1]
                                      /\ k \in Len(n)..(Len(c) - 1)
  BY <1>2, <1>3
<1>6. Len(p) \in Len(n)..(Len(c) - 1)
  BY <1>2, <1>3
<1>7. Leads(n, c)
  <2> SUFFICES ASSUME NEW k \in Len(n)..(Len(c) - 1) PROVE c[k + 1] \in Members(SubSeq(c, 1, k))
    BY DEF Leads
  <2>1. CASE k = Len(p)
    BY <1>2, <2>1
  <2>2. CASE k \in Len(n)..(Len(p) - 1)
    BY <1>5, <2>2 DEF Reached, Leads
  <2> QED  BY <1>4, <2>1, <2>2
<1>8. PassedList(n, c) <=> PassedList(n, p) \/ Lists(Query(p))
  BY <1>2, <1>4, <1>5, <1>6 DEF PassedList
<1>9. \A k \in Len(n)..(Len(p) - 1) : IsFirstList(n, c, k) => IsFirstList(n, p, k)
  <2> TAKE k \in Len(n)..(Len(p) - 1)
  <2>1. \A j \in Len(n)..(k - 1) : j \in Len(n)..(Len(p) - 1)
    BY <1>3
  <2> QED  BY <1>5, <2>1 DEF IsFirstList
<1>10. IsFirstList(n, c, Len(p)) => Lists(Query(p)) /\ ~PassedList(n, p)
  BY <1>2, <1>5 DEF IsFirstList, PassedList
<1>11. Selected(i, c)
  <2> SUFFICES ASSUME NEW k \in Len(n)..(Len(c) - 1), IsFirstList(n, c, k),
                      NEW y \in Members(SubSeq(c, 1, k))
               PROVE  i.sel = "right" => c[k + 1] >= y
    BY DEF Selected
  <2>1. CASE k = Len(p)
    BY <1>2, <1>10, <2>1
  <2>2. CASE k \in Len(n)..(Len(p) - 1)
    BY <1>5, <1>9, <2>2 DEF Reached, Selected
  <2> QED  BY <1>4, <2>1, <2>2
<1>12. IsPrefix(n, c)
  BY <1>1, <1>2 DEF Reached
<1> QED  BY <1>7, <1>8, <1>11, <1>12 DEF Reached, c

\* Nothing that is still awaited is below the path at the head.
LEMMA DropKeeps ==
    ASSUME NEW q \in Seq(Int), srv.todo \in Seq(Seq(Int)), srv.todo # <<>>,
           Awaits(q), ~IsPrefix(Path, q), srv'.todo = Tail(srv.todo)
    PROVE  Awaits(q)'
<1> DEFINE t == srv.todo
           u == srv'.todo
<1>1. Len(t) \in Nat \ {0} /\ DOMAIN t = 1..Len(t) /\ Path = t[1]
  BY LenProperties, EmptySeq DEF Path
<1>2. /\ u \in Seq(Seq(Int)) /\ Len(u) = Len(t) - 1 /\ DOMAIN u = 1..Len(u)
      /\ \A j \in 1..Len(u) : u[j] = t[j + 1]
  BY HeadTailProperties, LenProperties
<1> HIDE DEF t, u
<1>3. PICK j \in DOMAIN t : IsPrefix(t[j], q) /\ \A k \in 1..(j - 1) : Before(t[k], q)
  BY DEF Awaits, t
<1>4. j # 1
  BY <1>1, <1>3
<1>5. j - 1 \in DOMAIN u /\ u[j - 1] = t[j]
  BY <1>1, <1>2, <1>3, <1>4
<1>6. \A k \in 1..(j - 1 - 1) : Before(u[k], q)
  <2> TAKE k \in 1..(j - 1 - 1)
  <2>1. k + 1 \in 1..(j - 1) /\ k \in 1..Len(u)
    BY <1>1, <1>2, <1>3
  <2> QED  BY <1>2, <1>3, <2>1
<1>7. \E l \in DOMAIN u : IsPrefix(u[l], q) /\ \A k \in 1..(l - 1) : Before(u[k], q)
  BY <1>3, <1>5, <1>6
<1> QED  BY <1>7 DEF Awaits, Before, u

LEMMA JoinIs ==
    \A h, r \in Seq(Seq(Int)) :
        /\ h \o r \in Seq(Seq(Int)) /\ Len(h \o r) = Len(h) + Len(r)
        /\ \A i \in 1..(Len(h) + Len(r)) : (h \o r)[i] = IF i <= Len(h) THEN h[i] ELSE r[i - Len(h)]
BY ConcatProperties

Below(p, s) == [i \in DOMAIN s |-> Append(p, s[i])]

Stacked(u, t, p, s) ==
    /\ u \in Seq(Seq(Int)) /\ Len(u) = Len(s) + Len(t) - 1 /\ DOMAIN u = 1..Len(u)
    /\ \A i \in 1..Len(s) : u[i] = Append(p, s[i])
    /\ \A j \in 2..Len(t) : u[Len(s) + j - 1] = t[j]
    /\ \A i \in DOMAIN u : i \in 1..Len(s) \/ \E j \in 2..Len(t) : i = Len(s) + j - 1

\* The stack with the head p replaced by its children s.
LEMMA StackIs ==
    ASSUME NEW t \in Seq(Seq(Int)), t # <<>>, NEW p \in Seq(Int), NEW s \in Seq(Int),
           NEW u, u = Below(p, s) \o Tail(t)
    PROVE  Stacked(u, t, p, s)
<1> DEFINE h == Below(p, s)
           r == Tail(t)
<1>1. Len(t) \in Nat \ {0} /\ Len(s) \in Nat /\ DOMAIN s = 1..Len(s) /\ \A i \in 1..Len(s) : s[i] \in Int
  BY LenProperties, EmptySeq, ElementOfSeq
<1>2. h \in Seq(Seq(Int)) /\ Len(h) = Len(s) /\ \A i \in 1..Len(s) : h[i] = Append(p, s[i])
  <2>1. \A i \in 1..Len(s) : Append(p, s[i]) \in Seq(Int)
    BY <1>1, AppendProperties
  <2> QED  BY <1>1, <2>1 DEF Below
<1>3. r \in Seq(Seq(Int)) /\ Len(r) = Len(t) - 1 /\ \A j \in 1..Len(r) : r[j] = t[j + 1]
  BY HeadTailProperties
<1>0. u = h \o r
  OBVIOUS
<1> HIDE DEF h, r
<1>4. /\ u \in Seq(Seq(Int)) /\ Len(u) = Len(h) + Len(r)
      /\ \A i \in 1..(Len(h) + Len(r)) : u[i] = IF i <= Len(h) THEN h[i] ELSE r[i - Len(h)]
  <2>1. h \in Seq(Seq(Int)) /\ r \in Seq(Seq(Int))
    BY <1>2, <1>3
  <2> DEFINE v == h \o r
  <2>2. /\ v \in Seq(Seq(Int)) /\ Len(v) = Len(h) + Len(r)
        /\ \A i \in 1..(Len(h) + Len(r)) : v[i] = IF i <= Len(h) THEN h[i] ELSE r[i - Len(h)]
    BY <2>1, JoinIs
  <2>3. u = v
    BY <1>0
  <2> HIDE DEF v
  <2> QED  BY <2>2, <2>3
<1>5. ASSUME NEW i \in 1..Len(s) PROVE u[i] = Append(p, s[i])
  <2>1. i \in 1..(Len(h) + Len(r)) /\ i <= Len(h)
    BY <1>1, <1>2, <1>3
  <2> QED  BY <1>2, <1>4, <2>1
<1>6. ASSUME NEW j \in 2..Len(t) PROVE u[Len(s) + j - 1] = t[j]
  <2>1. /\ j - 1 \in 1..Len(r) /\ Len(s) + j - 1 \in 1..(Len(h) + Len(r))
        /\ ~(Len(s) + j - 1 <= Len(h)) /\ Len(s) + j - 1 - Len(h) = j - 1 /\ j - 1 + 1 = j
    BY <1>1, <1>2, <1>3
  <2> DEFINE k == Len(s) + j - 1
  <2>2. k \in 1..(Len(h) + Len(r)) /\ ~(k <= Len(h)) /\ k - Len(h) = j - 1
    BY <2>1
  <2> HIDE DEF k
  <2>3. u[k] = r[j - 1]
    BY <1>4, <2>2
  <2> QED  BY <1>3, <2>1, <2>3 DEF k
<1>7. Len(u) = Len(s) + Len(t) - 1 /\ DOMAIN u = 1..Len(u)
  BY <1>1, <1>2, <1>3, <1>4, LenProperties
<1>8. ASSUME NEW i \in DOMAIN u, i \notin 1..Len(s) PROVE \E j \in 2..Len(t) : i = Len(s) + j - 1
  <2>1. i - Len(s) + 1 \in 2..Len(t) /\ i = Len(s) + (i - Len(s) + 1) - 1
    BY <1>1, <1>7, <1>8
  <2> QED  BY <2>1
<1> QED  BY <1>4, <1>5, <1>6, <1>7, <1>8 DEF Stacked

\* What is below the path at the head is below one of the children that take
\* its place, and after those before it.
LEMMA SearchedKeeps ==
    ASSUME NEW q \in Seq(Int), srv.todo \in Seq(Seq(Int)), srv.todo # <<>>,
           Awaits(q), NEW s \in Seq(Int),
           \A i, j \in 1..Len(s) : i < j => s[i] <= s[j],
           IsPrefix(Path, q) => Len(Path) < Len(q) /\ \E i \in 1..Len(s) : s[i] = q[Len(Path) + 1],
           srv'.todo = Below(Path, s) \o Tail(srv.todo)
    PROVE  Awaits(q)'
<1> DEFINE t == srv.todo
           u == srv'.todo
<1>1. Len(t) \in Nat \ {0} /\ DOMAIN t = 1..Len(t) /\ Path = t[1] /\ Path \in Seq(Int)
  BY LenProperties, EmptySeq, HeadTailProperties DEF Path
<1>2. Len(s) \in Nat /\ DOMAIN s = 1..Len(s) /\ \A i \in 1..Len(s) : s[i] \in Int
  BY LenProperties, ElementOfSeq
<1>5. /\ u \in Seq(Seq(Int)) /\ Len(u) = Len(s) + Len(t) - 1 /\ DOMAIN u = 1..Len(u)
      /\ \A i \in 1..Len(s) : u[i] = Append(Path, s[i])
      /\ \A j \in 2..Len(t) : u[Len(s) + j - 1] = t[j]
  <2>1. t \in Seq(Seq(Int)) /\ t # <<>> /\ u = Below(Path, s) \o Tail(t)
    OBVIOUS
  <2> HIDE DEF t, u
  <2>2. Stacked(u, t, Path, s)
    BY <1>1, <2>1, StackIs
  <2> QED  BY <2>2 DEF Stacked
<1> HIDE DEF t, u
<1>6. PICK j \in DOMAIN t : IsPrefix(t[j], q) /\ \A k \in 1..(j - 1) : Before(t[k], q)
  BY DEF Awaits, t
<1>7. \E l \in DOMAIN u : IsPrefix(u[l], q) /\ \A k \in 1..(l - 1) : Before(u[k], q)
  <2>1. CASE j = 1
    <3> DEFINE x == q[Len(Path) + 1]
               T == {i \in 1..Len(s) : s[i] = x}
    <3>1. IsPrefix(Path, q) /\ Len(Path) < Len(q) /\ T # {} /\ T \in SUBSET Nat
      <4>1. IsPrefix(Path, q)
        BY <1>1, <1>6, <2>1
      <4>2. PICK i \in 1..Len(s) : s[i] = x
        BY <4>1
      <4>3. i \in T /\ T \in SUBSET Nat
        BY <1>2, <4>2
      <4> QED  BY <4>1, <4>3
    <3>2. PICK l \in T : \A i \in T : l <= i
      <4> HIDE DEF T
      <4> QED  BY <3>1, LeastNumber
    <3>3. l \in 1..Len(s) /\ s[l] = x /\ l \in DOMAIN u /\ u[l] = Append(Path, x)
      <4>1. l \in 1..Len(s) /\ s[l] = x
        BY <3>2
      <4> HIDE DEF x
      <4>2. l \in 1..Len(u)
        BY <1>1, <1>2, <1>5, <4>1
      <4> QED  BY <1>5, <4>1, <4>2
    <3>4. IsPrefix(u[l], q)
      <4>1. q # Path
        BY <1>1, <3>1, LenProperties
      <4> QED  BY <1>1, <3>1, <3>3, <4>1, PrefixStep
    <3>5. ASSUME NEW k \in 1..(l - 1) PROVE Before(u[k], q)
      <4>1. k \in 1..Len(s) /\ k < l /\ s[k] \in Int /\ s[l] \in Int /\ s[k] <= s[l]
        BY <1>2, <3>3
      <4>2. s[k] # x
        BY <3>2, <4>1
      <4>3. s[k] < x
        BY <3>3, <4>1, <4>2
      <4>4. Before(Append(Path, s[k]), q)
        BY <1>1, <3>1, <4>1, <4>3, ChildIs
      <4> QED  BY <1>5, <4>1, <4>4
    <3> QED  BY <3>3, <3>4, <3>5
  <2>2. CASE j # 1
    <3> DEFINE l == Len(s) + j - 1
    <3>1. j \in 2..Len(t) /\ l \in DOMAIN u /\ u[l] = t[j]
      <4>1. j \in 2..Len(t)
        BY <1>1, <1>6, <2>2
      <4>2. Len(u) = Len(s) + Len(t) - 1 /\ Len(s) \in Nat /\ Len(t) \in Nat /\ DOMAIN u = 1..Len(u)
        BY <1>1, <1>2, <1>5
      <4>3. l \in 1..Len(u)
        BY <4>1, <4>2
      <4> QED  BY <1>5, <4>1, <4>2, <4>3
    <3>2. ASSUME NEW k \in 1..(l - 1) PROVE Before(u[k], q)
      <4>1. CASE k <= Len(s)
        <5>1. k \in 1..Len(s) /\ s[k] \in Int /\ 1 \in 1..(j - 1)
          BY <1>2, <3>1, <4>1
        <5>2. Before(Path, q)
          BY <1>1, <1>6, <5>1
        <5>3. Before(Append(Path, s[k]), q)
          BY <1>1, <5>1, <5>2, ChildIs
        <5> QED  BY <1>5, <5>1, <5>3
      <4>2. CASE ~(k <= Len(s))
        <5> DEFINE m == k - Len(s) + 1
        <5>1. m \in 2..Len(t) /\ m \in 1..(j - 1) /\ k = Len(s) + m - 1
          BY <1>1, <1>2, <3>1, <4>2
        <5> HIDE DEF m
        <5> QED  BY <1>5, <1>6, <5>1
      <4> QED  BY <4>1, <4>2
    <3> QED  BY <1>6, <3>1, <3>2
  <2> QED  BY <2>1, <2>2
<1> QED  BY <1>7 DEF Awaits, Before, u

-----------------------------------------------------------------------------
(* A step of a server leaves the collection alone.                           *)

LEMMA CollStays ==
    ASSUME coll' = coll
    PROVE  /\ \A p : Query(p)' = Query(p)
           /\ \A i : Matches(i)' = Matches(i)
           /\ \A i, p : Reached(i, p)' <=> Reached(i, p)
           /\ \A n, p : PassedList(n, p)' <=> PassedList(n, p)
           /\ \A n, p : Leads(n, p)' <=> Leads(n, p)
<1>1. ASSUME NEW p PROVE Query(p)' = Query(p)
  BY DEF Query
<1>2. ASSUME NEW i PROVE Matches(i)' = Matches(i)
  BY DEF Matches, Leads, Preferred, FirstList, Members, Query, Lengths, Lists
<1>3. ASSUME NEW i, NEW p PROVE Reached(i, p)' <=> Reached(i, p)
  BY DEF Reached, Leads, Selected, IsFirstList, Members, Query, Lists
<1>4. ASSUME NEW n, NEW p PROVE PassedList(n, p)' <=> PassedList(n, p)
  BY DEF PassedList, Query, Lists
<1>5. ASSUME NEW n, NEW p PROVE Leads(n, p)' <=> Leads(n, p)
  BY DEF Leads, Members, Query
<1> QED  BY <1>1, <1>2, <1>3, <1>4, <1>5

\* What is left to show of a step that keeps the C++ server searching.
LEMMA SearchOn ==
    ASSUME coll' = coll, NEW i, i = srv'.want, srv'.pc = "search", ~srv'.js,
           NEW u, u = srv'.todo, \A j \in DOMAIN u : Reached(i, u[j]),
           \A q \in Matches(i) : Awaits(q)',
           i.sel = "right" =>
              IF srv'.set THEN \A j \in DOMAIN u : PassedList(i.name, u[j])
                          ELSE Len(u) <= 1 /\ \A j \in DOMAIN u : ~PassedList(i.name, u[j])
    PROVE  SearchInv' /\ JsInv' /\ FindsMatch'
<1>1. \A j \in DOMAIN u : Reached(srv.want, srv.todo[j])'
  BY DEF Reached, Leads, Selected, IsFirstList, Members, Query, Lists
<1>2. \A q \in Matches(srv.want)' : Awaits(q)'
  BY CollStays
<1>3. i.sel = "right" => SelectorUsed'
  BY DEF SelectorUsed, PassedList, Query, Lists
<1>4. SearchInv'
  BY <1>1, <1>2, <1>3 DEF SearchInv, At
<1>5. JsInv'
  BY DEF JsInv
<1>6. FindsMatch'
  <2>1. \A q : srv'.todo = <<>> => ~Awaits(q)'
    BY EmptySeq DEF Awaits
  <2> QED  BY <1>2, <2>1 DEF FindsMatch, At
<1> QED  BY <1>4, <1>5, <1>6

SrvInv == SrvTyped /\ SearchInv /\ JsInv /\ FindsMatch

\* The path to be queried next, in a C++ search.
LEMMA PathIs ==
    ASSUME Tree(coll), SrvInv, NEW t, Cpp(t)
    PROVE  /\ srv.want \in Interests /\ srv.want.name \in Seq(Int) /\ Path \in Seq(Int)
           /\ srv.todo \in Seq(Seq(Int)) /\ srv.todo # <<>> /\ Len(srv.todo) \in Nat \ {0}
           /\ DOMAIN srv.todo = 1..Len(srv.todo) /\ Path = srv.todo[1]
           /\ srv.pc = "search" /\ ~srv.js /\ Reached(srv.want, Path)
           /\ \A j \in DOMAIN srv.todo : Reached(srv.want, srv.todo[j])
           /\ \A q \in Matches(srv.want) : Awaits(q) /\ q \in Seq(Int)
           /\ srv.want.sel = "right" => SelectorUsed
           /\ Len(srv.want.name) \in Nat /\ Len(srv.want.name) <= Len(Path)
<1>1. /\ srv.want \in Interests /\ srv.want.name \in Seq(Int) /\ srv.todo \in Seq(Seq(Int))
      /\ srv.todo # <<>> /\ srv.pc = "search" /\ ~srv.js
  BY DEF SrvInv, SrvTyped, Interests, Cpp, Searching, At
<1>2. /\ Len(srv.todo) \in Nat \ {0} /\ DOMAIN srv.todo = 1..Len(srv.todo) /\ Path = srv.todo[1]
      /\ Path \in Seq(Int)
  BY <1>1, LenProperties, EmptySeq, HeadTailProperties DEF Path
<1>3. /\ \A j \in DOMAIN srv.todo : Reached(srv.want, srv.todo[j])
      /\ \A q \in Matches(srv.want) : Awaits(q)
      /\ srv.want.sel = "right" => SelectorUsed
  BY <1>1 DEF SrvInv, SearchInv, At
<1>4. Reached(srv.want, Path)
  BY <1>2, <1>3
<1>5. Len(srv.want.name) \in Nat /\ Len(srv.want.name) <= Len(Path)
  BY <1>1, <1>2, <1>4, PrefixIs, LenProperties DEF Reached
<1>6. \A q \in Matches(srv.want) : q \in Seq(Int)
  BY <1>1, MatchesAre
<1> QED  BY <1>1, <1>2, <1>3, <1>4, <1>5, <1>6

\* A match at or below the path to be queried.
LEMMA BelowPath ==
    ASSUME Tree(coll), SrvInv, NEW t, Cpp(t), NEW q \in Matches(srv.want), IsPrefix(Path, q)
    PROVE  /\ q = Path => Found.type = "seg" /\ CheckSuffix(Path, srv.want)
           /\ q # Path => /\ Found.type \in {"dir", "file", "ver"}
                          /\ Len(Path) < Len(q) /\ q[Len(Path) + 1] \in Members(Path)
<1>1. /\ srv.want \in Interests /\ srv.want.name \in Seq(Int) /\ Path \in Seq(Int)
      /\ Len(srv.want.name) <= Len(Path)
  BY PathIs
<1>2. q \in DOMAIN coll /\ Query(q).type = "seg" /\ Reached(srv.want, q) /\ CheckSuffix(q, srv.want)
  BY <1>1, MatchesAre
<1>3. ASSUME q # Path
      PROVE  /\ Query(Path).type \in {"dir", "file", "ver"}
             /\ Len(Path) < Len(q) /\ q[Len(Path) + 1] \in Members(Path)
  <2>1. PICK n, p : n = srv.want.name /\ p = Path
    OBVIOUS
  <2>2. n \in Seq(Int) /\ p \in Seq(Int) /\ Leads(n, q) /\ Len(n) <= Len(p) /\ IsPrefix(p, q) /\ q # p
    BY <1>1, <1>2, <1>3, <2>1 DEF Reached
  <2>3. Query(p).type \in {"dir", "file", "ver"}
    BY <1>2, <2>2, WayHolds
  <2>4. Len(p) < Len(q) /\ q[Len(p) + 1] \in Members(p)
    BY <1>2, <2>2, WayIs
  <2> QED  BY <2>1, <2>3, <2>4
<1> QED  BY <1>2, <1>3 DEF Found

\* The entry at the head is done with.
LEMMA Dropped ==
    ASSUME Tree(coll), coll' = coll, SrvInv, NEW t, Cpp(t), Continue(Tail(srv.todo)),
           \A q \in Matches(srv.want) : ~IsPrefix(Path, q)
    PROVE  SrvInv'
<1>1. /\ srv.want \in Interests /\ srv.todo \in Seq(Seq(Int)) /\ srv.todo # <<>>
      /\ Len(srv.todo) \in Nat \ {0} /\ DOMAIN srv.todo = 1..Len(srv.todo)
      /\ srv.pc = "search" /\ ~srv.js
      /\ \A j \in DOMAIN srv.todo : Reached(srv.want, srv.todo[j])
      /\ \A q \in Matches(srv.want) : Awaits(q) /\ q \in Seq(Int)
      /\ srv.want.sel = "right" => SelectorUsed
  BY PathIs
<1>2. /\ Tail(srv.todo) \in Seq(Seq(Int)) /\ Len(Tail(srv.todo)) = Len(srv.todo) - 1
      /\ \A j \in 1..(Len(srv.todo) - 1) : Tail(srv.todo)[j] = srv.todo[j + 1]
  BY <1>1, HeadTailProperties
<1>3. DOMAIN Tail(srv.todo) = 1..(Len(srv.todo) - 1)
  BY <1>2, LenProperties
<1>4. /\ srv'.want = srv.want /\ srv'.pc = "search" /\ ~srv'.js /\ srv'.set = srv.set
      /\ srv'.todo = Tail(srv.todo) /\ SrvTyped'
  BY <1>1, <1>2 DEF Continue, SrvInv, SrvTyped
<1>5. PICK i, u : i = srv.want /\ u = Tail(srv.todo)
  OBVIOUS
<1>6. \A j \in DOMAIN u : \E k \in DOMAIN srv.todo : u[j] = srv.todo[k]
  <2> TAKE j \in DOMAIN u
  <2>1. j + 1 \in DOMAIN srv.todo /\ u[j] = srv.todo[j + 1]
    BY <1>1, <1>2, <1>3, <1>5
  <2> QED  BY <2>1
<1>7. \A q \in Matches(i) : Awaits(q)'
  BY <1>1, <1>4, <1>5, DropKeeps
<1>8. ASSUME i.sel = "right"
      PROVE  IF srv'.set THEN \A j \in DOMAIN u : PassedList(i.name, u[j])
                         ELSE Len(u) <= 1 /\ \A j \in DOMAIN u : ~PassedList(i.name, u[j])
  <2>1. SelectorUsed
    BY <1>1, <1>5, <1>8
  <2>2. Len(u) = Len(srv.todo) - 1
    BY <1>2, <1>5
  <2>3. CASE srv.set
    BY <1>4, <1>5, <1>6, <2>1, <2>3 DEF SelectorUsed
  <2>4. CASE ~srv.set
    <3>1. \A j \in DOMAIN u : ~PassedList(i.name, u[j])
      BY <1>5, <1>6, <2>1, <2>4 DEF SelectorUsed
    <3>2. Len(srv.todo) <= 1
      BY <2>1, <2>4 DEF SelectorUsed
    <3> QED  BY <1>1, <1>4, <2>2, <2>4, <3>1, <3>2
  <2> QED  BY <2>3, <2>4
<1>9. \A j \in DOMAIN u : Reached(i, u[j])
  BY <1>1, <1>5, <1>6
<1>10. i = srv'.want /\ u = srv'.todo
  BY <1>4, <1>5
<1>11. SearchInv' /\ JsInv' /\ FindsMatch'
  BY <1>4, <1>7, <1>8, <1>9, <1>10, SearchOn
<1> QED  BY <1>4, <1>11 DEF SrvInv

\* Children s of the entry at the head take its place: all of them, or the
\* ones the selector asks for at the first list.
LEMMA Stepped ==
    ASSUME Tree(coll), coll' = coll, SrvInv, NEW t, Cpp(t), NEW b \in BOOLEAN, NEW s \in Seq(Int),
           srv' = [srv EXCEPT !.set = b, !.todo = Below(Path, s) \o Tail(srv.todo)],
           \A k, l \in 1..Len(s) : k < l => s[k] <= s[l],
           \A k \in 1..Len(s) : /\ s[k] \in Members(Path)
                                /\ Lists(Found) /\ ~PassedList(srv.want.name, Path) =>
                                      \A y \in Members(Path) : srv.want.sel = "right" => s[k] >= y,
           \A q \in Matches(srv.want) : IsPrefix(Path, q) =>
               q # Path /\ \E k \in 1..Len(s) : s[k] = q[Len(Path) + 1],
           srv.want.sel = "right" => b = (srv.set \/ Lists(Found)) /\ (b \/ Len(s) <= 1)
    PROVE  SrvInv'
<1>1. /\ srv.want \in Interests /\ srv.todo \in Seq(Seq(Int)) /\ srv.todo # <<>>
      /\ Len(srv.todo) \in Nat \ {0} /\ DOMAIN srv.todo = 1..Len(srv.todo)
      /\ srv.pc = "search" /\ ~srv.js /\ Path = srv.todo[1] /\ Path \in Seq(Int)
      /\ Reached(srv.want, Path)
      /\ \A j \in DOMAIN srv.todo : Reached(srv.want, srv.todo[j])
      /\ \A q \in Matches(srv.want) : Awaits(q) /\ q \in Seq(Int)
      /\ srv.want.sel = "right" => SelectorUsed
  BY PathIs
<1>2. PICK i, p, r, u : i = srv.want /\ p = Path /\ r = srv.todo /\ u = Below(p, s) \o Tail(r)
  OBVIOUS
<1>3. /\ r \in Seq(Seq(Int)) /\ r # <<>> /\ p \in Seq(Int) /\ i \in Interests /\ Reached(i, p)
      /\ Len(s) \in Nat /\ Len(r) \in Nat \ {0} /\ DOMAIN r = 1..Len(r) /\ p = r[1]
  BY <1>1, <1>2, LenProperties
<1>4. /\ u \in Seq(Seq(Int)) /\ Len(u) = Len(s) + Len(r) - 1 /\ DOMAIN u = 1..Len(u)
      /\ \A k \in 1..Len(s) : u[k] = Append(p, s[k])
      /\ \A j \in 2..Len(r) : u[Len(s) + j - 1] = r[j]
      /\ \A l \in DOMAIN u : l \in 1..Len(s) \/ \E j \in 2..Len(r) : l = Len(s) + j - 1
  <2>1. Stacked(u, r, p, s)
    BY <1>2, <1>3, StackIs
  <2> QED  BY <2>1 DEF Stacked
<1>5. \A l \in DOMAIN u : \/ \E k \in 1..Len(s) : u[l] = Append(p, s[k])
                          \/ \E j \in 2..Len(r) : u[l] = r[j]
  BY <1>4
<1>6. u = Below(Path, s) \o Tail(srv.todo)
  BY <1>2
<1>7. srv' = [srv EXCEPT !.set = b, !.todo = u]
  BY <1>6
<1>8. /\ srv'.want = i /\ srv'.pc = "search" /\ ~srv'.js /\ srv'.set = b
      /\ srv'.todo = u /\ SrvTyped'
  BY <1>1, <1>2, <1>4, <1>7 DEF SrvInv, SrvTyped
<1>9. ASSUME NEW k \in 1..Len(s)
      PROVE  /\ Reached(i, Append(p, s[k]))
             /\ PassedList(i.name, Append(p, s[k])) <=> PassedList(i.name, p) \/ Lists(Query(p))
  <2>1. PICK x : x = s[k]
    OBVIOUS
  <2>2. /\ x \in Members(p)
        /\ Lists(Query(p)) /\ ~PassedList(i.name, p) =>
              \A y \in Members(p) : i.sel = "right" => x >= y
    BY <1>2, <2>1 DEF Found
  <2>3. /\ Reached(i, Append(p, x))
        /\ PassedList(i.name, Append(p, x)) <=> PassedList(i.name, p) \/ Lists(Query(p))
    BY <1>3, <2>2, ChildReached
  <2> QED  BY <2>1, <2>3
<1>10. ASSUME NEW l \in DOMAIN u PROVE Reached(i, u[l])
  <2>1. ASSUME NEW k \in 1..Len(s), u[l] = Append(p, s[k]) PROVE Reached(i, u[l])
    BY <1>9, <2>1
  <2>2. ASSUME NEW j \in 2..Len(r), u[l] = r[j] PROVE Reached(i, u[l])
    <3>1. j \in DOMAIN r
      BY <1>3
    <3> QED  BY <1>1, <1>2, <2>2, <3>1
  <2> QED  BY <1>5, <2>1, <2>2
<1>11. ASSUME NEW q \in Matches(i) PROVE Awaits(q)'
  <2>1. q \in Seq(Int) /\ Awaits(q)
    BY <1>1, <1>2
  <2>2. IsPrefix(Path, q) => Len(Path) < Len(q) /\ \E k \in 1..Len(s) : s[k] = q[Len(Path) + 1]
    BY <1>2, BelowPath
  <2>3. srv'.todo = Below(Path, s) \o Tail(srv.todo)
    BY <1>6, <1>8
  <2> QED  BY <1>1, <2>1, <2>2, <2>3, SearchedKeeps
<1>12. ASSUME i.sel = "right"
       PROVE  IF b THEN \A l \in DOMAIN u : PassedList(i.name, u[l])
                   ELSE Len(u) <= 1 /\ \A l \in DOMAIN u : ~PassedList(i.name, u[l])
  <2>1. SelectorUsed /\ b = (srv.set \/ Lists(Query(p)))
    BY <1>1, <1>2, <1>12 DEF Found
  <2>2. /\ srv.set => \A j \in DOMAIN r : PassedList(i.name, r[j])
        /\ ~srv.set => Len(r) <= 1 /\ \A j \in DOMAIN r : ~PassedList(i.name, r[j])
    BY <1>2, <2>1 DEF SelectorUsed
  <2>3. 1 \in DOMAIN r /\ \A j \in 2..Len(r) : j \in DOMAIN r
    BY <1>3
  <2>4. CASE srv.set
    <3>1. PassedList(i.name, p) /\ b
      BY <1>3, <2>1, <2>2, <2>3, <2>4
    <3>2. \A l \in DOMAIN u : PassedList(i.name, u[l])
      BY <1>5, <1>9, <2>2, <2>3, <2>4, <3>1
    <3> QED  BY <3>1, <3>2
  <2>5. CASE ~srv.set
    <3>1. Len(r) = 1 /\ ~PassedList(i.name, p)
      BY <1>3, <2>2, <2>3, <2>5
    <3>2. ASSUME NEW l \in DOMAIN u PROVE PassedList(i.name, u[l]) <=> Lists(Query(p))
      <4>1. ~\E j \in 2..Len(r) : TRUE
        BY <3>1
      <4>2. PICK k \in 1..Len(s) : u[l] = Append(p, s[k])
        BY <1>5, <4>1
      <4> QED  BY <1>9, <3>1, <4>2
    <3>3. Len(u) = Len(s)
      BY <1>3, <1>4, <3>1
    <3>4. b \/ Len(s) <= 1
      BY <1>2, <1>12
    <3> QED  BY <2>1, <2>5, <3>2, <3>3, <3>4
  <2> QED  BY <2>4, <2>5
<1>13. SearchInv' /\ JsInv' /\ FindsMatch'
  <2>1. /\ i = srv'.want /\ u = srv'.todo /\ (srv'.set <=> b)
    BY <1>8
  <2> QED  BY <1>8, <1>10, <1>11, <1>12, <2>1, SearchOn
<1> QED  BY <1>8, <1>13 DEF SrvInv

LEMMA FoundIs ==
    ASSUME Tree(coll)
    PROVE  /\ Found.data \in Seq(Int) /\ Members(Path) = ToSet(Found.data)
           /\ \A x \in Members(Path) : x \in Int
           /\ Found.type = "none" <=> Path \notin DOMAIN coll
           /\ Found.type = "file" => Len(Found.data) = 1
           /\ Found.type = "ver" => Found.data = [k \in 1..Len(Found.data) |-> k - 1]
<1>1. PICK p : p = Path
  OBVIOUS
<1>2. /\ Query(p).data \in Seq(Int) /\ \A x \in Members(p) : x \in Int
      /\ p \in DOMAIN coll <=> Query(p).type # "none"
  BY QueryIs
<1>3. /\ Query(p).type = "file" => Len(Query(p).data) = 1
      /\ Query(p).type = "ver" => Query(p).data = [k \in 1..Len(Query(p).data) |-> k - 1]
  <2>1. p \in DOMAIN coll => /\ Query(p) = coll[p]
                             /\ coll[p].type = "file" => Len(coll[p].data) = 1
                             /\ coll[p].type = "ver" => coll[p].data = [k \in 1..Len(coll[p].data) |-> k - 1]
    BY EntriesAre
  <2> QED  BY <1>2, <2>1
<1>4. Members(Path) = ToSet(Query(Path).data)
  BY DEF Members
<1> QED  BY <1>1, <1>2, <1>3, <1>4 DEF Found

LEMMA MissingKeeps ==
    ASSUME Tree(coll), coll' = coll, SrvInv, Missing
    PROVE  SrvInv'
<1>1. Cpp("none") /\ Continue(Tail(srv.todo)) /\ Found.type = "none"
  BY DEF Missing, Cpp, Searching
<1>2. \A q \in Matches(srv.want) : ~IsPrefix(Path, q)
  BY <1>1, BelowPath
<1> QED  BY <1>1, <1>2, Dropped

LEMMA SearchNothingKeeps ==
    ASSUME Tree(coll), coll' = coll, SrvInv, SearchNothing, Continue(Tail(srv.todo))
    PROVE  SrvInv'
<1>1. PICK t : t \in {"dir", "ver"} /\ Cpp(t) /\ Found.type = t
  BY DEF SearchNothing, Cpp, Searching
<1>2. Found.data = <<>> /\ Members(Path) = ToSet(Found.data)
  BY FoundIs DEF SearchNothing, OutOfRange
<1>3. Members(Path) = {}
  BY <1>2, EmptySeq DEF ToSet
<1>4. \A q \in Matches(srv.want) : ~IsPrefix(Path, q)
  BY <1>1, <1>3, BelowPath
<1> QED  BY <1>1, <1>4, Dropped

\* A segment that matches is the first one that does.
LEMMA SearchSegmentKeeps ==
    ASSUME Tree(coll), coll' = coll, SrvInv, SearchSegment
    PROVE  SrvInv'
<1>1. Cpp("seg") /\ Found.type = "seg"
  BY DEF SearchSegment, Cpp, Searching
<1>2. CASE CheckSuffix(Path, srv.want) /\ srv' = [srv EXCEPT !.pc = "fetch", !.hit = Path]
  <2>1. /\ srv.want \in Interests /\ Path \in Seq(Int) /\ Reached(srv.want, Path) /\ ~srv.js
        /\ Path = srv.todo[1] /\ DOMAIN srv.todo = 1..Len(srv.todo)
        /\ Len(srv.todo) \in Nat /\ \A q \in Matches(srv.want) : Awaits(q)
    BY <1>1, PathIs
  <2>2. Path \in DOMAIN coll
    BY <1>1, FoundIs
  <2>3. Path \in Matches(srv.want)
    BY <1>1, <1>2, <2>1, <2>2, MatchesAre DEF Found
  <2>4. ASSUME NEW q \in Matches(srv.want), q # Path PROVE Before(Path, q)
    <3>1. PICK j \in DOMAIN srv.todo :
            IsPrefix(srv.todo[j], q) /\ \A k \in 1..(j - 1) : Before(srv.todo[k], q)
      BY <2>1 DEF Awaits
    <3>2. ~IsPrefix(Path, q)
      BY <1>1, <2>4, BelowPath
    <3>3. 1 \in 1..(j - 1)
      BY <2>1, <3>1, <3>2
    <3> QED  BY <2>1, <3>1, <3>3
  <2>5. IsFirst(Path, Matches(srv.want))
    BY <2>3, <2>4 DEF IsFirst
  <2>6. srv'.pc = "fetch" /\ srv'.want = srv.want /\ srv'.hit = Path /\ ~srv'.js /\ SrvTyped'
    BY <1>2, <2>1, <2>2 DEF SrvInv, SrvTyped
  <2>7. Matches(srv.want)' = Matches(srv.want)
    BY <2>6, CollStays
  <2>8. FindsMatch'
    <3>1. IsFirst(srv'.hit, Matches(srv.want)')
      BY <2>5, <2>6, <2>7
    <3> QED  BY <2>6, <3>1 DEF FindsMatch, At, IsFirst
  <2>9. SearchInv' /\ JsInv'
    BY <2>6 DEF SearchInv, JsInv, At
  <2> QED  BY <2>6, <2>8, <2>9 DEF SrvInv
<1>3. CASE ~CheckSuffix(Path, srv.want) /\ Continue(Tail(srv.todo))
  <2>1. \A q \in Matches(srv.want) : ~IsPrefix(Path, q)
    BY <1>1, <1>3, BelowPath
  <2> QED  BY <1>1, <1>3, <2>1, Dropped
<1> QED  BY <1>2, <1>3 DEF SearchSegment

\* The current version of a file is its only child.
LEMMA SearchFileKeeps ==
    ASSUME Tree(coll), coll' = coll, SrvInv, SearchFile
    PROVE  SrvInv'
<1>1. Cpp("file") /\ Found.type = "file"
  BY DEF SearchFile, Cpp, Searching
<1>2. /\ Found.data \in Seq(Int) /\ Len(Found.data) = 1 /\ Members(Path) = ToSet(Found.data)
      /\ \A x \in Members(Path) : x \in Int
  BY <1>1, FoundIs
<1>3. PICK d, s : d = Found.data[1] /\ s = <<d>>
  OBVIOUS
<1>4. d \in Int /\ Members(Path) = {d} /\ DOMAIN Found.data = 1..1
  BY <1>2, <1>3, ElementOfSeq, LenProperties DEF ToSet
<1>5. s \in Seq(Int) /\ Len(s) = 1 /\ s[1] = d /\ DOMAIN s = 1..1
  BY <1>3, <1>4
<1>6. Below(Path, s) = <<Append(Path, d)>>
  BY <1>5 DEF Below
<1>7. srv.set \in BOOLEAN /\ srv' = [srv EXCEPT !.set = srv.set, !.todo = Below(Path, s) \o Tail(srv.todo)]
  <2>1. srv' = [srv EXCEPT !.todo = Below(Path, s) \o Tail(srv.todo)]
    BY <1>3, <1>6 DEF SearchFile, Continue
  <2> QED  BY <2>1 DEF SrvInv, SrvTyped
<1>8. ~Lists(Found)
  BY <1>1 DEF Lists
<1>9. \A q \in Matches(srv.want) : IsPrefix(Path, q) =>
        q # Path /\ \E k \in 1..Len(s) : s[k] = q[Len(Path) + 1]
  BY <1>1, <1>4, <1>5, BelowPath
<1>10. PICK b : b = srv.set
  OBVIOUS
<1>11. /\ b \in BOOLEAN /\ b = (srv.set \/ Lists(Found))
       /\ srv' = [srv EXCEPT !.set = b, !.todo = Below(Path, s) \o Tail(srv.todo)]
  BY <1>7, <1>8, <1>10
<1>12. (\A k, l \in 1..Len(s) : k < l => s[k] <= s[l]) /\ Len(s) <= 1
  BY <1>5
<1>13. \A k \in 1..Len(s) : s[k] \in Members(Path)
  BY <1>4, <1>5
<1> QED  BY <1>1, <1>5, <1>8, <1>9, <1>11, <1>12, <1>13, Stepped

LEMMA OneOf ==
    ASSUME NEW o \in Seq(Int), NEW m \in 1..Len(o)
    PROVE  SubSeq(o, m, m) \in Seq(Int) /\ Len(SubSeq(o, m, m)) = 1 /\ SubSeq(o, m, m)[1] = o[m]
<1>1. Len(o) \in Nat /\ m \in Nat /\ o[m] \in Int /\ m - m + 1 = 1
  BY LenProperties, ElementOfSeq
<1>2. \A i \in m..m : o[i] \in Int
  BY <1>1
<1> QED  BY <1>1, <1>2, SubSeqProperties

\* Which children of a list are searched, and in which order.
LEMMA ChildrenAre ==
    ASSUME NEW e, e.data \in Seq(Int), srv.want.sel \in Selectors, ~OutOfRange(e)
    PROVE  /\ Children(e) \in Seq(Int)
           /\ \A k, l \in 1..Len(Children(e)) : k < l => Children(e)[k] <= Children(e)[l]
           /\ \A k \in 1..Len(Children(e)) : Children(e)[k] \in ToSet(e.data)
           /\ ~Selects \/ srv.want.sel # "right" =>
                 \A x \in ToSet(e.data) : \E k \in 1..Len(Children(e)) : Children(e)[k] = x
           /\ Selects /\ srv.want.sel = "right" =>
                 /\ Len(Children(e)) = 1
                 /\ \A x \in ToSet(e.data) : Children(e)[1] >= x
<1> DEFINE d == e.data
           o == Ordered(d)
           n == Len(d)
<1>1. /\ o \in Seq(Int) /\ Len(o) = n /\ n \in Nat
      /\ \A i, j \in 1..n : i < j => o[i] <= o[j]
      /\ \A i \in 1..n : o[i] \in ToSet(d) /\ o[i] \in Int
      /\ \A x \in ToSet(d) : \E i \in 1..n : o[i] = x
  BY OrderedSorts, LenProperties, ElementOfSeq
<1>2. PICK c : c = Children(e)
  OBVIOUS
<1>3. CASE Selects /\ srv.want.sel = "right"
  <2>1. n \in 1..n
    <3>1. d # <<>>
      BY <1>3 DEF OutOfRange
    <3> QED  BY <1>1, <3>1, EmptySeq
  <2>2. c = SubSeq(o, n, n)
    BY <1>1, <1>2, <1>3 DEF Children
  <2> HIDE DEF o, n, d
  <2>3. c \in Seq(Int) /\ Len(c) = 1 /\ c[1] = o[n]
    BY <1>1, <2>1, <2>2, OneOf
  <2>4. \A x \in ToSet(d) : o[n] >= x
    <3> TAKE x \in ToSet(d)
    <3>1. PICK i \in 1..n : o[i] = x
      BY <1>1
    <3>2. i = n \/ i < n
      BY <1>1
    <3> QED  BY <1>1, <2>1, <3>1, <3>2
  <2> QED  BY <1>1, <1>2, <1>3, <2>1, <2>3, <2>4 DEF d
<1>4. CASE ~Selects \/ srv.want.sel # "right"
  <2>1. c = o
    BY <1>2, <1>4 DEF Children
  <2> HIDE DEF o, n, d
  <2> QED  BY <1>1, <1>2, <1>4, <2>1 DEF d
<1> QED  BY <1>3, <1>4

\* The children of a list are searched in order, and the selector cuts only
\* what does not match.
LEMMA SearchListKeeps ==
    ASSUME Tree(coll), coll' = coll, SrvInv, SearchList
    PROVE  SrvInv'
<1>1. PICK t : t \in {"dir", "ver"} /\ Cpp(t) /\ Found.type = t
  BY DEF SearchList, Cpp, Searching
<1>2. /\ Found.data \in Seq(Int) /\ Members(Path) = ToSet(Found.data) /\ Lists(Found)
      /\ \A x \in Members(Path) : x \in Int
  BY <1>1, FoundIs DEF Lists
<1>3. PICK s : s = Children(Found)
  OBVIOUS
<1>4. PICK i, p : i = srv.want /\ p = Path
  OBVIOUS
<1>5. /\ i \in Interests /\ i.sel \in Selectors /\ i.name \in Seq(Int) /\ Len(i.name) \in Nat
      /\ p \in Seq(Int) /\ Len(p) \in Nat /\ Len(i.name) <= Len(p)
      /\ i.sel = "right" => SelectorUsed
      /\ srv.todo # <<>> /\ DOMAIN srv.todo = 1..Len(srv.todo) /\ Len(srv.todo) \in Nat \ {0}
      /\ p = srv.todo[1]
  BY <1>1, <1>4, PathIs, LenProperties DEF Interests
<1>6. Selects \in BOOLEAN /\ srv.set \in BOOLEAN /\ Selects = (~srv.set /\ i.sel # "left")
  BY <1>4 DEF Selects, SrvInv, SrvTyped
<1>7. /\ s \in Seq(Int)
      /\ \A k, l \in 1..Len(s) : k < l => s[k] <= s[l]
      /\ \A k \in 1..Len(s) : s[k] \in Members(p)
      /\ ~Selects \/ i.sel # "right" => \A x \in Members(p) : \E k \in 1..Len(s) : s[k] = x
      /\ Selects /\ i.sel = "right" => Len(s) = 1 /\ \A x \in Members(p) : s[1] >= x
  <2>1. PICK e : e = Found
    OBVIOUS
  <2>2. e.data \in Seq(Int) /\ srv.want.sel \in Selectors /\ ~OutOfRange(e)
    BY <1>2, <1>4, <1>5, <2>1 DEF SearchList
  <2>3. PICK c, d : c = Children(e) /\ d = ToSet(e.data)
    OBVIOUS
  <2>4. /\ c \in Seq(Int)
        /\ \A k, l \in 1..Len(c) : k < l => c[k] <= c[l]
        /\ \A k \in 1..Len(c) : c[k] \in d
        /\ ~Selects \/ srv.want.sel # "right" => \A x \in d : \E k \in 1..Len(c) : c[k] = x
        /\ Selects /\ srv.want.sel = "right" => Len(c) = 1 /\ \A x \in d : c[1] >= x
    BY <2>2, <2>3, ChildrenAre
  <2>5. c = s /\ d = Members(p) /\ i = srv.want
    BY <1>2, <1>3, <1>4, <2>1, <2>3
  <2> QED  BY <2>4, <2>5
<1>8. PICK b \in BOOLEAN : b = (srv.set \/ Selects)
  BY <1>6
<1>9. srv' = [srv EXCEPT !.set = b, !.todo = Below(Path, s) \o Tail(srv.todo)]
  BY <1>3, <1>8 DEF SearchList, Below
<1>10. ASSUME NEW k \in 1..Len(s), ~PassedList(i.name, p)
       PROVE  \A y \in Members(p) : i.sel = "right" => s[k] >= y
  <2>1. CASE i.sel = "right"
    <3>1. ~srv.set
      BY <1>4, <1>5, <1>10, <2>1 DEF SelectorUsed
    <3>2. Selects
      BY <1>6, <2>1, <3>1
    <3>3. Len(s) = 1 /\ \A x \in Members(p) : s[1] >= x
      BY <1>7, <2>1, <3>2
    <3>4. k = 1
      BY <3>3
    <3> QED  BY <3>3, <3>4
  <2>2. CASE i.sel # "right"
    BY <2>2
  <2> QED  BY <2>1, <2>2
<1>11. ASSUME NEW q \in Matches(i), IsPrefix(p, q)
       PROVE  q # p /\ \E k \in 1..Len(s) : s[k] = q[Len(p) + 1]
  <2>1. q # p /\ Len(p) < Len(q) /\ q[Len(p) + 1] \in Members(p)
    BY <1>1, <1>4, <1>11, BelowPath
  <2>2. /\ q \in DOMAIN coll /\ q \in Seq(Int) /\ Reached(i, q) /\ Len(q) \in Nat
    BY <1>5, MatchesAre, LenProperties
  <2>3. CASE ~Selects \/ i.sel # "right"
    BY <1>7, <2>1, <2>3
  <2>4. CASE Selects /\ i.sel = "right"
    <3>1. SubSeq(q, 1, Len(p)) = p
      BY <1>5, <1>11, <2>1, <2>2, PrefixStep
    <3>2. ~srv.set /\ ~PassedList(i.name, p)
      BY <1>4, <1>5, <2>4 DEF SelectorUsed, Selects
    <3>3. \A j \in Len(i.name)..(Len(p) - 1) : SubSeq(q, 1, j) = SubSeq(p, 1, j)
      <4>1. \A k \in 1..Len(p) : p[k] = q[k]
        BY <1>5, <1>11, <2>2, PrefixIs
      <4> TAKE j \in Len(i.name)..(Len(p) - 1)
      <4>2. j \in Nat /\ j <= Len(p) /\ j <= Len(q)
        <5>1. PICK m, h, l : m = Len(i.name) /\ h = Len(p) /\ l = Len(q)
          OBVIOUS
        <5>2. m \in Nat /\ h \in Nat /\ l \in Nat /\ h < l /\ j \in m..(h - 1)
          BY <1>5, <2>1, <2>2, <5>1
        <5>3. j \in Nat /\ j <= h /\ j <= l
          BY <5>2
        <5> QED  BY <5>1, <5>3
      <4>3. \A k \in 1..j : k \in 1..Len(p)
        BY <1>5, <4>2
      <4>4. \A k \in 1..j : q[k] = p[k]
        BY <4>1, <4>3
      <4> QED  BY <1>5, <2>2, <4>2, <4>4, PartsAre
    <3>4. IsFirstList(i.name, q, Len(p))
      <4>1. Lists(Query(p))
        BY <1>2, <1>4 DEF Found
      <4> QED  BY <3>1, <3>2, <3>3, <4>1 DEF IsFirstList, PassedList
    <3>5. Len(p) \in Len(i.name)..(Len(q) - 1)
      BY <1>5, <2>1, <2>2
    <3>6. \A x \in Members(p) : q[Len(p) + 1] >= x
      BY <2>2, <2>4, <3>1, <3>4, <3>5 DEF Reached, Selected
    <3>7. Len(s) = 1 /\ s[1] \in Members(p) /\ 1 \in 1..Len(s)
      BY <1>7, <2>4
    <3>8. s[1] = q[Len(p) + 1]
      <4>1. s[1] \in Int /\ q[Len(p) + 1] \in Int
        BY <1>2, <1>4, <2>1, <3>7
      <4> QED  BY <1>7, <2>1, <2>4, <3>6, <3>7, <4>1
    <3> QED  BY <2>1, <3>7, <3>8
  <2> QED  BY <2>3, <2>4
<1>12. \A k \in 1..Len(s) :
         /\ s[k] \in Members(Path)
         /\ Lists(Found) /\ ~PassedList(srv.want.name, Path) =>
               \A y \in Members(Path) : srv.want.sel = "right" => s[k] >= y
  BY <1>4, <1>7, <1>10
<1>13. \A q \in Matches(srv.want) : IsPrefix(Path, q) =>
         q # Path /\ \E k \in 1..Len(s) : s[k] = q[Len(Path) + 1]
  BY <1>4, <1>11
<1>14. srv.want.sel = "right" => b = (srv.set \/ Lists(Found)) /\ (b \/ Len(s) <= 1)
  <2>1. Lists(Found) = TRUE
    BY <1>2 DEF Lists
  <2> QED  BY <1>4, <1>6, <1>8, <2>1
<1> QED  BY <1>1, <1>7, <1>9, <1>12, <1>13, <1>14, Stepped

-----------------------------------------------------------------------------
(* The JavaScript server.                                                    *)

\* What is left to show of a step after which it queries c.
LEMMA JsOn ==
    ASSUME coll' = coll, srv'.pc = "search", srv'.js, NEW c, srv'.todo = <<c>>,
           NEW n, n = srv'.want.name,
           Query(n).type # "dir" =>
              /\ Query(c).type # "dir"
              /\ Query(c).type # "none" => IsPrefix(n, c) /\ Leads(n, c)
              /\ \A q \in Matches(Plain(n)) : IsPrefix(c, q) \/ Before(c, q)
    PROVE  SearchInv' /\ JsInv' /\ FindsMatch'
<1>1. SearchInv'
  BY DEF SearchInv
<1>2. srv'.todo # <<>> /\ Head(srv'.todo) = c
  BY EmptySeq
<1>3. FindsMatch'
  BY <1>2 DEF FindsMatch, At
<1>4. PICK e, f, m : e = Query(n) /\ f = Query(c) /\ m = Matches(Plain(n))
  OBVIOUS
<1>5. Query(srv.want.name)' = e
  BY <1>4, CollStays DEF Query
<1>6. Found' = f
  BY <1>2, <1>4, CollStays DEF Query, Found, Path
<1>7. Matches(Plain(srv.want.name))' = m
  <2>1. Matches(Plain(n))' = m
    BY <1>4, CollStays
  <2>2. Plain(srv.want.name)' = Plain(n)
    BY DEF Plain, Interest
  <2> QED  BY <2>1, <2>2
<1>8. Leads(srv.want.name, Path)' <=> Leads(n, c)
  BY <1>2 DEF Leads, Members, Query, Path
<1>9. Path' = c
  BY <1>2 DEF Path
<1>10. JsInv'
  BY <1>4, <1>5, <1>6, <1>7, <1>8, <1>9 DEF JsInv, At
<1> QED  BY <1>1, <1>3, <1>10

LEMMA PlainIs ==
    ASSUME NEW n \in Seq(Int)
    PROVE  /\ Plain(n) \in Interests /\ Plain(n).name = n /\ Plain(n).sel = "left"
           /\ \A p : Reached(Plain(n), p) <=> IsPrefix(n, p) /\ Leads(n, p)
<1>1. Plain(n) \in Interests /\ Plain(n).name = n /\ Plain(n).sel = "left"
  BY DEF Plain, Interest, Interests, Selectors, ncomps
<1> QED  BY <1>1 DEF Reached, Selected

\* The first child of a file or of a version is there, or there is none.
LEMMA JsChildIs ==
    ASSUME Tree(coll), NEW p \in DOMAIN coll, coll[p].type \in {"file", "ver"},
           NEW n \in Seq(Int), IsPrefix(n, p), Leads(n, p)
    PROVE  LET c == JsChild(p, JsFirst(coll[p]))
           IN  /\ c \in Seq(Int) /\ Query(c).type # "dir"
               /\ Query(c).type # "none" => IsPrefix(n, c) /\ Leads(n, c)
               /\ \A q \in Matches(Plain(n)) : IsPrefix(p, q) => IsPrefix(c, q) \/ Before(c, q)
<1> DEFINE d == coll[p].data
           x == JsFirst(coll[p])
           c == JsChild(p, x)
<1>1. /\ p \in Seq(Int) /\ Query(p) = coll[p] /\ d \in Seq(Int) /\ Len(d) \in Nat
      /\ coll[p].type = "file" => Len(d) = 1
      /\ coll[p].type = "ver" => d = [k \in 1..Len(d) |-> k - 1]
  BY EntriesAre, LenProperties
<1>2. DOMAIN d = 1..Len(d) /\ Members(p) = ToSet(d) /\ \A k \in 1..Len(d) : d[k] \in Int
  BY <1>1, LenProperties, ElementOfSeq DEF Members
<1>3. p # <<>>
  BY DEF Tree
<1>4. x \in Int /\ c = Append(p, x)
  <2>1. x \in Int
    <3>1. CASE d = <<>>
      BY <3>1 DEF JsFirst, NoName
    <3>2. CASE d # <<>>
      <4>1. 1 \in 1..Len(d)
        BY <1>1, <3>2, EmptySeq
      <4> QED  BY <1>2, <3>2, <4>1 DEF JsFirst
    <3> QED  BY <3>1, <3>2
  <2> QED  BY <1>3, <2>1 DEF JsChild
<1>5. /\ c \in Seq(Int) /\ Len(c) = Len(p) + 1 /\ c[Len(p) + 1] = x
      /\ \A q \in Seq(Int) : IsPrefix(p, q) /\ Len(q) > Len(p) /\ x < q[Len(p) + 1] => Before(c, q)
  BY <1>1, <1>4, ChildIs
<1>6. CASE d = <<>>
  <2>1. x = NoName
    BY <1>6 DEF JsFirst
  <2>2. Query(c).type = "none"
    <3>1. ASSUME c \in DOMAIN coll PROVE FALSE
      <4>1. c \in Seq(Int \ {NoName})
        BY <3>1 DEF Tree
      <4>2. Len(p) + 1 \in 1..Len(c)
        BY <1>1, <1>5, LenProperties
      <4> HIDE DEF c
      <4>3. c[Len(p) + 1] \in Int \ {NoName}
        BY <4>1, <4>2, ElementOfSeq
      <4> QED  BY <1>5, <2>1, <4>3
    <3> HIDE DEF c
    <3> QED  BY <3>1, NothingIs DEF Query
  <2>3. \A q \in Matches(Plain(n)) : ~IsPrefix(p, q)
    <3> SUFFICES ASSUME NEW q \in Matches(Plain(n)), IsPrefix(p, q) PROVE FALSE
      OBVIOUS
    <3>1. q \in DOMAIN coll /\ Query(q).type = "seg" /\ Leads(n, q)
      BY PlainIs, MatchesAre DEF Reached
    <3>2. q # p
      BY <1>1, <3>1
    <3>3. q[Len(p) + 1] \in Members(p)
      BY <1>1, <3>1, <3>2, WayIs, PrefixIs
    <3> QED  BY <1>2, <1>6, <3>3, EmptySeq DEF ToSet
  <2> HIDE DEF c
  <2> QED  BY <1>5, <2>2, <2>3 DEF c, x
<1>7. CASE d # <<>>
  <2>1. 1 \in 1..Len(d) /\ x = d[1]
    <3>1. 1 \in 1..Len(d)
      BY <1>1, <1>7, EmptySeq
    <3> QED  BY <1>7, <3>1 DEF JsFirst
  <2>2. x \in Members(p)
    BY <1>2, <2>1 DEF ToSet
  <2>3. IsPrefix(n, c) /\ Leads(n, c)
    <3>1. PICK i : i = Plain(n)
      OBVIOUS
    <3>2. i \in Interests /\ i.name = n /\ i.sel = "left" /\ \A r : Reached(i, r) <=> IsPrefix(n, r) /\ Leads(n, r)
      BY <3>1, PlainIs
    <3>3. Reached(i, p)
      BY <3>2
    <3> HIDE DEF x
    <3>4. Reached(i, Append(p, x))
      BY <1>1, <2>2, <3>2, <3>3, ChildReached
    <3> QED  BY <1>4, <3>2, <3>4
  <2>4. Query(c).type # "dir"
    <3>1. c \in DOMAIN coll => coll[c].type \in Holds[coll[p].type]
      BY <1>2, <1>4, <2>2 DEF Tree
    <3> HIDE DEF c
    <3> QED  BY <3>1, NothingIs DEF Query, Holds
  <2>5. ASSUME NEW q \in Matches(Plain(n)), IsPrefix(p, q) PROVE IsPrefix(c, q) \/ Before(c, q)
    <3>1. q \in DOMAIN coll /\ q \in Seq(Int) /\ Query(q).type = "seg" /\ Leads(n, q)
      BY PlainIs, MatchesAre DEF Reached
    <3>2. q # p /\ Len(n) <= Len(p)
      BY <1>1, <3>1, PrefixIs
    <3>3. PICK y : y = q[Len(p) + 1]
      OBVIOUS
    <3>4. y \in Members(p) /\ y \in Int /\ Len(p) < Len(q) /\ IsPrefix(Append(p, y), q)
      BY <1>1, <2>5, <3>1, <3>2, <3>3, WayIs
    <3>5. x <= y
      <4>1. PICK k \in 1..Len(d) : d[k] = y
        BY <1>2, <3>4 DEF ToSet
      <4>2. CASE coll[p].type = "file"
        <5>1. k = 1
          BY <1>1, <4>1, <4>2
        <5> QED  BY <2>1, <3>4, <4>1, <5>1
      <4>3. CASE coll[p].type = "ver"
        <5>1. d = [l \in 1..Len(d) |-> l - 1]
          BY <1>1, <4>3
        <5>2. d[1] = 0 /\ d[k] = k - 1
          BY <2>1, <5>1
        <5> QED  BY <2>1, <4>1, <5>2
      <4> QED  BY <4>2, <4>3
    <3> HIDE DEF x, c
    <3>6. CASE x = y
      BY <1>4, <3>4, <3>6
    <3>7. CASE x # y
      <4>1. x < y /\ Len(q) > Len(p)
        BY <1>1, <1>4, <3>1, <3>4, <3>5, <3>7, LenProperties
      <4> QED  BY <1>5, <2>5, <3>1, <3>3, <4>1
    <3> QED  BY <3>6, <3>7
  <2> HIDE DEF c
  <2> QED  BY <1>5, <2>3, <2>4, <2>5 DEF c, x
<1> QED  BY <1>6, <1>7

LEMMA JsDescendKeeps ==
    ASSUME Tree(coll), coll' = coll, SrvInv, JsDescend
    PROVE  SrvInv'
<1>1. PICK t : t \in {"dir", "file", "ver"} /\ Found.type = t /\ Js(t)
  BY DEF JsDescend, Js, Searching
<1>2. PICK n, p : n = srv.want.name /\ p = Path
  OBVIOUS
<1>3. n \in Seq(Int) /\ srv.pc = "search" /\ srv.js /\ srv.todo = <<p>> /\ srv.todo \in Seq(Seq(Int))
  BY <1>1, <1>2 DEF SrvInv, SrvTyped, Interests, Js, Searching, At, JsInv
<1>4. p \in Seq(Int)
  <2>1. 1 \in 1..Len(srv.todo) /\ srv.todo[1] = p
    BY <1>3
  <2> QED  BY <1>3, <2>1, ElementOfSeq
<1>5. Query(p) = Found /\ p \in DOMAIN coll /\ Query(p) = coll[p] /\ coll[p].type = t
  <2>1. Query(p) = Found
    BY <1>2 DEF Found
  <2> QED  BY <1>1, <2>1, QueryIs
<1>6. PICK c : c = JsChild(p, JsFirst(coll[p]))
  OBVIOUS
<1>7. c \in Seq(Int)
  <2> DEFINE d == coll[p].data
  <2>1. d \in Seq(Int) /\ Len(d) \in Nat
    BY <1>5, EntriesAre, LenProperties
  <2>2. JsFirst(coll[p]) \in Int
    <3>1. CASE d = <<>>
      BY <3>1 DEF JsFirst, NoName
    <3>2. CASE d # <<>>
      <4>1. 1 \in 1..Len(d)
        BY <2>1, <3>2, EmptySeq
      <4>2. d[1] \in Int
        BY <2>1, <4>1, ElementOfSeq
      <4> QED  BY <3>2, <4>2 DEF JsFirst
    <3> QED  BY <3>1, <3>2
  <2>3. PICK x : x = JsFirst(coll[p])
    OBVIOUS
  <2>4. x \in Int /\ NoName \in Int
    BY <2>2, <2>3 DEF NoName
  <2>5. Append(p, x) \in Seq(Int) /\ <<NoName, x>> \in Seq(Int)
    BY <1>4, <2>4, AppendProperties
  <2> QED  BY <1>6, <2>3, <2>5 DEF JsChild
<1>8. /\ srv'.want = srv.want /\ srv'.pc = "search" /\ srv'.js /\ srv'.todo = <<c>> /\ SrvTyped'
  <2>1. srv' = [srv EXCEPT !.todo = <<c>>]
    BY <1>2, <1>5, <1>6 DEF JsDescend, Continue
  <2>2. <<c>> \in Seq(Seq(Int))
    BY <1>7
  <2> QED  BY <1>3, <2>1, <2>2 DEF SrvInv, SrvTyped
<1>9. ASSUME Query(n).type # "dir"
      PROVE  /\ Query(c).type # "dir"
             /\ Query(c).type # "none" => IsPrefix(n, c) /\ Leads(n, c)
             /\ \A q \in Matches(Plain(n)) : IsPrefix(c, q) \/ Before(c, q)
  <2>1. /\ Query(p).type # "dir" /\ IsPrefix(n, p) /\ Leads(n, p)
        /\ \A q \in Matches(Plain(n)) : IsPrefix(p, q) \/ Before(p, q)
    <3>1. Query(srv.want.name).type # "dir" /\ Found.type # "none"
      BY <1>1, <1>2, <1>9
    <3> QED  BY <1>2, <1>3, <1>5, <3>1 DEF SrvInv, JsInv, At
  <2>2. coll[p].type \in {"file", "ver"}
    BY <1>1, <1>5, <2>1
  <2>3. /\ Query(c).type # "dir"
        /\ Query(c).type # "none" => IsPrefix(n, c) /\ Leads(n, c)
        /\ \A q \in Matches(Plain(n)) : IsPrefix(p, q) => IsPrefix(c, q) \/ Before(c, q)
    BY <1>3, <1>5, <1>6, <2>1, <2>2, JsChildIs
  <2>4. ASSUME NEW q \in Matches(Plain(n)), Before(p, q) PROVE Before(c, q)
    <3>1. q \in Seq(Int) /\ p # <<>>
      <4>1. q \in Seq(Int)
        BY <1>3, PlainIs, MatchesAre
      <4> QED  BY <1>5, <2>2, <4>1 DEF Tree
    <3>2. PICK x : x = JsFirst(coll[p])
      OBVIOUS
    <3>3. c = Append(p, x)
      BY <1>6, <3>1, <3>2 DEF JsChild
    <3>4. PICK k \in 1..Len(p) : k <= Len(q) /\ p[k] < q[k] /\ \A j \in 1..(k - 1) : p[j] = q[j]
      BY <2>4 DEF Before
    <3>5. Len(p) \in Nat /\ Len(c) = Len(p) + 1 /\ \A j \in 1..Len(p) : c[j] = p[j]
      BY <1>4, <3>3, LenProperties
    <3>6. k \in 1..Len(c) /\ c[k] < q[k] /\ \A j \in 1..(k - 1) : c[j] = q[j]
      BY <3>4, <3>5
    <3> QED  BY <3>4, <3>6 DEF Before
  <2> QED  BY <2>1, <2>3, <2>4
<1>10. SearchInv' /\ JsInv' /\ FindsMatch'
  <2>1. n = srv'.want.name
    BY <1>2, <1>8
  <2> QED  BY <1>8, <1>9, <2>1, JsOn
<1> QED  BY <1>8, <1>10 DEF SrvInv

-----------------------------------------------------------------------------
(* All steps.                                                                *)

LEMMA NotSearching ==
    ASSUME coll' = coll, SrvInv, srv' \in {Idle, [Idle EXCEPT !.pc = "down"]}
    PROVE  SrvInv'
<1>1. srv'.pc \in {"idle", "down"} /\ SrvTyped'
  <2>1. PICK w, e : w = Plain(<<>>) /\ e = <<>>
    OBVIOUS
  <2>2. w \in Interests /\ e \in Seq(Seq(Int)) /\ e \in Seq(Int)
    BY <2>1, PlainIs, EmptySeq
  <2>3. srv' \in [pc : {"idle", "down"}, js : {FALSE}, want : {w}, todo : {e}, set : {FALSE}, hit : {e}]
    <3>1. Idle = [pc |-> "idle", js |-> FALSE, want |-> w, todo |-> e, set |-> FALSE, hit |-> e]
      BY <2>1 DEF Idle
    <3>2. CASE srv' = Idle
      BY <3>1, <3>2
    <3>3. CASE srv' = [Idle EXCEPT !.pc = "down"]
      BY <3>1, <3>3
    <3> QED  BY <3>2, <3>3
  <2> QED  BY <2>1, <2>2, <2>3 DEF SrvTyped
<1> QED  BY <1>1 DEF SrvInv, SearchInv, JsInv, FindsMatch, At

SrvStep == Search \/ JsSearch \/ FetchData \/ JsSend

\* A server works on what it was asked for until it is done.
LEMMA SrvStepIs ==
    ASSUME SrvTyped, SrvStep
    PROVE  srv.pc \in {"search", "fetch"} /\ (srv'.want = srv.want \/ srv'.pc \in {"idle", "down"})
<1>1. srv.pc \in {"search", "fetch"}
  BY DEF SrvStep, Search, JsSearch, Missing, SearchList, SearchNothing, SearchFile, SearchSegment, NoMatch,
         FetchNull, FetchCut, FetchData, JsMissing, JsDescend, JsCut, JsSend, At, Cpp, Js, Searching
<1>2. ASSUME End \/ Die PROVE srv'.pc \in {"idle", "down"}
  BY <1>2 DEF End, Die, Idle
<1>3. ASSUME NEW t, Continue(t) PROVE srv'.want = srv.want
  BY <1>3 DEF Continue, SrvTyped
<1>4. ASSUME SearchList PROVE srv'.want = srv.want
  BY <1>4 DEF SearchList, SrvTyped
<1>5. ASSUME SearchSegment PROVE srv'.want = srv.want
  <2>1. \/ srv' = [srv EXCEPT !.pc = "fetch", !.hit = Path]
        \/ Continue(Tail(srv.todo))
    BY <1>5 DEF SearchSegment
  <2> QED  BY <1>3, <2>1 DEF SrvTyped
<1>6. SearchList \/ SearchSegment \/ End \/ Die \/ \E t : Continue(t)
  BY DEF SrvStep, Search, JsSearch, Missing, SearchNothing, SearchFile, NoMatch,
         FetchNull, FetchCut, FetchData, JsMissing, JsDescend, JsCut, JsSend
<1> QED  BY <1>1, <1>2, <1>3, <1>4, <1>5, <1>6

LEMMA SrvKeeps ==
    ASSUME Tree(coll), coll' = coll, SrvInv, SrvStep
    PROVE  SrvInv'
<1>1. CASE NoMatch \/ FetchData \/ FetchNull \/ FetchCut \/ JsMissing \/ JsSend \/ JsCut
  <2>1. End \/ Die
    BY <1>1 DEF NoMatch, FetchData, FetchNull, FetchCut, JsMissing, JsSend, JsCut
  <2>2. srv' \in {Idle, [Idle EXCEPT !.pc = "down"]}
    BY <2>1 DEF End, Die
  <2> QED  BY <2>2, NotSearching
<1>2. CASE Missing
  BY <1>2, MissingKeeps
<1>3. CASE SearchList
  BY <1>3, SearchListKeeps
<1>4. CASE SearchNothing
  <2>1. CASE Die
    <3>1. srv' \in {Idle, [Idle EXCEPT !.pc = "down"]}
      BY <2>1 DEF Die
    <3> QED  BY <3>1, NotSearching
  <2>2. CASE Continue(Tail(srv.todo))
    BY <1>4, <2>2, SearchNothingKeeps
  <2> QED  BY <1>4, <2>1, <2>2 DEF SearchNothing
<1>5. CASE SearchFile
  BY <1>5, SearchFileKeeps
<1>6. CASE SearchSegment
  BY <1>6, SearchSegmentKeeps
<1>7. CASE JsDescend
  BY <1>7, JsDescendKeeps
<1> QED  BY <1>1, <1>2, <1>3, <1>4, <1>5, <1>6, <1>7 DEF SrvStep, Search, JsSearch

\* The interest as the server sees it differs in its selector only.
Started(w, js) == [Idle EXCEPT !.pc = "search", !.js = js, !.want = w, !.todo = <<w.name>>]
SeenFor(i) == {w \in Interests : /\ w.name = i.name /\ w.min = i.min /\ w.max = i.max
                                 /\ w.sel \in ChildSelector(i)}
LEMMA SeenAs ==
    ASSUME NEW i \in Interests, NEW js, OnInterest(i, js)
    PROVE  \E w \in SeenFor(i) : srv' = Started(w, js)
<1>1. PICK s \in {i.sel, "left"} :
         srv' = [Idle EXCEPT !.pc = "search", !.js = js, !.want = [i EXCEPT !.sel = s],
                             !.todo = <<i.name>>]
  BY DEF OnInterest, ChildSelector
<1>2. PICK w : w = [i EXCEPT !.sel = s]
  OBVIOUS
<1>3. /\ w \in Interests /\ w.name = i.name /\ w.min = i.min /\ w.max = i.max /\ w.sel = s
  BY <1>2 DEF Interests, Selectors
<1>4. w \in SeenFor(i)
  BY <1>3 DEF SeenFor, ChildSelector
<1>5. srv' = Started(w, js)
  BY <1>1, <1>2, <1>3 DEF Started
<1> QED  BY <1>4, <1>5

LEMMA SrvStarts ==
    ASSUME Tree(coll), coll' = coll, SrvInv, NEW asked \in Interests, NEW js \in BOOLEAN,
           OnInterest(asked, js)
    PROVE  SrvInv'
<1>0. PICK i \in SeenFor(asked) : srv' = Started(i, js)
  BY SeenAs
<1>1. i \in Interests /\ i.name \in Seq(Int) /\ Len(i.name) \in Nat
  BY <1>0, LenProperties DEF SeenFor, Interests
<1>2. PICK n, u : n = i.name /\ u = <<n>>
  OBVIOUS
<1>3. n \in Seq(Int) /\ u \in Seq(Seq(Int)) /\ Len(u) = 1 /\ DOMAIN u = {1} /\ u[1] = n /\ Len(n) \in Nat
  BY <1>1, <1>2
<1>4. /\ srv'.pc = "search" /\ srv'.js = js /\ srv'.want = i /\ srv'.todo = u /\ srv'.set = FALSE
      /\ SrvTyped'
  <2>1. srv' = [Idle EXCEPT !.pc = "search", !.js = js, !.want = i, !.todo = u]
    BY <1>0, <1>2 DEF Started
  <2> QED  BY <1>1, <1>3, <2>1, EmptySeq DEF Idle, SrvTyped
<1>5. IsPrefix(n, n) /\ Leads(n, n) /\ Reached(i, n) /\ ~PassedList(n, n)
  <2>1. IsPrefix(n, n)
    BY <1>3, PrefixIs
  <2>2. \A k \in Len(n)..(Len(n) - 1) : FALSE
    BY <1>3
  <2> QED  BY <1>2, <2>1, <2>2 DEF Leads, Reached, Selected, PassedList
<1>6. CASE ~js
  <2>1. \A j \in DOMAIN u : Reached(i, u[j])
    BY <1>3, <1>5
  <2>2. \A q \in Matches(i) : Awaits(q)'
    <3> TAKE q \in Matches(i)
    <3>1. IsPrefix(n, q)
      BY <1>2 DEF Matches
    <3>2. \E j \in DOMAIN u : IsPrefix(u[j], q) /\ \A k \in 1..(j - 1) : Before(u[k], q)
      BY <1>3, <3>1
    <3> QED  BY <1>4, <3>2 DEF Awaits, Before
  <2>3. Len(u) <= 1 /\ \A j \in DOMAIN u : ~PassedList(i.name, u[j])
    BY <1>2, <1>3, <1>5
  <2>4. SearchInv' /\ JsInv' /\ FindsMatch'
    BY <1>4, <1>6, <2>1, <2>2, <2>3, SearchOn
  <2> QED  BY <1>4, <2>4 DEF SrvInv
<1>7. CASE js
  <2>1. \A q \in Matches(Plain(n)) : IsPrefix(n, q)
    BY <1>3, PlainIs DEF Matches
  <2>2. n = srv'.want.name /\ srv'.todo = <<n>> /\ srv'.js /\ srv'.pc = "search"
    BY <1>2, <1>4, <1>7
  <2>3. SearchInv' /\ JsInv' /\ FindsMatch'
    BY <1>5, <2>1, <2>2, JsOn
  <2> QED  BY <1>4, <2>3 DEF SrvInv
<1> QED  BY <1>6, <1>7

LEMMA SrvInitially ==
    ASSUME SInit
    PROVE  SrvInv
<1>1. srv.pc = "idle" /\ SrvTyped
  <2>1. Plain(<<>>) \in Interests
    BY PlainIs, EmptySeq
  <2> QED  BY <2>1, EmptySeq DEF SInit, Idle, SrvTyped
<1> QED  BY <1>1 DEF SrvInv, SearchInv, JsInv, FindsMatch, At

LEMMA SrvStays ==
    ASSUME coll' = coll, srv' = srv, SrvInv
    PROVE  SrvInv'
<1>1. SrvTyped'
  BY DEF SrvInv, SrvTyped
<1>2. PICK i, n, u : i = srv.want /\ n = i.name /\ u = srv.todo
  OBVIOUS
<1>3. SearchInv /\ JsInv /\ FindsMatch
  BY DEF SrvInv
<1>4. CASE srv.pc = "search" /\ ~srv.js
  <2>1. /\ \A j \in DOMAIN u : Reached(i, u[j])
        /\ \A q \in Matches(i) : Awaits(q)
        /\ i.sel = "right" => SelectorUsed
    BY <1>2, <1>3, <1>4 DEF SearchInv, At
  <2>2. \A q \in Matches(i) : Awaits(q)'
    BY <2>1 DEF Awaits, Before
  <2>3. SelectorUsed => IF srv'.set THEN \A j \in DOMAIN u : PassedList(i.name, u[j])
                                   ELSE Len(u) <= 1 /\ \A j \in DOMAIN u : ~PassedList(i.name, u[j])
    BY <1>2 DEF SelectorUsed
  <2>4. i = srv'.want /\ srv'.pc = "search" /\ ~srv'.js /\ u = srv'.todo
    BY <1>2, <1>4
  <2>5. SearchInv' /\ JsInv' /\ FindsMatch'
    BY <2>1, <2>2, <2>3, <2>4, SearchOn
  <2> QED  BY <1>1, <2>5 DEF SrvInv
<1>5. CASE srv.pc = "search" /\ srv.js
  <2>1. PICK c : c = Path
    OBVIOUS
  <2>2. u = <<c>>
    BY <1>2, <1>3, <1>5, <2>1 DEF JsInv, At
  <2>3. Query(n).type # "dir" =>
           /\ Query(c).type # "dir"
           /\ Query(c).type # "none" => IsPrefix(n, c) /\ Leads(n, c)
           /\ \A q \in Matches(Plain(n)) : IsPrefix(c, q) \/ Before(c, q)
    BY <1>2, <1>3, <1>5, <2>1 DEF JsInv, At, Found
  <2>4. n = srv'.want.name /\ srv'.pc = "search" /\ srv'.js /\ srv'.todo = <<c>>
    BY <1>2, <1>5, <2>2
  <2>5. SearchInv' /\ JsInv' /\ FindsMatch'
    BY <2>3, <2>4, JsOn
  <2> QED  BY <1>1, <2>5 DEF SrvInv
<1>6. CASE srv.pc # "search"
  <2>1. SearchInv' /\ JsInv'
    BY <1>6 DEF SearchInv, JsInv, At
  <2>2. Matches(srv.want)' = Matches(srv.want)
    BY CollStays
  <2>3. FindsMatch'
    BY <1>3, <1>6, <2>2 DEF FindsMatch, At, IsFirst
  <2> QED  BY <1>1, <2>1, <2>3 DEF SrvInv
<1> QED  BY <1>4, <1>5, <1>6

-----------------------------------------------------------------------------
(* What is sent.                                                             *)

LEMMA SentIs ==
    ASSUME Tree(coll), SrvInv
    PROVE  /\ FetchData => srv.hit \in DOMAIN coll
           /\ JsSend => Path \in DOMAIN coll
<1>1. ASSUME FetchData PROVE srv.hit \in DOMAIN coll
  BY <1>1 DEF FetchData, SrvInv, FindsMatch, IsFirst, Matches
<1>2. ASSUME JsSend PROVE Path \in DOMAIN coll
  BY <1>2, FoundIs DEF JsSend, Js, Searching
<1> QED  BY <1>1, <1>2

\* The segment the JavaScript server sends is the first one below the name.
LEMMA JsSendsFirst ==
    ASSUME Tree(coll), SrvInv, Js("seg"), Query(srv.want.name).type # "dir"
    PROVE  IsFirst(Path, Matches(Plain(srv.want.name)))
<1>1. PICK n, p, i : n = srv.want.name /\ p = Path /\ i = Plain(n)
  OBVIOUS
<1>2. n \in Seq(Int) /\ Query(p).type = "seg" /\ p \in DOMAIN coll
  BY <1>1, FoundIs DEF SrvInv, SrvTyped, Interests, Js, Searching, Found
<1>3. /\ IsPrefix(n, p) /\ Leads(n, p)
      /\ \A q \in Matches(i) : IsPrefix(p, q) \/ Before(p, q)
  BY <1>1, <1>2 DEF SrvInv, JsInv, Js, Searching, At, Found
<1>4. i \in Interests /\ i.name = n /\ Reached(i, p)
  BY <1>1, <1>2, <1>3, PlainIs
<1>5. CheckSuffix(p, i)
  BY <1>1 DEF CheckSuffix, Plain, Interest
<1>6. p \in Matches(i)
  BY <1>2, <1>4, <1>5, MatchesAre
<1>7. ASSUME NEW q \in Matches(i), q # p PROVE Before(p, q)
  <2>1. q \in DOMAIN coll /\ Leads(n, q)
    BY <1>4, MatchesAre DEF Reached
  <2>2. p \in Seq(Int) /\ Len(n) <= Len(p)
    BY <1>2, <1>3, EntriesAre, PrefixIs
  <2>3. ~IsPrefix(p, q)
    BY <1>2, <1>7, <2>1, <2>2, WayHolds
  <2> QED  BY <1>3, <2>3
<1>8. IsFirst(p, Matches(i))
  BY <1>6, <1>7 DEF IsFirst
<1> QED  BY <1>1, <1>8
=============================================================================
