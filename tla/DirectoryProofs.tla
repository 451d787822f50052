--------------------------- MODULE DirectoryProofs ---------------------------
(***************************************************************************)
(* The tree of entries keeps its shape, for any paths, any number of       *)
(* clients, and whether or not the process is killed.                      *)
(***************************************************************************)
EXTENDS DirectoryProperties, SequenceTheorems, TLAPS

-----------------------------------------------------------------------------
(* Paths                                                                    *)

\* The first n elements of a sequence.
LEMMA Initial ==
    ASSUME NEW S, NEW s \in Seq(S), NEW n \in 0..Len(s)
    PROVE  SubSeq(s, 1, n) \in Seq(S) /\ Len(SubSeq(s, 1, n)) = n
OBVIOUS

\* A path is a sequence whose initial parts are paths.
LEMMA Initials ==
    ASSUME NEW p \in Paths
    PROVE  /\ p \in Seq(Names) /\ Len(p) \in Nat /\ Len(p) > 0
           /\ \A n \in 1..Len(p) : SubSeq(p, 1, n) \in Paths
<1>1. p \in Seq(Names) /\ Len(p) > 0
  BY ConstantsAssumption DEF ConstantsAssumption
<1>2. Len(p) \in Nat
  BY <1>1
<1>3. \A n \in 1..Len(p) : SubSeq(p, 1, n) \in Paths
  BY ConstantsAssumption, Zenon DEF ConstantsAssumption
<1> QED BY <1>1, <1>2, <1>3

\* What the proofs use of a path and its parent.
LEMMA PathFacts ==
    ASSUME NEW p \in Paths
    PROVE  /\ Parent(p) \in Paths \cup {Root}
           /\ Parent(p) # p /\ p # Root
           /\ IsPrefix(Parent(p), p) /\ IsPrefix(p, p)
<1> DEFINE m == Len(p) - 1
           q == SubSeq(p, 1, m)
<1>1. p \in Seq(Names) /\ Len(p) \in Nat /\ Len(p) > 0
  BY Initials
<1>2. Parent(p) = q
  BY DEF Parent, Front
<1>3. q \in Seq(Names) /\ Len(q) = m
  <2>1. m \in 0..Len(p)
    BY <1>1
  <2> HIDE DEF m
  <2> QED BY <1>1, <2>1, Initial
<1>4. q \in Paths \cup {Root}
  <2>1. CASE m = 0
    <3> HIDE DEF q
    <3>1. q = << >>
      BY <1>3, <2>1, EmptySeq
    <3> QED BY <3>1 DEF Root
  <2>2. CASE m \in 1..Len(p)
    <3> HIDE DEF m
    <3>1. \A n \in 1..Len(p) : SubSeq(p, 1, n) \in Paths
      BY Initials
    <3>2. q \in Paths
      BY <2>2, <3>1, Zenon
    <3> QED BY <3>2, Zenon
  <2>3. m = 0 \/ m \in 1..Len(p)
    <3>1. \A k \in Nat : k > 0 => k - 1 = 0 \/ k - 1 \in 1..k
      OBVIOUS
    <3> QED BY <1>1, <3>1, Zenon
  <2> QED BY <2>1, <2>2, <2>3, Zenon
<1>5. q # p /\ p # Root
  <2> HIDE DEF q
  <2> QED BY <1>1, <1>3 DEF Root
<1>6. IsPrefix(q, p)
  <2>1. SubSeq(q, 1, Len(q)) = q
    <3> HIDE DEF q
    <3> QED BY <1>3, SubSeqFull
  <2>2. SubSeq(p, 1, Len(q)) = q
    <3>1. Len(q) = m
      BY <1>3
    <3> HIDE DEF m
    <3> QED BY <3>1
  <2>3. Len(q) <= Len(p)
    <3> HIDE DEF q
    <3> QED BY <1>1, <1>3
  <2> HIDE DEF q
  <2> QED BY <2>1, <2>2, <2>3 DEF IsPrefix
<1>7. IsPrefix(p, p)
  BY <1>1 DEF IsPrefix
<1> QED BY <1>2, <1>4, <1>5, <1>6, <1>7, Zenon

\* The root is above every path.
LEMMA RootFacts == Root \notin Paths /\ \A p \in Paths : Parent(p) # p
BY PathFacts

LEMMA Bound == MaxTimes \in Nat /\ 0 \in 0..MaxTimes
<1>1. MaxTimes \in Nat \ {0}
  BY ConstantsAssumption DEF ConstantsAssumption
<1> QED BY <1>1

\* Between a path and one below it there is a child of the former.
LEMMA ChildBetween ==
    ASSUME NEW p \in Paths, NEW r \in Paths, r # p, IsPrefix(r, p)
    PROVE  \E q \in Children(r) : IsPrefix(q, p)
<1> DEFINE n == Len(r) + 1
           q == SubSeq(p, 1, n)
<1>1. /\ p \in Seq(Names) /\ Len(p) \in Nat
      /\ r \in Seq(Names) /\ Len(r) \in Nat
  BY LenProperties, ConstantsAssumption DEF ConstantsAssumption
<1>2. Len(r) <= Len(p) /\ SubSeq(r, 1, Len(r)) = SubSeq(p, 1, Len(r))
  BY DEF IsPrefix
<1>3. r = SubSeq(p, 1, Len(r))
  BY <1>1, <1>2, SubSeqFull
<1>4. Len(r) < Len(p)
  <2>1. SUFFICES ASSUME Len(r) = Len(p) PROVE FALSE
    BY <1>1, <1>2
  <2> QED BY <1>1, <1>3, <2>1, SubSeqFull
<1>5. n \in 1..Len(p)
  BY <1>1, <1>4
<1>6. q \in Paths
  BY <1>5, ConstantsAssumption DEF ConstantsAssumption
<1>7. q \in Seq(Names) /\ Len(q) = n
  <2>1. \A i \in 1..n : p[i] \in Names
    BY <1>1, <1>5, ElementOfSeq
  <2> QED BY <1>1, <1>5, <2>1, SubSeqProperties
<1>8. SubSeq(q, 1, n - 1) = SubSeq(p, 1, n - 1)
  <2>1. /\ 1 \in 1..Len(p) /\ n \in 1..Len(p)
        /\ 1 \in 1..(n - 1 + 1) /\ n - 1 \in 1..(n - 1 + 1)
    BY <1>1, <1>5, ConstantsAssumption DEF ConstantsAssumption
  <2>2. SubSeq(SubSeq(p, 1, n), 1, n - 1) = SubSeq(p, 1 + 1 - 1, 1 + (n - 1) - 1)
    BY <1>1, <1>5, <2>1, SubSeqOfSubSeq
  <2> QED BY <1>1, <2>2
<1>9. Parent(q) = r
  BY <1>1, <1>3, <1>7, <1>8 DEF Parent, Front
<1>10. SubSeq(q, 1, Len(q)) = SubSeq(p, 1, Len(q))
  BY <1>7, SubSeqFull
<1>11. IsPrefix(q, p)
  BY <1>1, <1>4, <1>7, <1>10 DEF IsPrefix
<1> QED BY <1>6, <1>9, <1>11 DEF Children

-----------------------------------------------------------------------------
(* Who is where                                                             *)

\* A request that starts on a path finds there whom Alone allows.
LEMMA EnterAlone ==
    ASSUME TypeOK, Alone, Serving, NEW c \in Clients, NEW p \in Paths, NEW l \in Pcs,
           l # "idle", proc = "up", At(c, "idle"), proc' = proc,
           loc' = [loc EXCEPT ![c] = [pc |-> l, path |-> p]], kind'[Root] = kind[Root],
           ~Removing(p), l \in Removals => ~Using(p),
           l # "chmod_set" => \A d \in Clients : loc[d].path # p
    PROVE  Alone' /\ Serving'
<1>1. loc' \in [Clients -> [pc : Pcs, path : Paths \cup {Root}]]
  BY DEF TypeOK
<1>2. loc'[c].pc = l /\ loc'[c].path = p
  BY DEF TypeOK
<1>3. \A d \in Clients : d # c => loc'[d] = loc[d]
  BY DEF TypeOK
<1>4. \A d \in Clients : loc[d].pc \in Removals => ~IsPrefix(loc[d].path, p)
  BY DEF Removing
<1>5. l \in Removals => \A d \in Clients : ~At(d, "idle") => ~IsPrefix(p, loc[d].path)
  BY DEF Using
<1>6. Alone'
  BY <1>2, <1>3, <1>4, <1>5 DEF Alone, Work, At
<1>7. Serving'
  BY <1>2, <1>3, RootFacts DEF Serving, At
<1> QED BY <1>6, <1>7

\* One that goes on stays where it is.
LEMMA StepAlone ==
    ASSUME TypeOK, Alone, Serving, NEW c \in Clients, NEW l \in Pcs,
           Work(c), l \notin {"idle", "chmod_set"}, proc' = proc,
           loc' = [loc EXCEPT ![c].pc = l], kind'[Root] = kind[Root],
           l \in Removals => loc[c].pc \in Removals
    PROVE  Alone' /\ Serving'
<1>1. loc'[c].pc = l /\ loc'[c].path = loc[c].path
  BY DEF TypeOK
<1>2. \A d \in Clients : d # c => loc'[d] = loc[d]
  BY DEF TypeOK
<1>3. Alone'
  BY <1>1, <1>2 DEF Alone, Work, At
<1>4. Serving'
  BY <1>1, <1>2 DEF Serving, Work, At
<1> QED BY <1>3, <1>4

\* One that ends is nowhere.
LEMMA DoneAlone ==
    ASSUME TypeOK, Alone, Serving, NEW c \in Clients, Done(c), kind'[Root] = kind[Root]
    PROVE  Alone' /\ Serving'
<1>1. loc'[c] = Idle
  BY DEF TypeOK, Done
<1>2. \A d \in Clients : d # c => loc'[d] = loc[d]
  BY DEF TypeOK, Done
<1>3. loc'[c].pc = "idle" /\ loc'[c].path = Root
  BY <1>1 DEF Idle
<1>4. Alone'
  BY <1>2, <1>3 DEF Alone, Work, At, Removals
<1>5. Serving'
  BY <1>2, <1>3 DEF Serving, At, Done
<1> QED BY <1>4, <1>5

-----------------------------------------------------------------------------
(* What a step of one client leaves of what the others know                 *)

\* A step of c changes the entry of its path p, its name, and if it removes p
\* also the names that p lists.
Touches(c) ==
    LET p == loc[c].path
    IN  /\ p \in Paths
        /\ \A q \in Paths \cup {Root} : q # p => kind'[q] = kind[q]
        /\ kind'[p] = kind[p] \/ kind[p] = "none" \/ loc[c].pc \in Removals
        /\ \A q \in Paths : q # p =>
              times'[q] = times[q] \/ (loc[c].pc \in Removals /\ Parent(q) = p /\ times'[q] = 0)

LEMMA OthersKnow ==
    ASSUME TypeOK, Alone, NEW c \in Clients, NEW d \in Clients, d # c,
           Work(c), Touches(c), Knows(d), loc'[d] = loc[d],
           At(d, "idle") \/ loc[d].path \in Paths
    PROVE  Knows(d)'
<1> DEFINE p == loc[c].path
           q == loc[d].path
<1>1. CASE At(d, "idle")
  BY <1>1 DEF Knows, At, Work, Removals
<1>2. CASE ~At(d, "idle") /\ q \in Paths
  <2>1. ~At(c, "idle") /\ loc[c].pc # "chmod_set"
    BY DEF Work, At
  <2>2. loc[c].pc \in Removals => ~IsPrefix(p, q)
    BY <1>2 DEF Alone
  <2>3. loc[d].pc \in Removals => ~IsPrefix(q, p)
    BY <2>1 DEF Alone
  <2>4. Work(d) => q # p
    BY DEF Alone
  <2>5. p \in Paths
    BY DEF Touches
  <2>6. Parent(q) \in Paths \cup {Root} /\ Parent(q) # q /\ IsPrefix(Parent(q), q) /\ IsPrefix(q, q)
    BY <1>2, PathFacts
  <2>7. Work(d) => kind'[q] = kind[q]
    BY <1>2, <2>4 DEF Touches
  <2>8. Work(d) => times'[q] = times[q]
    BY <1>2, <2>2, <2>4, <2>6 DEF Touches
  <2>9. Work(d) => kind'[Parent(q)] = "dir"
    <3>1. SUFFICES ASSUME Work(d) PROVE kind'[Parent(q)] = "dir"
      OBVIOUS
    <3>2. kind[Parent(q)] = "dir"
      BY <3>1 DEF Knows
    <3>3. CASE Parent(q) # p
      BY <2>6, <3>2, <3>3 DEF Touches
    <3>4. CASE Parent(q) = p
      BY <2>2, <2>6, <3>2, <3>4 DEF Touches
    <3> QED BY <3>3, <3>4
  <2>10. At(d, "rm_remove") => \A x \in Children(q) : times'[x] = 0
    <3>1. SUFFICES ASSUME At(d, "rm_remove"), NEW x \in Children(q) PROVE times'[x] = 0
      OBVIOUS
    <3>2. x \in Paths /\ Parent(x) = q /\ times[x] = 0
      BY <3>1 DEF Children, Knows
    <3>3. x # p
      BY <2>3, <3>1, <3>2, PathFacts DEF At, Removals
    <3> QED BY <3>2, <3>3 DEF Touches
  <2>11. At(d, "chmod_set") => kind'[q] # "none"
    <3>1. SUFFICES ASSUME At(d, "chmod_set") PROVE kind'[q] # "none"
      OBVIOUS
    <3>2. kind[q] # "none"
      BY <3>1 DEF Knows
    <3> QED BY <1>2, <2>2, <2>6, <3>2 DEF Touches
  <2>12. Work(d)' = Work(d) /\ \A l \in Pcs : At(d, l)' = At(d, l)
    BY DEF Work, At
  <2> QED BY <2>7, <2>8, <2>9, <2>10, <2>11, <2>12 DEF Knows, Work, At, Pcs, Removals
<1> QED BY <1>1, <1>2

\* What is below the path of a removal is on no list and has no entry.
LEMMA BelowRemoval ==
    ASSUME TypeOK, Alone, ParentExists, NEW c \in Clients, Knows(c),
           loc[c].pc \in Removals, loc[c].path \in Paths,
           NEW x \in Paths \ broken, Parent(x) = loc[c].path, Listed(x)
    PROVE  kind[x] = "none" /\ times[x] = 0
<1>1. IsPrefix(loc[c].path, x) /\ x # loc[c].path
  BY PathFacts
<1>2. \A d \in Clients : Work(d) => loc[d].path # x
  BY <1>1 DEF Alone, Work, At
<1>3. times[x] = IF kind[x] = "none" THEN 0 ELSE 1
  BY <1>2 DEF Listed
<1>4. kind[x] # "none" => kind[loc[c].path] = "dir"
  BY DEF ParentExists
<1>5. CASE At(c, "rm_remove")
  BY <1>3, <1>5 DEF Knows, Children
<1>6. CASE At(c, "rm_pull") \/ At(c, "unl_remove")
  BY <1>3, <1>4, <1>6 DEF Knows
<1> QED BY <1>5, <1>6 DEF Removals, At

LEMMA OthersListed ==
    ASSUME TypeOK, Alone, ParentExists, NEW c \in Clients, Knows(c), Work(c), Touches(c),
           \A d \in Clients : d # c => loc'[d] = loc[d],
           loc'[c].path \in {loc[c].path, Root},
           NEW x \in Paths \ broken, x # loc[c].path, Listed(x)
    PROVE  Listed(x)' /\ (kind'[x] # "none" => kind'[Parent(x)] = "dir")
<1> DEFINE p == loc[c].path
<1>1. p \in Paths /\ kind'[x] = kind[x] /\ Parent(x) \in Paths \cup {Root} /\ Parent(x) # x
  BY PathFacts DEF Touches
<1>2. loc[c].pc \in Removals /\ Parent(x) = p => kind[x] = "none" /\ times[x] = 0
  BY <1>1, BelowRemoval
<1>3. times'[x] = times[x]
  BY <1>2 DEF Touches
<1>4. loc[c].path # x /\ loc'[c].path # x
  BY RootFacts
<1>5. Listed(x)'
  BY <1>1, <1>3, <1>4 DEF Listed, Work
<1>6. ASSUME kind'[x] # "none" PROVE kind'[Parent(x)] = "dir"
  <2>1. kind[Parent(x)] = "dir"
    BY <1>1, <1>6 DEF ParentExists
  <2>2. CASE Parent(x) # p
    BY <1>1, <2>1, <2>2 DEF Touches
  <2>3. CASE Parent(x) = p
    BY <1>1, <1>2, <1>6, <2>1, <2>3 DEF Touches
  <2> QED BY <2>2, <2>3
<1> QED BY <1>5, <1>6

\* A step of a request that makes or removes its path, from what is true of
\* that path afterwards.
LEMMA WorkStep ==
    ASSUME TreeInv, NEW c \in Clients, Work(c), Touches(c),
           \A d \in Clients : d # c => loc'[d] = loc[d],
           loc'[c].path \in {loc[c].path, Root},
           TypeOK', Alone', Serving', Knows(c)',
           NEW p, p = loc[c].path, broken \subseteq broken' \cup {p}, broken' \subseteq broken,
           p \in broken' \/ (Listed(p)' /\ (kind'[p] # "none" => kind'[Parent(p)] = "dir"))
    PROVE  TreeInv'
<1>1. \A d \in Clients : Knows(d)'
  <2>1. SUFFICES ASSUME NEW d \in Clients, d # c PROVE Knows(d)'
    OBVIOUS
  <2>2. At(d, "idle") \/ loc[d].path \in Paths
    BY DEF TreeInv, TypeOK, Serving, At
  <2> QED BY <2>1, <2>2, OthersKnow DEF TreeInv
<1>2. \A x \in Paths \ broken' :
          Listed(x)' /\ (kind'[x] # "none" => kind'[Parent(x)] = "dir")
  <2>1. SUFFICES ASSUME NEW x \in Paths \ broken', x # p
                 PROVE  Listed(x)' /\ (kind'[x] # "none" => kind'[Parent(x)] = "dir")
    OBVIOUS
  <2>2. x \in Paths \ broken /\ Listed(x)
    BY <2>1 DEF TreeInv
  <2> QED BY <2>1, <2>2, OthersListed DEF TreeInv
<1>3. ParentExists'
  BY <1>2 DEF ParentExists, Parent
<1> QED BY <1>1, <1>2, <1>3 DEF TreeInv

-----------------------------------------------------------------------------
(* The steps of mkdir and create, rmdir and unlink                          *)

\* What the lemmas below use of a request that is at work.
LEMMA WorkFacts ==
    ASSUME TreeInv, NEW c \in Clients, Work(c)
    PROVE  /\ loc[c].path \in Paths /\ proc = "up" /\ kind[Root] = "dir"
           /\ Parent(loc[c].path) \in Paths \cup {Root} /\ Parent(loc[c].path) # loc[c].path
           /\ kind[Parent(loc[c].path)] = "dir" /\ loc[c].path # Root /\ Knows(c)
<1>1. loc[c].path \in Paths /\ proc = "up"
  BY DEF TreeInv, TypeOK, Serving, Work, At
<1> QED BY <1>1, PathFacts DEF TreeInv, Serving, Knows

\* Nothing is at work on a path whose only worker has ended.
LEMMA NobodyElse ==
    ASSUME Alone, TypeOK, NEW c \in Clients, Work(c), Done(c), NEW p, p = loc[c].path, p # Root
    PROVE  \A d \in Clients : loc'[d].path = p => ~Work(d)'
<1>1. loc'[c].path = Root
  BY DEF Done, TypeOK, Idle
<1>2. \A d \in Clients : d # c => loc'[d] = loc[d]
  BY DEF Done, TypeOK
<1> QED BY <1>1, <1>2 DEF Alone, Work

LEMMA InsertTree ==
    ASSUME TreeInv, NEW c \in Clients, NEW k \in {"dir", "file"},
           loc[c].pc \in {"mk_insert", "cr_insert"}, Insert(c, k), NEW p, p = loc[c].path
    PROVE  TreeInv'
<1>1. Work(c)
  BY DEF Work
<1>2. /\ p \in Paths /\ Parent(p) \in Paths \cup {Root} /\ Parent(p) # p /\ p # Root
      /\ kind[p] = "none" /\ times[p] < MaxTimes /\ kind[Parent(p)] = "dir"
  BY <1>1, WorkFacts DEF Knows
<1>3. /\ kind' = [kind EXCEPT ![p] = k] /\ times' = times /\ broken' = broken /\ proc' = proc
      /\ mode' = [mode EXCEPT ![p] = "made"] /\ loc' = [loc EXCEPT ![c].pc = "push"]
  BY DEF Insert, Goto
<1>4. /\ loc'[c].pc = "push" /\ loc'[c].path = p
      /\ \A d \in Clients : d # c => loc'[d] = loc[d]
  BY <1>3 DEF TreeInv, TypeOK
<1>5. Touches(c)
  BY <1>2, <1>3 DEF Touches, TreeInv, TypeOK
<1>6. TypeOK'
  BY <1>2, <1>3 DEF TreeInv, TypeOK, Pcs
<1>7. kind'[p] = k /\ \A q \in Paths \cup {Root} : q # p => kind'[q] = kind[q]
  BY <1>2, <1>3 DEF TreeInv, TypeOK
<1>8. Alone' /\ Serving'
  <2>1. TypeOK /\ Alone /\ Serving
    BY DEF TreeInv
  <2>2. "push" \in Pcs /\ "push" \notin Removals /\ kind'[Root] = kind[Root]
    BY <1>2, <1>7 DEF Pcs, Removals
  <2> QED BY <1>1, <1>3, <2>1, <2>2, StepAlone
<1>9. Knows(c)'
  BY <1>2, <1>3, <1>4, <1>7 DEF Knows, At
<1>10. p \notin broken => Listed(p)'
  <2>1. SUFFICES ASSUME p \notin broken PROVE Listed(p)'
    OBVIOUS
  <2>2. times[p] = 0
    BY <1>2, <2>1 DEF TreeInv, Listed
  <2>3. loc'[c].path = p /\ Work(c)'
    BY <1>4 DEF Work
  <2> QED BY <1>3, <1>4, <2>2, <2>3 DEF Listed
<1> QED BY <1>1, <1>2, <1>3, <1>4, <1>5, <1>6, <1>7, <1>8, <1>9, <1>10, WorkStep

LEMMA PushTree ==
    ASSUME TreeInv, NEW c \in Clients, Push(c), NEW p, p = loc[c].path
    PROVE  TreeInv'
<1>1. Work(c) /\ At(c, "push")
  BY DEF Push, Work, At
<1>2. /\ p \in Paths /\ p # Root /\ kind[p] # "none" /\ times[p] < MaxTimes
      /\ kind[Parent(p)] = "dir"
  BY <1>1, WorkFacts DEF Knows
<1>3. /\ times' = [times EXCEPT ![p] = @ + 1] /\ Done(c)
      /\ kind' = kind /\ mode' = mode /\ broken' = broken
  BY <1>2 DEF Push, Getattr
<1>4. /\ loc'[c] = Idle /\ loc'[c].pc = "idle" /\ loc'[c].path = Root
      /\ \A d \in Clients : d # c => loc'[d] = loc[d]
  BY <1>3 DEF TreeInv, TypeOK, Done, Idle
<1>5. Touches(c)
  BY <1>2, <1>3 DEF Touches, TreeInv, TypeOK
<1>6. TypeOK'
  <2>1. times' \in [Paths -> 0..MaxTimes]
    BY <1>2, <1>3, Bound DEF TreeInv, TypeOK
  <2> QED BY <1>3, <2>1 DEF TreeInv, TypeOK, Done, Idle, Pcs
<1>7. Alone' /\ Serving'
  BY <1>3, DoneAlone DEF TreeInv
<1>8. Knows(c)'
  BY <1>4 DEF Knows, At, Work, Removals
<1>9. p \notin broken => Listed(p)'
  <2>1. SUFFICES ASSUME p \notin broken PROVE Listed(p)'
    OBVIOUS
  <2>2. times[p] = 0
    BY <1>1, <1>2, <2>1 DEF TreeInv, Listed, At
  <2>3. times'[p] = 1 /\ kind'[p] # "none"
    BY <1>2, <1>3, <2>2 DEF TreeInv, TypeOK
  <2>4. \A d \in Clients : loc'[d].path = p => ~Work(d)'
    BY <1>1, <1>2, <1>3, NobodyElse DEF TreeInv
  <2> QED BY <2>3, <2>4 DEF Listed, Work
<1> QED BY <1>1, <1>2, <1>3, <1>4, <1>5, <1>6, <1>7, <1>8, <1>9, WorkStep

\* What a removal of the entry does to the variables.
LEMMA RemoveFacts ==
    ASSUME TreeInv, NEW c \in Clients, loc[c].pc \in Removals, RemoveEntry(c),
           NEW p, p = loc[c].path
    PROVE  /\ Touches(c) /\ kind'[p] = "none" /\ times'[p] = times[p]
           /\ \A q \in Paths \cup {Root} : q # p => kind'[q] = kind[q]
           /\ kind' \in [Paths \cup {Root} -> {"none", "dir", "file"}]
           /\ mode' \in [Paths -> {"made", "set"}] /\ times' \in [Paths -> 0..MaxTimes]
<1>1. Work(c)
  BY DEF Work, Removals
<1>2. p \in Paths /\ Parent(p) # p
  BY <1>1, WorkFacts
<1>3. /\ kind' = [kind EXCEPT ![p] = "none"] /\ mode' = [mode EXCEPT ![p] = "made"]
      /\ times' = [q \in Paths |-> IF Parent(q) = p THEN 0 ELSE times[q]]
  BY DEF RemoveEntry
<1>4. TypeOK
  BY DEF TreeInv
<1>5. \A q \in Paths \cup {Root} : kind'[q] = IF q = p THEN "none" ELSE kind[q]
  BY <1>2, <1>3, <1>4 DEF TypeOK
<1>6. \A q \in Paths : times'[q] = IF Parent(q) = p THEN 0 ELSE times[q]
  BY <1>3
<1>7. /\ kind' \in [Paths \cup {Root} -> {"none", "dir", "file"}]
      /\ mode' \in [Paths -> {"made", "set"}]
  BY <1>3, <1>4 DEF TypeOK
<1>8. times' \in [Paths -> 0..MaxTimes]
  BY <1>3, <1>4, Bound DEF TypeOK
<1> QED BY <1>2, <1>5, <1>6, <1>7, <1>8 DEF Touches

LEMMA RmdirRemoveTree ==
    ASSUME TreeInv, NEW c \in Clients, RmdirRemove(c), NEW p, p = loc[c].path
    PROVE  TreeInv'
<1>1. Work(c) /\ At(c, "rm_remove") /\ loc[c].pc \in Removals
  BY DEF RmdirRemove, Work, At, Removals
<1>2. /\ p \in Paths /\ Parent(p) \in Paths \cup {Root} /\ Parent(p) # p /\ p # Root
      /\ kind[Parent(p)] = "dir"
  BY <1>1, WorkFacts
<1>3. /\ RemoveEntry(c) /\ broken' = broken /\ proc' = proc
      /\ loc' = [loc EXCEPT ![c].pc = "rm_pull"]
  BY DEF RmdirRemove, Goto
<1>4. TypeOK /\ Alone /\ Serving
  BY DEF TreeInv
<1>5. /\ loc'[c].pc = "rm_pull" /\ loc'[c].path = p
      /\ \A d \in Clients : d # c => loc'[d] = loc[d]
  BY <1>3, <1>4 DEF TypeOK
<1>6. /\ Touches(c) /\ kind'[p] = "none" /\ times'[p] = times[p]
      /\ \A q \in Paths \cup {Root} : q # p => kind'[q] = kind[q]
  BY <1>1, <1>3, RemoveFacts
<1>7. TypeOK'
  <2>1. loc' \in [Clients -> [pc : Pcs, path : Paths \cup {Root}]]
    BY <1>3, <1>4 DEF TypeOK, Pcs, Removals
  <2> QED BY <1>1, <1>3, <1>4, <2>1, RemoveFacts DEF TypeOK
<1>8. Alone' /\ Serving'
  <2>1. "rm_pull" \in Pcs /\ "rm_pull" \in Removals /\ kind'[Root] = kind[Root]
    BY <1>2, <1>6 DEF Pcs, Removals
  <2> QED BY <1>1, <1>3, <1>4, <2>1, StepAlone
<1>9. Knows(c)'
  BY <1>2, <1>5, <1>6 DEF Knows, At
<1>10. Listed(p)'
  BY <1>1, <1>4, <1>5 DEF Listed, Work, Alone
<1> QED BY <1>1, <1>3, <1>5, <1>6, <1>7, <1>8, <1>9, <1>10, <1>2, WorkStep

LEMMA RmdirPullTree ==
    ASSUME TreeInv, NEW c \in Clients, RmdirPull(c), NEW p, p = loc[c].path
    PROVE  TreeInv'
<1>1. Work(c) /\ At(c, "rm_pull")
  BY DEF RmdirPull, Work, At
<1>2. p \in Paths /\ p # Root /\ kind[p] = "none"
  BY <1>1, WorkFacts DEF Knows
<1>3. /\ times' = [times EXCEPT ![p] = 0] /\ Done(c)
      /\ kind' = kind /\ mode' = mode /\ broken' = broken \ {p}
  BY DEF RmdirPull
<1>4. TypeOK /\ Alone /\ Serving
  BY DEF TreeInv
<1>5. /\ loc'[c].pc = "idle" /\ loc'[c].path = Root
      /\ \A d \in Clients : d # c => loc'[d] = loc[d]
  BY <1>3, <1>4 DEF TypeOK, Done, Idle
<1>6. Touches(c) /\ times'[p] = 0
  BY <1>2, <1>3, <1>4 DEF Touches, TypeOK
<1>7. TypeOK'
  <2>1. times' \in [Paths -> 0..MaxTimes]
    BY <1>3, <1>4, Bound DEF TypeOK
  <2> QED BY <1>3, <1>4, <2>1 DEF TypeOK, Done, Idle, Pcs
<1>8. Alone' /\ Serving'
  BY <1>3, <1>4, DoneAlone
<1>9. Knows(c)'
  BY <1>5 DEF Knows, At, Work, Removals
<1>10. Listed(p)'
  <2>1. \A d \in Clients : loc'[d].path = p => ~Work(d)'
    BY <1>1, <1>2, <1>3, <1>4, NobodyElse
  <2> QED BY <1>2, <1>3, <1>6, <2>1 DEF Listed, Work
<1> QED BY <1>1, <1>2, <1>3, <1>5, <1>6, <1>7, <1>8, <1>9, <1>10, WorkStep

LEMMA UnlinkRemoveTree ==
    ASSUME TreeInv, NEW c \in Clients, UnlinkRemove(c), NEW p, p = loc[c].path
    PROVE  TreeInv'
<1>1. Work(c) /\ At(c, "unl_remove") /\ loc[c].pc \in Removals
  BY DEF UnlinkRemove, Work, At, Removals
<1>2. p \in Paths /\ p # Root /\ times[p] = 0
  BY <1>1, WorkFacts DEF Knows
<1>3. RemoveEntry(c) /\ Done(c) /\ broken' = broken \ {p}
  BY DEF UnlinkRemove
<1>4. TypeOK /\ Alone /\ Serving
  BY DEF TreeInv
<1>5. /\ loc'[c].pc = "idle" /\ loc'[c].path = Root
      /\ \A d \in Clients : d # c => loc'[d] = loc[d]
  BY <1>3, <1>4 DEF TypeOK, Done, Idle
<1>6. /\ Touches(c) /\ kind'[p] = "none" /\ times'[p] = 0
      /\ \A q \in Paths \cup {Root} : q # p => kind'[q] = kind[q]
  BY <1>1, <1>2, <1>3, RemoveFacts
<1>7. TypeOK'
  <2>1. /\ loc' \in [Clients -> [pc : Pcs, path : Paths \cup {Root}]]
        /\ proc' = proc /\ broken' \subseteq Paths
    BY <1>3, <1>4 DEF TypeOK, Done, Idle, Pcs
  <2> QED BY <1>1, <1>3, <1>4, <2>1, RemoveFacts DEF TypeOK
<1>8. Alone' /\ Serving'
  BY <1>2, <1>3, <1>4, <1>6, DoneAlone
<1>9. Knows(c)'
  BY <1>5 DEF Knows, At, Work, Removals
<1>10. Listed(p)'
  <2>1. \A d \in Clients : loc'[d].path = p => ~Work(d)'
    BY <1>1, <1>2, <1>3, <1>4, NobodyElse
  <2> QED BY <1>6, <2>1 DEF Listed, Work
<1> QED BY <1>1, <1>2, <1>3, <1>5, <1>6, <1>7, <1>8, <1>9, <1>10, WorkStep

-----------------------------------------------------------------------------
(* Calls, chmod and the process                                             *)

\* The beginning of any request.
LEMMA EnterTree ==
    ASSUME TreeInv, NEW c \in Clients, NEW p \in Paths, NEW l \in Pcs \ {"idle", "push"},
           Enter(c, l, p), kind' = kind, mode' = mode, broken' = broken,
           times' = times \/ (l \in Removals /\ times' = [times EXCEPT ![p] = 0]),
           ~Removing(p), l \in Removals => ~Using(p),
           l # "chmod_set" => \A d \in Clients : loc[d].path # p,
           l \in {"mk_insert", "cr_insert"} => kind[p] = "none", Knows(c)'
    PROVE  TreeInv'
<1>1. /\ TypeOK /\ Alone /\ Serving /\ proc = "up" /\ At(c, "idle") /\ proc' = proc
      /\ loc' = [loc EXCEPT ![c] = [pc |-> l, path |-> p]]
  BY DEF TreeInv, Enter
<1>2. /\ loc'[c].pc = l /\ loc'[c].path = p
      /\ \A d \in Clients : d # c => loc'[d] = loc[d]
  BY <1>1 DEF TypeOK
<1>3. TypeOK'
  <2>1. times' \in [Paths -> 0..MaxTimes]
    BY <1>1, Bound DEF TypeOK
  <2> QED BY <1>1, <2>1 DEF TypeOK
<1>4. Alone' /\ Serving'
  BY <1>1, EnterAlone
<1>5. \A q \in Paths : q # p => times'[q] = times[q]
  BY <1>1 DEF TypeOK
<1>6. times'[p] = times[p] \/ (l \in Removals /\ times'[p] = 0)
  BY <1>1 DEF TypeOK
<1>7. ASSUME NEW d \in Clients, d # c PROVE Knows(d)'
  <2>1. Knows(d) /\ loc'[d] = loc[d]
    BY <1>2, <1>7 DEF TreeInv
  <2>2. Work(d) => loc[d].path \in Paths
    BY DEF TreeInv, TypeOK, Serving, Work, At
  <2>3. Work(d) => times'[loc[d].path] = times[loc[d].path] \/ times'[loc[d].path] = 0
    BY <1>5, <1>6, <2>2
  <2>4. At(d, "unl_remove") => times'[loc[d].path] = 0
    BY <2>1, <2>3 DEF Knows, Work, At
  <2>5. At(d, "rm_remove") => \A q \in Children(loc[d].path) : times'[q] = 0
    BY <1>5, <1>6, <2>1 DEF Knows, Children
  <2>6. Work(d) => (times[loc[d].path] < MaxTimes => times'[loc[d].path] < MaxTimes)
    <3>1. 0 < MaxTimes
      BY ConstantsAssumption DEF ConstantsAssumption
    <3> QED BY <2>3, <3>1
  <2> QED BY <2>1, <2>4, <2>5, <2>6 DEF Knows, Work, At
<1>8. ASSUME NEW x \in Paths \ broken PROVE Listed(x)'
  <2>1. Listed(x)
    BY <1>8 DEF TreeInv
  <2>2. CASE x # p
    BY <1>1, <1>2, <1>5, <2>1, <2>2, RootFacts DEF Listed, Work, Serving
  <2>3. CASE x = p /\ l = "chmod_set"
    <3>1. times'[x] = times[x]
      BY <1>6, <2>3 DEF Removals
    <3>2. ~Work(c) /\ ~Work(c)'
      BY <1>1, <1>2, <2>3 DEF Work, At
    <3> QED BY <1>2, <2>1, <2>3, <3>1, <3>2 DEF Listed, Work
  <2>4. CASE x = p /\ l # "chmod_set"
    <3>1. Work(c)'
      BY <1>2, <2>4 DEF Work
    <3>2. l \in {"mk_insert", "cr_insert"} => times[p] = 0 /\ l \notin Removals
      BY <2>1, <2>4 DEF Listed, Removals
    <3> QED BY <1>2, <1>6, <2>4, <3>1, <3>2 DEF Listed
  <2> QED BY <2>2, <2>3, <2>4
<1>9. ParentExists'
  BY DEF TreeInv, ParentExists
<1> QED BY <1>3, <1>4, <1>7, <1>8, <1>9 DEF TreeInv

LEMMA CallTree ==
    ASSUME TreeInv, NEW c \in Clients, Call(c)
    PROVE  TreeInv'
<1>1. PICK p \in Paths :
          Mkdir(c, p) \/ Create(c, p) \/ Rmdir(c, p) \/ Unlink(c, p) \/ Chmod(c, p)
  BY DEF Call
<1>2. Parent(p) \in Paths \cup {Root} /\ Parent(p) # p /\ p # Root /\ IsPrefix(Parent(p), p)
  BY PathFacts
<1>3. Lookup(p) => kind[p] # "none" /\ kind[Parent(p)] = "dir"
  BY <1>2 DEF Lookup, Ancestors, Getattr
<1>4. TypeOK /\ c \in DOMAIN loc
  BY DEF TreeInv, TypeOK
<1>5. \A l \in Pcs : Enter(c, l, p) => loc'[c].pc = l /\ loc'[c].path = p
  BY <1>4 DEF Enter
<1>6. ASSUME NEW l \in {"mk_insert", "cr_insert"}, Make(c, p, l) PROVE TreeInv'
  <2>1. /\ Enter(c, l, p) /\ Free(p) /\ kind[p] = "none" /\ kind[Parent(p)] = "dir"
        /\ times[p] < MaxTimes
        /\ kind' = kind /\ mode' = mode /\ times' = times /\ broken' = broken
    BY <1>6 DEF Make, Getattr
  <2>2. l \in Pcs \ {"idle", "push"} /\ l \notin Removals /\ l # "chmod_set"
    BY DEF Pcs, Removals
  <2>3. Knows(c)'
    BY <1>5, <2>1, <2>2 DEF Knows, At
  <2> QED BY <2>1, <2>2, <2>3, EnterTree DEF Free
<1>7. ASSUME Rmdir(c, p) PROVE TreeInv'
  <2>1. /\ Enter(c, "rm_remove", p) /\ Free(p) /\ ~Using(p) /\ kind[p] = "dir"
        /\ kind[Parent(p)] = "dir" /\ Readdir(p) = {}
        /\ kind' = kind /\ mode' = mode /\ times' = times /\ broken' = broken
    BY <1>3, <1>7 DEF Rmdir, Getattr
  <2>2. "rm_remove" \in Pcs \ {"idle", "push"} /\ "rm_remove" \in Removals
    BY DEF Pcs, Removals
  <2>3. \A q \in Children(p) : times[q] = 0
    BY <1>4, <2>1, Bound DEF Readdir, Children, TypeOK
  <2>4. Knows(c)'
    BY <1>5, <2>1, <2>2, <2>3 DEF Knows, At, Children
  <2> QED BY <2>1, <2>2, <2>4, EnterTree DEF Free
<1>8. ASSUME Unlink(c, p) PROVE TreeInv'
  <2>1. /\ Enter(c, "unl_remove", p) /\ Free(p) /\ ~Using(p) /\ kind[p] = "file"
        /\ kind[Parent(p)] = "dir"
        /\ kind' = kind /\ mode' = mode /\ broken' = broken
        /\ times' = [times EXCEPT ![p] = 0] /\ times'[p] = 0
    BY <1>3, <1>4, <1>8 DEF Unlink, Getattr, TypeOK
  <2>2. "unl_remove" \in Pcs \ {"idle", "push"} /\ "unl_remove" \in Removals
    BY DEF Pcs, Removals
  <2>3. Knows(c)'
    BY <1>5, <2>1, <2>2 DEF Knows, At
  <2> QED BY <2>1, <2>2, <2>3, EnterTree DEF Free
<1>9. ASSUME Chmod(c, p) PROVE TreeInv'
  <2>1. /\ Enter(c, "chmod_set", p) /\ ~Removing(p) /\ kind[p] # "none"
        /\ kind[Parent(p)] = "dir"
        /\ kind' = kind /\ mode' = mode /\ times' = times /\ broken' = broken
    BY <1>3, <1>9 DEF Chmod
  <2>2. "chmod_set" \in Pcs \ {"idle", "push"} /\ "chmod_set" \notin Removals
    BY DEF Pcs, Removals
  <2>3. Knows(c)'
    BY <1>5, <2>1, <2>2 DEF Knows, At
  <2> QED BY <2>1, <2>2, <2>3, EnterTree
<1> QED BY <1>1, <1>6, <1>7, <1>8, <1>9 DEF Mkdir, Create

LEMMA ChmodSetTree ==
    ASSUME TreeInv, NEW c \in Clients, ChmodSet(c)
    PROVE  TreeInv'
<1>1. /\ TypeOK /\ Alone /\ Serving /\ Done(c) /\ At(c, "chmod_set")
      /\ kind' = kind /\ times' = times /\ broken' = broken
  BY DEF TreeInv, ChmodSet
<1>2. /\ loc'[c].pc = "idle" /\ loc'[c].path = Root
      /\ \A d \in Clients : d # c => loc'[d] = loc[d]
  BY <1>1 DEF TypeOK, Done, Idle
<1>3. TypeOK'
  <2>1. mode' \in [Paths -> {"made", "set"}]
    BY <1>1 DEF ChmodSet, TypeOK
  <2> QED BY <1>1, <2>1 DEF TypeOK, Done, Idle, Pcs
<1>4. Alone' /\ Serving'
  BY <1>1, DoneAlone
<1>5. \A d \in Clients : Knows(d)'
  <2>1. Knows(c)'
    BY <1>2 DEF Knows, At, Work, Removals
  <2>2. ASSUME NEW d \in Clients, d # c PROVE Knows(d)'
    BY <1>1, <1>2, <2>2 DEF TreeInv, Knows, At, Work
  <2> QED BY <2>1, <2>2
<1>6. ASSUME NEW x \in Paths \ broken PROVE Listed(x)'
  <2>1. Listed(x) /\ ~Work(c) /\ ~Work(c)'
    BY <1>1, <1>2, <1>6 DEF TreeInv, Work, At
  <2> QED BY <1>1, <1>2, <2>1 DEF Listed, Work
<1>7. ParentExists'
  BY <1>1 DEF TreeInv, ParentExists
<1> QED BY <1>1, <1>3, <1>4, <1>5, <1>6, <1>7 DEF TreeInv

\* main() and the death of the process.
LEMMA ProcessTree ==
    ASSUME TreeInv, Start \/ RootInsert \/ Crash
    PROVE  TreeInv'
<1>1. TypeOK /\ Serving
  BY DEF TreeInv
<1>2. \A c \in Clients : ~Work(c)' /\ At(c, "idle")' /\ loc'[c].path = Root
  <2>1. CASE Start \/ RootInsert
    BY <1>1, <2>1 DEF Start, RootInsert, Serving, Work, At
  <2>2. CASE Crash
    BY <2>2 DEF Crash, Work, At, Idle
  <2> QED BY <2>1, <2>2
<1>3. /\ times' = times /\ \A q \in Paths : kind'[q] = kind[q]
      /\ kind[Root] = "dir" => kind'[Root] = "dir"
      /\ broken \subseteq broken'
  BY <1>1, RootFacts DEF Start, RootInsert, Crash, TypeOK
<1>4. TypeOK'
  <2>1. CASE Start
    BY <1>1, <2>1 DEF Start, TypeOK
  <2>2. CASE RootInsert
    BY <1>1, <2>2 DEF RootInsert, TypeOK
  <2>3. CASE Crash
    <3>1. \A c \in Clients : loc[c].pc \notin {"idle", "chmod_set"} => loc[c].path \in Paths
      BY <1>1 DEF TypeOK, Serving, At
    <3>2. loc' \in [Clients -> [pc : Pcs, path : Paths \cup {Root}]]
      BY <2>3 DEF Crash, Idle, Pcs
    <3> QED BY <1>1, <2>3, <3>1, <3>2 DEF Crash, TypeOK
  <2> QED BY <2>1, <2>2, <2>3
<1>5. Alone' /\ \A c \in Clients : Knows(c)'
  BY <1>2 DEF Alone, Knows, At, Work, Removals
<1>6. Serving'
  <2>1. proc' = "up" => kind'[Root] = "dir"
    <3>1. CASE Start
      BY <1>1, <3>1 DEF Start, Serving, TypeOK
    <3>2. CASE RootInsert
      BY <1>1, <3>2 DEF RootInsert, TypeOK
    <3>3. CASE Crash
      BY <3>3 DEF Crash
    <3> QED BY <3>1, <3>2, <3>3
  <2>2. kind'[Root] # "file"
    BY <1>1 DEF Start, RootInsert, Crash, Serving, TypeOK
  <2> QED BY <1>2, <2>1, <2>2 DEF Serving
<1>7. ASSUME NEW x \in Paths, x \notin broken' PROVE Listed(x)'
  <2>1. x \in Paths \ broken
    BY <1>3, <1>7
  <2>2. \A c \in Clients : Work(c) => loc[c].path # x
    <3>1. CASE Start \/ RootInsert
      BY <1>1, <3>1 DEF Start, RootInsert, Serving, Work, At
    <3>2. CASE Crash
      BY <1>7, <3>2 DEF Crash, Work
    <3> QED BY <3>1, <3>2
  <2>3. times[x] = IF kind[x] = "none" THEN 0 ELSE 1
    BY <2>1, <2>2 DEF TreeInv, Listed
  <2> QED BY <1>2, <1>3, <2>1, <2>3, RootFacts DEF Listed
<1>8. ParentExists'
  <2>1. SUFFICES ASSUME NEW x \in Paths, x \notin broken', kind'[x] # "none"
                 PROVE  kind'[Parent(x)] = "dir"
    BY DEF ParentExists, Parent
  <2>2. kind[Parent(x)] = "dir"
    BY <1>3, <2>1 DEF TreeInv, ParentExists
  <2>3. Parent(x) \in Paths \cup {Root}
    BY PathFacts
  <2> QED BY <1>3, <2>2, <2>3
<1> QED BY <1>4, <1>5, <1>6, <1>7, <1>8 DEF TreeInv

-----------------------------------------------------------------------------
(* The theorems                                                             *)

LEMMA TreeInit == Init => TreeInv
<1> SUFFICES ASSUME Init PROVE TreeInv
  OBVIOUS
<1>1. TypeOK
  BY Bound DEF Init, TypeOK, Idle, Pcs
<1>2. \A c \in Clients : At(c, "idle") /\ loc[c].path = Root /\ ~Work(c) /\ loc[c].pc = "idle"
  BY DEF Init, Idle, At, Work
<1>3. Alone /\ Serving /\ \A c \in Clients : Knows(c)
  BY <1>2 DEF Init, Alone, Serving, Knows, At, Removals
<1>4. ParentExists /\ \A p \in Paths : Listed(p)
  BY <1>2, RootFacts DEF Init, ParentExists, Listed
<1> QED BY <1>1, <1>3, <1>4 DEF TreeInv

LEMMA TreeNext == TreeInv /\ [Next]_vars => TreeInv'
<1> SUFFICES ASSUME TreeInv, [Next]_vars PROVE TreeInv'
  OBVIOUS
<1>1. ASSUME NEW c \in Clients, Step(c) PROVE TreeInv'
  <2>1. CASE InsertDir(c) \/ InsertFile(c)
    BY <2>1, InsertTree DEF InsertDir, InsertFile, At
  <2>2. CASE Push(c)
    BY <2>2, PushTree
  <2>3. CASE RmdirRemove(c)
    BY <2>3, RmdirRemoveTree
  <2>4. CASE RmdirPull(c)
    BY <2>4, RmdirPullTree
  <2>5. CASE UnlinkRemove(c)
    BY <2>5, UnlinkRemoveTree
  <2>6. CASE ChmodSet(c)
    BY <2>6, ChmodSetTree
  <2> QED BY <1>1, <2>1, <2>2, <2>3, <2>4, <2>5, <2>6 DEF Step
<1>2. ASSUME NEW c \in Clients, Call(c) PROVE TreeInv'
  BY <1>2, CallTree
<1>3. CASE Start \/ RootInsert \/ Crash
  BY <1>3, ProcessTree
<1>4. CASE UNCHANGED vars
  BY <1>4 DEF vars, TreeInv, TypeOK, Alone, Serving, ParentExists, Knows, Listed, Work, At
<1> QED BY <1>1, <1>2, <1>3, <1>4 DEF Next

\* The invariant of the tree: what every request knows about its path at each
\* of its steps, in every reachable state.
THEOREM TreeInvariant == Spec => []TreeInv
BY TreeInit, TreeNext, PTL DEF Spec

\* Every reachable state of the handlers is well typed; in particular a name
\* is listed at most MaxTimes times.
THEOREM TreeTypeCorrect == Spec => []TypeOK
<1>1. TreeInv => TypeOK
  BY DEF TreeInv
<1> QED BY <1>1, TreeInvariant, PTL

\* An entry that no killed request was about is in a directory.
THEOREM ParentAlways == Spec => []ParentExists
<1>1. TreeInv => ParentExists
  BY DEF TreeInv
<1> QED BY <1>1, TreeInvariant, PTL

\* Lookups and listings agree on every path that no request is about and no
\* killed request was about.
THEOREM ListingAlways == Spec => []ListingAgrees
<1>1. TreeInv => ListingAgrees
  BY DEF TreeInv, ListingAgrees, Listed
<1> QED BY <1>1, TreeInvariant, PTL

\* No update of a handler that answers with success falls on nothing.
THEOREM UpdatesAlways == Spec => []UpdatesLand
<1>1. TreeInv => UpdatesLand
  BY DEF TreeInv, UpdatesLand, Knows, Work, At
<1> QED BY <1>1, TreeInvariant, PTL

-----------------------------------------------------------------------------
(* What can be reached                                                      *)

LEMMA PrefixTransitive ==
    ASSUME NEW q \in Paths, NEW p \in Paths, IsPrefix(q, p)
    PROVE  Parent(q) = Root \/ (Parent(q) \in Paths /\ IsPrefix(Parent(q), p))
<1> DEFINE r == Parent(q)
<1>1. SUFFICES ASSUME r \in Paths PROVE IsPrefix(r, p)
  BY PathFacts
<1>2. /\ q \in Seq(Names) /\ Len(q) \in Nat /\ p \in Seq(Names) /\ Len(p) \in Nat
      /\ r \in Seq(Names) /\ Len(r) \in Nat /\ Len(r) > 0
  BY <1>1, Initials
<1>3. Len(r) <= Len(q) /\ SubSeq(r, 1, Len(r)) = SubSeq(q, 1, Len(r))
  BY PathFacts DEF IsPrefix
<1>4. Len(q) <= Len(p) /\ SubSeq(q, 1, Len(q)) = SubSeq(p, 1, Len(q))
  BY DEF IsPrefix
<1>5. q = SubSeq(p, 1, Len(q))
  BY <1>2, <1>4, SubSeqFull
<1> DEFINE n == Len(q)
           m == Len(r)
<1>6. n \in Nat /\ m \in Nat /\ m > 0 /\ m <= n /\ n <= Len(p)
  BY <1>2, <1>3, <1>4
<1>7. SubSeq(SubSeq(p, 1, n), 1, m) = SubSeq(p, 1, m)
  <2> HIDE DEF n, m
  <2>1. /\ 1 \in 1..Len(p) /\ n \in 1..Len(p) /\ 1 \in 1..(n - 1 + 1) /\ m \in 1..(n - 1 + 1)
    BY <1>2, <1>6
  <2>2. SubSeq(SubSeq(p, 1, n), 1, m) = SubSeq(p, 1 + 1 - 1, 1 + m - 1)
    BY <1>2, <2>1, SubSeqOfSubSeq
  <2> QED BY <1>6, <2>2
<1>8. SubSeq(q, 1, m) = SubSeq(p, 1, m)
  BY <1>5, <1>7, Zenon
<1>9. SubSeq(r, 1, m) = SubSeq(p, 1, m)
  BY <1>3, <1>8, Zenon
<1>10. m <= Len(p)
  BY <1>2, <1>6
<1> QED BY <1>9, <1>10 DEF IsPrefix

\* A path stays reachable if its entry, the entries above it and their names do.
LEMMA ReachableKept ==
    ASSUME NEW p \in Paths, Reachable(p), kind'[Root] = "dir",
           \A q \in Ancestors(p) : kind'[q] = kind[q] /\ times'[q] > 0
    PROVE  Reachable(p)' /\ kind'[p] = kind[p]
<1>1. p \in Ancestors(p)
  BY PathFacts DEF Ancestors
<1>2. \A q \in (Ancestors(p) \cup {Root}) \ {p} : kind[q] = "dir"
  BY DEF Reachable, Lookup, Getattr
<1> QED BY <1>1, <1>2 DEF Reachable, Lookup, Getattr, Ancestors

\* One step of one request on what can be reached.
LEMMA ReachableStep ==
    ASSUME TreeInv, NEW p \in Paths, Reachable(p), [Next]_vars
    PROVE  \/ /\ Reachable(p)' /\ kind'[p] = kind[p]
              /\ mode'[p] = mode[p] \/ \E c \in Clients : At(c, "chmod_set") /\ loc[c].path = p
           \/ \E c \in Clients : loc'[c].path = p /\ loc'[c].pc \in Removals
<1> DEFINE Stays == /\ Reachable(p)' /\ kind'[p] = kind[p]
                    /\ mode'[p] = mode[p]
                           \/ \E c \in Clients : At(c, "chmod_set") /\ loc[c].path = p
           Goes == \E c \in Clients : loc'[c].path = p /\ loc'[c].pc \in Removals
<1>1. TypeOK /\ Serving
  BY DEF TreeInv
<1>2. /\ p \in Ancestors(p) /\ Ancestors(p) \subseteq Paths /\ Root \notin Ancestors(p)
      /\ kind[Root] = "dir"
      /\ \A q \in Ancestors(p) : kind[q] # "none" /\ times[q] > 0 /\ (q # p => kind[q] = "dir")
  BY PathFacts, RootFacts DEF Ancestors, Reachable, Lookup, Getattr
<1>3. ASSUME NEW c \in Clients, Step(c) PROVE Stays \/ Goes
  <2> DEFINE r == loc[c].path
  <2>1. Knows(c)
    BY DEF TreeInv
  <2>2. CASE InsertDir(c) \/ InsertFile(c)
    <3>1. /\ r \notin Ancestors(p) /\ r \in Paths /\ times' = times
          /\ \A q \in Paths \cup {Root} : q # r => kind'[q] = kind[q]
          /\ \A q \in Paths : q # r => mode'[q] = mode[q]
      <4>1. loc[c].pc \in {"mk_insert", "cr_insert"} /\ Work(c)
        BY <2>2 DEF InsertDir, InsertFile, At, Work
      <4>2. r \in Paths /\ kind[r] = "none"
        BY <2>1, <4>1, WorkFacts DEF Knows
      <4> QED BY <1>1, <1>2, <2>2, <4>2 DEF InsertDir, InsertFile, Insert, TypeOK
    <3> QED BY <1>2, <3>1, RootFacts, ReachableKept
  <2>3. CASE Push(c)
    <3>1. Work(c)
      BY <2>3 DEF Push, At, Work
    <3>2. /\ kind' = kind /\ mode' = mode /\ r \in Paths
          /\ \A q \in Paths : times'[q] = times[q] \/ times'[q] = times[q] + 1
      BY <1>1, <2>3, <3>1, WorkFacts DEF Push, TypeOK
    <3>3. \A q \in Ancestors(p) : times[q] \in Nat
      BY <1>1, <1>2, Bound DEF TypeOK
    <3>4. \A q \in Ancestors(p) : times'[q] > 0
      BY <1>2, <3>2, <3>3
    <3> QED BY <1>2, <3>2, <3>4, ReachableKept
  <2>4. CASE RmdirRemove(c)
    <3>1. /\ At(c, "rm_remove") /\ loc[c].pc \in Removals /\ Work(c) /\ RemoveEntry(c)
          /\ loc' = [loc EXCEPT ![c].pc = "rm_pull"]
      BY <2>4 DEF RmdirRemove, At, Work, Removals, Goto
    <3>2. r \in Paths /\ r # Root /\ \A q \in Children(r) : times[q] = 0
      BY <2>1, <3>1, WorkFacts DEF Knows
    <3>3. CASE r = p
      <4>1. loc'[c].path = p /\ loc'[c].pc = "rm_pull"
        BY <1>1, <3>1, <3>3 DEF TypeOK
      <4> QED BY <4>1 DEF Removals
    <3>4. CASE r # p
      <4>1. r \notin Ancestors(p)
        <5>1. SUFFICES ASSUME r \in Ancestors(p) PROVE FALSE
          OBVIOUS
        <5>2. PICK q \in Children(r) : IsPrefix(q, p)
          BY <3>2, <3>4, <5>1, ChildBetween DEF Ancestors
        <5>3. q \in Ancestors(p)
          BY <5>2 DEF Ancestors, Children
        <5> QED BY <1>2, <3>2, <5>2, <5>3
      <4>2. /\ \A q \in Ancestors(p) \cup {Root} : kind'[q] = kind[q]
            /\ mode'[p] = mode[p]
            /\ \A q \in Ancestors(p) : times'[q] = times[q]
        BY <1>1, <1>2, <3>1, <3>2, <3>4, <4>1 DEF RemoveEntry, TypeOK, Children
      <4> QED BY <1>2, <4>2, ReachableKept
    <3> QED BY <3>3, <3>4
  <2>5. CASE RmdirPull(c)
    <3>1. At(c, "rm_pull") /\ Work(c)
      BY <2>5 DEF RmdirPull, At, Work
    <3>2. r \in Paths /\ r \notin Ancestors(p)
      BY <1>2, <2>1, <3>1, WorkFacts DEF Knows
    <3>3. /\ kind' = kind /\ mode' = mode
          /\ \A q \in Ancestors(p) : times'[q] = times[q]
      BY <1>1, <1>2, <2>5, <3>2 DEF RmdirPull, TypeOK
    <3> QED BY <1>2, <3>3, ReachableKept
  <2>6. CASE UnlinkRemove(c)
    <3>1. At(c, "unl_remove") /\ Work(c) /\ RemoveEntry(c)
      BY <2>6 DEF UnlinkRemove, At, Work
    <3>2. r \in Paths /\ r # Root /\ times[r] = 0
      BY <2>1, <3>1, WorkFacts DEF Knows
    <3>3. r \notin Ancestors(p)
      BY <1>2, <3>2
    <3>4. \A q \in Ancestors(p) : Parent(q) # r
      BY <1>2, <3>2, <3>3, PrefixTransitive DEF Ancestors
    <3>5. /\ \A q \in Ancestors(p) \cup {Root} : kind'[q] = kind[q]
          /\ mode'[p] = mode[p]
          /\ \A q \in Ancestors(p) : times'[q] = times[q]
      BY <1>1, <1>2, <3>1, <3>2, <3>3, <3>4 DEF RemoveEntry, TypeOK
    <3> QED BY <1>2, <3>5, ReachableKept
  <2>7. CASE ChmodSet(c)
    <3>1. /\ kind' = kind /\ times' = times /\ At(c, "chmod_set")
          /\ r # p => mode'[p] = mode[p]
      BY <1>1, <2>7 DEF ChmodSet, TypeOK
    <3> QED BY <1>2, <3>1, ReachableKept
  <2> QED BY <1>3, <2>2, <2>3, <2>4, <2>5, <2>6, <2>7 DEF Step
<1>4. ASSUME NEW c \in Clients, Call(c) PROVE Stays \/ Goes
  <2>1. PICK r \in Paths :
            Mkdir(c, r) \/ Create(c, r) \/ Rmdir(c, r) \/ Unlink(c, r) \/ Chmod(c, r)
    BY <1>4 DEF Call
  <2>2. CASE Mkdir(c, r) \/ Create(c, r) \/ Rmdir(c, r) \/ Chmod(c, r)
    <3>1. kind' = kind /\ times' = times /\ mode' = mode
      BY <2>2 DEF Mkdir, Create, Make, Rmdir, Chmod
    <3> QED BY <1>2, <3>1, ReachableKept
  <2>3. CASE Unlink(c, r)
    <3>1. /\ kind' = kind /\ mode' = mode /\ times' = [times EXCEPT ![r] = 0]
          /\ kind[r] = "file" /\ loc' = [loc EXCEPT ![c] = [pc |-> "unl_remove", path |-> r]]
      BY <2>3 DEF Unlink, Getattr, Enter
    <3>2. CASE r = p
      <4>1. loc'[c].path = p /\ loc'[c].pc = "unl_remove"
        BY <1>1, <3>1, <3>2 DEF TypeOK
      <4> QED BY <4>1 DEF Removals
    <3>3. CASE r # p
      <4>1. \A q \in Ancestors(p) : times'[q] = times[q]
        BY <1>1, <1>2, <3>1, <3>3 DEF TypeOK
      <4> QED BY <1>2, <3>1, <4>1, ReachableKept
    <3> QED BY <3>2, <3>3
  <2> QED BY <2>1, <2>2, <2>3
<1>5. CASE Start \/ RootInsert \/ Crash \/ UNCHANGED vars
  <2>1. /\ times' = times /\ mode' = mode /\ kind'[Root] = "dir"
        /\ \A q \in Paths : kind'[q] = kind[q]
    BY <1>1, <1>2, <1>5, RootFacts DEF Start, RootInsert, Crash, vars, TypeOK
  <2> QED BY <1>2, <2>1, ReachableKept
<1> QED BY <1>3, <1>4, <1>5 DEF Next

\* What an application can reach stays what it is until it is itself removed,
\* whatever other requests, crashes and restarts there are.
THEOREM ReachableAlways == Spec => ReachableStays
<1>1. TreeInv /\ [Next]_vars =>
          [ \A p \in Paths : Reachable(p) =>
              \/ /\ Reachable(p)' /\ kind'[p] = kind[p]
                 /\ mode'[p] = mode[p] \/ \E c \in Clients : At(c, "chmod_set") /\ loc[c].path = p
              \/ \E c \in Clients : loc'[c].path = p /\ loc'[c].pc \in Removals ]_vars
  BY ReachableStep
<1> QED BY <1>1, TreeInvariant, PTL DEF Spec, ReachableStays
=============================================================================
