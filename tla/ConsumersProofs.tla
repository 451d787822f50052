-------------------------- MODULE ConsumersProofs --------------------------
(***************************************************************************)
(* The consumers that fetch a file, of any number of segments and with a   *)
(* pipe of any size: which segments a consumer has, which it waits for,    *)
(* and which may be on their way to it.  Then every consumer: what the     *)
(* servers find for it in any collection.                                  *)
(***************************************************************************)
EXTENDS Consumers, ServerProofs, FiniteSetTheorems

Fetching == run.prog # "client"
World == run.prog \in Programs /\ run.js \in BOOLEAN /\ (Fetching => WholeFile(run.want, coll))

\* The file, its version and its segments, and what is asked for them.
FilePath == run.want.name
FileVersion == coll[FilePath].data[1]
VersionPath == Append(FilePath, FileVersion)
Seg(n) == Append(VersionPath, n)
Segs(ns) == {Seg(n) : n \in ns}
All == Segs(0..(Total - 1))
Numbered(n) == Plain(Seg(n))
Asked == {Plain(<<>>), run.want} \cup {Numbered(n) : n \in Nat}

\* The server finds segment 0 for the name of the file, and a segment for its
\* own name.
Servers == [pc : {"idle", "search", "fetch", "down"}, js : BOOLEAN, want : Asked,
            todo : Seq(Seq(Int)), set : BOOLEAN, hit : Seq(Int)]
FindsFirst ==
    /\ At("search") => srv.todo # <<>> /\ Path \in {FilePath, VersionPath, Seg(0)}
    /\ At("fetch") => srv.hit = Seg(0)
Finds(n) ==
    /\ At("search") => srv.todo \in {<<>>, <<Seg(n)>>}
    /\ At("fetch") => srv.hit = Seg(n) /\ n < Total
ServerInv ==
    /\ srv \in Servers
    /\ srv.want = Plain(<<>>) => srv.pc \in {"idle", "down"}
    /\ srv.want = run.want => FindsFirst
    /\ \A n \in Nat : srv.want = Numbered(n) => Finds(n)

\* Before the first segment, and after it.
Starting ==
    /\ fname = FilePath /\ got = {} /\ count = 0 /\ nextseq = 0 /\ ~over
    /\ Waiting = {run.want} /\ wire \subseteq {run.want} /\ data \subseteq {Seg(0)}
    /\ srv.want \in {Plain(<<>>), run.want}

OneByOne ==
    \E k \in 1..Total :
        /\ got = Segs(0..(k - 1))
        /\ \/ ~over /\ Waiting = {Numbered(k)}
           \/ over /\ Waiting = {} /\ k = Total
Piped ==
    /\ nextseq \in Nat \ {0} /\ count \in 1..Total
    /\ Waiting \subseteq {Numbered(n) : n \in 1..nextseq}
    /\ got \subseteq All \cap Segs(0..nextseq)
    /\ \A n \in 1..nextseq : Numbered(n) \in Waiting => Seg(n) \notin got
    /\ IsFiniteSet(Waiting) /\ count = Cardinality(got)
    /\ count < Total => Cardinality(Waiting) = PipeSize
    /\ over => count = Total
Going ==
    /\ fname = VersionPath
    /\ wire \subseteq {run.want} \cup {Numbered(n) : n \in Nat} /\ data \subseteq All
    /\ IF run.prog = "cat_file_pipe" THEN Piped ELSE OneByOne

FetchInv ==
    Fetching => ServerInv /\ pending = SetToBag(Waiting) /\ (Starting \/ Going)

-----------------------------------------------------------------------------
(* Paths and interests.                                                      *)

LEMMA Parameters == Total \in Nat \ {0} /\ PipeSize \in Nat \ {0}
BY ConstantsAssumption

USE Parameters

LEMMA PrefixOfAppend ==
    ASSUME NEW s \in Seq(Int), NEW n \in Int
    PROVE  SubSeq(Append(s, n), 1, Len(s)) = s /\ Front(Append(s, n)) = s
<1>1. /\ Append(s, n) \in Seq(Int) /\ Len(Append(s, n)) = Len(s) + 1 /\ Len(s) \in Nat
      /\ \A i \in 1..Len(s) : Append(s, n)[i] = s[i]
  BY AppendProperties, LenProperties
<1> DEFINE t == SubSeq(Append(s, n), 1, Len(s))
<1>2. t \in Seq(Int) /\ Len(t) = Len(s) /\ \A i \in 1..Len(s) : t[i] = Append(s, n)[i]
  BY <1>1, SubSeqProperties
<1>3. t = s
  BY <1>1, <1>2, SeqEqual
<1> QED  BY <1>1, <1>3 DEF Front

LEMMA PathsAre ==
    ASSUME World, Fetching
    PROVE  /\ FilePath \in Seq(Int) /\ FilePath # <<>> /\ FileVersion \in Int
           /\ VersionPath \in Seq(Int) /\ Len(VersionPath) = Len(FilePath) + 1
           /\ \A n \in Int : /\ Seg(n) \in Seq(Int) /\ Len(Seg(n)) = Len(FilePath) + 2
                             /\ Last(Seg(n)) = n /\ Front(Seg(n)) = VersionPath
                             /\ Version(Seg(n)) = FileVersion
           /\ \A m, n \in Int : Seg(m) = Seg(n) => m = n
<1>1. FilePath \in Seq(Int) /\ FilePath # <<>> /\ FileVersion \in Int
  BY DEF World, WholeFile, FilePath, FileVersion
<1>2. /\ VersionPath \in Seq(Int) /\ Len(VersionPath) = Len(FilePath) + 1
      /\ VersionPath[Len(FilePath) + 1] = FileVersion
  BY <1>1, AppendProperties DEF VersionPath
<1>3. ASSUME NEW n \in Int
      PROVE  /\ Seg(n) \in Seq(Int) /\ Len(Seg(n)) = Len(FilePath) + 2
             /\ Last(Seg(n)) = n /\ Version(Seg(n)) = FileVersion
  <2>1. /\ Seg(n) \in Seq(Int) /\ Len(Seg(n)) = Len(VersionPath) + 1
        /\ Seg(n)[Len(VersionPath) + 1] = n
        /\ \A i \in 1..Len(VersionPath) : Seg(n)[i] = VersionPath[i]
    BY <1>2, AppendProperties DEF Seg
  <2>2. Len(FilePath) \in Nat
    BY <1>1, LenProperties
  <2> QED  BY <1>2, <2>1, <2>2 DEF Last, Version
<1>4. ASSUME NEW n \in Int PROVE Front(Seg(n)) = VersionPath
  BY <1>2, PrefixOfAppend DEF Seg
<1>5. ASSUME NEW m \in Int, NEW n \in Int, Seg(m) = Seg(n) PROVE m = n
  BY <1>3, <1>5
<1> QED  BY <1>1, <1>2, <1>3, <1>4, <1>5

LEMMA QueriesAre ==
    ASSUME World, Fetching
    PROVE  /\ Query(FilePath) = Entry("file", <<FileVersion>>)
           /\ Query(VersionPath) = Entry("ver", [k \in 1..Total |-> k - 1])
           /\ \A n \in 0..(Total - 1) : Query(Seg(n)).type = "seg" /\ Query(Seg(n)).data # <<>>
           /\ \A n \in Int \ 0..(Total - 1) : Query(Seg(n)) = NoEntry
<1> DEFINE segments == {Append(VersionPath, n) : n \in 0..(Total - 1)}
<1>1. /\ {FilePath, VersionPath} \cup segments \subseteq DOMAIN coll
      /\ coll[FilePath] = Entry("file", <<FileVersion>>)
      /\ coll[VersionPath] = Entry("ver", [k \in 1..Total |-> k - 1])
      /\ \A p \in segments : coll[p].type = "seg" /\ coll[p].data # <<>>
      /\ \A p \in DOMAIN coll : IsStrictPrefix(VersionPath, p) => p \in segments
  BY DEF World, WholeFile, FilePath, FileVersion, VersionPath
<1>2. ASSUME NEW n \in Int \ 0..(Total - 1) PROVE Seg(n) \notin DOMAIN coll
  <2>1. VersionPath \in Seq(Int) /\ Seg(n) # VersionPath
    BY PathsAre, AppendProperties DEF Seg
  <2>2. IsStrictPrefix(VersionPath, Seg(n))
    BY <2>1, PathsAre, PrefixOfAppend, SubSeqFull, LenProperties DEF IsStrictPrefix, IsPrefix, Seg
  <2>3. Seg(n) \notin segments
    BY PathsAre DEF Seg
  <2> QED  BY <1>1, <2>2, <2>3
<1> QED  BY <1>1, <1>2 DEF Query, Seg

\* Which segments answer which interests.
LEMMA AnswersAre ==
    ASSUME World, Fetching, NEW m \in Int, NEW n \in Int, For(Numbered(m), Seg(n))
    PROVE  m = n
<1>1. Seg(m) \in Seq(Int) /\ Seg(n) \in Seq(Int) /\ Len(Seg(m)) = Len(Seg(n))
  BY PathsAre
<1>2. SubSeq(Seg(m), 1, Len(Seg(m))) = SubSeq(Seg(n), 1, Len(Seg(n)))
  BY <1>1 DEF For, IsPrefix, Numbered, Plain, Interest
<1>3. Seg(m) = Seg(n)
  BY <1>1, <1>2, SubSeqFull
<1> QED  BY <1>3, PathsAre

LEMMA InterestsDiffer ==
    ASSUME World, Fetching
    PROVE  /\ run.want = Plain(FilePath) /\ run.want # Plain(<<>>)
           /\ \A n \in Int : Numbered(n) # run.want /\ Numbered(n) # Plain(<<>>)
           /\ \A m, n \in Int : Numbered(m) = Numbered(n) => m = n
<1>1. \A p, q : Plain(p) = Plain(q) => p = q
  BY DEF Plain, Interest
<1>2. run.want = Plain(FilePath)
  BY DEF World, WholeFile, FilePath
<1>3. ASSUME NEW n \in Int PROVE Seg(n) # FilePath /\ Seg(n) # <<>>
  <2>1. Len(FilePath) \in Nat /\ Len(Seg(n)) = Len(FilePath) + 2 /\ Len(<<>>) = 0
    BY PathsAre, LenProperties, EmptySeq
  <2> HIDE DEF Seg, FilePath
  <2> QED  BY <2>1
<1> QED  BY <1>1, <1>2, <1>3, PathsAre DEF Numbered

-----------------------------------------------------------------------------
(* The interests that wait, as a set.                                        *)

LEMMA Sends ==
    ASSUME pending = SetToBag(Waiting), NEW i \in Waiting, NEW s,
           s \cap (Waiting \ {i}) = {}, Send(i, s)
    PROVE  /\ Waiting' = (Waiting \ {i}) \cup s /\ (pending = SetToBag(Waiting))'
           /\ wire' \subseteq wire \cup s
<1> DEFINE one == SetToBag({i})
           rest == pending (-) one
<1>1. pending = [e \in Waiting |-> 1] /\ one = [e \in {i} |-> 1]
  BY DEF SetToBag
<1>2. rest = [e \in Waiting \ {i} |-> 1]
  <2> DEFINE b == [e \in Waiting |-> IF e \in {i} THEN pending[e] - one[e] ELSE pending[e]]
  <2>1. DOMAIN pending = Waiting /\ DOMAIN one = {i}
    BY <1>1
  <2>2. rest = [e \in {d \in Waiting : b[d] > 0} |-> b[e]]
    BY <2>1 DEF (-)
  <2>3. \A e \in Waiting : b[e] = IF e = i THEN 0 ELSE 1
    BY <1>1
  <2> HIDE DEF b
  <2>4. {d \in Waiting : b[d] > 0} = Waiting \ {i}
    BY <2>3
  <2> QED  BY <2>2, <2>3, <2>4
<1>3. rest (+) SetToBag(s) = [e \in (Waiting \ {i}) \cup s |-> 1]
  <2> DEFINE more == SetToBag(s)
  <2>1. more = [e \in s |-> 1]
    BY DEF SetToBag
  <2> HIDE DEF more, rest
  <2>2. rest (+) more = [e \in (Waiting \ {i}) \cup s |->
          (IF e \in Waiting \ {i} THEN rest[e] ELSE 0) + (IF e \in s THEN more[e] ELSE 0)]
    BY <1>2, <2>1 DEF (+)
  <2>3. \A e \in (Waiting \ {i}) \cup s :
          (IF e \in Waiting \ {i} THEN rest[e] ELSE 0) + (IF e \in s THEN more[e] ELSE 0) = 1
    BY <1>2, <2>1
  <2> QED  BY <2>2, <2>3 DEF more
<1>4. pending' = [e \in (Waiting \ {i}) \cup s |-> 1]
  BY <1>3 DEF Send
<1>5. Waiting' = (Waiting \ {i}) \cup s
  BY <1>4 DEF Waiting, BagToSet
<1> QED  BY <1>4, <1>5 DEF Send, SetToBag

-----------------------------------------------------------------------------
(* The search of either server for the file, or for one of its segments.     *)

LEMMA FirstInOrder ==
    ASSUME NEW n \in Nat \ {0}, NEW s \in [1..n -> Int],
           \A i, j \in 1..n : i < j => s[i] <= s[j]
    PROVE  /\ DOMAIN Ordered(s) = 1..n /\ \A k \in 1..n : Ordered(s)[k] \in Int
           /\ Ordered(s)[1] = s[1]
<1> DEFINE D == 1..n
           id == [i \in D |-> i]
           good(p) == \A i, j \in D : i < j => s[p[i]] <= s[p[j]]
<1>1. id \in Bijection(D, D) /\ good(id)
  BY DEF Bijection, Injection, Surjection, IsInjective
<1>2. PICK q : q = CHOOSE p \in Bijection(D, D) : good(p)
  OBVIOUS
<1>3. q \in Bijection(D, D) /\ good(q)
  BY <1>1, <1>2
<1>4. q \in [D -> D] /\ \E j \in D : q[j] = 1
  <2>1. q \in Bijection(D, D)
    BY <1>3
  <2>2. q \in [D -> D] /\ \A t \in D : \E j \in D : q[j] = t
    BY <2>1 DEF Bijection, Injection, Surjection
  <2>3. 1 \in D
    OBVIOUS
  <2> QED  BY <2>2, <2>3
<1>5. Ordered(s) = [i \in D |-> s[q[i]]]
  BY <1>2 DEF Ordered
<1>6. s[q[1]] = s[1]
  <2>1. PICK j \in D : q[j] = 1
    BY <1>4
  <2>2. q[1] \in D /\ s[q[1]] \in Int /\ s[1] \in Int
    BY <1>4
  <2>3. s[q[1]] <= s[1]
    BY <1>3, <2>1, <2>2
  <2>4. s[1] <= s[q[1]]
    BY <2>2
  <2> QED  BY <2>2, <2>3, <2>4
<1> QED  BY <1>4, <1>5, <1>6

ServerStep == Search \/ FetchData \/ JsSearch \/ JsSend
Continues(t) == \E b \in BOOLEAN : srv' = [srv EXCEPT !.set = b, !.todo = t]
Ends == srv' = Idle \/ srv' = [Idle EXCEPT !.pc = "down"]

LEMMA StepsOnFile ==
    ASSUME World, Fetching, srv \in Servers, srv.want = run.want, FindsFirst, ServerStep
    PROVE  /\ \/ Ends
              \/ At("search") /\ srv' = [srv EXCEPT !.pc = "fetch", !.hit = Seg(0)]
              \/ /\ At("search")
                 /\ \E t \in Seq(Seq(Int)) :
                       Continues(t) /\ t # <<>> /\ Head(t) \in {VersionPath, Seg(0)}
           /\ FetchData => srv.hit = Seg(0)
           /\ JsSend => Path = Seg(0)
<1>1. srv.want.sel = "left" /\ srv.want.max = ncomps /\ srv.want.min = ncomps /\ ~Selects
  BY InterestsDiffer DEF Plain, Interest, Selects
<1>2. srv.todo \in Seq(Seq(Int)) /\ srv.set \in BOOLEAN
  BY DEF Servers
<1>3. /\ Query(FilePath).type = "file" /\ Query(FilePath).data[1] = FileVersion
      /\ Query(FilePath).data # <<>>
      /\ Query(VersionPath).type = "ver"
      /\ Query(VersionPath).data = [k \in 1..Total |-> k - 1]
      /\ Query(Seg(0)).type = "seg"
  BY QueriesAre DEF Entry
<1>4. FilePath # <<>> /\ VersionPath # <<>> /\ VersionPath \in Seq(Int) /\ Seg(0) \in Seq(Int)
  BY PathsAre, EmptySeq, LenProperties
<1>5. VersionPath = Append(FilePath, FileVersion) /\ Seg(0) = Append(VersionPath, 0)
  BY DEF VersionPath, Seg
<1>6. At("search") => srv.todo # <<>> /\ Path \in {FilePath, VersionPath, Seg(0)}
  BY DEF FindsFirst
<1>7. srv.todo # <<>> => Tail(srv.todo) \in Seq(Seq(Int))
  BY <1>2
<1> HIDE DEF FilePath, VersionPath, Seg, FileVersion
<1>8. CASE SearchList
  <2>1. At("search") /\ srv.todo # <<>> /\ Path = VersionPath
    BY <1>3, <1>6, <1>8 DEF SearchList, Cpp, Searching, Found
  <2> DEFINE d == [k \in 1..Total |-> k - 1]
             s == Ordered(d)
             h == [i \in DOMAIN s |-> Append(VersionPath, s[i])]
             t == h \o Tail(srv.todo)
  <2>2. d \in [1..Total -> Int] /\ d[1] = 0 /\ \A i, j \in 1..Total : i < j => d[i] <= d[j]
    OBVIOUS
  <2>3. DOMAIN s = 1..Total /\ (\A k \in 1..Total : s[k] \in Int) /\ s[1] = 0
    <3> HIDE DEF d
    <3> QED  BY <2>2, FirstInOrder
  <2>4. Children(Found) = s
    BY <1>1, <1>3, <2>1 DEF Children, Found
  <2>5. srv' = [srv EXCEPT !.set = @ \/ Selects, !.todo = t]
    BY <1>8, <2>1, <2>4 DEF SearchList
  <2> HIDE DEF s
  <2>6. h \in Seq(Seq(Int)) /\ Len(h) = Total /\ h[1] = Seg(0)
    <3>1. \A i \in 1..Total : Append(VersionPath, s[i]) \in Seq(Int)
      BY <1>4, <2>3, AppendProperties
    <3> QED  BY <1>5, <2>3, <3>1
  <2> HIDE DEF h
  <2>7. t \in Seq(Seq(Int)) /\ t # <<>> /\ Head(t) = Seg(0)
    <3>1. h # <<>>
      BY <2>6, EmptySeq
    <3> QED  BY <1>7, <2>1, <2>6, <3>1, ConcatProperties, EmptySeq
  <2> HIDE DEF t
  <2>8. Continues(t)
    BY <1>2, <2>5 DEF Continues, Servers
  <2> QED  BY <1>8, <2>1, <2>7, <2>8 DEF SearchList, FetchData, JsSend, At, Cpp, Js, Searching
<1>9. ~SearchNothing
  BY <1>1 DEF SearchNothing, OutOfRange
<1>10. CASE Missing \/ JsMissing \/ NoMatch \/ FetchNull \/ FetchCut \/ JsCut \/ FetchData \/ JsSend
  <2>1. ~Missing
    BY <1>3, <1>6 DEF Missing, Cpp, Searching, Found
  <2>2. FetchData => srv.hit = Seg(0)
    BY DEF FetchData, FindsFirst
  <2>3. JsSend => Path = Seg(0)
    BY <1>3, <1>6 DEF JsSend, Js, Searching, Found
  <2> QED
    BY <1>10, <2>1, <2>2, <2>3 DEF JsMissing, NoMatch, FetchNull, FetchCut, JsCut, FetchData, JsSend, Ends, End, Die
<1>11. CASE SearchFile
  <2>1. At("search") /\ srv.todo # <<>> /\ Path = FilePath
    BY <1>3, <1>6, <1>11 DEF SearchFile, Cpp, Searching, Found
  <2> DEFINE t == <<VersionPath>> \o Tail(srv.todo)
  <2>2. srv' = [srv EXCEPT !.todo = t]
    BY <1>3, <1>5, <1>11, <2>1 DEF SearchFile, Continue, Found
  <2>3. t \in Seq(Seq(Int)) /\ t # <<>> /\ Head(t) = VersionPath
    BY <1>4, <1>7, <2>1
  <2> HIDE DEF t
  <2>4. Continues(t)
    BY <1>2, <2>2 DEF Continues, Servers
  <2> QED  BY <1>11, <2>1, <2>3, <2>4 DEF SearchFile, FetchData, JsSend, At, Cpp, Js, Searching
<1>12. CASE SearchSegment
  <2>1. At("search") /\ Path = Seg(0)
    BY <1>3, <1>6, <1>12 DEF SearchSegment, Cpp, Searching, Found
  <2>2. CheckSuffix(Path, srv.want)
    BY <1>1 DEF CheckSuffix
  <2>3. srv' = [srv EXCEPT !.pc = "fetch", !.hit = Seg(0)]
    BY <1>12, <2>1, <2>2 DEF SearchSegment
  <2> QED  BY <1>12, <2>1, <2>3 DEF SearchSegment, FetchData, JsSend, At, Cpp, Js, Searching
<1>13. CASE JsDescend
  <2>1. At("search") /\ srv.todo # <<>> /\ Path \in {FilePath, VersionPath}
    BY <1>3, <1>6, <1>13 DEF JsDescend, Js, Searching, Found
  <2>2. ASSUME Path = FilePath
        PROVE  JsChild(Path, JsFirst(Found)) = VersionPath
    BY <1>3, <1>4, <1>5, <2>2 DEF JsChild, JsFirst, Found
  <2>3. ASSUME Path = VersionPath
        PROVE  JsChild(Path, JsFirst(Found)) = Seg(0)
    <3> DEFINE d == [k \in 1..Total |-> k - 1]
    <3>1. d # <<>> /\ d[1] = 0
      BY EmptySeq
    <3> HIDE DEF d
    <3>2. Found.data = d
      BY <1>3, <2>3 DEF Found, d
    <3> QED  BY <1>4, <1>5, <2>3, <3>1, <3>2 DEF JsChild, JsFirst
  <2> DEFINE x == JsChild(Path, JsFirst(Found))
             t == <<x>>
  <2>4. x \in {VersionPath, Seg(0)}
    BY <2>1, <2>2, <2>3
  <2>5. srv' = [srv EXCEPT !.todo = t]
    BY <1>13 DEF JsDescend, Continue
  <2> HIDE DEF x
  <2>6. t \in Seq(Seq(Int)) /\ t # <<>> /\ Head(t) \in {VersionPath, Seg(0)}
    BY <1>4, <2>4
  <2> HIDE DEF t
  <2>7. Continues(t)
    BY <1>2, <2>5 DEF Continues, Servers
  <2>8. ~JsSend
    BY <1>3, <1>13 DEF JsSend, JsDescend, Js, Searching
  <2> QED  BY <1>13, <2>1, <2>6, <2>7, <2>8 DEF JsDescend, FetchData, At, Js, Searching
<1> QED
  BY <1>8, <1>9, <1>10, <1>11, <1>12, <1>13 DEF ServerStep, Search, JsSearch

LEMMA StepsOnSegment ==
    ASSUME World, Fetching, srv \in Servers, NEW n \in Nat, srv.want = Numbered(n),
           Finds(n), ServerStep
    PROVE  /\ \/ Ends
              \/ At("search") /\ n < Total /\ srv' = [srv EXCEPT !.pc = "fetch", !.hit = Seg(n)]
              \/ At("search") /\ srv' = [srv EXCEPT !.todo = <<>>]
           /\ FetchData => srv.hit = Seg(n) /\ n < Total
           /\ JsSend => Path = Seg(n) /\ n < Total
<1>1. srv.want.max = ncomps /\ srv.want.min = ncomps
  BY DEF Numbered, Plain, Interest
<1>2. IF n < Total THEN Query(Seg(n)).type = "seg" ELSE Query(Seg(n)).type = "none"
  <2>1. NoEntry.type = "none"
    BY DEF NoEntry, Entry
  <2>2. CASE n < Total
    <3>1. n \in 0..(Total - 1)
      BY <2>2
    <3> QED  BY <2>2, <3>1, QueriesAre
  <2>3. CASE ~(n < Total)
    <3>1. n \in Int \ 0..(Total - 1)
      BY <2>3
    <3> QED  BY <2>1, <2>3, <3>1, QueriesAre
  <2> QED  BY <2>2, <2>3
<1>3. At("search") /\ srv.todo # <<>> => srv.todo = <<Seg(n)>> /\ Path = Seg(n)
  BY DEF Finds, Path
<1>4. At("fetch") => srv.hit = Seg(n) /\ n < Total
  BY DEF Finds
<1> HIDE DEF Seg
<1>5. ~SearchList /\ ~SearchNothing /\ ~SearchFile /\ ~JsDescend
  BY <1>2, <1>3
     DEF SearchList, SearchNothing, SearchFile, JsDescend, Cpp, Js, Searching, Found
<1>6. CASE Missing
  <2>1. At("search") /\ srv.todo = <<Seg(n)>>
    BY <1>3, <1>6 DEF Missing, Cpp, Searching
  <2>2. Tail(srv.todo) = <<>>
    BY <2>1
  <2> QED  BY <1>6, <2>1, <2>2 DEF Missing, Continue, FetchData, JsSend, At, Cpp, Js, Searching
<1>7. CASE SearchSegment
  <2>1. At("search") /\ Path = Seg(n) /\ n < Total
    BY <1>2, <1>3, <1>7 DEF SearchSegment, Cpp, Searching, Found
  <2>2. srv' = [srv EXCEPT !.pc = "fetch", !.hit = Seg(n)]
    BY <1>1, <1>7, <2>1 DEF SearchSegment, CheckSuffix
  <2> QED  BY <1>7, <2>1, <2>2 DEF SearchSegment, FetchData, JsSend, At, Cpp, Js, Searching
<1>8. CASE JsMissing \/ NoMatch \/ FetchNull \/ FetchCut \/ JsCut \/ FetchData \/ JsSend
  <2>1. FetchData => srv.hit = Seg(n) /\ n < Total
    BY <1>4 DEF FetchData
  <2>2. JsSend => Path = Seg(n) /\ n < Total
    BY <1>2, <1>3 DEF JsSend, Js, Searching, Found
  <2> QED
    BY <1>8, <2>1, <2>2 DEF JsMissing, NoMatch, FetchNull, FetchCut, JsCut, FetchData, JsSend, Ends, End, Die
<1> QED  BY <1>5, <1>6, <1>7, <1>8 DEF ServerStep, Search, JsSearch

-----------------------------------------------------------------------------
(* The collection and who asks for what stay as they are.                    *)

LEMMA Frame ==
    ASSUME UNCHANGED <<coll, run>>
    PROVE  /\ (World' <=> World) /\ (Fetching' <=> Fetching)
           /\ FilePath' = FilePath /\ VersionPath' = VersionPath /\ Servers' = Servers
           /\ \A n : Seg(n)' = Seg(n) /\ Numbered(n)' = Numbered(n)
           /\ \A ns : Segs(ns)' = Segs(ns)
<1>1. coll' = coll /\ run' = run
  OBVIOUS
<1>2. (World' <=> World) /\ (Fetching' <=> Fetching)
  BY <1>1 DEF World, Fetching
<1>3. FilePath' = FilePath /\ VersionPath' = VersionPath
  BY <1>1 DEF FilePath, FileVersion, VersionPath
<1>4. \A n : Seg(n)' = Seg(n) /\ Numbered(n)' = Numbered(n)
  BY <1>3 DEF Seg, Numbered
<1>5. Asked' = Asked
  BY <1>1, <1>4 DEF Asked
<1>6. Servers' = Servers
  BY <1>5 DEF Servers
<1>7. \A ns : Segs(ns)' = Segs(ns)
  BY <1>4 DEF Segs
<1> QED  BY <1>2, <1>3, <1>4, <1>6, <1>7

LEMMA IdleIs ==
    /\ Idle.pc = "idle" /\ Idle.want = Plain(<<>>)
    /\ DOMAIN Idle = {"pc", "js", "want", "todo", "set", "hit"} /\ Idle \in Servers
BY EmptySeq DEF Idle, Servers, Asked

LEMMA ServerStarts ==
    ASSUME World, Fetching, NEW i \in {run.want} \cup {Numbered(n) : n \in Nat},
           OnInterest(i, run.js), UNCHANGED <<coll, run>>
    PROVE  ServerInv' /\ srv'.want = i
<1> DEFINE s == [Idle EXCEPT !.pc = "search", !.js = run.js, !.want = i, !.todo = <<i.name>>]
<1>1. srv' = s
  <2>1. PICK x : x \in ChildSelector(i)
                 /\ srv' = [Idle EXCEPT !.pc = "search", !.js = run.js,
                                        !.want = [i EXCEPT !.sel = x], !.todo = <<i.name>>]
    BY DEF OnInterest
  <2>2. PICK n : i = Plain(n)
    BY DEF World, WholeFile, Numbered
  <2>3. ChildSelector(i) = {"left"} /\ [i EXCEPT !.sel = "left"] = i
    BY <2>2 DEF ChildSelector, Plain, Interest
  <2> QED  BY <2>1, <2>3
<1>2. s.pc = "search" /\ s.want = i /\ s.todo = <<i.name>>
  BY IdleIs
<1>3. /\ run.want.name = FilePath /\ FilePath \in Seq(Int)
      /\ \A n \in Nat : Numbered(n).name = Seg(n) /\ Seg(n) \in Seq(Int)
  BY PathsAre DEF Numbered, Plain, Interest, FilePath
<1>4. s \in Servers
  <2>1. i.name \in Seq(Int) /\ i \in Asked /\ run.js \in BOOLEAN
    BY <1>3 DEF Asked, World
  <2>2. <<i.name>> \in Seq(Seq(Int)) /\ <<>> \in Seq(Int)
    BY <2>1
  <2> QED  BY <2>1, <2>2 DEF Servers, Idle
<1> HIDE DEF s
<1>5. i # Plain(<<>>)
  BY InterestsDiffer
<1>6. ASSUME i = run.want PROVE FindsFirst'
  <2>1. srv'.todo = <<FilePath>>
    BY <1>1, <1>2, <1>3, <1>6
  <2> QED  BY <1>1, <1>2, <2>1, Frame DEF FindsFirst, At, Path
<1>7. ASSUME NEW n \in Nat, i = Numbered(n) PROVE Finds(n)'
  <2>1. srv'.todo = <<Seg(n)>>
    BY <1>1, <1>2, <1>3, <1>7
  <2> QED  BY <1>1, <1>2, <2>1, Frame DEF Finds, At
<1>8. srv' \in Servers' /\ (srv.want = Plain(<<>>) => srv.pc \in {"idle", "down"})'
  BY <1>1, <1>2, <1>4, <1>5, Frame
<1>9. (srv.want = run.want => FindsFirst)' /\ (\A n \in Nat : srv.want = Numbered(n) => Finds(n))'
  BY <1>1, <1>2, <1>6, <1>7, Frame
<1> QED  BY <1>1, <1>2, <1>8, <1>9 DEF ServerInv

LEMMA HitIs ==
    ASSUME srv \in Servers, NEW p \in Seq(Int), srv' = [srv EXCEPT !.pc = "fetch", !.hit = p]
    PROVE  srv' \in Servers /\ srv'.want = srv.want /\ srv'.pc = "fetch" /\ srv'.hit = p
BY DEF Servers

\* A search for the file leads to segment 0, one for a segment to that one,
\* and the server works on what it was asked for.
LEMMA ServerWorks ==
    ASSUME World, Fetching, ServerInv, ServerStep, UNCHANGED <<coll, run>>
    PROVE  /\ ServerInv' /\ srv'.want \in {srv.want, Plain(<<>>)}
           /\ FetchData => srv.hit \in All
           /\ JsSend => Path \in All
           /\ srv.want = run.want => (FetchData => srv.hit = Seg(0)) /\ (JsSend => Path = Seg(0))
<1>1. srv \in Servers
  BY DEF ServerInv
<1>2. srv.pc \notin {"idle", "down"}
  BY DEF ServerStep, Search, JsSearch, Missing, SearchList, SearchNothing, SearchFile, SearchSegment,
         NoMatch, FetchNull, FetchCut, FetchData, JsMissing, JsDescend, JsCut, JsSend, At, Cpp, Js,
         Searching
<1>3. ASSUME Ends
      PROVE  ServerInv' /\ srv'.want = Plain(<<>>)
  <2>1. srv' \in Servers /\ srv'.pc \in {"idle", "down"} /\ srv'.want = Plain(<<>>)
    <3>1. CASE srv' = Idle
      BY <3>1, IdleIs
    <3>2. CASE srv' = [Idle EXCEPT !.pc = "down"]
      BY <3>2, IdleIs DEF Servers
    <3> QED  BY <1>3, <3>1, <3>2 DEF Ends
  <2>2. ~At("search")' /\ ~At("fetch")'
    BY <2>1 DEF At
  <2> QED  BY <2>1, <2>2, Frame DEF ServerInv, FindsFirst, Finds
<1>4. \A n \in Int : Seg(n) \in Seq(Int) /\ (n \in 0..(Total - 1) => Seg(n) \in All)
  BY PathsAre DEF All, Segs
<1>5. CASE srv.want = run.want
  <2>1. FindsFirst /\ srv.want # Plain(<<>>) /\ \A n \in Nat : srv.want # Numbered(n)
    BY <1>5, InterestsDiffer DEF ServerInv
  <2>2. ASSUME srv' \in Servers, srv'.want = srv.want, FindsFirst'
        PROVE  ServerInv'
    BY <1>5, <2>1, <2>2, Frame DEF ServerInv
  <2>3. ASSUME srv' = [srv EXCEPT !.pc = "fetch", !.hit = Seg(0)]
        PROVE  ServerInv' /\ srv'.want = srv.want
    <3>1. srv' \in Servers /\ srv'.want = srv.want /\ srv'.pc = "fetch" /\ srv'.hit = Seg(0)
      <4>1. Seg(0) \in Seq(Int)
        BY <1>4
      <4> HIDE DEF Seg
      <4> QED  BY <1>1, <2>3, <4>1, HitIs
    <3>2. FindsFirst'
      BY <3>1, Frame DEF FindsFirst, At
    <3> QED  BY <2>2, <3>1, <3>2
  <2>4. ASSUME At("search"), NEW t \in Seq(Seq(Int)), Continues(t), t # <<>>,
               Head(t) \in {VersionPath, Seg(0)}
        PROVE  ServerInv' /\ srv'.want = srv.want
    <3>1. srv' \in Servers /\ srv'.want = srv.want /\ srv'.pc = "search" /\ srv'.todo = t
      BY <1>1, <2>4 DEF Servers, Continues, At
    <3>2. FindsFirst'
      BY <2>4, <3>1, Frame DEF FindsFirst, At, Path
    <3> QED  BY <2>2, <3>1, <3>2
  <2>5. ServerInv' /\ srv'.want \in {srv.want, Plain(<<>>)}
    BY <1>1, <1>3, <1>5, <2>1, <2>3, <2>4, StepsOnFile
  <2>6. (FetchData => srv.hit = Seg(0)) /\ (JsSend => Path = Seg(0))
    BY <1>1, <1>5, <2>1, StepsOnFile
  <2>7. Seg(0) \in All
    BY <1>4
  <2> QED  BY <2>5, <2>6, <2>7
<1>6. ASSUME NEW n \in Nat, srv.want = Numbered(n)
      PROVE  /\ ServerInv' /\ srv'.want \in {srv.want, Plain(<<>>)}
             /\ (FetchData => srv.hit \in All) /\ (JsSend => Path \in All)
  <2>1. /\ Finds(n) /\ srv.want # run.want /\ srv.want # Plain(<<>>)
        /\ \A m \in Nat : srv.want = Numbered(m) => m = n
    BY <1>6, InterestsDiffer DEF ServerInv
  <2>2. ASSUME srv' \in Servers, srv'.want = srv.want, Finds(n)'
        PROVE  ServerInv'
    <3>1. \A m \in Nat : srv'.want = Numbered(m)' => m = n
      BY <2>1, <2>2, Frame
    <3> QED  BY <2>1, <2>2, <3>1, Frame DEF ServerInv
  <2>3. ASSUME n < Total, srv' = [srv EXCEPT !.pc = "fetch", !.hit = Seg(n)]
        PROVE  ServerInv' /\ srv'.want = srv.want
    <3>1. srv' \in Servers /\ srv'.want = srv.want /\ srv'.pc = "fetch" /\ srv'.hit = Seg(n)
      <4>1. Seg(n) \in Seq(Int)
        BY <1>4
      <4> HIDE DEF Seg
      <4> QED  BY <1>1, <2>3, <4>1, HitIs
    <3>2. Finds(n)'
      BY <2>3, <3>1, Frame DEF Finds, At
    <3> QED  BY <2>2, <3>1, <3>2
  <2>4. ASSUME At("search"), srv' = [srv EXCEPT !.todo = <<>>]
        PROVE  ServerInv' /\ srv'.want = srv.want
    <3>1. srv' \in Servers /\ srv'.want = srv.want /\ srv'.pc = "search" /\ srv'.todo = <<>>
      BY <1>1, <2>4, EmptySeq DEF Servers, At
    <3>2. Finds(n)'
      BY <3>1, Frame DEF Finds, At
    <3> QED  BY <2>2, <3>1, <3>2
  <2>5. ServerInv' /\ srv'.want \in {srv.want, Plain(<<>>)}
    BY <1>1, <1>3, <1>6, <2>1, <2>3, <2>4, StepsOnSegment
  <2>6. n < Total => Seg(n) \in All
    BY <1>4
  <2> QED  BY <1>1, <1>6, <2>1, <2>5, <2>6, StepsOnSegment
<1>7. srv.want \in Asked /\ srv.want # Plain(<<>>)
  BY <1>1, <1>2 DEF ServerInv, Servers
<1>8. \A n \in Nat : Numbered(n) # run.want
  BY InterestsDiffer
<1> QED
  <2>1. srv.want = run.want \/ \E n \in Nat : srv.want = Numbered(n)
    BY <1>7 DEF Asked
  <2>2. srv.want = run.want => (FetchData => srv.hit = Seg(0)) /\ (JsSend => Path = Seg(0))
    BY <1>1, StepsOnFile DEF ServerInv
  <2> QED  BY <1>5, <1>6, <2>1, <2>2

-----------------------------------------------------------------------------
(* What the consumers have.                                                  *)

LEMMA CardinalitiesAre ==
    ASSUME World, Fetching
    PROVE  /\ \A k \in Nat : LET S == {Numbered(n) : n \in 1..k}
                             IN  IsFiniteSet(S) /\ Cardinality(S) = k
           /\ IsFiniteSet(All) /\ Cardinality(All) = Total
<1>1. ASSUME NEW k \in Nat
      PROVE  LET S == {Numbered(n) : n \in 1..k} IN IsFiniteSet(S) /\ Cardinality(S) = k
  <2> DEFINE S == {Numbered(n) : n \in 1..k}
             f == [n \in 1..k |-> Numbered(n)]
  <2>1. f \in [1..k -> S] /\ \A t \in S : \E n \in 1..k : f[n] = t
    OBVIOUS
  <2>2. \A m, n \in 1..k : f[m] = f[n] => m = n
    BY InterestsDiffer
  <2> HIDE DEF S, f
  <2>3. ExistsBijection(1..k, S)
    BY <2>1, <2>2 DEF ExistsBijection, Bijection, Injection, Surjection, IsInjective
  <2>4. IsFiniteSet(S) /\ Cardinality(S) = k
    BY <2>3, FS_Bijection, FS_Interval
  <2> QED  BY <2>4 DEF S
<1>2. IsFiniteSet(All) /\ Cardinality(All) = Total
  <2> DEFINE I == 0..(Total - 1)
             f == [n \in I |-> Seg(n)]
  <2>1. f \in [I -> All] /\ \A t \in All : \E n \in I : f[n] = t
    BY DEF All, Segs
  <2>2. \A m, n \in I : f[m] = f[n] => m = n
    BY PathsAre
  <2> HIDE DEF f
  <2>3. ExistsBijection(I, All)
    BY <2>1, <2>2 DEF ExistsBijection, Bijection, Injection, Surjection, IsInjective
  <2> QED  BY <2>3, FS_Bijection, FS_Interval
<1> QED  BY <1>1, <1>2

LEMMA SegsAre ==
    ASSUME World, Fetching
    PROVE  /\ All = Segs(0..(Total - 1)) /\ Segs({}) = {}
           /\ \A k \in Nat : Segs(0..(k - 1)) \cup {Seg(k)} = Segs(0..k)
           /\ \A k \in Nat : Segs(0..k) \subseteq Segs(0..(k + 1))
           /\ \A k \in Nat, n \in Nat : Seg(n) \in Segs(0..k) <=> n <= k
           /\ \A f, n : f = VersionPath => AskFor(f, {n}) = {Numbered(n)}
<1>1. ASSUME NEW k \in Nat PROVE Segs(0..(k - 1)) \cup {Seg(k)} = Segs(0..k)
  <2>1. 0..k = (0..(k - 1)) \cup {k}
    OBVIOUS
  <2> QED  BY <2>1 DEF Segs
<1>2. ASSUME NEW k \in Nat, NEW n \in Nat PROVE Seg(n) \in Segs(0..k) <=> n <= k
  <2>1. \A x \in 0..k : Seg(x) = Seg(n) => x = n
    BY PathsAre
  <2> HIDE DEF Seg
  <2> QED  BY <2>1 DEF Segs
<1>3. \A f, n : f = VersionPath => AskFor(f, {n}) = {Numbered(n)}
  BY DEF AskFor, Numbered, Seg
<1>4. All = Segs(0..(Total - 1)) /\ Segs({}) = {}
  BY DEF All, Segs
<1>5. \A k \in Nat : Segs(0..k) \subseteq Segs(0..(k + 1))
  BY DEF Segs
<1> QED  BY <1>1, <1>2, <1>3, <1>4, <1>5

\* The first segment, whichever program it is given to.
LEMMA FirstReceived ==
    ASSUME World, Fetching, Starting, NEW i, NEW p, Received(i, p)
    PROVE  /\ i = run.want /\ p = Seg(0) /\ Last(p) = 0 /\ Append(fname, Version(p)) = VersionPath
           /\ got' = Segs(0..0) /\ data \subseteq All
<1>1. i = run.want /\ p = Seg(0) /\ got' = {Seg(0)} /\ fname = FilePath
  BY DEF Starting, Received
<1>2. Last(p) = 0 /\ Version(p) = FileVersion
  BY <1>1, PathsAre
<1>3. got' = Segs(0..0) /\ Seg(0) \in All
  BY <1>1 DEF Segs, All
<1> QED  BY <1>1, <1>2, <1>3 DEF Starting, VersionPath

\* A later segment: each interest is answered by its own.
LEMMA LaterReceived ==
    ASSUME World, Fetching, data \subseteq All, NEW i, NEW p, Received(i, p),
           NEW m \in Nat \ {0}, i = Numbered(m)
    PROVE  p = Seg(m) /\ Last(p) = m /\ m < Total
<1>1. PICK n \in 0..(Total - 1) : p = Seg(n)
  BY DEF Received, All, Segs
<1>2. n = m
  BY <1>1, AnswersAre DEF Received
<1> QED  BY <1>1, <1>2, PathsAre

LEMMA FilesDiffer == ASSUME World, Fetching PROVE VersionPath # FilePath
<1>1. Len(FilePath) \in Nat
  BY PathsAre, LenProperties
<1> QED  BY <1>1, PathsAre

\* Both programs that ask for one segment at a time, from the second on.
LEMMA NextReceived ==
    ASSUME World, Fetching, Going, OneByOne, pending = SetToBag(Waiting),
           NEW i, NEW p, Received(i, p),
           LET n == Last(p)
           IN  n \in Nat \ {0} =>
                  IF n = Total - 1 THEN over' /\ Send(i, {})
                                   ELSE (over' => over) /\ Send(i, {Numbered(n + 1)})
    PROVE  /\ Last(p) \in Nat \ {0} /\ OneByOne' /\ (pending = SetToBag(Waiting))'
           /\ wire' \subseteq wire \cup {Numbered(n) : n \in Nat}
<1>1. PICK k \in 1..Total :
          /\ got = Segs(0..(k - 1))
          /\ \/ ~over /\ Waiting = {Numbered(k)}
             \/ over /\ Waiting = {} /\ k = Total
  BY DEF OneByOne
<1>2. ~over /\ i = Numbered(k) /\ Waiting = {i}
  BY <1>1 DEF Received
<1>3. p = Seg(k) /\ Last(p) = k /\ k < Total
  BY <1>2, LaterReceived DEF Going
<1>4. got' = Segs(0..k)
  BY <1>1, <1>3, SegsAre DEF Received
<1>5. UNCHANGED <<coll, run>>
  BY DEF Received
<1>6. CASE k = Total - 1
  <2>1. over' /\ Waiting' = {} /\ (pending = SetToBag(Waiting))' /\ wire' \subseteq wire
    BY <1>2, <1>3, <1>6, Sends
  <2>2. got' = Segs(0..(Total - 1))' /\ Total \in 1..Total
    BY <1>4, <1>5, <1>6, Frame
  <2> QED  BY <1>3, <2>1, <2>2 DEF OneByOne
<1>7. CASE k # Total - 1
  <2>1. /\ ~over' /\ Waiting' = {Numbered(k + 1)} /\ (pending = SetToBag(Waiting))'
        /\ wire' \subseteq wire \cup {Numbered(k + 1)}
    BY <1>2, <1>3, <1>7, Sends
  <2>2. k + 1 \in 1..Total /\ got' = Segs(0..((k + 1) - 1))'
    <3>1. (k + 1) - 1 = k
      OBVIOUS
    <3> QED  BY <1>3, <1>4, <1>5, <3>1, Frame
  <2>3. Waiting' = {Numbered(k + 1)}'
    BY <1>5, <2>1, Frame
  <2>4. OneByOne'
    BY <2>1, <2>2, <2>3 DEF OneByOne
  <2>5. Numbered(k + 1) \in {Numbered(n) : n \in Nat}
    BY <2>2
  <2> QED  BY <1>3, <2>1, <2>4, <2>5
<1> QED  BY <1>6, <1>7

LEMMA GoingNext ==
    ASSUME World, Fetching, UNCHANGED <<coll, run>>, fname' = VersionPath, data' \subseteq All,
           wire' \subseteq {run.want} \cup {Numbered(n) : n \in Nat},
           IF run.prog = "cat_file_pipe" THEN Piped' ELSE OneByOne'
    PROVE  Going'
<1>1. All' = All /\ VersionPath' = VersionPath
  BY Frame DEF All
<1>2. {Numbered(n) : n \in Nat}' = {Numbered(n) : n \in Nat}
  BY Frame
<1> QED  BY <1>1, <1>2 DEF Going

\* Both programs that ask for one segment at a time, after segment 0.
LEMMA SecondAsked ==
    ASSUME World, Fetching, Starting, pending = SetToBag(Waiting),
           run.prog \in {"cat_file", "cat_file_py"},
           NEW i, NEW p, Received(i, p), fname' = VersionPath,
           \/ over' /\ Total = 1 /\ Send(i, {})
           \/ ~over' /\ Send(i, {Numbered(1)})
    PROVE  Going' /\ (pending = SetToBag(Waiting))'
<1>1. /\ i \in Waiting /\ Waiting = {i} /\ got' = Segs(0..0) /\ wire \subseteq {run.want}
      /\ data' \subseteq All /\ UNCHANGED <<coll, run>>
  BY FirstReceived DEF Starting, Received
<1>2. 1 - 1 = 0 /\ 1 \in 1..Total
  OBVIOUS
<1>3. got' = Segs(0..(1 - 1))'
  BY <1>1, <1>2, Frame
<1>4. CASE over' /\ Total = 1 /\ Send(i, {})
  <2>1. Waiting' = {} /\ (pending = SetToBag(Waiting))' /\ wire' \subseteq wire
    BY <1>1, <1>4, Sends
  <2>2. OneByOne'
    BY <1>2, <1>3, <1>4, <2>1 DEF OneByOne
  <2> QED  BY <1>1, <2>1, <2>2, GoingNext
<1>5. CASE ~over' /\ Send(i, {Numbered(1)})
  <2>1. /\ Waiting' = {Numbered(1)} /\ (pending = SetToBag(Waiting))'
        /\ wire' \subseteq wire \cup {Numbered(1)}
    BY <1>1, <1>5, Sends
  <2>2. Waiting' = {Numbered(1)}'
    BY <1>1, <2>1, Frame
  <2>3. OneByOne'
    BY <1>2, <1>3, <1>5, <2>1, <2>2 DEF OneByOne
  <2> QED  BY <1>1, <2>1, <2>3, GoingNext
<1> QED  BY <1>4, <1>5

LEMMA CatNext ==
    ASSUME World, Fetching, Starting \/ Going, pending = SetToBag(Waiting),
           NEW i, NEW p, CatOnData(i, p)
    PROVE  Going' /\ (pending = SetToBag(Waiting))'
<1>1. Received(i, p) /\ run.prog = "cat_file"
  BY DEF CatOnData
<1>2. CASE Starting
  <2>1. Last(p) = 0 /\ Append(fname, Version(p)) = VersionPath /\ ~over
    BY <1>1, <1>2, FirstReceived DEF Starting
  <2>2. fname' = VersionPath
    BY <2>1 DEF CatOnData
  <2>3. ~over'
    BY <2>1 DEF CatOnData
  <2>4. Send(i, AskFor(VersionPath, {1}))
    <3>1. Send(i, AskFor(Append(fname, Version(p)), {0 + 1}))
      BY <2>1 DEF CatOnData
    <3> QED  BY <2>1, <3>1
  <2>5. AskFor(VersionPath, {1}) = {Numbered(1)}
    BY SegsAre
  <2> QED  BY <1>1, <1>2, <2>2, <2>3, <2>4, <2>5, SecondAsked
<1>3. CASE Going
  <2>1. ASSUME Last(p) \in Nat \ {0}
        PROVE  /\ UNCHANGED fname
               /\ IF Last(p) = Total - 1 THEN over' /\ Send(i, {})
                                         ELSE (over' => over) /\ Send(i, {Numbered(Last(p) + 1)})
    <3>1. UNCHANGED fname
      BY <2>1 DEF CatOnData
    <3>2. AskFor(fname, {Last(p) + 1}) = {Numbered(Last(p) + 1)}
      BY <1>3, SegsAre DEF Going
    <3>3. ASSUME Last(p) = Total - 1 PROVE over' /\ Send(i, {})
      <4>1. over' = (over \/ TRUE) /\ Send(i, {})
        BY <2>1, <3>3 DEF CatOnData
      <4> QED  BY <4>1
    <3>4. ASSUME Last(p) # Total - 1
          PROVE  (over' => over) /\ Send(i, AskFor(fname, {Last(p) + 1}))
      <4>1. over' = (over \/ FALSE)
        BY <3>4 DEF CatOnData
      <4>2. Send(i, AskFor(fname, {Last(p) + 1}))
        BY <2>1, <3>4 DEF CatOnData
      <4> QED  BY <4>1, <4>2
    <3> QED  BY <3>1, <3>2, <3>3, <3>4
  <2>2. OneByOne
    BY <1>1, <1>3 DEF Going
  <2>3. /\ Last(p) \in Nat \ {0} /\ OneByOne' /\ (pending = SetToBag(Waiting))'
        /\ wire' \subseteq wire \cup {Numbered(n) : n \in Nat}
    BY <1>1, <1>3, <2>1, <2>2, NextReceived
  <2> QED  BY <1>1, <1>3, <2>1, <2>3, GoingNext DEF Going, Received
<1> QED  BY <1>2, <1>3

LEMMA CatPyNext ==
    ASSUME World, Fetching, Starting \/ Going, pending = SetToBag(Waiting),
           NEW i, NEW p, CatPyOnData(i, p)
    PROVE  Going' /\ (pending = SetToBag(Waiting))'
<1>1. Received(i, p) /\ run.prog = "cat_file_py"
  BY DEF CatPyOnData
<1>2. CASE Starting
  <2>1. Last(p) = 0 /\ Append(fname, Version(p)) = VersionPath /\ ~over /\ fname = FilePath
    BY <1>1, <1>2, FirstReceived DEF Starting
  <2>2. fname' = VersionPath
    BY <2>1 DEF CatPyOnData, FilePath
  <2>3. \/ over' /\ Total = 1 /\ Send(i, {})
        \/ ~over' /\ Send(i, AskFor(VersionPath, {1}))
    <3>1. CASE Total - 1 = 0
      BY <2>1, <3>1 DEF CatPyOnData
    <3>2. CASE Total - 1 # 0
      <4>1. ~over' /\ Send(i, AskFor(Append(fname, Version(p)), {0 + 1}))
        BY <2>1, <3>2 DEF CatPyOnData, FilePath
      <4> QED  BY <2>1, <4>1
    <3> QED  BY <3>1, <3>2
  <2>4. AskFor(VersionPath, {1}) = {Numbered(1)}
    BY SegsAre
  <2> QED  BY <1>1, <1>2, <2>2, <2>3, <2>4, SecondAsked
<1>3. CASE Going
  <2>1. fname # run.want.name /\ UNCHANGED fname
    BY <1>3, FilesDiffer DEF Going, FilePath, CatPyOnData
  <2>2. AskFor(fname, {Last(p) + 1}) = {Numbered(Last(p) + 1)}
    BY <1>3, SegsAre DEF Going
  <2>3. IF Last(p) = Total - 1 THEN over' /\ Send(i, {})
                               ELSE (over' => over) /\ Send(i, {Numbered(Last(p) + 1)})
    <3>1. \/ Last(p) = Total - 1 /\ over' /\ Send(i, {})
          \/ Last(p) # Total - 1 /\ over' = over /\ Send(i, AskFor(fname, {Last(p) + 1}))
      BY <2>1 DEF CatPyOnData
    <3>2. CASE Last(p) = Total - 1
      BY <3>1, <3>2
    <3>3. CASE Last(p) # Total - 1
      <4>1. over' = over /\ Send(i, AskFor(fname, {Last(p) + 1}))
        BY <3>1, <3>3
      <4>2. over' => over
        BY <4>1, SMT
      <4>3. Send(i, {Numbered(Last(p) + 1)})
        BY <2>2, <4>1
      <4> QED  BY <3>3, <4>2, <4>3
    <3> QED  BY <3>2, <3>3
  <2>4. OneByOne
    BY <1>1, <1>3 DEF Going
  <2>5. /\ OneByOne' /\ (pending = SetToBag(Waiting))'
        /\ wire' \subseteq wire \cup {Numbered(n) : n \in Nat}
    BY <1>1, <1>3, <2>3, <2>4, NextReceived
  <2> QED  BY <1>1, <1>3, <2>1, <2>5, GoingNext DEF Going, Received
<1> QED  BY <1>2, <1>3

\* The pipe is filled when segment 0 comes.
LEMMA PipeStartNext ==
    ASSUME World, Fetching, Starting \/ Going, pending = SetToBag(Waiting),
           NEW i, NEW p, PipeStart(i, p)
    PROVE  Going' /\ (pending = SetToBag(Waiting))'
<1>1. Received(i, p) /\ run.prog = "cat_file_pipe" /\ Last(p) = 0 /\ UNCHANGED over
  BY DEF PipeStart
<1>2. CASE Starting
  <2> DEFINE asked == {Numbered(n) : n \in 1..PipeSize}
  <2>1. /\ i \in Waiting /\ Waiting = {i} /\ got' = Segs(0..0) /\ wire \subseteq {run.want}
        /\ p = Seg(0) /\ data' \subseteq All /\ UNCHANGED <<coll, run>>
    BY <1>1, <1>2, FirstReceived DEF Starting, Received
  <2>2. fname' = VersionPath /\ nextseq' = PipeSize /\ count' = 1 /\ ~over'
    BY <1>1, <1>2, FirstReceived DEF Starting, PipeStart
  <2>3. Send(i, asked)
    <3>1. AskFor(VersionPath, 1..PipeSize) = asked
      BY DEF AskFor, Numbered, Seg
    <3>2. Send(i, AskFor(fname', (0 + 1)..nextseq'))
      BY <1>2 DEF Starting, PipeStart
    <3>3. AskFor(fname', (0 + 1)..nextseq') = AskFor(VersionPath, 1..PipeSize)
      BY <2>2
    <3> QED  BY <3>1, <3>2, <3>3
  <2>4. Waiting' = asked /\ (pending = SetToBag(Waiting))' /\ wire' \subseteq wire \cup asked
    BY <2>1, <2>3, Sends
  <2>5. IsFiniteSet(asked) /\ Cardinality(asked) = PipeSize
    BY CardinalitiesAre
  <2>6. got' = {Seg(0)} /\ got' \subseteq All /\ Cardinality(got') = 1
    <3>1. got' = {Seg(0)}
      BY <2>1 DEF Segs
    <3>2. Seg(0) \in All
      BY DEF All, Segs
    <3> QED  BY <3>1, <3>2, FS_Singleton
  <2>7. got' \subseteq Segs(0..PipeSize) /\ \A n \in 1..PipeSize : Seg(n) \notin got'
    <3>1. Seg(0) \in Segs(0..PipeSize)
      BY SegsAre
    <3>2. \A n \in 1..PipeSize : Seg(n) # Seg(0)
      BY PathsAre
    <3> QED  BY <2>6, <3>1, <3>2
  <2>8. Piped'
    <3>1. nextseq' \in Nat \ {0} /\ count' \in 1..Total /\ count' = Cardinality(got')
      BY <2>2, <2>6
    <3>2. Waiting' \subseteq {Numbered(n) : n \in 1..nextseq}'
      BY <2>1, <2>2, <2>4, Frame
    <3>3. got' \subseteq (All \cap Segs(0..nextseq))'
      BY <2>1, <2>2, <2>6, <2>7, Frame DEF All
    <3>4. \A n \in 1..nextseq' : Seg(n)' \notin got'
      BY <2>1, <2>2, <2>7, Frame
    <3>5. IsFiniteSet(Waiting') /\ Cardinality(Waiting') = PipeSize
      BY <2>4, <2>5
    <3> QED  BY <2>2, <3>1, <3>2, <3>3, <3>4, <3>5 DEF Piped
  <2>9. asked \subseteq {Numbered(n) : n \in Nat}
    OBVIOUS
  <2> QED  BY <1>1, <2>1, <2>2, <2>4, <2>8, <2>9, GoingNext
<1>3. CASE Going
  <2>1. PICK m \in Nat \ {0} : i = Numbered(m)
    BY <1>1, <1>3 DEF Going, Piped, Received
  <2> QED  BY <1>1, <1>3, <2>1, LaterReceived DEF Going
<1> QED  BY <1>2, <1>3

\* One is counted, and another asked for in its place until all are.
LEMMA PipeOnDataNext ==
    ASSUME World, Fetching, Starting \/ Going, pending = SetToBag(Waiting),
           NEW i, NEW p, PipeOnData(i, p)
    PROVE  Going' /\ (pending = SetToBag(Waiting))'
<1>1. /\ Received(i, p) /\ run.prog = "cat_file_pipe" /\ Last(p) # 0 /\ UNCHANGED fname
      /\ count' = count + 1 /\ UNCHANGED <<coll, run, data>> /\ got' = got \cup {p}
      /\ i \in Waiting /\ p \in data
  BY DEF PipeOnData, Received
<1>2. Going /\ Piped /\ data \subseteq All
  BY <1>1, FirstReceived DEF Going
<1>3. /\ nextseq \in Nat \ {0} /\ count \in 1..Total
      /\ got \subseteq All /\ got \subseteq Segs(0..nextseq)
      /\ IsFiniteSet(Waiting) /\ count = Cardinality(got)
  BY <1>2 DEF Piped
<1>4. PICK m \in 1..nextseq : i = Numbered(m)
  BY <1>1, <1>2 DEF Piped
<1>5. p = Seg(m) /\ p \notin got
  BY <1>1, <1>2, <1>4, LaterReceived DEF Piped
<1>6. /\ got' \subseteq All /\ got' \subseteq Segs(0..nextseq)
      /\ count' = Cardinality(got') /\ count' \in 1..Total /\ count < Total
  <2>1. IsFiniteSet(All) /\ Cardinality(All) = Total /\ IsFiniteSet(got)
    BY <1>3, CardinalitiesAre, FS_Subset
  <2>2. got' \subseteq All /\ Cardinality(got') = count + 1
    <3>1. got' \subseteq All
      BY <1>1, <1>2, <1>3
    <3>2. Cardinality(got \cup {p}) = Cardinality(got) + 1
      BY <1>5, <2>1, FS_AddElement
    <3> QED  BY <1>1, <1>3, <3>1, <3>2
  <2>3. count + 1 <= Total
    BY <2>1, <2>2, FS_Subset
  <2>4. p \in Segs(0..nextseq)
    BY <1>4, <1>5 DEF Segs
  <2> QED  BY <1>1, <1>3, <2>2, <2>3, <2>4
<1>7. \A n \in 1..nextseq : Numbered(n) \in Waiting \ {i} => Seg(n) \notin got'
  <2>1. \A n \in 1..nextseq : Seg(n) = Seg(m) => n = m
    BY PathsAre
  <2> QED  BY <1>1, <1>2, <1>4, <1>5, <2>1 DEF Piped
<1>8. /\ Cardinality(Waiting) = PipeSize
      /\ IsFiniteSet(Waiting \ {i}) /\ Cardinality(Waiting \ {i}) = PipeSize - 1
  <2>1. Cardinality(Waiting) = PipeSize
    BY <1>2, <1>6 DEF Piped
  <2> QED  BY <1>1, <1>3, <2>1, FS_RemoveElement
<1>9. CASE count' = Total
  <2>1. over' /\ Send(i, {}) /\ UNCHANGED nextseq
    BY <1>9 DEF PipeOnData
  <2>2. Waiting' = Waiting \ {i} /\ (pending = SetToBag(Waiting))' /\ wire' \subseteq wire
    BY <1>1, <2>1, Sends
  <2>3. Piped'
    <3>1. Waiting' \subseteq {Numbered(n) : n \in 1..nextseq}'
      BY <1>1, <1>2, <2>1, <2>2, Frame DEF Piped
    <3>2. got' \subseteq (All \cap Segs(0..nextseq))'
      BY <1>1, <1>6, <2>1, Frame DEF All
    <3>3. \A n \in 1..nextseq' : Numbered(n)' \in Waiting' => Seg(n)' \notin got'
      BY <1>1, <1>7, <2>1, <2>2, Frame
    <3> QED  BY <1>3, <1>6, <1>8, <1>9, <2>1, <2>2, <3>1, <3>2, <3>3 DEF Piped
  <2> QED  BY <1>1, <1>2, <2>2, <2>3, GoingNext DEF Going
<1>10. CASE count' # Total
  <2> DEFINE k == nextseq + 1
  <2>1. UNCHANGED over /\ Send(i, {Numbered(k)}) /\ nextseq' = k
    <3>1. UNCHANGED over /\ Send(i, AskFor(fname, {nextseq'})) /\ nextseq' = k
      BY <1>10 DEF PipeOnData
    <3>2. AskFor(fname, {k}) = {Numbered(k)}
      BY <1>2, SegsAre DEF Going
    <3> QED  BY <3>1, <3>2
  <2>2. Numbered(k) \notin Waiting
    <3>1. \A n \in 1..nextseq : Numbered(n) = Numbered(k) => n = k
      BY <1>3, InterestsDiffer
    <3> QED  BY <1>2, <1>3, <3>1 DEF Piped
  <2>3. /\ Waiting' = (Waiting \ {i}) \cup {Numbered(k)} /\ (pending = SetToBag(Waiting))'
        /\ wire' \subseteq wire \cup {Numbered(k)}
    BY <1>1, <2>1, <2>2, Sends
  <2>4. IsFiniteSet(Waiting') /\ Cardinality(Waiting') = PipeSize
    <3> DEFINE rest == Waiting \ {i}
    <3>1. IsFiniteSet(rest) /\ Cardinality(rest) = PipeSize - 1 /\ Numbered(k) \notin rest
      BY <1>8, <2>2
    <3> HIDE DEF rest
    <3>2. /\ IsFiniteSet(rest \cup {Numbered(k)})
          /\ Cardinality(rest \cup {Numbered(k)}) = Cardinality(rest) + 1
      BY <3>1, FS_AddElement
    <3>3. Waiting' = rest \cup {Numbered(k)}
      BY <2>3 DEF rest
    <3> QED  BY <3>1, <3>2, <3>3
  <2>5. Piped'
    <3>1. Waiting' \subseteq {Numbered(n) : n \in 1..k}
      BY <1>2, <1>3, <2>3 DEF Piped
    <3>2. Waiting' \subseteq {Numbered(n) : n \in 1..nextseq}'
      BY <1>1, <2>1, <3>1, Frame
    <3>3. got' \subseteq (All \cap Segs(0..nextseq))'
      <4>1. got' \subseteq Segs(0..k)
        BY <1>3, <1>6, SegsAre
      <4> QED  BY <1>1, <1>6, <2>1, <4>1, Frame DEF All
    <3>4. \A n \in 1..k : Numbered(n) \in Waiting' => Seg(n) \notin got'
      <4>1. Seg(k) \notin Segs(0..nextseq)
        BY <1>3, SegsAre
      <4>2. \A n \in 1..nextseq : Numbered(n) # Numbered(k)
        BY <1>3, InterestsDiffer
      <4>3. \A n \in 1..k : n = k \/ n \in 1..nextseq
        BY <1>3
      <4> QED  BY <1>6, <1>7, <2>3, <4>1, <4>2, <4>3
    <3>5. \A n \in 1..nextseq' : Numbered(n)' \in Waiting' => Seg(n)' \notin got'
      BY <1>1, <2>1, <3>4, Frame
    <3>6. ~over
      BY <1>2, <1>6 DEF Piped
    <3> QED  BY <1>3, <1>6, <2>1, <2>4, <3>2, <3>3, <3>5, <3>6 DEF Piped
  <2>6. Numbered(k) \in {Numbered(n) : n \in Nat}
    BY <1>3
  <2> QED  BY <1>1, <1>2, <2>3, <2>5, <2>6, GoingNext DEF Going
<1> QED  BY <1>9, <1>10

\* An interest that times out is sent again, or given up by a pipe that has all.
LEMMA TimeoutNext ==
    ASSUME World, Fetching, Starting \/ Going, pending = SetToBag(Waiting),
           NEW i, OnTimeout(i)
    PROVE  (Starting \/ Going)' /\ (pending = SetToBag(Waiting))'
<1> DEFINE again == IF PipeGivesUp THEN {} ELSE {i}
<1>1. /\ i \in Waiting /\ UNCHANGED <<coll, srv, run, fname, nextseq, count, over, data, got>>
      /\ Send(i, again)
  BY DEF OnTimeout
<1>2. /\ Waiting' = (Waiting \ {i}) \cup again /\ (pending = SetToBag(Waiting))'
      /\ wire' \subseteq wire \cup again
  BY <1>1, Sends
<1>3. CASE Starting
  <2>1. Waiting' = Waiting /\ i = run.want
    BY <1>1, <1>2, <1>3 DEF Starting, PipeGivesUp
  <2>2. wire' \subseteq {run.want}
    BY <1>2, <1>3, <2>1 DEF Starting
  <2> QED  BY <1>1, <1>2, <1>3, <2>1, <2>2, Frame DEF Starting
<1>4. CASE Going
  <2>1. ASSUME ~PipeGivesUp PROVE Waiting' = Waiting
    BY <1>1, <1>2, <2>1
  <2>2. i \in {Numbered(n) : n \in Nat}
    BY <1>1, <1>4 DEF Going, Piped, OneByOne
  <2>3. wire' \subseteq {run.want} \cup {Numbered(n) : n \in Nat} /\ data' \subseteq All
    BY <1>1, <1>2, <1>4, <2>2 DEF Going
  <2>4. ASSUME run.prog # "cat_file_pipe" PROVE OneByOne'
    <3>1. Waiting' = Waiting /\ OneByOne
      BY <1>4, <2>1, <2>4 DEF PipeGivesUp, Going
    <3> QED  BY <1>1, <3>1, Frame DEF OneByOne
  <2>5. ASSUME run.prog = "cat_file_pipe" PROVE Piped'
    <3>1. Piped
      BY <1>4, <2>5 DEF Going
    <3>2. Waiting' \subseteq Waiting
      BY <1>1, <1>2
    <3>3. Waiting' \subseteq {Numbered(n) : n \in 1..nextseq}'
      BY <1>1, <3>1, <3>2, Frame DEF Piped
    <3>4. got' \subseteq (All \cap Segs(0..nextseq))'
      BY <1>1, <3>1, Frame DEF Piped, All
    <3>5. \A n \in 1..nextseq' : Numbered(n)' \in Waiting' => Seg(n)' \notin got'
      BY <1>1, <3>1, <3>2, Frame DEF Piped
    <3>6. IsFiniteSet(Waiting')
      BY <3>1, <3>2, FS_Subset DEF Piped
    <3>7. count < Total => Waiting' = Waiting
      BY <2>1, <3>1 DEF PipeGivesUp, Piped
    <3> QED  BY <1>1, <3>1, <3>3, <3>4, <3>5, <3>6, <3>7 DEF Piped
  <2>6. fname' = VersionPath
    BY <1>1, <1>4 DEF Going
  <2> QED  BY <1>1, <1>2, <2>3, <2>4, <2>5, <2>6, GoingNext
<1> QED  BY <1>3, <1>4

\* Nothing is given to the consumer.
LEMMA StaysGoing ==
    ASSUME World, Fetching, Going, Waiting' = Waiting,
           UNCHANGED <<coll, run, fname, nextseq, count, over, pending, got>>,
           data' \subseteq All, wire' \subseteq {run.want} \cup {Numbered(n) : n \in Nat}
    PROVE  Going'
<1>1. ASSUME OneByOne PROVE OneByOne'
  BY <1>1, Frame DEF OneByOne
<1>2. ASSUME Piped PROVE Piped'
  <2>1. All' = All /\ Segs(0..nextseq)' = Segs(0..nextseq)
    BY Frame DEF All
  <2>2. {Numbered(n) : n \in 1..nextseq}' = {Numbered(n) : n \in 1..nextseq}
    BY Frame
  <2> QED  BY <1>2, <2>1, <2>2, Frame DEF Piped
<1>3. fname' = VersionPath /\ IF run.prog = "cat_file_pipe" THEN Piped' ELSE OneByOne'
  BY <1>1, <1>2 DEF Going
<1> QED  BY <1>3, GoingNext

\* A step of the server, of the daemon or of the network.
LEMMA ServesNext ==
    ASSUME World, Fetching, ServerInv, Starting \/ Going, pending = SetToBag(Waiting), Serve
    PROVE  ServerInv' /\ (Starting \/ Going)' /\ (pending = SetToBag(Waiting))'
<1>1. /\ UNCHANGED <<coll, run, fname, nextseq, count, over, pending, got, wire>>
      /\ Waiting' = Waiting
  BY DEF Serve, consumer, Waiting
<1>2. ServerStep
  BY DEF Serve, ServerStep
<1>3. ServerInv' /\ srv'.want \in {srv.want, Plain(<<>>)}
  BY <1>1, <1>2, ServerWorks
<1>4. \/ data' = data
      \/ FetchData /\ data' = data \cup {srv.hit}
      \/ JsSend /\ data' = data \cup {Path}
  BY DEF Serve
<1>5. CASE Starting
  <2>1. srv.want = run.want \/ ~(FetchData \/ JsSend)
    BY <1>5 DEF Starting, ServerInv, FetchData, JsSend, Js, Searching, At
  <2>2. data' \subseteq {Seg(0)}
    BY <1>1, <1>2, <1>4, <1>5, <2>1, ServerWorks DEF Starting
  <2> QED  BY <1>1, <1>3, <1>5, <2>2, Frame DEF Starting
<1>6. CASE Going
  <2>1. data' \subseteq All
    BY <1>1, <1>2, <1>4, <1>6, ServerWorks DEF Going
  <2>2. wire' \subseteq {run.want} \cup {Numbered(n) : n \in Nat}
    BY <1>1, <1>6 DEF Going
  <2>3. UNCHANGED <<coll, run, fname, nextseq, count, over, pending, got>>
    BY <1>1
  <2>4. Going'
    BY <1>1, <1>6, <2>1, <2>2, <2>3, StaysGoing
  <2> QED  BY <1>1, <1>3, <2>4
<1> QED  BY <1>1, <1>3, <1>5, <1>6

\* Whatever happens to what is on its way, as long as nothing new is.
LEMMA LossNext ==
    ASSUME World, Fetching, ServerInv, Starting \/ Going, pending = SetToBag(Waiting),
           UNCHANGED <<coll, run, fname, nextseq, count, over, pending, got>>,
           wire' \subseteq wire, data' \subseteq data,
           ServerInv', Starting => srv'.want \in {Plain(<<>>), run.want}
    PROVE  (Starting \/ Going)' /\ (pending = SetToBag(Waiting))'
<1>1. UNCHANGED <<coll, run, fname, nextseq, count, over, pending, got>> /\ Waiting' = Waiting
  BY DEF Waiting
<1>2. CASE Starting
  BY <1>1, <1>2, Frame DEF Starting
<1>3. CASE Going
  <2>1. data' \subseteq All /\ wire' \subseteq {run.want} \cup {Numbered(n) : n \in Nat}
    BY <1>3 DEF Going
  <2> QED  BY <1>1, <1>3, <2>1, StaysGoing
<1> QED  BY <1>1, <1>2, <1>3

LEMMA FetchInit == Init => World /\ FetchInv
<1> SUFFICES ASSUME Init PROVE World /\ FetchInv
  OBVIOUS
<1>1. World
  BY ConstantsAssumption DEF Init, World, Fetching
<1>2. Waiting = {run.want} /\ pending = SetToBag(Waiting)
  BY DEF Init, SetToBag, Waiting, BagToSet
<1>3. ASSUME Fetching PROVE ServerInv
  <2>1. srv = Idle
    BY DEF Init, SInit
  <2>2. srv \in Servers /\ srv.pc = "idle"
    BY <2>1, IdleIs
  <2> QED  BY <2>2 DEF ServerInv, FindsFirst, Finds, At
<1>4. Starting
  BY <1>2, IdleIs DEF Init, Starting, SInit, FilePath
<1> QED  BY <1>1, <1>2, <1>3, <1>4 DEF FetchInv

LEMMA FetchNext == World /\ FetchInv /\ [Next]_cvars => (World /\ FetchInv)'
<1> SUFFICES ASSUME World, FetchInv, [Next]_cvars PROVE World' /\ FetchInv'
  OBVIOUS
<1>1. UNCHANGED <<coll, run>>
  <2>1. \A i, p : OnData(i, p) => UNCHANGED <<coll, run>>
    BY DEF OnData, ClientOnData, CatOnData, CatPyOnData, PipeStart, PipeOnData, Received
  <2> QED  BY <2>1 DEF Next, cvars, OnTimeout, Deliver, LoseData, Serve, MainReturns
<1>2. World' /\ (Fetching' <=> Fetching)
  BY <1>1, Frame
<1>3. ASSUME Fetching
      PROVE  ServerInv' /\ (Starting \/ Going)' /\ (pending = SetToBag(Waiting))'
  <2> USE <1>3
  <2>1. ServerInv /\ (Starting \/ Going) /\ pending = SetToBag(Waiting)
    BY DEF FetchInv
  <2>2. UNCHANGED srv => ServerInv'
    BY <1>1, <2>1, Frame DEF ServerInv, FindsFirst, Finds, At, Path
  <2>3. ASSUME NEW i \in Waiting, OnTimeout(i)
        PROVE  ServerInv' /\ (Starting \/ Going)' /\ (pending = SetToBag(Waiting))'
    BY <2>1, <2>2, <2>3, TimeoutNext DEF OnTimeout
  <2>4. ASSUME NEW i \in Waiting, NEW p \in data, OnData(i, p)
        PROVE  ServerInv' /\ (Starting \/ Going)' /\ (pending = SetToBag(Waiting))'
    <3>1. UNCHANGED srv
      BY <2>4 DEF OnData, ClientOnData, CatOnData, CatPyOnData, PipeStart, PipeOnData, Received
    <3>2. ~ClientOnData(i, p)
      BY DEF ClientOnData, Fetching
    <3> QED
      BY <2>1, <2>2, <2>4, <3>1, <3>2, CatNext, CatPyNext, PipeStartNext, PipeOnDataNext
         DEF OnData
  <2>5. ASSUME NEW i \in wire, Deliver(i)
        PROVE  ServerInv' /\ (Starting \/ Going)' /\ (pending = SetToBag(Waiting))'
    <3>1. i \in {run.want} \cup {Numbered(n) : n \in Nat} /\ (Starting => i = run.want)
      BY <2>1 DEF Starting, Going
    <3>2. ServerInv' /\ srv'.want = i
      BY <1>1, <2>5, <3>1, ServerStarts DEF Deliver
    <3> QED  BY <2>1, <2>5, <3>1, <3>2, LossNext DEF Deliver, consumer
  <2>6. ASSUME NEW p \in data, LoseData(p)
        PROVE  ServerInv' /\ (Starting \/ Going)' /\ (pending = SetToBag(Waiting))'
    BY <2>1, <2>2, <2>6, LossNext DEF LoseData, Starting, consumer
  <2>7. CASE Serve
    BY <2>1, <2>7, ServesNext
  <2>8. CASE UNCHANGED cvars
    BY <2>1, <2>2, <2>8, LossNext DEF cvars, Starting, consumer
  <2>9. CASE MainReturns
    BY <2>1, <2>2, <2>9, LossNext DEF MainReturns, Starting
  <2> QED  BY <2>3, <2>4, <2>5, <2>6, <2>7, <2>8, <2>9 DEF Next
<1> QED  BY <1>2, <1>3 DEF FetchInv

LEMMA FetchInvariant == Spec => [](World /\ FetchInv)
BY FetchInit, FetchNext, PTL DEF Spec

-----------------------------------------------------------------------------
\* The pipe counts each segment of the file once: whatever timed out, was sent
\* again or came twice, an answer is taken only for an interest that waits, and
\* no interest waits for a segment that was taken (OnData of
\* test/cat_file_pipe.cc).
THEOREM CountsOnce == Spec => []UniqueCount
<1>1. World /\ FetchInv => UniqueCount
  BY FS_EmptySet DEF FetchInv, Fetching, Starting, Going, Piped, UniqueCount
<1> QED  BY <1>1, FetchInvariant, PTL

\* From the first segment to the last the pipe has interest_pipe_size different
\* interests waiting (test/cat_file_pipe.cc:109), for any size of file and pipe.
THEOREM PipeStaysFull == Spec => []PipeFull
<1>1. World /\ FetchInv => PipeFull
  BY DEF FetchInv, Fetching, Starting, Going, Piped, PipeFull
<1> QED  BY <1>1, FetchInvariant, PTL

\* A consumer that returns from its last OnData without asking for more has
\* segments 0 to Total - 1 of one version: none is skipped, none is of another.
THEOREM StopsWithWhole == Spec => []Whole
<1>1. World /\ FetchInv => Whole
  <2> SUFFICES ASSUME World, FetchInv, over, Fetching
               PROVE  /\ {Last(p) : p \in got} = 0..(Total - 1)
                      /\ Cardinality({Front(p) : p \in got}) = 1
    BY DEF Whole, Fetching
  <2>1. Going
    BY DEF FetchInv, Starting
  <2>2. got = All
    <3>1. CASE run.prog # "cat_file_pipe"
      BY <2>1, <3>1 DEF Going, OneByOne, All
    <3>2. CASE run.prog = "cat_file_pipe"
      BY <2>1, <3>2, CardinalitiesAre, FS_Subset DEF Going, Piped
    <3> QED  BY <3>1, <3>2
  <2>3. {Last(p) : p \in got} = 0..(Total - 1)
    <3>1. \A n \in 0..(Total - 1) : Last(Seg(n)) = n
      BY PathsAre
    <3> QED  BY <2>2, <3>1 DEF All, Segs
  <2>4. {Front(p) : p \in got} = {VersionPath}
    <3>1. \A n \in 0..(Total - 1) : Front(Seg(n)) = VersionPath
      BY PathsAre
    <3>2. 0 \in 0..(Total - 1)
      OBVIOUS
    <3> QED  BY <2>2, <3>1, <3>2 DEF All, Segs
  <2> QED  BY <2>3, <2>4, FS_Singleton
<1> QED  BY <1>1, FetchInvariant, PTL

-----------------------------------------------------------------------------
(* Any scenario: what the server finds for the interests that reach it.      *)

AllWant(s) == IF Fetching THEN s \subseteq {run.want} \cup {Numbered(n) : n \in 0..(nextseq + 1)}
                          ELSE s \subseteq {run.want}

\* How far a consumer is that asks for one segment at a time.
Progress ==
    fname # FilePath /\ ~over =>
        \E k \in Nat : Waiting = {Numbered(k)} /\ k \in nextseq..(nextseq + 1)

ScenarioInv ==
    /\ Tree(coll) /\ run.want \in Interests /\ SrvInv
    /\ pending = SetToBag(Waiting) /\ data \cup got \subseteq DOMAIN coll
    /\ nextseq \in Nat /\ count \in Nat /\ over \in BOOLEAN
    /\ AllWant(wire \cup Waiting)
    /\ run.prog \in {"cat_file", "cat_file_py"} => Progress
    /\ ~Fetching /\ srv.pc \in {"search", "fetch"} => srv.want.name = run.want.name

LEMMA InterestsAre ==
    ASSUME World, ScenarioInv
    PROVE  wire \subseteq Interests
<1>1. CASE ~Fetching
  BY <1>1 DEF ScenarioInv, AllWant
<1>2. CASE Fetching
  <2>1. \A n \in Nat : Numbered(n) \in Interests
    <3> TAKE n \in Nat
    <3>1. Seg(n) \in Seq(Int)
      BY <1>2, PathsAre
    <3> QED  BY <3>1, PlainIs DEF Numbered
  <2> QED  BY <1>2, <2>1 DEF ScenarioInv, AllWant
<1> QED  BY <1>1, <1>2

\* Nothing waits or is under way but what did, and what is sent now.
LEMMA SendGives ==
    ASSUME pending = SetToBag(Waiting), NEW i, NEW s, Send(i, s)
    PROVE  Waiting' \subseteq Waiting \cup s /\ wire' \subseteq wire \cup s
<1> DEFINE rest == pending (-) SetToBag({i})
           more == SetToBag(s)
<1>1. DOMAIN rest \subseteq DOMAIN pending
  BY DEF (-)
<1>2. DOMAIN more = s
  BY DEF SetToBag
<1> HIDE DEF rest, more
<1>3. DOMAIN (rest (+) more) = DOMAIN rest \cup DOMAIN more
  BY DEF (+)
<1>4. pending' = rest (+) more
  BY DEF Send, rest, more
<1> QED  BY <1>1, <1>2, <1>3, <1>4 DEF Send, Waiting, BagToSet

\* The interests still are what the consumer asks for, once it is further.
LEMMA WantGrows ==
    ASSUME World, UNCHANGED <<coll, run>>, nextseq \in Nat, nextseq' \in Nat, nextseq <= nextseq',
           AllWant(wire \cup Waiting), NEW s, wire' \cup Waiting' \subseteq (wire \cup Waiting) \cup s,
           IF Fetching THEN s \subseteq {Numbered(n) : n \in 0..(nextseq' + 1)} ELSE s = {}
    PROVE  AllWant(wire \cup Waiting)'
<1>1. (Fetching' <=> Fetching) /\ run' = run /\ \A n : Numbered(n)' = Numbered(n)
  BY Frame
<1>2. CASE ~Fetching
  BY <1>1, <1>2 DEF AllWant
<1>3. CASE Fetching
  <2>1. 0..(nextseq + 1) \subseteq 0..(nextseq' + 1)
    <3>1. \A a, b \in Nat : a <= b => 0..(a + 1) \subseteq 0..(b + 1)
      OBVIOUS
    <3> QED  BY <3>1
  <2>2. {Numbered(n) : n \in 0..(nextseq + 1)} \subseteq {Numbered(n) : n \in 0..(nextseq' + 1)}
    BY <2>1
  <2>3. {Numbered(n) : n \in 0..(nextseq + 1)}' = {Numbered(n) : n \in 0..(nextseq' + 1)}
    BY <1>1
  <2> QED  BY <1>1, <1>3, <2>2, <2>3 DEF AllWant
<1> QED  BY <1>2, <1>3

LEMMA ScenarioInit == Init => ScenarioInv
<1> SUFFICES ASSUME Init PROVE ScenarioInv
  OBVIOUS
<1>1. Tree(coll) /\ run.want \in Interests /\ srv.pc = "idle"
  BY ConstantsAssumption, IdleIs DEF Init, SInit
<1>2. SrvInv
  BY SrvInitially DEF Init
<1>3. Waiting = {run.want} /\ pending = SetToBag(Waiting)
  BY DEF Init, SetToBag, Waiting, BagToSet
<1>4. /\ fname = FilePath /\ nextseq = 0 /\ count = 0 /\ over = FALSE /\ data = {} /\ got = {}
      /\ wire \subseteq {run.want}
  BY DEF Init, FilePath
<1> QED  BY <1>1, <1>2, <1>3, <1>4 DEF ScenarioInv, AllWant, Progress

\* Both programs that ask for one segment at a time.
LEMMA CatScenario ==
    ASSUME World, FetchInv, ScenarioInv, NEW i, NEW p, CatOnData(i, p) \/ CatPyOnData(i, p)
    PROVE  /\ nextseq' \in Nat /\ over' \in BOOLEAN /\ AllWant(wire \cup Waiting)' /\ Progress'
<1>1. /\ Received(i, p) /\ run.prog \in {"cat_file", "cat_file_py"} /\ UNCHANGED <<coll, run>> /\ Fetching
      /\ i \in Waiting
  BY DEF CatOnData, CatPyOnData, Received, Fetching
<1>2. pending = SetToBag(Waiting) /\ nextseq \in Nat /\ over \in BOOLEAN /\ AllWant(wire \cup Waiting) /\ Progress
  BY <1>1 DEF ScenarioInv
<1>3. PICK k \in Nat : /\ Last(p) = k /\ k \in nextseq..(nextseq + 1)
                       /\ Waiting = {i} /\ fname' = VersionPath /\ (fname = FilePath => k = 0)
  <2>1. CASE Starting
    <3>1. Last(p) = 0 /\ Append(fname, Version(p)) = VersionPath /\ Waiting = {i} /\ nextseq = 0 /\ fname = FilePath
      BY <1>1, <2>1, FirstReceived DEF Starting
    <3>2. fname' = VersionPath
      BY <3>1 DEF CatOnData, CatPyOnData, FilePath
    <3> QED  BY <3>1, <3>2
  <2>2. CASE Going
    <3>1. fname = VersionPath /\ fname # FilePath /\ OneByOne /\ data \subseteq All
      BY <1>1, <2>2, FilesDiffer DEF Going
    <3>2. ~over
      BY <1>1, <3>1 DEF OneByOne
    <3>3. PICK k \in Nat : Waiting = {Numbered(k)} /\ k \in nextseq..(nextseq + 1)
      BY <1>2, <3>1, <3>2 DEF Progress
    <3>4. PICK m \in 1..Total : Waiting = {Numbered(m)}
      BY <3>1, <3>2 DEF OneByOne
    <3>5. k = m /\ k # 0 /\ i = Numbered(k) /\ Waiting = {i}
      <4>1. Numbered(k) = Numbered(m)
        BY <3>3, <3>4
      <4>2. k = m
        BY <1>1, <4>1, InterestsDiffer
      <4> QED  BY <1>1, <3>3, <4>2
    <3>6. Last(p) = k
      BY <1>1, <3>1, <3>5, LaterReceived
    <3>7. fname' = VersionPath
      BY <3>1, <3>5, <3>6 DEF CatOnData, CatPyOnData, FilePath
    <3> QED  BY <3>1, <3>3, <3>5, <3>6, <3>7
  <2> QED  BY <1>1, <2>1, <2>2 DEF FetchInv
<1>4. \/ over' = TRUE /\ nextseq' = k /\ Send(i, {})
      \/ over' = over /\ nextseq' \in k..(k + 1) /\ Send(i, {Numbered(k + 1)})
  <2>1. AskFor(VersionPath, {k + 1}) = {Numbered(k + 1)}
    BY <1>1, SegsAre
  <2>2. CASE CatOnData(i, p)
    <3>1. CASE k # 0 /\ k = Total - 1
      BY <1>3, <2>2, <3>1 DEF CatOnData
    <3>2. CASE ~(k # 0 /\ k = Total - 1)
      <4>1. over' = (over \/ FALSE) /\ nextseq' = k + 1
        BY <1>3, <2>2, <3>2 DEF CatOnData
      <4>2. Send(i, AskFor(fname', {k + 1}))
        BY <1>3, <2>2, <3>2 DEF CatOnData
      <4>3. over' = over
        BY <1>2, <4>1
      <4> QED  BY <1>3, <2>1, <4>1, <4>2, <4>3
    <3> QED  BY <3>1, <3>2
  <2>3. CASE CatPyOnData(i, p)
    <3>1. nextseq' = k
      BY <1>3, <2>3 DEF CatPyOnData
    <3>2. \/ over' = TRUE /\ Send(i, {})
          \/ over' = over /\ Send(i, AskFor(fname', {k + 1}))
      BY <1>3, <2>3 DEF CatPyOnData
    <3> QED  BY <1>3, <2>1, <3>1, <3>2
  <2> QED  BY <2>2, <2>3
<1>5. nextseq' \in Nat /\ over' \in BOOLEAN /\ nextseq' \in k..(k + 1) /\ nextseq <= nextseq'
  <2>1. nextseq' \in k..(k + 1)
    <3>1. k \in k..(k + 1)
      OBVIOUS
    <3> QED  BY <1>4, <3>1
  <2>2. \A a \in Nat : \A b : k \in a..(a + 1) /\ b \in k..(k + 1) => b \in Nat /\ a <= b
    OBVIOUS
  <2> QED  BY <1>2, <1>3, <1>4, <2>1, <2>2
<1>6. \E s \in SUBSET {Numbered(n) : n \in 0..(nextseq' + 1)} :
        wire' \cup Waiting' \subseteq (wire \cup Waiting) \cup s
  <2>1. k + 1 \in 0..(nextseq' + 1)
    <3>1. \A b \in Nat : b \in k..(k + 1) => k + 1 \in 0..(b + 1)
      OBVIOUS
    <3> QED  BY <1>5, <3>1
  <2>2. \A s : Send(i, s) => wire' \cup Waiting' \subseteq (wire \cup Waiting) \cup s
    BY <1>2, SendGives
  <2>3. {Numbered(k + 1)} \in SUBSET {Numbered(n) : n \in 0..(nextseq' + 1)}
    BY <2>1
  <2> QED  BY <1>4, <2>2, <2>3
<1>7. AllWant(wire \cup Waiting)'
  BY <1>1, <1>2, <1>5, <1>6, WantGrows
<1>8. Progress'
  <2> SUFFICES ASSUME ~over'
               PROVE  \E m \in Nat : Waiting' = {Numbered(m)'} /\ m \in nextseq'..(nextseq' + 1)
    BY DEF Progress
  <2>1. Send(i, {Numbered(k + 1)})
    BY <1>4
  <2>2. Waiting' = {Numbered(k + 1)}
    BY <1>2, <1>3, <2>1, Sends
  <2>3. k + 1 \in Nat /\ k + 1 \in nextseq'..(nextseq' + 1)
    <3>1. \A b \in Nat : b \in k..(k + 1) => k + 1 \in Nat /\ k + 1 \in b..(b + 1)
      OBVIOUS
    <3>2. nextseq' \in Nat /\ nextseq' \in k..(k + 1)
      BY <1>5
    <3> QED  BY <3>1, <3>2
  <2>4. Numbered(k + 1)' = Numbered(k + 1)
    BY <1>1, Frame
  <2> QED  BY <2>2, <2>3, <2>4
<1> QED  BY <1>5, <1>7, <1>8

\* The program that keeps a pipe of interests.
LEMMA PipeScenario ==
    ASSUME World, FetchInv, ScenarioInv, NEW i, NEW p, PipeStart(i, p) \/ PipeOnData(i, p)
    PROVE  nextseq' \in Nat /\ over' \in BOOLEAN /\ AllWant(wire \cup Waiting)'
<1>1. Received(i, p) /\ run.prog = "cat_file_pipe" /\ UNCHANGED <<coll, run>> /\ Fetching
  BY DEF PipeStart, PipeOnData, Received, Fetching
<1>2. pending = SetToBag(Waiting) /\ nextseq \in Nat /\ over \in BOOLEAN /\ AllWant(wire \cup Waiting)
  BY DEF ScenarioInv
<1>3. PICK s : /\ s \in SUBSET (1..nextseq') /\ Send(i, AskFor(VersionPath, s))
              /\ nextseq' \in Nat /\ nextseq <= nextseq' /\ over' \in BOOLEAN
  <2>1. CASE PipeStart(i, p)
    <3>1. fname' = VersionPath
      <4>1. Starting
        <5>1. ASSUME Going PROVE FALSE
          <6>1. PICK m \in Nat \ {0} : i = Numbered(m)
            BY <1>1, <5>1 DEF Going, Piped, Received
          <6>2. Last(p) = 0
            BY <2>1 DEF PipeStart
          <6> QED  BY <1>1, <5>1, <6>1, <6>2, LaterReceived DEF Going
        <5> QED  BY <1>1, <5>1 DEF FetchInv
      <4> QED  BY <1>1, <2>1, <4>1, FirstReceived DEF PipeStart
    <3>2. nextseq' = nextseq + PipeSize /\ over' = over /\ Send(i, AskFor(fname', (nextseq + 1)..nextseq'))
      BY <2>1 DEF PipeStart
    <3>3. (nextseq + 1)..nextseq' \in SUBSET (1..nextseq') /\ nextseq' \in Nat /\ nextseq <= nextseq'
      <4>1. nextseq' = nextseq + PipeSize
        BY <3>2
      <4> QED  BY <1>2, <4>1
    <3> QED  BY <1>2, <3>1, <3>2, <3>3
  <2>2. CASE PipeOnData(i, p)
    <3>1. fname = VersionPath
      BY <1>1, <2>2, FirstReceived DEF FetchInv, Going, PipeOnData
    <3>2. \/ over' = TRUE /\ Send(i, {}) /\ nextseq' = nextseq
          \/ over' = over /\ nextseq' = nextseq + 1 /\ Send(i, AskFor(fname, {nextseq'}))
      BY <2>2 DEF PipeOnData
    <3>3. AskFor(VersionPath, {}) = {}
      BY DEF AskFor
    <3>4. CASE over' = TRUE /\ Send(i, {}) /\ nextseq' = nextseq
      <4>1. {} \in SUBSET (1..nextseq') /\ Send(i, AskFor(VersionPath, {}))
        BY <3>3, <3>4
      <4> QED  BY <1>2, <3>4, <4>1
    <3>5. CASE over' = over /\ nextseq' = nextseq + 1 /\ Send(i, AskFor(fname, {nextseq'}))
      <4>1. nextseq' \in 1..nextseq' /\ nextseq' \in Nat /\ nextseq <= nextseq'
        BY <1>2, <3>5
      <4>2. {nextseq'} \in SUBSET (1..nextseq') /\ Send(i, AskFor(VersionPath, {nextseq'}))
        BY <3>1, <3>5, <4>1
      <4> QED  BY <1>2, <3>5, <4>1, <4>2
    <3> QED  BY <3>2, <3>4, <3>5
  <2> QED  BY <2>1, <2>2
<1>4. AskFor(VersionPath, s) \subseteq {Numbered(n) : n \in 0..(nextseq' + 1)}
  <2>1. AskFor(VersionPath, s) = {Numbered(n) : n \in s}
    BY DEF AskFor, Numbered, Seg
  <2>2. s \subseteq 0..(nextseq' + 1)
    <3>1. \A b \in Nat : 1..b \subseteq 0..(b + 1)
      OBVIOUS
    <3> QED  BY <1>3, <3>1
  <2> QED  BY <2>1, <2>2
<1>5. wire' \cup Waiting' \subseteq (wire \cup Waiting) \cup AskFor(VersionPath, s)
  BY <1>2, <1>3, SendGives
<1>6. AllWant(wire \cup Waiting)'
  BY <1>1, <1>2, <1>3, <1>4, <1>5, WantGrows
<1> QED  BY <1>3, <1>6

\* A step that sends nothing new.
LEMMA ScenarioStays ==
    ASSUME World, ScenarioInv, UNCHANGED <<coll, run, fname, nextseq, count, over>>,
           wire' \cup Waiting' \subseteq wire \cup Waiting,
           Waiting' = Waiting \/ run.prog \notin {"cat_file", "cat_file_py"}
    PROVE  /\ nextseq' \in Nat /\ count' \in Nat /\ over' \in BOOLEAN
           /\ AllWant(wire \cup Waiting)'
           /\ (run.prog \in {"cat_file", "cat_file_py"} => Progress)'
<1>1. nextseq' = nextseq /\ count' = count /\ over' = over /\ fname' = fname /\ run' = run /\ coll' = coll
  OBVIOUS
<1>2. nextseq \in Nat /\ count \in Nat /\ over \in BOOLEAN /\ AllWant(wire \cup Waiting)
  BY DEF ScenarioInv
<1>3. AllWant(wire \cup Waiting)'
  <2>1. wire' \cup Waiting' \subseteq (wire \cup Waiting) \cup {}
    OBVIOUS
  <2>2. IF Fetching THEN {} \subseteq {Numbered(n) : n \in 0..(nextseq' + 1)} ELSE {} = {}
    OBVIOUS
  <2>3. nextseq' \in Nat /\ nextseq <= nextseq'
    BY <1>1, <1>2
  <2> QED  BY <1>1, <1>2, <2>1, <2>2, <2>3, WantGrows
<1>4. ASSUME run'.prog \in {"cat_file", "cat_file_py"} PROVE Progress'
  <2>1. Progress /\ Waiting' = Waiting /\ FilePath' = FilePath /\ \A n : Numbered(n)' = Numbered(n)
    BY <1>1, <1>4, Frame DEF ScenarioInv
  <2> QED  BY <1>1, <2>1 DEF Progress
<1> QED  BY <1>1, <1>2, <1>3, <1>4

LEMMA ScenarioNext == World /\ FetchInv /\ ScenarioInv /\ [Next]_cvars => ScenarioInv'
<1> SUFFICES ASSUME World, FetchInv, ScenarioInv, [Next]_cvars PROVE ScenarioInv'
  OBVIOUS
<1>1. UNCHANGED <<coll, run>>
  <2>1. \A i, p : OnData(i, p) => UNCHANGED <<coll, run>>
    BY DEF OnData, ClientOnData, CatOnData, CatPyOnData, PipeStart, PipeOnData, Received
  <2> QED  BY <2>1 DEF Next, cvars, OnTimeout, Deliver, LoseData, Serve, MainReturns
<1>2. /\ Tree(coll) /\ Tree(coll)' /\ run.want \in Interests /\ run'.want \in Interests /\ SrvInv
      /\ data \cup got \subseteq DOMAIN coll /\ pending = SetToBag(Waiting)
      /\ nextseq \in Nat /\ count \in Nat /\ over \in BOOLEAN /\ AllWant(wire \cup Waiting)
      /\ ~Fetching /\ srv.pc \in {"search", "fetch"} => srv.want.name = run.want.name
      /\ coll' = coll /\ run' = run /\ (Fetching' <=> Fetching)
  BY <1>1, Frame DEF ScenarioInv
<1>3. Fetching => (pending = SetToBag(Waiting))'
  BY <1>2, FetchNext DEF FetchInv
<1>4. UNCHANGED srv => SrvInv' /\ (~Fetching' /\ srv'.pc \in {"search", "fetch"} => srv'.want.name = run'.want.name)
  BY <1>2, SrvStays
<1>5. ASSUME NEW i \in Waiting, OnTimeout(i)
      PROVE  ScenarioInv'
  <2> DEFINE again == IF PipeGivesUp THEN {} ELSE {i}
  <2>1. /\ UNCHANGED <<coll, srv, run, fname, nextseq, count, over, data, got>> /\ Send(i, again)
        /\ again \subseteq {i}
    BY <1>5 DEF OnTimeout
  <2>2. /\ Waiting' = (Waiting \ {i}) \cup again /\ (pending = SetToBag(Waiting))'
        /\ wire' \subseteq wire \cup again
    BY <1>2, <2>1, Sends
  <2>3. Waiting' = Waiting \/ run.prog \notin {"cat_file", "cat_file_py"}
    BY <2>2 DEF PipeGivesUp
  <2>4. wire' \cup Waiting' \subseteq wire \cup Waiting
    BY <2>1, <2>2
  <2> HIDE DEF again
  <2>5. data' \cup got' \subseteq DOMAIN coll'
    BY <1>2, <2>1
  <2> QED  BY <1>2, <1>4, <2>1, <2>2, <2>3, <2>4, <2>5, ScenarioStays DEF ScenarioInv
<1>6. ASSUME NEW i \in Waiting, NEW p \in data, OnData(i, p)
      PROVE  ScenarioInv'
  <2>1. UNCHANGED <<srv, data>> /\ got' = got \cup {p}
    BY <1>6 DEF OnData, ClientOnData, CatOnData, CatPyOnData, PipeStart, PipeOnData, Received
  <2>2. data' \cup got' \subseteq DOMAIN coll'
    BY <1>2, <2>1
  <2>3. count' \in Nat
    BY <1>2, <1>6 DEF OnData, ClientOnData, CatOnData, CatPyOnData, PipeStart, PipeOnData
  <2>4. CASE ClientOnData(i, p)
    <3>1. Send(i, {}) /\ UNCHANGED <<fname, nextseq, count>> /\ over' = TRUE /\ run.prog = "client"
      BY <2>4 DEF ClientOnData
    <3>2. /\ Waiting' = (Waiting \ {i}) \cup {} /\ (pending = SetToBag(Waiting))'
          /\ wire' \subseteq wire \cup {}
      BY <1>2, <3>1, Sends
    <3>3. AllWant(wire \cup Waiting)'
      BY <1>2, <3>1, <3>2 DEF AllWant, Fetching
    <3> QED  BY <1>2, <1>4, <2>1, <2>2, <2>3, <3>1, <3>2, <3>3 DEF ScenarioInv
  <2>5. CASE CatOnData(i, p) \/ CatPyOnData(i, p)
    <3>1. nextseq' \in Nat /\ over' \in BOOLEAN /\ AllWant(wire \cup Waiting)' /\ Progress'
      BY <2>5, CatScenario
    <3>2. Fetching
      BY <2>5 DEF CatOnData, CatPyOnData, Fetching
    <3> QED  BY <1>2, <1>3, <1>4, <2>1, <2>2, <2>3, <3>1, <3>2 DEF ScenarioInv
  <2>6. CASE PipeStart(i, p) \/ PipeOnData(i, p)
    <3>1. nextseq' \in Nat /\ over' \in BOOLEAN /\ AllWant(wire \cup Waiting)'
      BY <2>6, PipeScenario
    <3>2. Fetching /\ run.prog = "cat_file_pipe"
      BY <2>6 DEF PipeStart, PipeOnData, Fetching
    <3> QED  BY <1>2, <1>3, <1>4, <2>1, <2>2, <2>3, <3>1, <3>2 DEF ScenarioInv
  <2> QED  BY <1>6, <2>4, <2>5, <2>6 DEF OnData
<1>7. ASSUME UNCHANGED <<coll, run, fname, nextseq, count, over, pending, got>>, wire' \subseteq wire, data' \cup got' \subseteq DOMAIN coll', SrvInv',
             ~Fetching' /\ srv'.pc \in {"search", "fetch"} => srv'.want.name = run'.want.name
      PROVE  ScenarioInv'
  <2>1. UNCHANGED <<fname, nextseq, count, over, pending>> /\ Waiting' = Waiting
    BY <1>7 DEF Waiting
  <2>2. wire' \cup Waiting' \subseteq wire \cup Waiting
    BY <1>7, <2>1
  <2> QED  BY <1>2, <1>7, <2>1, <2>2, ScenarioStays DEF ScenarioInv
<1>8. ASSUME NEW i \in wire, Deliver(i)
      PROVE  ScenarioInv'
  <2>1. /\ OnInterest(i, run.js) /\ wire' = wire \ {i} /\ UNCHANGED data
        /\ UNCHANGED <<coll, run, fname, nextseq, count, over, pending, got>>
    BY <1>8 DEF Deliver, consumer
  <2>2. SrvInv'
    <3>1. i \in Interests /\ run.js \in BOOLEAN
      BY <1>8, InterestsAre DEF World
    <3> QED  BY <1>2, <2>1, <3>1, SrvStarts
  <2>3. ASSUME ~Fetching PROVE srv'.want.name = run.want.name
    <3>1. i = run.want
      BY <1>2, <1>8, <2>3 DEF AllWant
    <3>2. PICK w \in SeenFor(i) : srv' = Started(w, run.js)
      BY <1>2, <2>1, <3>1, SeenAs
    <3> QED  BY <3>1, <3>2 DEF Started, SeenFor, Idle
  <2> QED  BY <1>2, <1>7, <2>1, <2>2, <2>3
<1>9. ASSUME NEW p \in data, LoseData(p)
      PROVE  ScenarioInv'
  <2>1. /\ data' = data \ {p} /\ UNCHANGED <<srv, wire>>
        /\ UNCHANGED <<coll, run, fname, nextseq, count, over, pending, got>>
    BY <1>9 DEF LoseData, consumer
  <2> QED  BY <1>2, <1>4, <1>7, <2>1
<1>10. CASE Serve
  <2>1. /\ SrvStep /\ UNCHANGED wire
        /\ UNCHANGED <<coll, run, fname, nextseq, count, over, pending, got>>
    BY <1>10 DEF Serve, SrvStep, consumer
  <2>2. SrvInv'
    BY <1>2, <2>1, SrvKeeps
  <2>3. data' \subseteq DOMAIN coll
    BY <1>2, <1>10, SentIs DEF Serve
  <2>4. SrvTyped
    BY <1>2 DEF SrvInv
  <2>5. srv.pc \in {"search", "fetch"} /\ (srv'.want = srv.want \/ srv'.pc \in {"idle", "down"})
    BY <2>1, <2>4, SrvStepIs
  <2> QED  BY <1>2, <1>7, <2>1, <2>2, <2>3, <2>5
<1>11. CASE UNCHANGED cvars
  <2>1. /\ UNCHANGED <<srv, wire, data>>
        /\ UNCHANGED <<coll, run, fname, nextseq, count, over, pending, got>>
    BY <1>11 DEF cvars, consumer
  <2> QED  BY <1>2, <1>4, <1>7, <2>1
<1>12. CASE MainReturns
  <2>1. /\ UNCHANGED <<srv, wire, data>>
        /\ UNCHANGED <<coll, run, fname, nextseq, count, over, pending, got>>
    BY <1>12 DEF MainReturns
  <2> QED  BY <1>2, <1>4, <1>7, <2>1
<1> QED  BY <1>5, <1>6, <1>8, <1>9, <1>10, <1>11, <1>12 DEF Next

LEMMA ScenarioInvariant == Spec => [](World /\ FetchInv /\ ScenarioInv)
BY FetchInit, FetchNext, ScenarioInit, ScenarioNext, PTL DEF Spec

-----------------------------------------------------------------------------
\* While the C++ server searches (Search4PossibleMatch_Rec), every segment that
\* matches is below a path of its stack and after the paths before that one,
\* for any collection, any depth, lists in any order, and any interest with the
\* selector getChildSelector() gives for it: only CHILD_RIGHT leaves children out.
THEOREM SearchesAll == Spec => []SearchInv
<1>1. ScenarioInv => SearchInv
  BY DEF ScenarioInv, SrvInv
<1> QED  BY <1>1, ScenarioInvariant, PTL

\* Where recQuery of the JavaScript server is, nothing that matches is behind it.
THEOREM JsSearchesFirst == Spec => []JsInv
<1>1. ScenarioInv => JsInv
  BY DEF ScenarioInv, SrvInv
<1> QED  BY <1>1, ScenarioInvariant, PTL

\* The C++ server fetches the first segment that matches the interest in the
\* order of names, and gives up only if none does: with CHILD_LEFT, which is 0
\* and never gets into the switch, the first of all below the name, with
\* CHILD_RIGHT the first in the greatest child of the first list.
THEOREM FindsFirstMatch == Spec => []FindsMatch
<1>1. ScenarioInv => FindsMatch
  BY DEF ScenarioInv, SrvInv
<1> QED  BY <1>1, ScenarioInvariant, PTL

\* Asked for a file, a version or a segment, the JavaScript server sends what
\* the C++ server fetches (FindsFirstMatch): the first one below that name.
THEOREM ServersAgree == Spec => []JsAgrees
<1>1. World /\ FetchInv /\ ScenarioInv => JsAgrees
  <2> SUFFICES ASSUME World, FetchInv, ScenarioInv, Js("seg"), Query(run.want.name).type # "dir"
               PROVE  IsFirst(Path, Matches(Plain(srv.want.name)))
    BY DEF JsAgrees
  <2>1. Tree(coll) /\ SrvInv /\ srv.pc = "search"
    BY DEF ScenarioInv, Js, Searching, At
  <2>2. Query(srv.want.name).type # "dir"
    <3>1. CASE srv.want.name = run.want.name
      BY <3>1
    <3>2. CASE srv.want.name # run.want.name
      <4>1. Fetching
        BY <2>1, <3>2 DEF ScenarioInv
      <4>2. PICK n \in Nat : srv.want = Numbered(n)
        BY <2>1, <3>2, <4>1 DEF FetchInv, ServerInv, Servers, Asked
      <4>3. srv.want.name = Seg(n)
        BY <4>2 DEF Numbered, Plain, Interest
      <4>4. Query(Seg(n)).type # "dir"
        BY <4>1, QueriesAre, NothingIs
      <4> QED  BY <4>3, <4>4
    <3> QED  BY <3>1, <3>2
  <2> QED  BY <2>1, <2>2, JsSendsFirst
<1> QED  BY <1>1, ScenarioInvariant, PTL

\* The types of a consumer and of the server it talks to: among them that each
\* interest waits once, and that what is under way was asked for and is there.
THEOREM ConsumersTyped == Spec => []TypeOK
<1>1. World /\ FetchInv /\ ScenarioInv /\ up \in BOOLEAN => TypeOK
  <2> SUFFICES ASSUME World, FetchInv, ScenarioInv, up \in BOOLEAN PROVE TypeOK
    OBVIOUS
  <2>1. /\ srv.pc \in {"idle", "search", "fetch", "down"} /\ srv.set \in BOOLEAN
        /\ srv.hit \in {<<>>} \cup DOMAIN coll /\ srv.want \in Interests /\ srv.todo \in Seq(Seq(Int))
    BY DEF ScenarioInv, SrvInv, SrvTyped
  <2>2. srv.want.sel \in Selectors
    BY <2>1 DEF Interests
  <2>3. ToSet(srv.todo) \subseteq Seq(Int)
    <3>1. \A j \in DOMAIN srv.todo : srv.todo[j] \in Seq(Int)
      BY <2>1
    <3> QED  BY <3>1 DEF ToSet
  <2>4. \A i \in Waiting : pending[i] = 1
    <3>1. pending = [i \in Waiting |-> 1]
      BY DEF ScenarioInv, SetToBag
    <3> QED  BY <3>1
  <2>5. wire \subseteq Waiting \cup AskFor(fname, 0..(nextseq + 1)) \cup {run.want}
    <3>1. CASE ~Fetching \/ fname = FilePath
      <4>1. wire \subseteq {run.want}
        BY <3>1, FilesDiffer DEF FetchInv, Starting, Going, ScenarioInv, AllWant
      <4> QED  BY <4>1
    <3>2. CASE Fetching /\ fname # FilePath
      <4>1. fname = VersionPath
        BY <3>2 DEF FetchInv, Starting, Going
      <4>2. AskFor(VersionPath, 0..(nextseq + 1)) = {Numbered(n) : n \in 0..(nextseq + 1)}
        BY DEF AskFor, Numbered, Seg
      <4> QED  BY <3>2, <4>1, <4>2 DEF ScenarioInv, AllWant
    <3> QED  BY <3>1, <3>2
  <2>6. nextseq \in Nat /\ count \in Nat /\ over \in BOOLEAN /\ data \cup got \subseteq DOMAIN coll
    BY DEF ScenarioInv
  <2> QED  BY <2>1, <2>2, <2>3, <2>4, <2>5, <2>6 DEF TypeOK
<1>2. Init => up \in BOOLEAN
  BY DEF Init
<1>3. up \in BOOLEAN /\ [Next]_cvars => (up \in BOOLEAN)'
  <2>1. \A i, p : OnData(i, p) => up' = up
    BY DEF OnData, ClientOnData, CatOnData, CatPyOnData, PipeStart, PipeOnData, Received
  <2> QED
    BY <2>1 DEF Next, cvars, consumer, OnTimeout, Deliver, LoseData, Serve, MainReturns
<1> QED  BY <1>1, <1>2, <1>3, ScenarioInvariant, PTL DEF Spec
=============================================================================
