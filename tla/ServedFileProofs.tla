-------------------------- MODULE ServedFileProofs --------------------------
(***************************************************************************)
(* A server that searches the documents while handlers change them: what   *)
(* each path it has still to look at may be, whatever happened since it    *)
(* was put there.                                                          *)
(***************************************************************************)
EXTENDS FileIntactProofs, ServedFile, SequenceTheorems

NoBare == "bare_truncate" \notin Env

\* A version that no handler works on, and that none will: it was published,
\* or given up, or is only a number that was used once.
Past(v) ==
    /\ v <= clock /\ v # file.temp
    /\ \A c \in Clients : loc[c].pc \in NewSteps => loc[c].tmp # v

\* A path a search has come to.
Sound(p) ==
    /\ p \in Seq(Int) /\ Len(p) <= 3
    /\ p # <<>> => p[1] \in {1, S!NoName}
    /\ Len(p) > 1 /\ p[1] = 1 => p[2] \in AnyVer /\ (p[2] # NoVer => Past(p[2]))
\* A segment it has found.
Target(p) == Len(p) = 3 /\ p[1] = 1 /\ p[2] # NoVer /\ p[3] \in SegNums
\* A segment of the current version is one that can be read.
Fits(p) ==
    listed = 1 /\ file.data # NoVer /\ Len(p) = 3 /\ p[1] = 1 /\ p[2] = file.data
        => p[3] = S!NoName \/ p[3] \in 0..(file.size - 1)

Servers == [pc : {"idle", "search", "fetch", "down"}, js : BOOLEAN, want : Wants,
            todo : Seq(Seq(Int)), set : BOOLEAN, hit : Seq(Int)]

SearchInv ==
    /\ srv \in Servers
    /\ \A k \in DOMAIN srv.todo : Sound(srv.todo[k])
    /\ S!At("fetch") => Sound(srv.hit) /\ Target(srv.hit)
FitsInv ==
    /\ \A k \in DOMAIN srv.todo : Fits(srv.todo[k])
    /\ S!At("fetch") => Fits(srv.hit)

\* make_segment turns version -1 into another number, so no segment has it.
NoneNamed == \A i \in SegNums : segs[<<NoVer, i>>] = "absent"
\* Who writes or truncates has the file open for writing.
WorkersWrite == \A c \in Clients : Works(c) => Writing(c)
\* A version lists as many segments as its size says.
ListsSize == \A v \in AnyVer : vers[v].data = vers[v].size

-----------------------------------------------------------------------------
(* What a query finds, and what the server makes of it.                     *)

\* std::sort only moves the elements about.
LEMMA OrderedKeeps ==
    ASSUME NEW n \in Nat, NEW s \in [1..n -> Int], \A i, j \in 1..n : i < j => s[i] <= s[j]
    PROVE  /\ DOMAIN S!Ordered(s) = 1..n
           /\ \A k \in 1..n : \E j \in 1..n : S!Ordered(s)[k] = s[j]
<1> DEFINE D == 1..n
           id == [i \in D |-> i]
           good(p) == \A i, j \in D : i < j => s[p[i]] <= s[p[j]]
<1>1. id \in S!Bijection(D, D) /\ good(id)
  BY DEF S!Bijection, S!Injection, S!Surjection, S!IsInjective
<1>2. PICK q : q = CHOOSE p \in S!Bijection(D, D) : good(p)
  OBVIOUS
<1>3. q \in S!Bijection(D, D)
  BY <1>1, <1>2
<1>4. q \in [D -> D]
  BY <1>3 DEF S!Bijection, S!Injection
<1>5. S!Ordered(s) = [i \in D |-> s[q[i]]]
  BY <1>2 DEF S!Ordered
<1> QED  BY <1>4, <1>5

LEMMA PathLengths ==
    /\ Len(<<>>) = 0 /\ Len(Name) = 1 /\ Name[1] = 1 /\ Name \in Seq(Int) /\ <<>> \in Seq(Int)
    /\ \A v : Len(<<1, v>>) = 2 /\ <<1, v>>[1] = 1 /\ <<1, v>>[2] = v
    /\ \A v, i : /\ Len(<<1, v, i>>) = 3
                 /\ <<1, v, i>>[1] = 1 /\ <<1, v, i>>[2] = v /\ <<1, v, i>>[3] = i
BY DEF Name

LEMMA AppendIs ==
    ASSUME NEW v \in Int
    PROVE  /\ Append(<<>>, v) = <<v>> /\ Append(Name, v) = <<1, v>> /\ <<1, v>> \in Seq(Int)
           /\ \A i \in Int : Append(<<1, v>>, i) = <<1, v, i>> /\ <<1, v, i>> \in Seq(Int)
<1>1. <<1>> \in Seq(Int) /\ <<1, v>> \in Seq(Int) /\ Append(<<>>, v) = <<v>>
  OBVIOUS
<1>2. Append(<<1>>, v) = <<1, v>>
  <2>1. /\ Append(<<1>>, v) \in Seq(Int) /\ Len(Append(<<1>>, v)) = 2
        /\ Append(<<1>>, v)[1] = 1 /\ Append(<<1>>, v)[2] = v
    BY <1>1, AppendProperties
  <2> DEFINE a == Append(<<1>>, v)
             b == <<1, v>>
  <2>2. Len(b) = 2 /\ b[1] = 1 /\ b[2] = v
    OBVIOUS
  <2>3. a \in Seq(Int) /\ b \in Seq(Int) /\ Len(a) = Len(b) /\ \A k \in 1..2 : a[k] = b[k]
    BY <1>1, <2>1, <2>2
  <2> HIDE DEF a, b
  <2>4. a = b
    BY <2>2, <2>3, SeqEqual
  <2> QED  BY <2>4 DEF a, b
<1>3. ASSUME NEW i \in Int
      PROVE  Append(<<1, v>>, i) = <<1, v, i>> /\ <<1, v, i>> \in Seq(Int)
  <2>1. /\ Append(<<1, v>>, i) \in Seq(Int) /\ Len(Append(<<1, v>>, i)) = 3
        /\ Append(<<1, v>>, i)[1] = 1 /\ Append(<<1, v>>, i)[2] = v
        /\ Append(<<1, v>>, i)[3] = i
    BY <1>1, AppendProperties
  <2>2. /\ <<1, v, i>> \in Seq(Int) /\ Len(<<1, v, i>>) = 3
        /\ <<1, v, i>>[1] = 1 /\ <<1, v, i>>[2] = v /\ <<1, v, i>>[3] = i
    OBVIOUS
  <2> DEFINE a == Append(<<1, v>>, i)
             b == <<1, v, i>>
  <2>3. /\ a \in Seq(Int) /\ b \in Seq(Int) /\ Len(a) = Len(b) /\ Len(b) = 3
        /\ \A k \in 1..3 : a[k] = b[k]
    BY <2>1, <2>2
  <2> HIDE DEF a, b
  <2>4. a = b
    BY <2>3, SeqEqual
  <2> QED  BY <2>2, <2>4 DEF a, b
<1> QED  BY <1>1, <1>2, <1>3 DEF Name

LEMMA PathsAre ==
    ASSUME TypeInv, NEW p \in Paths
    PROVE  \/ p = <<>> \/ (p = Name /\ file.here)
           \/ \E v \in AnyVer : p = <<1, v>> /\ vers[v].here
           \/ \E v \in SegVers, i \in SegNums : p = <<1, v, i>> /\ segs[<<v, i>>] # "absent"
<1>1. ASSUME NEW s \in SegIds PROVE s[1] \in SegVers /\ s[2] \in SegNums /\ s = <<s[1], s[2]>>
  BY DEF SegIds
<1> QED  BY <1>1 DEF Paths

RootList == [k \in 1..listed |-> 1]
SegmentList(v) == [k \in 1..vers[v].data |-> k - 1]

LEMMA QueryIs ==
    ASSUME TypeInv, NEW p
    PROVE  LET e == S!Query(p)
           IN  /\ e.type = "dir" => p = <<>> /\ e.data = RootList
               /\ e.type = "file" => p = Name /\ file.here /\ e.data = <<file.data>>
               /\ e.type = "ver" =>
                     \E v \in AnyVer : /\ p = <<1, v>> /\ vers[v].here
                                       /\ e.data = SegmentList(v)
               /\ e.type = "seg" =>
                     \E v \in SegVers, i \in SegNums :
                         p = <<1, v, i>> /\ segs[<<v, i>>] # "absent"
<1>1. CASE p \notin Paths
  BY <1>1 DEF S!Query, S!NoEntry, S!Entry, Collection
<1>2. CASE p \in Paths
  <2>1. S!Query(p) = Document(p)
    BY <1>2 DEF S!Query, Collection
  <2>2. ASSUME p = <<>>
        PROVE  S!Query(p) = [type |-> "dir", data |-> RootList]
    <3>1. Len(p) = 0
      BY <2>2, PathLengths
    <3> QED  BY <2>1, <3>1 DEF Document, RootList
  <2>3. ASSUME p = Name
        PROVE  S!Query(p) = [type |-> "file", data |-> <<file.data>>]
    <3>1. Len(p) = 1
      BY <2>3, PathLengths
    <3> QED  BY <2>1, <3>1 DEF Document
  <2>4. ASSUME NEW v \in AnyVer, p = <<1, v>>
        PROVE  S!Query(p).type = "ver" /\ S!Query(p).data = SegmentList(v)
    <3>1. Len(p) = 2 /\ p[2] = v
      BY <2>4, PathLengths
    <3>2. S!Query(p) = [type |-> "ver", data |-> SegmentList(v)]
      BY <2>1, <3>1 DEF Document, SegmentList
    <3> QED  BY <3>2
  <2>5. ASSUME NEW v \in SegVers, NEW i \in SegNums, p = <<1, v, i>>
        PROVE  S!Query(p).type = "seg"
    <3>1. Len(p) = 3 /\ p[2] = v /\ p[3] = i
      BY <2>5, PathLengths
    <3> QED  BY <2>1, <3>1 DEF Document
  <2>6. CASE p = <<>>
    BY <2>2, <2>6
  <2>7. CASE p = Name /\ file.here
    BY <2>3, <2>7
  <2> QED  BY <1>2, <2>4, <2>5, <2>6, <2>7, PathsAre
<1> QED  BY <1>1, <1>2

\* The paths that a step of the server may add.
Asked(p) == p \in {<<>>, Name} \/ (Len(p) = 2 /\ p[1] = S!NoName)
Segment(p, v) ==
    /\ vers[v].here /\ \E j \in DOMAIN srv.todo : srv.todo[j] = <<1, v>>
    /\ \E i \in Int : p = <<1, v, i>> /\ (i = S!NoName \/ i \in 0..(vers[v].data - 1))
Child(p) ==
    /\ p \in Seq(Int)
    /\ \/ Asked(p)
       \/ file.here /\ p = <<1, file.data>>
       \/ \E v \in AnyVer : Segment(p, v)
Old(p) == \E j \in DOMAIN srv.todo : p = srv.todo[j]

LEMMA ServerFields ==
    ASSUME srv \in Servers
    PROVE  /\ srv.todo \in Seq(Seq(Int)) /\ srv.want \in Wants /\ srv.want.sel = "left"
           /\ ~S!Selects /\ DOMAIN srv.todo = 1..Len(srv.todo) /\ Len(srv.todo) \in Nat
           /\ srv.todo # <<>> =>
                 /\ S!Path \in Seq(Int) /\ 1 \in DOMAIN srv.todo /\ S!Path = srv.todo[1]
                 /\ Tail(srv.todo) \in Seq(Seq(Int))
                 /\ \A k \in DOMAIN Tail(srv.todo) : Old(Tail(srv.todo)[k])
<1>1. /\ srv.todo \in Seq(Seq(Int)) /\ srv.want \in Wants /\ srv.want.sel = "left" /\ ~S!Selects
      /\ DOMAIN srv.todo = 1..Len(srv.todo) /\ Len(srv.todo) \in Nat
  BY LenProperties DEF Servers, Wants, S!Plain, S!Interest, S!Selects
<1>2. ASSUME srv.todo # <<>>
      PROVE  /\ S!Path \in Seq(Int) /\ 1 \in DOMAIN srv.todo /\ S!Path = srv.todo[1]
             /\ Tail(srv.todo) \in Seq(Seq(Int))
             /\ \A k \in DOMAIN Tail(srv.todo) : Old(Tail(srv.todo)[k])
  <2>1. Len(srv.todo) \in Nat \ {0}
    BY <1>1, <1>2, EmptySeq
  <2>2. /\ Head(srv.todo) \in Seq(Int) /\ Tail(srv.todo) \in Seq(Seq(Int))
        /\ Len(Tail(srv.todo)) = Len(srv.todo) - 1
        /\ \A i \in 1..Len(Tail(srv.todo)) : Tail(srv.todo)[i] = srv.todo[i + 1]
    BY <1>1, <1>2, HeadTailProperties
  <2>3. DOMAIN Tail(srv.todo) = 1..(Len(srv.todo) - 1)
    BY <2>2, LenProperties
  <2>4. ASSUME NEW k \in DOMAIN Tail(srv.todo) PROVE Old(Tail(srv.todo)[k])
    <3>1. k \in 1..(Len(srv.todo) - 1) /\ k + 1 \in DOMAIN srv.todo
      BY <1>1, <2>1, <2>3
    <3>2. Tail(srv.todo)[k] = srv.todo[k + 1]
      BY <2>1, <2>2, <3>1
    <3> QED  BY <3>1, <3>2 DEF Old
  <2>5. S!Path = srv.todo[1] /\ S!Path = Head(srv.todo)
    BY <1>1 DEF S!Path
  <2> QED  BY <1>1, <2>1, <2>2, <2>4, <2>5
<1> QED  BY <1>1, <1>2

\* The children of what a list found, before the paths that are left.
LEMMA ListPaths ==
    ASSUME srv \in Servers, srv.todo # <<>>, NEW s, NEW n \in Nat, s \in [1..n -> Seq(Int)]
    PROVE  /\ s \o Tail(srv.todo) \in Seq(Seq(Int))
           /\ \A k \in DOMAIN (s \o Tail(srv.todo)) :
                 LET p == (s \o Tail(srv.todo))[k]
                 IN  Old(p) \/ \E j \in 1..n : p = s[j]
<1> DEFINE t == Tail(srv.todo)
<1>1. t \in Seq(Seq(Int)) /\ \A k \in DOMAIN t : Old(t[k])
  BY ServerFields
<1>2. s \in Seq(Seq(Int)) /\ Len(s) = n
  OBVIOUS
<1> HIDE DEF t
<1>3. /\ s \o t \in Seq(Seq(Int)) /\ Len(s \o t) = Len(s) + Len(t)
      /\ \A i \in 1..Len(s) + Len(t) : (s \o t)[i] = IF i <= Len(s) THEN s[i] ELSE t[i - Len(s)]
  BY <1>1, <1>2, ConcatProperties
<1>4. DOMAIN (s \o t) = 1..(n + Len(t)) /\ DOMAIN t = 1..Len(t) /\ Len(t) \in Nat
  BY <1>1, <1>2, <1>3, LenProperties
<1>5. ASSUME NEW k \in DOMAIN (s \o t) PROVE Old((s \o t)[k]) \/ \E j \in 1..n : (s \o t)[k] = s[j]
  <2>1. k \in 1..(n + Len(t)) /\ (s \o t)[k] = IF k <= n THEN s[k] ELSE t[k - n]
    BY <1>2, <1>3, <1>4, <1>5
  <2>2. CASE k <= n
    BY <2>1, <2>2
  <2>3. CASE ~(k <= n)
    <3>1. k - n \in DOMAIN t
      BY <1>4, <2>1, <2>3
    <3> QED  BY <1>1, <2>1, <2>3, <3>1
  <2> QED  BY <2>2, <2>3
<1> QED  BY <1>3, <1>5 DEF t

\* Every path of a search after a step was there before or is a new child.
Follows ==
    /\ srv' \in Servers
    /\ \A k \in DOMAIN srv'.todo : Old(srv'.todo[k]) \/ Child(srv'.todo[k])
    /\ srv'.pc = "fetch" =>
          /\ Old(srv'.hit)
          /\ \E v \in SegVers, i \in SegNums :
                 srv'.hit = <<1, v, i>> /\ segs[<<v, i>>] # "absent"

LEMMA IdleServer ==
    /\ S!Idle \in Servers /\ S!Idle.todo = <<>> /\ S!Idle.pc = "idle"
    /\ DOMAIN S!Idle = {"pc", "js", "want", "todo", "set", "hit"}
BY PathLengths DEF S!Idle, Servers, Wants

LEMMA EndFollows == ASSUME S!End \/ S!Die PROVE Follows
<1>1. srv' \in Servers /\ srv'.todo = <<>> /\ srv'.pc # "fetch"
  BY IdleServer DEF S!End, S!Die, Servers
<1> QED  BY <1>1 DEF Follows

LEMMA ContinueFollows ==
    ASSUME srv \in Servers, S!At("search"), NEW t \in Seq(Seq(Int)), S!Continue(t),
           \A k \in DOMAIN t : Old(t[k]) \/ Child(t[k])
    PROVE  Follows
<1>1. srv' \in Servers /\ srv'.todo = t /\ srv'.pc = "search"
  BY DEF S!Continue, S!At, Servers
<1> QED  BY <1>1 DEF Follows

LEMMA TailFollows ==
    ASSUME srv \in Servers, S!At("search"), srv.todo # <<>>, S!Continue(Tail(srv.todo))
    PROVE  Follows
BY ServerFields, ContinueFollows

LEMMA ListFollows ==
    ASSUME TypeInv, NameInv, srv \in Servers, S!SearchList
    PROVE  Follows
<1> DEFINE e == S!Found
           p == S!Path
           c == S!Children(e)
           s == [i \in DOMAIN c |-> Append(p, c[i])]
           t == s \o Tail(srv.todo)
<1>1. /\ S!At("search") /\ srv.todo # <<>> /\ e.type \in {"dir", "ver"} /\ ~S!Selects
      /\ srv' = [srv EXCEPT !.set = @ \/ S!Selects, !.todo = t]
      /\ p \in Seq(Int) /\ 1 \in DOMAIN srv.todo /\ p = srv.todo[1]
  BY ServerFields DEF S!SearchList, S!Cpp, S!Searching
<1>2. c = S!Ordered(e.data)
  BY <1>1 DEF S!Children
<1>3. ASSUME NEW n \in Nat, DOMAIN c = 1..n, \A k \in 1..n : Append(p, c[k]) \in Seq(Int),
             \A k \in 1..n : Child(Append(p, c[k]))
      PROVE  Follows
  <2>1. s \in [1..n -> Seq(Int)] /\ \A k \in 1..n : Child(s[k])
    BY <1>3
  <2> HIDE DEF s
  <2>2. t \in Seq(Seq(Int)) /\ \A k \in DOMAIN t : Old(t[k]) \/ Child(t[k])
    BY <1>1, <1>3, <2>1, ListPaths
  <2> HIDE DEF t
  <2>3. srv' \in Servers /\ srv'.todo = t /\ srv'.pc = "search"
    BY <1>1, <2>2 DEF Servers, S!At
  <2> QED  BY <2>2, <2>3 DEF Follows
<1>4. CASE e.type = "dir"
  <2>1. p = <<>> /\ e.data = RootList
    BY <1>4, QueryIs DEF S!Found
  <2>2. listed \in Nat /\ RootList \in [1..listed -> Int] /\ \A j \in 1..listed : RootList[j] = 1
    BY DEF TypeInv, TypeOK, RootList
  <2>3. DOMAIN c = 1..listed /\ \A k \in 1..listed : c[k] = 1
    <3> DEFINE n == listed
               l == RootList
    <3>1. n \in Nat /\ l \in [1..n -> Int] /\ \A i, j \in 1..n : i < j => l[i] <= l[j]
      BY <2>2
    <3>2. c = S!Ordered(l) /\ \A j \in 1..n : l[j] = 1
      BY <1>2, <2>1, <2>2
    <3> HIDE DEF l, n
    <3>3. DOMAIN S!Ordered(l) = 1..n /\ \A k \in 1..n : \E j \in 1..n : S!Ordered(l)[k] = l[j]
      BY <3>1, OrderedKeeps
    <3>4. DOMAIN c = 1..n /\ \A k \in 1..n : c[k] = 1
      BY <3>2, <3>3
    <3> QED  BY <3>4 DEF n
  <2>4. Append(<<>>, 1) = Name /\ Name \in Seq(Int)
    BY DEF Name
  <2> QED  BY <1>3, <2>1, <2>2, <2>3, <2>4 DEF Child, Asked
<1>5. CASE e.type = "ver"
  <2>1. PICK v \in AnyVer : p = <<1, v>> /\ vers[v].here /\ e.data = SegmentList(v)
    BY <1>5, QueryIs DEF S!Found
  <2> DEFINE n == vers[v].data
  <2>2. /\ n \in Nat /\ v \in Int
        /\ SegmentList(v) \in [1..n -> Int] /\ \A j \in 1..n : SegmentList(v)[j] = j - 1
    <3>1. n \in Nat /\ v \in Int
      BY DEF TypeInv, TypeOK, VerDocs, AnyVer, Versions, NoVer
    <3> QED  BY <3>1 DEF SegmentList
  <2> HIDE DEF n
  <2>3. DOMAIN c = 1..n /\ \A k \in 1..n : \E j \in 1..n : c[k] = j - 1
    <3> DEFINE l == SegmentList(v)
    <3>1. l \in [1..n -> Int] /\ \A i, j \in 1..n : i < j => l[i] <= l[j]
      BY <2>2
    <3> HIDE DEF l
    <3>2. DOMAIN S!Ordered(l) = 1..n /\ \A k \in 1..n : \E j \in 1..n : S!Ordered(l)[k] = l[j]
      BY <2>2, <3>1, OrderedKeeps
    <3>3. c = S!Ordered(l)
      BY <1>2, <2>1 DEF l
    <3>4. \A j \in 1..n : l[j] = j - 1
      BY <2>2 DEF l
    <3> QED  BY <3>2, <3>3, <3>4
  <2>4. ASSUME NEW k \in 1..n PROVE Append(p, c[k]) \in Seq(Int) /\ Child(Append(p, c[k]))
    <3>1. c[k] \in Int /\ c[k] \in 0..(n - 1)
      BY <2>2, <2>3
    <3>2. Append(p, c[k]) = <<1, v, c[k]>> /\ <<1, v, c[k]>> \in Seq(Int)
      BY <2>1, <2>2, <3>1, AppendIs
    <3>3. Segment(Append(p, c[k]), v)
      BY <1>1, <2>1, <3>1, <3>2 DEF Segment, n
    <3> QED  BY <3>2, <3>3 DEF Child
  <2> QED  BY <1>3, <2>2, <2>3, <2>4
<1> QED  BY <1>1, <1>4, <1>5

LEMMA SegmentFollows ==
    ASSUME TypeInv, srv \in Servers, S!SearchSegment
    PROVE  Follows
<1>1. S!At("search") /\ srv.todo # <<>> /\ S!Found.type = "seg"
  BY DEF S!SearchSegment, S!Cpp, S!Searching
<1>2. PICK v \in SegVers, i \in SegNums : S!Path = <<1, v, i>> /\ segs[<<v, i>>] # "absent"
  <2> DEFINE p == S!Path
  <2>1. S!Query(p).type = "seg"
    BY <1>1 DEF S!Found
  <2> HIDE DEF p
  <2>2. \E v \in SegVers, i \in SegNums : p = <<1, v, i>> /\ segs[<<v, i>>] # "absent"
    BY <2>1, QueryIs
  <2> QED  BY <2>2 DEF p
<1>3. CASE S!Continue(Tail(srv.todo))
  BY <1>1, <1>3, TailFollows
<1>4. CASE srv' = [srv EXCEPT !.pc = "fetch", !.hit = S!Path]
  <2>1. srv' \in Servers /\ srv'.todo = srv.todo /\ srv'.hit = S!Path
    BY <1>1, <1>4, ServerFields DEF Servers
  <2>2. Old(S!Path) /\ \A k \in DOMAIN srv.todo : Old(srv.todo[k])
    BY <1>1, ServerFields DEF Old
  <2> QED  BY <1>2, <2>1, <2>2 DEF Follows
<1> QED  BY <1>3, <1>4 DEF S!SearchSegment

\* One path is put in front of the others, or alone.
LEMMA OnePath ==
    ASSUME NEW x \in Seq(Int), Child(x)
    PROVE  /\ <<x>> \in [1..1 -> Seq(Int)] /\ <<x>> \in Seq(Seq(Int))
           /\ \A k \in DOMAIN <<x>> : Child(<<x>>[k])
OBVIOUS

LEMMA FileFollows ==
    ASSUME TypeInv, srv \in Servers, S!SearchFile
    PROVE  Follows
<1> DEFINE x == Append(S!Path, S!Found.data[1])
<1>1. /\ S!At("search") /\ srv.todo # <<>> /\ S!Found.type = "file"
      /\ S!Continue(<<x>> \o Tail(srv.todo))
  BY DEF S!SearchFile, S!Cpp, S!Searching
<1>2. S!Path = Name /\ file.here /\ S!Found.data = <<file.data>>
  BY <1>1, QueryIs DEF S!Found
<1>3. x = <<1, file.data>> /\ x \in Seq(Int)
  <2>1. S!Found.data[1] = file.data /\ file.data \in Int
    BY <1>2, VersionTypes
  <2>2. x = Append(Name, file.data)
    BY <1>2, <2>1
  <2> QED  BY <2>1, <2>2, AppendIs
<1>4. Child(x)
  BY <1>2, <1>3 DEF Child
<1> HIDE DEF x
<1>5. <<x>> \in [1..1 -> Seq(Int)] /\ <<x>>[1] = x
  BY <1>3
<1> DEFINE s == <<x>>
           t == s \o Tail(srv.todo)
<1>6. s \in [1..1 -> Seq(Int)] /\ \A j \in 1..1 : Child(s[j])
  BY <1>4, <1>5
<1> HIDE DEF s
<1>7. t \in Seq(Seq(Int)) /\ \A k \in DOMAIN t : Old(t[k]) \/ Child(t[k])
  <2>1. t \in Seq(Seq(Int)) /\ \A k \in DOMAIN t : Old(t[k]) \/ \E j \in 1..1 : t[k] = s[j]
    <3>1. srv.todo # <<>> /\ 1 \in Nat
      BY <1>1
    <3> QED  BY <1>6, <3>1, ListPaths
  <2> QED  BY <1>6, <2>1
<1>8. S!Continue(t)
  BY <1>1 DEF s
<1> HIDE DEF t
<1> QED  BY <1>1, <1>7, <1>8, ContinueFollows

LEMMA JsFollows ==
    ASSUME TypeInv, NameInv, srv \in Servers, S!JsDescend
    PROVE  Follows
<1> DEFINE e == S!Found
           p == S!Path
           x == S!JsChild(p, S!JsFirst(e))
<1>1. S!At("search") /\ srv.todo # <<>> /\ e.type \in {"dir", "file", "ver"} /\ S!Continue(<<x>>)
  BY DEF S!JsDescend, S!Js, S!Searching
<1>2. 1 \in DOMAIN srv.todo /\ p = srv.todo[1]
  BY <1>1, ServerFields
<1>3. x \in Seq(Int) /\ Child(x)
  <2>1. CASE e.type = "dir"
    <3>1. p = <<>> /\ e.data = RootList /\ listed \in Nat
      BY <2>1, QueryIs DEF S!Found, TypeInv, TypeOK
    <3>2. S!JsFirst(e) \in Int
      <4>1. CASE RootList = <<>>
        BY <3>1, <4>1 DEF S!JsFirst, S!NoName
      <4>2. CASE RootList # <<>>
        <5>1. listed # 0
          BY <4>2 DEF RootList
        <5> QED  BY <3>1, <4>2, <5>1 DEF S!JsFirst, RootList
      <4> QED  BY <4>1, <4>2
    <3>3. x = <<S!NoName, S!JsFirst(e)>>
      BY <3>1 DEF S!JsChild
    <3> QED  BY <3>2, <3>3 DEF Child, Asked, S!NoName
  <2>2. CASE e.type = "file"
    <3>1. p = Name /\ file.here /\ e.data = <<file.data>>
      BY <2>2, QueryIs DEF S!Found
    <3>2. S!JsFirst(e) = file.data /\ p # <<>> /\ file.data \in Int
      <4>1. <<file.data>> # <<>> /\ <<file.data>>[1] = file.data
        OBVIOUS
      <4>2. S!JsFirst(e) = file.data
        BY <3>1, <4>1 DEF S!JsFirst
      <4>3. p # <<>>
        BY <3>1, PathLengths
      <4>4. file.data \in Int
        BY VersionTypes
      <4> QED  BY <4>2, <4>3, <4>4
    <3>3. x = <<1, file.data>> /\ x \in Seq(Int)
      BY <3>1, <3>2, AppendIs DEF S!JsChild
    <3> QED  BY <3>1, <3>3 DEF Child
  <2>3. CASE e.type = "ver"
    <3>1. PICK v \in AnyVer : p = <<1, v>> /\ vers[v].here /\ e.data = SegmentList(v)
      BY <2>3, QueryIs DEF S!Found
    <3>2. vers[v].data \in Nat /\ v \in Int
      BY DEF TypeInv, TypeOK, VerDocs, AnyVer, Versions, NoVer
    <3>3. S!JsFirst(e) \in Int
          /\ (S!JsFirst(e) = S!NoName \/ S!JsFirst(e) \in 0..(vers[v].data - 1))
      <4>1. CASE SegmentList(v) = <<>>
        BY <3>1, <4>1 DEF S!JsFirst, S!NoName
      <4>2. CASE SegmentList(v) # <<>>
        <5>1. vers[v].data # 0
          BY <4>2 DEF SegmentList
        <5> QED  BY <3>1, <3>2, <4>2, <5>1 DEF S!JsFirst, SegmentList
      <4> QED  BY <4>1, <4>2
    <3>4. x = <<1, v, S!JsFirst(e)>> /\ x \in Seq(Int)
      BY <3>1, <3>2, <3>3, AppendIs DEF S!JsChild
    <3>5. Segment(x, v)
      BY <1>2, <3>1, <3>3, <3>4 DEF Segment
    <3> QED  BY <3>2, <3>3, <3>4, <3>5 DEF Child
  <2> QED  BY <1>1, <2>1, <2>2, <2>3
<1> HIDE DEF x
<1>4. <<x>> \in Seq(Seq(Int)) /\ \A k \in DOMAIN <<x>> : Child(<<x>>[k])
  BY <1>3, OnePath
<1> QED  BY <1>1, <1>4, ContinueFollows

LEMMA InterestFollows ==
    ASSUME NEW i \in Wants, NEW js \in BOOLEAN, S!OnInterest(i, js)
    PROVE  Follows
<1>1. i.name \in {<<>>, Name}
  BY DEF Wants, S!Plain, S!Interest
<1>2. i.name \in Seq(Int) /\ Child(i.name)
  BY <1>1, PathLengths DEF Child, Asked
<1>3. <<i.name>> \in Seq(Seq(Int)) /\ \A k \in DOMAIN <<i.name>> : Child(<<i.name>>[k])
  BY <1>2, OnePath
<1>4. S!ChildSelector(i) = {"left"} /\ [i EXCEPT !.sel = "left"] = i
  BY DEF S!ChildSelector, Wants, S!Plain, S!Interest
<1>5. srv' = [S!Idle EXCEPT !.pc = "search", !.js = js, !.want = i, !.todo = <<i.name>>]
  BY <1>4 DEF S!OnInterest
<1>6. srv' \in Servers /\ srv'.todo = <<i.name>> /\ srv'.pc = "search"
  BY <1>3, <1>5, IdleServer DEF Servers
<1> QED  BY <1>3, <1>6 DEF Follows

LEMMA ServerFollows ==
    ASSUME TypeInv, NameInv, srv \in Servers, SNext
    PROVE  Follows
<1>1. CASE S!Missing
  BY <1>1, TailFollows DEF S!Missing, S!Cpp, S!Searching
<1>2. CASE S!SearchNothing
  BY <1>2, TailFollows, EndFollows DEF S!SearchNothing, S!Cpp, S!Searching
<1>3. CASE S!NoMatch \/ S!FetchNull \/ S!FetchCut \/ S!FetchData \/ S!JsMissing \/ S!JsCut \/ S!JsSend
  BY <1>3, EndFollows
     DEF S!NoMatch, S!FetchNull, S!FetchCut, S!FetchData, S!JsMissing, S!JsCut, S!JsSend
<1> QED
  BY <1>1, <1>2, <1>3, ListFollows, SegmentFollows, FileFollows, JsFollows, InterestFollows
     DEF SNext, Serve, S!Search, S!JsSearch

-----------------------------------------------------------------------------
(* What the handlers never do, whatever is searched meanwhile.              *)

LEMMA NoneNamedNext ==
    ASSUME TypeInv, NoneNamed, [Next]_vars PROVE NoneNamed'
<1>1. ASSUME NEW c \in Clients, Step(c) \/ Call(c) PROVE NoneNamed'
  <2>1. CASE CopyPut(c) \/ SegPut(c)
    <3>1. PICK w, j : InsertSeg(w, j)
      BY <2>1 DEF CopyPut, SegPut
    <3>2. Unsigned(w) # NoVer
      BY DEF Unsigned, WrappedVer, NoVer
    <3> QED  BY <3>1, <3>2 DEF InsertSeg, NoneNamed, TypeInv, TypeOK, SegIds
  <2>2. CASE SegRemove(c)
    BY <2>2 DEF SegRemove, NoneNamed, TypeInv, TypeOK, SegIds
  <2>3. CASE TruncSeg(c)
    BY <2>3 DEF TruncSeg, NoneNamed, TypeInv, TypeOK, SegIds
  <2> QED
    BY <1>1, <2>1, <2>2, <2>3
       DEF NoneNamed, Step, Call, OpenSet, CreateInsert, CreatePush, ReadVer, ReadSeg,
           TempQuery, CurrQuery, CopyGet, VerInsert, VerRequery, VerSet, TruncSet, SegList,
           VerRemove, RelVer, RelReset, RelSize, RelSet, UnlinkQuery, UnlinkEntry,
           OpenRead, OpenWrite, Create, Release, Unlink, Read, Write, Truncate, db
<1>2. CASE Crash \/ UNCHANGED vars
  BY <1>2 DEF Crash, db, vars, NoneNamed
<1> QED  BY <1>1, <1>2 DEF Next

LEMMA ListsSizeNext ==
    ASSUME TypeInv, CutFree, ListsSize, [Next]_vars PROVE ListsSize'
<1>1. ASSUME NEW c \in Clients, Step(c) \/ Call(c) PROVE ListsSize'
  <2>1. ASSUME NEW v \in AnyVer, NEW n, InsertVer(v, n) \/ UpdateVer(v, n, n) PROVE ListsSize'
    BY <2>1 DEF InsertVer, UpdateVer, ListsSize, TypeInv, TypeOK
  <2>2. CASE VerInsert(c) \/ VerSet(c)
    BY <2>1, <2>2, VersionTypes DEF VerInsert, VerSet
  <2>3. CASE VerRemove(c)
    BY <2>3 DEF VerRemove, ListsSize, NoDoc, TypeInv, TypeOK
  <2>4. ~TruncSet(c)
    BY DEF TruncSet, At, CutFree, GrowsOnly
  <2> QED
    BY <1>1, <2>2, <2>3, <2>4
       DEF ListsSize, Step, Call, OpenSet, CreateInsert, CreatePush, ReadVer, ReadSeg,
           TempQuery, CurrQuery, CopyGet, CopyPut, VerRequery, SegPut, TruncSeg, SegList,
           SegRemove, RelVer, RelReset, RelSize, RelSet, UnlinkQuery, UnlinkEntry,
           OpenRead, OpenWrite, Create, Release, Unlink, Read, Write, Truncate, db
<1>2. CASE Crash \/ UNCHANGED vars
  BY <1>2 DEF Crash, db, vars, ListsSize
<1> QED  BY <1>1, <1>2 DEF Next

LEMMA WorkersWriteNext ==
    ASSUME NoBare, TypeInv, NameInv, WorkersWrite, [Next]_vars PROVE WorkersWrite'
<1>1. ASSUME NEW c \in Clients, Step(c) \/ Call(c), ~Dies(c), NEW d \in Clients, Works(d)'
      PROVE  Writing(d)'
  <2>1. CASE d # c
    BY <1>1, <2>1, OthersStay DEF Works, Writing, WorkersWrite
  <2>2. ASSUME d = c, NEW p, Write(c, p) \/ Truncate(c, p) PROVE Writing(c)'
    BY <2>2 DEF Write, Truncate, Writing, NoBare
  <2>3. CASE d = c /\ ~(\E p \in SegNums : Write(c, p)) /\ ~\E p \in 0..MaxSegs : Truncate(c, p)
    <3>1. Works(c) /\ WorkSteps(c) /\ Phase(loc[c])
      BY <1>1, <2>3, WorksOn DEF NameInv
    <3>2. ~VerRemove(c) /\ ~RelReset(c) /\ ~ReadSeg(c)
      BY <3>1 DEF Works, Phase, VerRemove, RelReset, ReadSeg, At, ReleaseSteps
    <3>3. UNCHANGED handle
      BY <1>1, <3>1, <3>2
         DEF WorkSteps, ReadVer, TempQuery, CurrQuery, CopyGet, CopyPut, VerInsert, VerRequery,
             SegPut, VerSet, TruncSet, TruncSeg, SegList, SegRemove, RelVer, RelSize, RelSet,
             UnlinkQuery, UnlinkEntry, Dies, At
    <3> QED  BY <2>3, <3>1, <3>3 DEF WorkersWrite, Writing
  <2> QED  BY <1>1, <2>1, <2>2, <2>3
<1>2. CASE Killed
  BY <1>2, KilledFields DEF WorkersWrite, Works
<1>3. CASE UNCHANGED vars
  BY <1>3 DEF vars, WorkersWrite, Works, Writing
<1> QED  BY <1>1, <1>2, <1>3 DEF Next, Crash, Dies, WorkersWrite

LEMMA NamedInit == Init => NoneNamed /\ ListsSize /\ WorkersWrite
BY IdleFields
   DEF Init, NoneNamed, ListsSize, WorkersWrite, Works, NoDoc, SegIds, SegVers, AnyVer, NoVer

\* A new number is newer than all that are past, and only the request that
\* generated it puts it in the entry.
LEMMA PastStays ==
    ASSUME TypeInv, [Next]_vars, NEW v \in AnyVer, v # NoVer, Past(v)
    PROVE  Past(v)'
<1>1. clock \in Int /\ v \in Int
  BY ConstantsAssumption DEF TypeInv, TypeOK, AnyVer, Versions
<1>2. ASSUME NEW c \in Clients, MovesOn(c), UNCHANGED clock,
             \/ file'.temp \in {file.temp, NoVer}
             \/ loc[c].pc \in NewSteps /\ file'.temp = loc[c].tmp
      PROVE  Past(v)'
  BY <1>2 DEF Past, MovesOn, OnlyMoves
<1>3. ASSUME NEW c \in Clients, NEW o, NEW p, Generate(c, o, p), UNCHANGED file
      PROVE  Past(v)'
  <2>1. /\ clock' = clock + 1 /\ loc'[c].tmp = clock'
        /\ \A d \in Clients : d # c => loc'[d] = loc[d]
    BY <1>3 DEF Generate, Request, TypeInv, TypeOK
  <2> QED  BY <1>1, <1>3, <2>1 DEF Past
<1>4. ASSUME Killed, UNCHANGED <<file, clock>> PROVE Past(v)'
  BY <1>4, KilledFields DEF Past, NewSteps
<1>5. ASSUME NEW c \in Clients, Step(c) PROVE Past(v)'
  <2>1. CASE OpenSet(c) \/ CreateInsert(c) \/ RelReset(c) \/ RelSet(c) \/ UnlinkEntry(c)
    <3>1. MovesOn(c) /\ UNCHANGED clock
      BY <2>1, EntryMoves DEF OpenSet, CreateInsert, RelReset, RelSet, UnlinkEntry
    <3>2. \/ file'.temp \in {file.temp, NoVer}
          \/ loc[c].pc \in NewSteps /\ file'.temp = loc[c].tmp
      BY <2>1 DEF OpenSet, CreateInsert, RelReset, RelSet, UnlinkEntry, NoFile, NewSteps, At,
                  TypeInv, TypeOK, Files
    <3> QED  BY <1>2, <3>1, <3>2
  <2>2. CASE ReadSeg(c) \/ CopyGet(c)
    BY <1>2, <1>4, <2>2, SegmentReadMoves DEF ReadSeg, CopyGet, db
  <2>3. CASE ~(OpenSet(c) \/ CreateInsert(c) \/ RelReset(c) \/ RelSet(c) \/ UnlinkEntry(c))
             /\ ~(ReadSeg(c) \/ CopyGet(c))
    <3>1. MovesOn(c)
      BY <1>5, <2>3, QueryMoves, WriteMoves, RemoveMoves, EntryMoves DEF Step
    <3>2. UNCHANGED <<file, clock>>
      BY <1>5, <2>3
         DEF Step, CreatePush, ReadVer, TempQuery, CurrQuery, CopyPut, VerInsert, VerRequery,
             SegPut, VerSet, TruncSet, TruncSeg, SegList, SegRemove, VerRemove, RelVer,
             RelSize, UnlinkQuery, db
    <3> QED  BY <1>2, <3>1, <3>2
  <2> QED  BY <2>1, <2>2, <2>3
<1>6. ASSUME NEW c \in Clients, Call(c) PROVE Past(v)'
  <2>1. CASE OpenWrite(c) \/ Create(c)
    BY <1>3, <2>1 DEF OpenWrite, Create
  <2>2. CASE ~OpenWrite(c) /\ ~Create(c)
    <3>1. MovesOn(c)
      BY <1>6, <2>2, CallMoves DEF Call
    <3>2. UNCHANGED <<file, clock>>
      BY <1>6, <2>2 DEF Call, OpenRead, Release, Unlink, Read, Write, Truncate, db
    <3> QED  BY <1>2, <3>1, <3>2
  <2> QED  BY <2>1, <2>2
<1>7. CASE UNCHANGED vars
  BY <1>7 DEF vars, Past
<1> QED  BY <1>4, <1>5, <1>6, <1>7 DEF Next, Crash, db

\* The current version was published.
LEMMA CurrentPast ==
    ASSUME FullInv, file.here, file.data # NoVer PROVE file.data \in AnyVer /\ Past(file.data)
<1> USE DEF FullInv, AllInv
<1>1. file.data \in AnyVer /\ file.data \in Int /\ file.temp \in Int /\ file.data <= clock
  BY VersionTypes DEF VersionInv, Generated
<1>2. file.data # file.temp
  BY <1>1 DEF AdvanceInv
<1>3. ASSUME NEW c \in Clients, loc[c].pc \in NewSteps PROVE loc[c].tmp # file.data
  BY <1>1, <1>3 DEF AdvanceInv, NameInv, NewSteps, At
<1> QED  BY <1>1, <1>2, <1>3 DEF Past

-----------------------------------------------------------------------------
(* A search never comes to a version that is being written.                 *)

LEMMA OldSound ==
    ASSUME SearchInv, NEW p, Old(p) PROVE Sound(p)
BY DEF SearchInv, Old

LEMMA ChildSound ==
    ASSUME FullInv, SearchInv, NEW p, Child(p) PROVE Sound(p)
<1> USE DEF FullInv, AllInv
<1>1. p \in Seq(Int)
  BY DEF Child
<1>2. CASE p \in {<<>>, Name}
  <2>1. CASE p = <<>>
    BY <1>1, <2>1, PathLengths DEF Sound
  <2>2. CASE p = Name
    <3>1. Len(p) = 1 /\ p[1] = 1
      BY <2>2, PathLengths
    <3> QED  BY <1>1, <3>1 DEF Sound
  <2> QED  BY <1>2, <2>1, <2>2
<1>3. CASE Len(p) = 2 /\ p[1] = S!NoName
  BY <1>1, <1>3 DEF Sound, S!NoName
<1>4. CASE file.here /\ p = <<1, file.data>>
  <2>1. Len(p) = 2 /\ p[1] = 1 /\ p[2] = file.data
    BY <1>4, PathLengths
  <2>2. file.data \in AnyVer /\ (file.data # NoVer => Past(file.data))
    BY <1>4, CurrentPast, VersionTypes
  <2> QED  BY <1>1, <2>1, <2>2 DEF Sound
<1>5. ASSUME NEW v \in AnyVer, Segment(p, v) PROVE Sound(p)
  <2>1. Sound(<<1, v>>)
    BY <1>5 DEF Segment, SearchInv
  <2>2. v # NoVer => Past(v)
    BY <2>1, PathLengths DEF Sound
  <2>3. Len(p) = 3 /\ p[1] = 1 /\ p[2] = v
    BY <1>5, PathLengths DEF Segment
  <2> QED  BY <1>1, <2>2, <2>3 DEF Sound
<1> QED  BY <1>2, <1>3, <1>4, <1>5 DEF Child, Asked

LEMMA SearchServer ==
    ASSUME FullInv, NoneNamed, SearchInv, SNext PROVE SearchInv'
<1>1. UNCHANGED vars /\ srv \in Servers
  BY DEF SNext, SearchInv
<1>2. Follows
  BY <1>1, ServerFollows DEF FullInv, AllInv
<1>3. ASSUME NEW p, Sound(p) PROVE Sound(p)'
  BY <1>1, <1>3 DEF Sound, Past, vars, db
<1>4. ASSUME NEW k \in DOMAIN srv'.todo PROVE Sound(srv'.todo[k])
  BY <1>2, <1>4, OldSound, ChildSound DEF Follows
<1>5. ASSUME S!At("fetch")' PROVE Sound(srv'.hit) /\ Target(srv'.hit)
  <2>1. srv'.pc = "fetch"
    BY <1>5 DEF S!At
  <2>2. Sound(srv'.hit)
    BY <1>2, <2>1, OldSound DEF Follows
  <2>3. PICK v \in SegVers, i \in SegNums : srv'.hit = <<1, v, i>> /\ segs[<<v, i>>] # "absent"
    BY <1>2, <2>1 DEF Follows
  <2>4. v # NoVer
    BY <2>3 DEF NoneNamed
  <2>5. Len(srv'.hit) = 3 /\ srv'.hit[1] = 1 /\ srv'.hit[2] = v /\ srv'.hit[3] = i
    BY <2>3, PathLengths
  <2> QED  BY <2>2, <2>4, <2>5 DEF Target
<1> QED  BY <1>2, <1>3, <1>4, <1>5 DEF SearchInv, Follows

LEMMA SearchHandlers ==
    ASSUME TypeInv, SearchInv, [Next]_vars, UNCHANGED srv PROVE SearchInv'
<1>1. ASSUME NEW p, Sound(p) PROVE Sound(p)'
  BY <1>1, PastStays DEF Sound
<1> QED  BY <1>1 DEF SearchInv, S!At

\* The handlers run as module File says, whatever the server does.
LEMMA HandlersRun == SFSpec => Spec
<1>1. SFInit => Init
  BY DEF SFInit
<1>2. [SFNext]_<<vars, srv>> => [Next]_vars
  BY DEF SFNext, SNext
<1> QED  BY <1>1, <1>2, PTL DEF SFSpec, Spec

LEMMA SearchInit == SFInit => SearchInv
BY IdleServer DEF SFInit, S!SInit, SearchInv, S!At

LEMMA SearchInvariant ==
    ASSUME Disciplined PROVE SFSpec => [](FullInv /\ NoneNamed /\ SearchInv)
<1>1. SFInit => NoneNamed /\ SearchInv
  BY SearchInit, NamedInit DEF SFInit
<1>2. FullInv /\ NoneNamed /\ SearchInv /\ [SFNext]_<<vars, srv>> => NoneNamed' /\ SearchInv'
  <2> SUFFICES ASSUME FullInv, NoneNamed, SearchInv, [SFNext]_<<vars, srv>>
               PROVE  NoneNamed' /\ SearchInv'
    OBVIOUS
  <2>1. CASE SNext
    BY <2>1, SearchServer, NoneNamedNext DEF SNext, FullInv, AllInv
  <2>2. CASE [Next]_vars /\ UNCHANGED srv
    BY <2>2, SearchHandlers, NoneNamedNext DEF FullInv, AllInv
  <2> QED  BY <2>1, <2>2 DEF SFNext
<1> QED  BY <1>1, <1>2, HandlersRun, FullInvariant, PTL DEF SFSpec

\* What a server sends of a file it was only asked for by name is final: the
\* version is not the one the entry calls temp, and no write or truncate that
\* is under way is going to change it, however long ago the search found its
\* way there.
THEOREM ServesOnlyPast ==
    ASSUME Disciplined, NoBare PROVE SFSpec => []ServesCommitted
<1>1. SFInit => WorkersWrite
  BY NamedInit DEF SFInit
<1>2. FullInv /\ WorkersWrite /\ [SFNext]_<<vars, srv>> => WorkersWrite'
  BY WorkersWriteNext DEF SFNext, SNext, FullInv, AllInv
<1>3. FullInv /\ NoneNamed /\ SearchInv /\ WorkersWrite => ServesCommitted
  <2> SUFFICES ASSUME FullInv, NoneNamed, SearchInv, WorkersWrite, NEW p \in Answers
               PROVE  /\ p[2] # file.temp
                      /\ \A c \in Clients : loc[c].op \in {"write", "truncate"} => loc[c].tmp # p[2]
    BY DEF ServesCommitted
  <2>1. Past(p[2])
    <3>1. CASE S!At("fetch")
      <4>1. p = srv.hit
        BY <3>1 DEF Answers
      <4> QED  BY <3>1, <4>1 DEF SearchInv, Sound, Target
    <3>2. CASE ~S!At("fetch")
      <4>1. p = S!Path /\ S!Js("seg")
        BY <3>2 DEF Answers
      <4>2. srv.todo # <<>> /\ S!Query(p).type = "seg"
        BY <4>1 DEF S!Js, S!Searching, S!Found
      <4>3. PICK v \in SegVers, i \in SegNums : p = <<1, v, i>> /\ segs[<<v, i>>] # "absent"
        BY <4>2, QueryIs DEF FullInv, AllInv
      <4>4. v # NoVer /\ Len(p) = 3 /\ p[1] = 1 /\ p[2] = v
        BY <4>3, PathLengths DEF NoneNamed
      <4>5. 1 \in DOMAIN srv.todo /\ p = srv.todo[1]
        BY <4>1, <4>2, ServerFields DEF SearchInv
      <4>6. Sound(p)
        BY <4>5 DEF SearchInv
      <4> QED  BY <4>4, <4>6 DEF Sound
    <3> QED  BY <3>1, <3>2
  <2>2. ASSUME NEW c \in Clients, Works(c) PROVE loc[c].tmp = file.temp
    BY <2>2 DEF FullInv, SourceInv, SourceOf, WorkersWrite
  <2> QED  BY <2>1, <2>2 DEF Past, Works
<1> QED  BY <1>1, <1>2, <1>3, SearchInvariant, PTL DEF SFSpec

-----------------------------------------------------------------------------
(* What a search has found of the current version is there to be fetched.    *)

CompleteInv == FullInv /\ CutFree /\ IntactInv /\ ListsSize

LEMMA FitsServer ==
    ASSUME CompleteInv, SearchInv, FitsInv, SNext PROVE FitsInv'
<1> USE DEF CompleteInv, FullInv, AllInv
<1>1. UNCHANGED vars /\ Follows
  BY ServerFollows DEF SNext, SearchInv
<1>2. ASSUME NEW p, Fits(p) PROVE Fits(p)'
  BY <1>1, <1>2 DEF Fits, vars, db
<1>3. ASSUME NEW p, Old(p) PROVE Fits(p)
  BY <1>3 DEF Old, FitsInv
<1>4. ASSUME NEW p, Child(p) PROVE Fits(p)
  <2>1. CASE Len(p) # 3
    BY <2>1 DEF Fits
  <2>2. CASE Len(p) = 3
    <3>1. PICK v \in AnyVer : Segment(p, v)
      <4>1. p # <<>> /\ p # Name /\ p # <<1, file.data>>
        BY <2>2, PathLengths
      <4> QED  BY <1>4, <2>2, <4>1 DEF Child, Asked
    <3>2. PICK i \in Int : p = <<1, v, i>> /\ (i = S!NoName \/ i \in 0..(vers[v].data - 1))
      BY <3>1 DEF Segment
    <3>3. p[2] = v /\ p[3] = i
      BY <3>2, PathLengths
    <3>4. listed = 1 /\ file.data # NoVer /\ v = file.data => vers[v].data = file.size
      BY DEF IntactInv, Complete, ListsSize
    <3> QED  BY <3>2, <3>3, <3>4 DEF Fits
  <2> QED  BY <2>1, <2>2
<1>5. ASSUME NEW k \in DOMAIN srv'.todo PROVE Fits(srv'.todo[k])
  BY <1>1, <1>3, <1>4, <1>5 DEF Follows
<1>6. srv'.pc = "fetch" => Fits(srv'.hit)
  BY <1>1, <1>3 DEF Follows
<1> QED  BY <1>2, <1>5, <1>6 DEF FitsInv, S!At

LEMMA FitsHandlers ==
    ASSUME CompleteInv, SearchInv, FitsInv, [Next]_vars, UNCHANGED srv PROVE FitsInv'
<1> USE DEF CompleteInv, FullInv, AllInv
<1>1. ASSUME NEW c \in Clients, Step(c) \/ Call(c), NEW p, Sound(p), Fits(p) PROVE Fits(p)'
  <2>1. CASE file'.data = file.data /\ file'.size = file.size /\ listed = 1
    BY <1>1, <2>1 DEF Fits
  <2>2. CASE RelSet(c)
    <3>1. file'.data = file.temp /\ file.temp # NoVer
      BY <2>2, PublishDoes
    <3>2. Len(p) = 3 /\ p[1] = 1 => p[2] # file.temp
      BY <1>1, <3>1 DEF Sound, Past
    <3> QED  BY <3>1, <3>2 DEF Fits
  <2>3. CASE CreatePush(c)
    <3>1. file'.data = NoVer
      BY <2>3 DEF CreatePush, IntactInv, EmptyFirst
    <3> QED  BY <3>1 DEF Fits
  <2>4. CASE listed' # 1
    BY <2>4 DEF Fits
  <2> QED  BY <1>1, <2>1, <2>2, <2>3, <2>4, EntryKept
<1>2. ASSUME UNCHANGED db, NEW p, Fits(p) PROVE Fits(p)'
  BY <1>2 DEF Fits, db
<1>3. ASSUME NEW p, Sound(p), Fits(p) PROVE Fits(p)'
  <2>1. CASE \E c \in Clients : Step(c) \/ Call(c)
    BY <1>1, <1>3, <2>1
  <2>2. CASE Crash \/ UNCHANGED vars
    <3>1. UNCHANGED db
      BY <2>2 DEF Crash, vars, db
    <3> QED  BY <1>2, <1>3, <3>1
  <2> QED  BY <2>1, <2>2 DEF Next
<1> QED  BY <1>3 DEF FitsInv, SearchInv, S!At

LEMMA FitsInvariant ==
    ASSUME Disciplined, NoShrink, NoSparse
    PROVE  SFSpec => [](CompleteInv /\ SearchInv /\ FitsInv)
<1>1. SFInit => ListsSize /\ FitsInv
  BY IdleServer, NamedInit DEF SFInit, S!SInit, FitsInv, S!At
<1>2. CompleteInv /\ SearchInv /\ FitsInv /\ [SFNext]_<<vars, srv>> => ListsSize' /\ FitsInv'
  <2> SUFFICES ASSUME CompleteInv, SearchInv, FitsInv, [SFNext]_<<vars, srv>>
               PROVE  ListsSize' /\ FitsInv'
    OBVIOUS
  <2>1. [Next]_vars
    BY DEF SFNext, SNext
  <2>2. ListsSize'
    BY <2>1, ListsSizeNext DEF CompleteInv, FullInv, AllInv
  <2>3. FitsInv'
    BY <2>1, FitsServer, FitsHandlers DEF SFNext
  <2> QED  BY <2>2, <2>3
<1>3. FullInv /\ CutFree /\ IntactInv /\ ListsSize <=> CompleteInv
  BY DEF CompleteInv
<1> QED  BY <1>1, <1>2, <1>3, HandlersRun, IntactInvariant, SearchInvariant, PTL DEF SFSpec

\* A path of three components names a segment.
LEMMA PathOf ==
    ASSUME NEW p \in Seq(Int), p[1] = 1
    PROVE  /\ Len(p) = 2 => p = <<1, p[2]>>
           /\ Len(p) = 3 => p = <<1, p[2], p[3]>>
<1>1. ASSUME Len(p) = 2 PROVE p = <<1, p[2]>>
  <2> DEFINE q == <<1, p[2]>>
  <2>1. p[2] \in Int
    <3>1. 2 \in 1..Len(p)
      BY <1>1
    <3> QED  BY <3>1, ElementOfSeq
  <2>2. q \in Seq(Int) /\ Len(q) = 2 /\ q[1] = 1 /\ q[2] = p[2]
    BY <2>1
  <2> HIDE DEF q
  <2>3. Len(p) = Len(q) /\ \A k \in 1..2 : p[k] = q[k]
    BY <1>1, <2>2
  <2>4. p = q
    BY <1>1, <2>2, <2>3, SeqEqual
  <2> QED  BY <2>4 DEF q
<1>2. ASSUME Len(p) = 3 PROVE p = <<1, p[2], p[3]>>
  <2> DEFINE q == <<1, p[2], p[3]>>
  <2>1. p[2] \in Int /\ p[3] \in Int
    <3>1. 2 \in 1..Len(p) /\ 3 \in 1..Len(p)
      BY <1>2
    <3> QED  BY <3>1, ElementOfSeq
  <2>2. q \in Seq(Int) /\ Len(q) = 3 /\ q[1] = 1 /\ q[2] = p[2] /\ q[3] = p[3]
    BY <2>1
  <2> HIDE DEF q
  <2>3. Len(p) = Len(q) /\ \A k \in 1..3 : p[k] = q[k]
    BY <1>2, <2>2
  <2>4. p = q
    BY <1>2, <2>2, <2>3, SeqEqual
  <2> QED  BY <2>4 DEF q
<1> QED  BY <1>1, <1>2

\* A segment of the current version that a search came to can be read.
LEMMA CurrentThere ==
    ASSUME CompleteInv, listed = 1, file.data # NoVer,
           NEW p, Sound(p), Fits(p), Len(p) > 1, p[1] = 1, p[2] = file.data,
           p[Len(p)] # S!NoName
    PROVE  p \in Paths /\ (Len(p) = 3 => Document(p).data # <<>>)
<1> USE DEF CompleteInv, FullInv, AllInv
<1>1. vers[file.data].here /\ file.data \in AnyVer /\ file.data \in SegVers
  BY VersionTypes DEF IntactInv, Complete, SegVers
<1>2. CASE Len(p) = 2
  <2>1. p = <<1, file.data>>
    BY <1>2, PathOf DEF Sound
  <2> QED  BY <1>1, <1>2, <2>1 DEF Paths
<1>3. CASE Len(p) = 3
  <2>1. p[3] \in 0..(file.size - 1)
    BY <1>3 DEF Fits
  <2>2. file.size \in 0..MaxSegs /\ MaxSegs \in Nat
    BY <1>1, ConstantsAssumption DEF IntactInv, Complete, TypeInv, TypeOK, VerDocs
  <2>3. p[3] \in SegNums /\ p[3] < file.size
    BY <2>1, <2>2 DEF SegNums
  <2>4. segs[<<file.data, p[3]>>] = "data"
    BY <2>3 DEF IntactInv, Complete, Filled
  <2>5. p = <<1, file.data, p[3]>>
    BY <1>3, PathOf DEF Sound
  <2>6. p \in Paths
    <3> DEFINE s == <<file.data, p[3]>>
    <3>1. s \in SegIds /\ segs[s] # "absent" /\ s[1] = file.data /\ s[2] = p[3]
      BY <1>1, <2>3, <2>4 DEF SegIds
    <3> QED  BY <2>5, <3>1 DEF Paths
  <2>7. Document(p).data = <<0>>
    BY <1>3, <2>4 DEF Document
  <2> QED  BY <2>6, <2>7
<1>4. Len(p) \in {2, 3}
  <2>1. p \in Seq(Int) /\ Len(p) <= 3
    BY DEF Sound
  <2>2. Len(p) \in Nat
    BY <2>1, LenProperties
  <2>3. \A n \in Nat : n > 1 /\ n <= 3 => n = 2 \/ n = 3
    OBVIOUS
  <2> QED  BY <2>1, <2>2, <2>3
<1> QED  BY <1>2, <1>3, <1>4

\* A release that goes on while the server searches does not mislead it: while
\* the version it has come to is the current one, every path it has still to
\* look at is there, and the segment it selected has content.
THEOREM SelectionFits ==
    ASSUME Disciplined, NoShrink, NoSparse PROVE SFSpec => []SelectionStands
<1>1. CompleteInv /\ SearchInv /\ FitsInv => SelectionStands
  <2> SUFFICES ASSUME CompleteInv, SearchInv, FitsInv, listed = 1, file.data # NoVer
               PROVE  /\ S!At("fetch") /\ srv.hit[2] = file.data => Collection[srv.hit].data # <<>>
                      /\ \A k \in DOMAIN srv.todo :
                            LET p == srv.todo[k]
                            IN  Len(p) > 1 /\ p[1] = 1 /\ p[2] = file.data /\ p[Len(p)] # S!NoName
                                => p \in Paths
    BY DEF SelectionStands
  <2>1. ASSUME S!At("fetch"), srv.hit[2] = file.data PROVE Collection[srv.hit].data # <<>>
    <3> DEFINE p == srv.hit
    <3>1. Sound(p) /\ Target(p) /\ Fits(p)
      BY <2>1 DEF SearchInv, FitsInv
    <3>2. Len(p) = 3 /\ p[1] = 1 /\ p[3] # S!NoName
      BY <3>1 DEF Target, S!NoName, SegNums
    <3> HIDE DEF p
    <3>3. p \in Paths /\ Document(p).data # <<>>
      BY <2>1, <3>1, <3>2, CurrentThere DEF p
    <3> QED  BY <3>3 DEF Collection, p
  <2>2. ASSUME NEW k \in DOMAIN srv.todo
        PROVE  LET p == srv.todo[k]
               IN  Len(p) > 1 /\ p[1] = 1 /\ p[2] = file.data /\ p[Len(p)] # S!NoName
                   => p \in Paths
    BY CurrentThere DEF SearchInv, FitsInv
  <2> QED  BY <2>1, <2>2
<1> QED  BY <1>1, FitsInvariant, PTL
-----------------------------------------------------------------------------
(* The documents that a server is given are such a collection as the        *)
(* theorems about the searches are stated for.                              *)

LEMMA TypesStay == Spec => []TypeInv
BY TypeInit, TypeNext, PTL DEF Spec

LEMMA PathsSound ==
    ASSUME TypeInv, NEW p \in Paths
    PROVE  p \in Seq(Int \ {S!NoName})
<1> DEFINE D == Int \ {S!NoName}
<1>1. \A v \in SegVers : v \in D
  BY ConstantsAssumption DEF SegVers, AnyVer, Versions, NoVer, WrappedVer, S!NoName
<1>2. \A i \in SegNums : i \in D
  BY ConstantsAssumption DEF SegNums, S!NoName
<1>3. 1 \in D /\ AnyVer \subseteq SegVers
  BY DEF S!NoName, SegVers
<1> HIDE DEF D
<1>4. <<>> \in Seq(D) /\ Name \in Seq(D)
  BY <1>3 DEF Name
<1>5. ASSUME NEW v \in D PROVE <<1, v>> \in Seq(D) /\ \A i \in D : <<1, v, i>> \in Seq(D)
  BY <1>3
<1>6. p \in Seq(D)
  BY <1>1, <1>2, <1>3, <1>4, <1>5, PathsAre
<1> QED  BY <1>6 DEF D

LEMMA DocumentIs ==
    ASSUME TypeInv, NEW p \in Paths
    PROVE  /\ Collection[p] = S!Query(p)
           /\ S!Query(p).type \in {"dir", "file", "ver", "seg"}
           /\ p = <<>> => S!Query(p).type = "dir"
           /\ p = Name => S!Query(p).type = "file"
           /\ \A v \in AnyVer : p = <<1, v>> => S!Query(p).type = "ver"
           /\ \A v, i \in Int : p = <<1, v, i>> => S!Query(p).type = "seg"
           /\ S!Query(p).type = "seg" => S!Query(p).data \in {<<>>, <<0>>}
<1>1. S!Query(p) = Document(p) /\ Collection[p] = Document(p)
  BY DEF S!Query, Collection
<1>2. p = <<>> => Document(p).type = "dir"
  BY PathLengths DEF Document
<1>3. p = Name => Document(p).type = "file"
  <2>1. p = Name => Len(p) = 1
    BY PathLengths
  <2> QED  BY <2>1 DEF Document
<1>4. ASSUME NEW v, p = <<1, v>> PROVE Document(p).type = "ver"
  <2>1. Len(p) = 2
    BY <1>4, PathLengths
  <2> QED  BY <2>1 DEF Document
<1>5. ASSUME NEW v, NEW i, p = <<1, v, i>>
      PROVE  Document(p).type = "seg" /\ Document(p).data \in {<<>>, <<0>>}
  <2>1. Len(p) = 3
    BY <1>5, PathLengths
  <2> QED  BY <2>1 DEF Document
<1>6. SegVers \subseteq Int /\ SegNums \subseteq Int
  BY ConstantsAssumption DEF SegVers, AnyVer, Versions, NoVer, WrappedVer, SegNums
<1>7. \/ p = <<>> \/ p = Name \/ \E v \in AnyVer : p = <<1, v>>
      \/ \E v \in SegVers, i \in SegNums : p = <<1, v, i>>
  BY PathsAre
<1>8. Document(p).type # "seg" \/ Document(p).data \in {<<>>, <<0>>}
  BY <1>2, <1>3, <1>4, <1>5, <1>7
<1> QED  BY <1>1, <1>2, <1>3, <1>4, <1>5, <1>7, <1>8

\* The list of a document, by its type.
LEMMA ListsAre ==
    ASSUME TypeInv, NEW p \in Paths
    PROVE  LET e == S!Query(p)
           IN  /\ e.data \in Seq(Int)
               /\ e.type = "file" => Len(e.data) = 1
               /\ e.type = "ver" => e.data = [k \in 1..Len(e.data) |-> k - 1]
<1> DEFINE e == S!Query(p)
<1>1. listed \in Nat /\ file.data \in Int /\ \A v \in AnyVer : vers[v].data \in Nat
  BY VersionTypes, ConstantsAssumption DEF TypeInv, TypeOK, VerDocs
<1>2. RootList \in Seq(Int)
  BY <1>1 DEF RootList
<1>3. <<file.data>> \in Seq(Int) /\ Len(<<file.data>>) = 1
  BY <1>1
<1>4. ASSUME NEW v \in AnyVer
      PROVE  SegmentList(v) \in Seq(Int) /\ SegmentList(v) = [k \in 1..Len(SegmentList(v)) |-> k - 1]
  <2>1. SegmentList(v) \in Seq(Int) /\ Len(SegmentList(v)) = vers[v].data
    BY <1>1 DEF SegmentList
  <2> QED  BY <2>1 DEF SegmentList
<1>5. <<>> \in Seq(Int) /\ <<0>> \in Seq(Int)
  OBVIOUS
<1>6. e.type \in {"dir", "file", "ver", "seg"} /\ (e.type = "seg" => e.data \in {<<>>, <<0>>})
  BY DocumentIs
<1>7. /\ e.type = "dir" => e.data = RootList
      /\ e.type = "file" => e.data = <<file.data>>
      /\ e.type = "ver" => \E v \in AnyVer : e.data = SegmentList(v)
  BY QueryIs
<1> HIDE DEF e
<1>8. e.data \in Seq(Int)
  BY <1>2, <1>3, <1>4, <1>5, <1>6, <1>7
<1>9. e.type = "ver" => e.data = [k \in 1..Len(e.data) |-> k - 1]
  BY <1>4, <1>7
<1> QED  BY <1>3, <1>7, <1>8, <1>9 DEF e

\* What an entry lists is of the type that belongs below it, if it is there.
LEMMA ChildrenAre ==
    ASSUME TypeInv, NEW p \in Paths, NEW x \in S!ToSet(S!Query(p).data),
           Append(p, x) \in Paths
    PROVE  S!Query(Append(p, x)).type \in S!Holds[S!Query(p).type]
<1> DEFINE e == S!Query(p)
           q == Append(p, x)
<1>1. e.data \in Seq(Int)
  BY ListsAre
<1>2. PICK k \in 1..Len(e.data) : x = e.data[k]
  BY <1>1 DEF S!ToSet
<1>3. x \in Int
  BY <1>1, <1>2, ElementOfSeq
<1>4. CASE e.type = "dir"
  <2>1. p = <<>> /\ e.data = RootList /\ listed \in Nat
    BY <1>4, QueryIs DEF TypeInv, TypeOK
  <2>2. Len(RootList) = listed
    BY <2>1 DEF RootList
  <2>3. x = 1
    BY <1>2, <2>1, <2>2 DEF RootList
  <2>4. q = Name
    BY <2>1, <2>3 DEF Name
  <2>5. S!Query(q).type = "file"
    BY <2>4, DocumentIs
  <2> QED  BY <1>4, <2>5 DEF S!Holds
<1>5. CASE e.type = "file"
  <2>1. p = Name /\ e.data = <<file.data>> /\ file.data \in AnyVer
    BY <1>5, QueryIs, VersionTypes
  <2>2. x = file.data
    BY <1>2, <2>1
  <2>3. q = <<1, file.data>>
    BY <1>3, <2>1, <2>2, AppendIs
  <2>4. S!Query(q).type = "ver"
    BY <2>1, <2>3, DocumentIs
  <2> QED  BY <1>5, <2>4 DEF S!Holds
<1>6. CASE e.type = "ver"
  <2>1. PICK v \in AnyVer : p = <<1, v>>
    BY <1>6, QueryIs
  <2>2. v \in Int
    BY VersionTypes
  <2>3. q = <<1, v, x>>
    BY <1>3, <2>1, <2>2, AppendIs
  <2>4. S!Query(q).type = "seg"
    BY <1>3, <2>2, <2>3, DocumentIs
  <2> QED  BY <1>6, <2>4 DEF S!Holds
<1>7. CASE e.type = "seg"
  <2>1. PICK v \in SegVers, i \in SegNums : p = <<1, v, i>> /\ segs[<<v, i>>] # "absent"
    <3>1. p # <<>> /\ p # Name /\ \A v \in AnyVer : p # <<1, v>>
      BY <1>7, DocumentIs
    <3> QED  BY <3>1, PathsAre
  <2>2. v \in Int /\ i \in Int
    BY ConstantsAssumption DEF SegVers, AnyVer, Versions, NoVer, WrappedVer, SegNums
  <2>3. p \in Seq(Int) /\ Len(p) = 3
    BY <2>1, <2>2
  <2>4. Len(q) = 4
    <3>1. Len(q) = Len(p) + 1
      BY <1>3, <2>3, AppendProperties
    <3> HIDE DEF q
    <3> QED  BY <2>3, <3>1
  <2>5. Len(q) \in {0, 1, 2, 3}
    <3>1. q \in Paths
      OBVIOUS
    <3> HIDE DEF q
    <3>2. \/ q = <<>> \/ q = Name \/ \E w \in AnyVer : q = <<1, w>>
          \/ \E w \in SegVers, j \in SegNums : q = <<1, w, j>>
      BY <3>1, PathsAre
    <3> QED  BY <3>2, PathLengths
  <2> QED  BY <2>4, <2>5
<1>8. e.type \in {"dir", "file", "ver", "seg"}
  BY DocumentIs
<1> QED  BY <1>4, <1>5, <1>6, <1>7, <1>8

\* Whatever handlers are in the middle of, and wherever they were killed, the
\* documents are a collection of which the theorems about both searches speak:
\* no handler leaves a document of the wrong type below a name it lists, a file
\* with two current versions, or a version whose list has gaps.
THEOREM CollectionIsTree == SFSpec => []S!Tree(Collection)
<1>1. TypeInv => S!Tree(Collection)
  <2> SUFFICES ASSUME TypeInv, NEW p \in DOMAIN Collection
               PROVE  LET e == Collection[p]
                      IN  /\ p \in Seq(Int \ {S!NoName})
                          /\ e.type \in DOMAIN S!Holds /\ e.data \in Seq(Int)
                          /\ p = <<>> => e.type = "dir"
                          /\ e.type = "file" => Len(e.data) = 1
                          /\ e.type = "ver" => e.data = [k \in 1..Len(e.data) |-> k - 1]
                          /\ \A x \in S!ToSet(e.data) :
                                Append(p, x) \in DOMAIN Collection =>
                                    Collection[Append(p, x)].type \in S!Holds[e.type]
    BY DEF S!Tree
  <2>1. p \in Paths /\ DOMAIN Collection = Paths
    BY DEF Collection
  <2>2. \A q \in Paths : Collection[q] = S!Query(q)
    BY DocumentIs
  <2>3. DOMAIN S!Holds = {"dir", "file", "ver", "seg"}
    BY DEF S!Holds
  <2>4. /\ p \in Seq(Int \ {S!NoName})
        /\ S!Query(p).type \in DOMAIN S!Holds
        /\ p = <<>> => S!Query(p).type = "dir"
    BY <2>1, <2>3, PathsSound, DocumentIs
  <2>5. /\ S!Query(p).data \in Seq(Int)
        /\ S!Query(p).type = "file" => Len(S!Query(p).data) = 1
        /\ S!Query(p).type = "ver" =>
              S!Query(p).data = [k \in 1..Len(S!Query(p).data) |-> k - 1]
    BY <2>1, ListsAre
  <2>6. ASSUME NEW x \in S!ToSet(S!Query(p).data), Append(p, x) \in Paths
        PROVE  Collection[Append(p, x)].type \in S!Holds[S!Query(p).type]
    BY <2>1, <2>2, <2>6, ChildrenAre
  <2>7. Collection[p] = S!Query(p)
    BY <2>1, <2>2
  <2> QED  BY <2>1, <2>4, <2>5, <2>6, <2>7
<1> QED  BY <1>1, HandlersRun, TypesStay, PTL
=============================================================================
