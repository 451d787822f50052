------------------------------- MODULE Server -------------------------------
(***************************************************************************)
(* The NDN servers: how an interest is turned into a segment, by           *)
(* server/servermodule.cc and by server-js/server.js, one database query   *)
(* per step.  A server changes nothing; the collection it searches belongs *)
(* to whoever instantiates this module, and may change between two steps.  *)
(*                                                                         *)
(* A path is a sequence of numbers: a directory entry's name stands for    *)
(* its rank in the order of BSONElementLessThan, versions and segments     *)
(* stand for themselves.  The root is <<>>; the names of interests are     *)
(* what follows the global prefix.                                         *)
(***************************************************************************)
EXTENDS Integers, Sequences, SequencesExt

VARIABLES
    coll,  \* the collection: a function from the paths of its entries
    srv    \* a server: which one, the interest as it sees it, how far it is

\* An entry: a directory lists names, a file has its current version, a
\* version lists segments, a segment has content, or none binData() can read.
Entry(t, d) == [type |-> t, data |-> d]
NoEntry == Entry("none", <<>>)
Query(p) == IF p \in DOMAIN coll THEN coll[p] ELSE NoEntry
Lists(e) == e.type \in {"dir", "ver"}

\* server.js: '/' + '/' + x is no path that exists, and data[0] of an empty
\* array is the text "undefined".
NoName == -3

\* What a collection may look like: what an entry lists need not be there, but
\* if it is, it is of a type that the handlers put at that place.  A file has
\* one current version, and a version lists its segments from 0 on.
Holds == [dir |-> {"dir", "file"}, file |-> {"ver"}, ver |-> {"seg"}, seg |-> {}]
Tree(c) ==
    \A p \in DOMAIN c :
        LET e == c[p]
        IN  /\ p \in Seq(Int \ {NoName}) /\ e.type \in DOMAIN Holds /\ e.data \in Seq(Int)
            /\ p = <<>> => e.type = "dir"
            /\ e.type = "file" => Len(e.data) = 1
            /\ e.type = "ver" => e.data = [k \in 1..Len(e.data) |-> k - 1]
            /\ \A x \in ToSet(e.data) :
                  Append(p, x) \in DOMAIN c => c[Append(p, x)].type \in Holds[e.type]

\* CHILD_LEFT, which is 0, CHILD_RIGHT, and CHILD_DEFAULT or any other value;
\* ncomps is the library's "not set".
Selectors == {"left", "right", "default"}
ncomps == -1
Interest(n, s, lo, hi) == [name |-> n, sel |-> s, min |-> lo, max |-> hi]
Interests == [name : Seq(Int), sel : Selectors, min : Int, max : Int]
\* An interest that sets nothing: whether the library then has CHILD_LEFT or
\* CHILD_DEFAULT is all the same to the server, see Selects.
Plain(n) == Interest(n, "left", ncomps, ncomps)
\* What getChildSelector() gives for an interest: its selector, or CHILD_LEFT
\* whatever it carries, as the TODO says of it (servermodule.cc:228-229).
ChildSelector(i) == {i.sel, "left"}

\* The depth-first search is its stack: todo are the paths still to be
\* queried, the one to be queried next first.
At(l) == srv.pc = l
Idle == [pc |-> "idle", js |-> FALSE, want |-> Plain(<<>>), todo |-> <<>>, set |-> FALSE, hit |-> <<>>]
Path == Head(srv.todo)
Found == Query(Path)
Searching(t) == At("search") /\ srv.todo # <<>> /\ t = Found.type
Cpp(t) == ~srv.js /\ Searching(t)
Js(t) == srv.js /\ Searching(t)

Continue(t) == srv' = [srv EXCEPT !.todo = t]
End == srv' = Idle
Die == srv' = [Idle EXCEPT !.pc = "down"]

SInit == srv = Idle

-----------------------------------------------------------------------------
\* Both servers start with the entry of the name they are asked for.
OnInterest(i, js) ==
    /\ At("idle")
    /\ \E s \in ChildSelector(i) :
           srv' = [Idle EXCEPT !.pc = "search", !.js = js, !.want = [i EXCEPT !.sel = s],
                               !.todo = <<i.name>>]

(* servermodule.cc: OnInterest, NameSelector, Search4PossibleMatch_Rec,     *)
(* CheckSuffix, FetchData                                                   *)

\* child_selector_set: the selector is used at the first list of the search.
\* CHILD_LEFT is 0, and the condition lets it not into the switch: its case is
\* never reached and all children are searched, as for CHILD_DEFAULT.
SelectsAlways == srv.want.sel # "left"   \* mutant: child_selector_set is not set
Selects == ~srv.set /\ srv.want.sel # "left"

\* std::sort with BSONElementLessThan: the permutation that puts s in order.
Ordered(s) ==
    LET perm == CHOOSE p \in Bijection(DOMAIN s, DOMAIN s) :
                    \A i, j \in DOMAIN s : i < j => s[p[i]] <= s[p[j]]
    IN  [i \in DOMAIN s |-> s[perm[i]]]

Children(e) ==
    LET s == Ordered(e.data)
    IN  IF Selects /\ srv.want.sel = "right" THEN SubSeq(s, Len(s), Len(s)) ELSE s

\* Element -1 of an empty vector.
OutOfRange(e) == Selects /\ srv.want.sel = "right" /\ e.data = <<>>

MissingAgain == Cpp("none") /\ Continue(srv.todo)   \* mutant: current_index stays
Missing == Cpp("none") /\ Continue(Tail(srv.todo))

SearchList ==
    LET s == Children(Found)
    IN  /\ Cpp("dir") \/ Cpp("ver")
        /\ ~OutOfRange(Found)
        /\ srv' = [srv EXCEPT !.set = @ \/ Selects,
                              !.todo = [i \in DOMAIN s |-> Append(Path, s[i])] \o Tail(@)]

SearchNothing ==
    /\ Cpp("dir") \/ Cpp("ver")
    /\ OutOfRange(Found)
    /\ Die \/ Continue(Tail(srv.todo))

SearchFile ==
    /\ Cpp("file")
    /\ Continue(<<Append(Path, Found.data[1])>> \o Tail(srv.todo))

\* The digest counts as a component.
CheckSuffix(p, i) ==
    LET n == Len(p) - Len(i.name) + 1
    IN  (i.max # ncomps => n <= i.max) /\ (i.min # ncomps => n >= i.min)

SearchSegment ==
    /\ Cpp("seg")
    /\ \/ CheckSuffix(Path, srv.want) /\ srv' = [srv EXCEPT !.pc = "fetch", !.hit = Path]
       \/ ~CheckSuffix(Path, srv.want) /\ Continue(Tail(srv.todo))

NoMatch == At("search") /\ srv.todo = <<>> /\ End

FetchData == At("fetch") /\ Query(srv.hit).data # <<>> /\ End

\* The segment is gone: NULL is returned with len never set, and what len
\* happens to be decides whether NULL is read.
FetchNull == At("fetch") /\ Query(srv.hit).type = "none" /\ (Die \/ End)
FetchCut == At("fetch") /\ Query(srv.hit) = Entry("seg", <<>>) /\ Die

\* All but FetchData, which answers.
Search == Missing \/ SearchList \/ SearchNothing \/ SearchFile \/ SearchSegment
          \/ NoMatch \/ FetchNull \/ FetchCut

-----------------------------------------------------------------------------
(* server.js: onInterest, recQuery.  No selectors, no sorting: the first     *)
(* child only, and the segment is sent from the query that found it.         *)

JsLast(e) == IF e.data = <<>> THEN NoName ELSE Last(e.data)   \* mutant
JsFirst(e) == IF e.data = <<>> THEN NoName ELSE e.data[1]
JsChild(p, x) == IF p = <<>> THEN <<NoName, x>> ELSE Append(p, x)

JsMissing == Js("none") /\ End
JsDescend ==
    /\ Js("dir") \/ Js("file") \/ Js("ver")
    /\ Continue(<<JsChild(Path, JsFirst(Found))>>)
JsSend == Js("seg") /\ Found.data # <<>> /\ End
JsCut == Js("seg") /\ Found.data = <<>> /\ Die

\* All but JsSend, which answers.
JsSearch == JsMissing \/ JsDescend \/ JsCut
=============================================================================
