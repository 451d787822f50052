-------------------------- MODULE ServerProperties --------------------------
(***************************************************************************)
(* What a server should find, defined on the collection as a whole rather  *)
(* than by a search, and what the servers of module Server do find.        *)
(***************************************************************************)
EXTENDS Server

Members(p) == ToSet(Query(p).data)
\* Each component of p after the name n is a member of the entry before it.
Leads(n, p) == \A k \in Len(n)..(Len(p) - 1) : p[k + 1] \in Members(SubSeq(p, 1, k))

\* The level a child selector is about, and the child it asks for.  Only
\* CHILD_RIGHT asks for one: with CHILD_LEFT the first match in the order of
\* names is in the leftmost child that has one.
FirstList(n, p) ==
    CHOOSE k \in Len(n)..(Len(p) - 1) :
        /\ Lists(Query(SubSeq(p, 1, k)))
        /\ \A j \in Len(n)..(k - 1) : ~Lists(Query(SubSeq(p, 1, j)))
Preferred(i, p) ==
    p # i.name /\ i.sel = "right" =>
        LET k == FirstList(i.name, p) IN \A x \in Members(SubSeq(p, 1, k)) : p[k + 1] >= x

\* The full name of a content object ends in its digest.
Lengths(i) == {n \in Nat : (i.min = ncomps \/ n >= i.min) /\ (i.max = ncomps \/ n <= i.max)}

Matches(i) ==
    {p \in DOMAIN coll : /\ coll[p].type = "seg" /\ IsPrefix(i.name, p)
                         /\ Leads(i.name, p) /\ Preferred(i, p)
                         /\ (Len(p) + 1) - Len(i.name) \in Lengths(i)}

Before(p, q) ==
    \E k \in 1..Len(p) : k <= Len(q) /\ p[k] < q[k] /\ \A j \in 1..(k - 1) : p[j] = q[j]
IsFirst(p, S) == p \in S /\ \A q \in S \ {p} : Before(p, q)

\* On a collection that does not change, the C++ server selects a segment
\* that matches the interest with the selector it is given for it, and the
\* first such segment in the order of names; it finds nothing only if nothing
\* matches.
FindsMatch ==
    /\ At("fetch") => IsFirst(srv.hit, Matches(srv.want))
    /\ At("search") /\ srv.todo = <<>> => Matches(srv.want) = {}

-----------------------------------------------------------------------------
(* Why: what is true of the stack while the search is under way.            *)

\* The first list on the way from n to p, and p has the child of it that the
\* selector asks for.
IsFirstList(n, p, k) ==
    Lists(Query(SubSeq(p, 1, k))) /\ \A j \in Len(n)..(k - 1) : ~Lists(Query(SubSeq(p, 1, j)))
PassedList(n, p) == \E k \in Len(n)..(Len(p) - 1) : Lists(Query(SubSeq(p, 1, k)))
Selected(i, p) ==
    \A k \in Len(i.name)..(Len(p) - 1) : IsFirstList(i.name, p, k) =>
        \A x \in Members(SubSeq(p, 1, k)) : i.sel = "right" => p[k + 1] >= x
Reached(i, p) == IsPrefix(i.name, p) /\ Leads(i.name, p) /\ Selected(i, p)

\* What is yet to be found is below a path of the stack, and after all paths
\* that come before that one.
Awaits(q) ==
    \E j \in DOMAIN srv.todo :
        IsPrefix(srv.todo[j], q) /\ \A k \in 1..(j - 1) : Before(srv.todo[k], q)

\* child_selector_set: set once the stack is beyond the first list.
SelectorUsed ==
    IF srv.set THEN \A j \in DOMAIN srv.todo : PassedList(srv.want.name, srv.todo[j])
               ELSE Len(srv.todo) <= 1 /\ \A j \in DOMAIN srv.todo : ~PassedList(srv.want.name, srv.todo[j])

\* While the C++ server searches, no segment that matches is behind it, and
\* every path on its stack is one that a match may have, although a list may
\* name an entry twice and name entries that are gone.
SearchInv ==
    At("search") /\ ~srv.js =>
        /\ \A j \in DOMAIN srv.todo : Reached(srv.want, srv.todo[j])
        /\ \A q \in Matches(srv.want) : Awaits(q)
        /\ srv.want.sel = "right" => SelectorUsed

\* The JavaScript server never backtracks: below a file or a version it takes
\* the first child, and what it has not taken comes later.
JsInv ==
    At("search") /\ srv.js =>
        /\ srv.todo = <<Path>>
        /\ Query(srv.want.name).type # "dir" =>
              /\ Found.type # "dir"
              /\ Found.type # "none" =>
                    IsPrefix(srv.want.name, Path) /\ Leads(srv.want.name, Path)
              /\ \A q \in Matches(Plain(srv.want.name)) : IsPrefix(Path, q) \/ Before(Path, q)
=============================================================================
