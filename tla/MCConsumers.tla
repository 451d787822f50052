---------------------------- MODULE MCConsumers ----------------------------
(* Small instances of Consumers for TLC: what a consumer may ask for, and   *)
(* collections with whole, empty, unfinished and damaged files, and a       *)
(* directory that lists a name twice.                                       *)
EXTENDS Consumers, TLC

Segments(q, ns) == [p \in {Append(q, n) : n \in ns} |-> Entry("seg", <<0>>)]
\* A file at f whose version 7 lists the segments ns and has those in ms.
FileAt(f, ns, ms) ==
    (f :> Entry("file", <<7>>)) @@ (Append(f, 7) :> Entry("ver", ns))
    @@ Segments(Append(f, 7), ms)
Fresh(f) == f :> Entry("file", <<-1>>)
EmptyDir(f) == f :> Entry("dir", <<>>)
DirAt(f) == (f :> Entry("dir", <<3>>)) @@ FileAt(Append(f, 3), <<0>>, {0})
CutAt(f) == (Append(Append(f, 7), 0) :> Entry("seg", <<>>)) @@ FileAt(f, <<0, 1>>, {1})

Shapes(f) ==
    {FileAt(f, <<0, 1>>, {0, 1}), FileAt(f, <<0, 1>>, {1}), FileAt(f, <<>>, {}),
     Fresh(f), EmptyDir(f), DirAt(f), CutAt(f)}
Root(ns) == <<>> :> Entry("dir", ns)
Collections ==
    {Root(<<2, 1>>) @@ a @@ FileAt(<<2>>, <<0>>, {0}) : a \in Shapes(<<1>>)}
    \cup {Root(<<2, 1>>) @@ a @@ EmptyDir(<<2>>) :
            a \in {FileAt(<<1>>, <<0, 1>>, {0, 1}), EmptyDir(<<1>>)}}
    \cup {Root(<<>>), Root(<<2, 1, 2>>) @@ FileAt(<<2>>, <<0, 1>>, {0, 1})}

Names == {<<>>, <<1>>, <<1, 7>>, <<1, 7, 1>>}
Bounds == {<<ncomps, ncomps>>, <<ncomps, 3>>, <<4, ncomps>>}
Wants ==
    {Interest(n, s, b[1], b[2]) : n \in Names, s \in {"left", "right"}, b \in Bounds}
    \cup {Interest(n, "default", ncomps, ncomps) : n \in Names}

Ask(prog, js, want, c) == [prog |-> prog, js |-> js, want |-> want, coll |-> c]
Whole3 == Root(<<1>>) @@ FileAt(<<1>>, <<0, 1, 2>>, {0, 1, 2})
MCScenarios ==
    {Ask("client", FALSE, w, c) : w \in Wants, c \in Collections}
    \cup {Ask("client", TRUE, Plain(n), c) : n \in Names, c \in Collections}
    \cup {Ask(prog, js, Plain(<<1>>), Whole3) :
            prog \in {"cat_file", "cat_file_py", "cat_file_pipe"}, js \in BOOLEAN}
=============================================================================
