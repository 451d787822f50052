----------------------------- MODULE ServedFile -----------------------------
(***************************************************************************)
(* An NDN server (module Server) on the documents that the file handlers   *)
(* (module File) change meanwhile: a search and the fetch that follows are *)
(* queries between which any handler may take its next step.               *)
(***************************************************************************)
EXTENDS FileProperties, Sequences

VARIABLE srv

\* The documents of the path as the server's collection: the root lists the
\* file as its entry 1.
Name == <<1>>
Paths ==
    {<<>>} \cup (IF file.here THEN {Name} ELSE {})
    \cup {<<1, v>> : v \in {w \in AnyVer : vers[w].here}}
    \cup {<<1, s[1], s[2]>> : s \in {t \in SegIds : segs[t] # "absent"}}
Document(p) ==
    CASE Len(p) = 0 -> [type |-> "dir", data |-> [k \in 1..listed |-> 1]]
      [] Len(p) = 1 -> [type |-> "file", data |-> <<file.data>>]
      [] Len(p) = 2 -> [type |-> "ver", data |-> [k \in 1..vers[p[2]].data |-> k - 1]]
      [] OTHER -> [type |-> "seg", data |-> IF segs[<<p[2], p[3]>>] = "data" THEN <<0>> ELSE <<>>]
Collection == [p \in Paths |-> Document(p)]

S == INSTANCE Server WITH coll <- Collection

\* The directory or the file is asked for: the server chooses the version.
Wants == {S!Plain(<<>>), S!Plain(Name)}
Serve == S!Search \/ S!FetchData \/ S!JsSearch \/ S!JsSend
SNext ==
    /\ \/ \E i \in Wants, js \in BOOLEAN : S!OnInterest(i, js)
       \/ Serve
    /\ UNCHANGED vars
SFInit == Init /\ S!SInit
SFNext == (Next /\ UNCHANGED srv) \/ SNext
SFSpec == SFInit /\ [][SFNext]_<<vars, srv>>
SFFairSpec == SFSpec /\ WF_<<vars, srv>>(Serve /\ UNCHANGED vars)
-----------------------------------------------------------------------------
\* The segment a server is about to send.
Answers ==
    IF S!At("fetch") THEN {srv.hit} ELSE IF S!Js("seg") THEN {S!Path} ELSE {}

\* Of a file the server is only asked for by name it answers with a segment of
\* a version that nobody writes any more: one name, one content.
ServesCommitted ==
    \A p \in Answers :
        /\ p[2] # file.temp
        /\ \A c \in Clients : loc[c].op \in {"write", "truncate"} => loc[c].tmp # p[2]

\* What the search has selected can be fetched, and what it has still to look
\* at can be found, unless the version was replaced or the file is being
\* removed: the server is never misled by a release that is under way.
SelectionStands ==
    listed = 1 /\ file.data # NoVer =>
        /\ S!At("fetch") /\ srv.hit[2] = file.data => Collection[srv.hit].data # <<>>
        /\ \A k \in DOMAIN srv.todo :
               LET p == srv.todo[k]
               IN  Len(p) > 1 /\ p[1] = 1 /\ p[2] = file.data /\ p[Len(p)] # S!NoName
                   => p \in Paths

\* Every interest is answered or ignored in the end.
InterestsEnd == S!At("search") \/ S!At("fetch") ~> S!At("idle") \/ S!At("down")

\* "respond proper content object and comsumes the interest. or simple ignore
\* the interest if no content object found" (server/servermodule.cc:39-40).
ServerUp == ~S!At("down")
=============================================================================
