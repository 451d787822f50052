--------------------------- MODULE FileTidyProofs ---------------------------
(***************************************************************************)
(* Nothing is left over.  In quiet surroundings every document belongs to   *)
(* the current version, to the one being written or to one being removed,   *)
(* so when no request is running there is no other.                         *)
(***************************************************************************)
EXTENDS FileIntactProofs

Quiet == Env = {}

\* Nobody truncates by path, and an entry that exists is listed.
QuietInv ==
    /\ \A c \in Clients : Works(c) => Writing(c) /\ loc[c].cur = file.data
    /\ \A c \in Clients : loc[c].op = "unlink" => file.here
    /\ file.here => listed = 1 \/ \E c \in Clients : Exclusive(c)

\* A segment has a place if its version lists it, or if the write or truncate
\* that is going to list it is on its way.
Listed(v, i) == vers[v].here /\ i < vers[v].data
InHand(c, v, i) ==
    LET l == loc[c]
    IN  /\ Works(c) /\ l.tmp = v
        /\ \/ l.pc \in {"copy_get", "copy_put", "ver_insert"} /\ i < l.pos
           \/ InWrite(c) /\ i <= l.pos
NoStraySeg ==
    \A v \in SegVers, i \in SegNums : segs[<<v, i>>] # "absent" =>
        /\ v \in Versions
        /\ Listed(v, i) \/ \E c \in Clients : InHand(c, v, i)

\* A version has a place if the entry names it or a release is removing it.
Drops(c, v) == loc[c].op = "release" /\ loc[c].pc \in Removal /\ loc[c].vic = v
NoStrayDoc ==
    \A v \in AnyVer : vers[v].here =>
        /\ v # NoVer /\ file.here
        /\ v \in {file.data, file.temp} \/ \E c \in Clients : Drops(c, v)

\* What a request has removed stays removed.
Gone(c) ==
    LET l == loc[c]
        absent(i) == segs[<<l.vic, i>>] = "absent"
    IN  /\ At(c, "seg_rm") =>
              \A i \in SegNums : i >= RemoveFrom(c) /\ (i < l.idx \/ i >= l.lim) => absent(i)
        /\ l.pc \in {"ver_set", "ver_rm"} =>
              \A i \in SegNums : i >= RemoveFrom(c) => absent(i)
        /\ At(c, "ver_set") => l.vic = l.tmp

\* What a copy, a release and an unlink know.
Knows(c) ==
    LET l == loc[c]
    IN  /\ l.pc \in {"copy_get", "copy_put"} =>
              vers[file.data].here /\ l.pos <= vers[file.data].size
        /\ At(c, "rel_reset") => ~vers[l.tmp].here
        /\ l.op = "unlink" /\ ~At(c, "unl_query") =>
              /\ l.tmp = file.temp
              /\ l.pc \in Removal =>
                    l.vic = file.data \/ (l.vic = file.temp /\ ~vers[file.data].here)
              /\ At(c, "unl_entry") => ~vers[file.data].here /\ ~vers[file.temp].here

TidyInv == QuietInv /\ NoStraySeg /\ NoStrayDoc /\ \A c \in Clients : Gone(c) /\ Knows(c)

WholeInv == FullInv /\ CutFree /\ IntactInv

LEMMA QuietMeans == ASSUME Quiet PROVE Disciplined /\ NoShrink /\ NoSparse /\ NoCrash
BY DEF Quiet, Disciplined, NoShrink, NoSparse, NoCrash

-----------------------------------------------------------------------------
(* The steps of a release, of an unlink and of everything else.             *)

LEMMA ReleaseIs ==
    ASSUME NEW c \in Clients, Phase(loc[c]), loc[c].op = "release", Step(c) \/ Call(c)
    PROVE  \/ RelVer(c) \/ RelReset(c) \/ RelSize(c) \/ RelSet(c)
           \/ SegList(c) \/ SegRemove(c) \/ VerRemove(c)
<1>1. Step(c)
  BY DEF Call, OpenRead, OpenWrite, Create, Release, Unlink, Read, Write, Truncate, Alone,
         At, Phase
<1> QED
  BY <1>1
     DEF Step, OpenSet, CreateInsert, CreatePush, ReadVer, ReadSeg, TempQuery, CurrQuery,
         CopyGet, CopyPut, VerInsert, VerRequery, SegPut, VerSet, TruncSet, TruncSeg,
         UnlinkQuery, UnlinkEntry, At, Phase, WriteSteps

LEMMA UnlinkIs ==
    ASSUME NEW c \in Clients, Phase(loc[c]), loc[c].op = "unlink", Step(c) \/ Call(c)
    PROVE  UnlinkQuery(c) \/ SegList(c) \/ SegRemove(c) \/ VerRemove(c) \/ UnlinkEntry(c)
<1>1. Step(c)
  BY DEF Call, OpenRead, OpenWrite, Create, Release, Unlink, Read, Write, Truncate, Alone,
         At, Phase
<1> QED
  BY <1>1
     DEF Step, OpenSet, CreateInsert, CreatePush, ReadVer, ReadSeg, TempQuery, CurrQuery,
         CopyGet, CopyPut, VerInsert, VerRequery, SegPut, VerSet, TruncSet, TruncSeg,
         RelVer, RelReset, RelSize, RelSet, At, Phase, WriteSteps, ReleaseSteps

Plainly(c) == ~Works(c) /\ loc[c].op \notin {"release", "unlink"}

LEMMA PlainDocs ==
    ASSUME TypeInv, NameInv, NEW c \in Clients, Plainly(c), Step(c) \/ Call(c)
    PROVE  UNCHANGED <<vers, segs>>
<1>1. loc[c].pc \notin WriteSteps \cup {"seg_rm", "ver_rm"}
  BY DEF Plainly, Works, NameInv, Phase
<1> QED  BY <1>1, DocsOf

LEMMA VerRemoveDoes ==
    ASSUME TypeInv, NEW c \in Clients, VerRemove(c)
    PROVE  LET l == loc[c]
           IN  \/ l.op = "release" /\ Ends(c)
               \/ l.op = "unlink" /\ l.vic # l.tmp /\ l.tmp # NoVer
                  /\ Turns(c, "seglist", l.tmp, l.idx, l.lim)
               \/ l.op = "unlink" /\ (l.vic = l.tmp \/ l.tmp = NoVer)
                  /\ Passes(c, "unl_entry")
<1>1. CASE loc' = [loc EXCEPT ![c] = Removing(@, loc[c].tmp)]
  <2>1. Turns(c, "seglist", loc[c].tmp, loc[c].idx, loc[c].lim)
    BY <1>1, RemovingTurns
  <2>2. ~Done(c) /\ ~Goto(c, "unl_entry")
    BY <2>1, DoneMoves, GotoTurns, IdleFields DEF Turns, Ends
  <2> QED  BY <2>1, <2>2 DEF VerRemove
<1>2. CASE loc' # [loc EXCEPT ![c] = Removing(@, loc[c].tmp)]
  BY <1>2, DoneMoves, GotoTurns DEF VerRemove, Passes
<1> QED  BY <1>1, <1>2

LEMMA ReleaseDoes ==
    ASSUME TypeInv, NEW c \in Clients
    PROVE  /\ RelVer(c) => \/ Passes(c, "rel_size") /\ vers[loc[c].tmp].here
                           \/ Passes(c, "rel_reset") /\ ~vers[loc[c].tmp].here
           /\ RelReset(c) => Ends(c)
           /\ RelSize(c) => \E n : Turns(c, "rel_set", loc[c].vic, 0, n)
           /\ RelSet(c) => Turns(c, "seglist", loc[c].cur, loc[c].idx, loc[c].lim)
<1>1. ASSUME RelSize(c) PROVE \E n : Turns(c, "rel_set", loc[c].vic, 0, n)
  <2> DEFINE n == IF vers[loc[c].tmp].here THEN vers[loc[c].tmp].size ELSE -1
  <2>1. loc' = [loc EXCEPT ![c] = Loop(@, "rel_set", 0, n)]
    BY <1>1 DEF RelSize
  <2> HIDE DEF n
  <2>2. Turns(c, "rel_set", loc[c].vic, 0, n)
    BY <2>1, LoopTurns
  <2> QED  BY <2>2
<1>2. ASSUME RelSet(c) PROVE Turns(c, "seglist", loc[c].cur, loc[c].idx, loc[c].lim)
  BY <1>2, RemovingTurns DEF RelSet
<1> QED  BY <1>1, <1>2, DoneMoves, GotoTurns DEF RelVer, RelReset, Passes

\* What the removal of a segment, and finding none to remove, comes to.
LEMMA SegmentsDo ==
    ASSUME TypeInv, NEW c \in Clients, Phase(loc[c]), loc[c].op # "truncate"
    PROVE  LET q == IF loc[c].op = "write" THEN "ver_set" ELSE "ver_rm"
           IN  /\ SegList(c) =>
                     \/ /\ Passes(c, q)
                        /\ ~vers[loc[c].vic].here \/ RemoveFrom(c) >= vers[loc[c].vic].data
                     \/ /\ Turns(c, "seg_rm", loc[c].vic, RemoveFrom(c), vers[loc[c].vic].data)
               /\ SegRemove(c) =>
                     \/ Passes(c, q) /\ loc[c].idx + 1 >= loc[c].lim
                     \/ Turns(c, "seg_rm", loc[c].vic, loc[c].idx + 1, loc[c].lim)
<1> DEFINE q == IF loc[c].op = "write" THEN "ver_set" ELSE "ver_rm"
<1>1. ASSUME AfterSegments(c) PROVE Passes(c, q)
  BY <1>1, GotoTurns DEF AfterSegments, Passes
<1>2. ASSUME SegList(c), loc' = [loc EXCEPT ![c] = Loop(@, "seg_rm", RemoveFrom(c), vers[loc[c].vic].data)]
      PROVE  Turns(c, "seg_rm", loc[c].vic, RemoveFrom(c), vers[loc[c].vic].data)
  BY <1>2, LoopTurns
<1>3. ASSUME SegRemove(c), loc' = [loc EXCEPT ![c].idx = loc[c].idx + 1]
      PROVE  Turns(c, "seg_rm", loc[c].vic, loc[c].idx + 1, loc[c].lim)
  <2>1. loc[c].pc = "seg_rm"
    BY <1>3 DEF SegRemove, At
  <2> QED  BY <1>3, <2>1, IdxTurns
<1> QED  BY <1>1, <1>2, <1>3 DEF SegList, SegRemove

-----------------------------------------------------------------------------
LEMMA TidyInit == Init => TidyInv
<1> SUFFICES ASSUME Init PROVE TidyInv
  OBVIOUS
<1>1. \A c \in Clients : loc[c].pc = "idle" /\ loc[c].op = "none"
  BY IdleFields DEF Init
<1>2. ~file.here /\ \A v \in AnyVer : ~vers[v].here
  BY DEF Init, NoFile, NoDoc
<1>3. \A v \in SegVers, i \in SegNums : segs[<<v, i>>] = "absent"
  BY DEF Init, SegIds
<1>4. QuietInv /\ NoStrayDoc /\ NoStraySeg
  BY <1>1, <1>2, <1>3 DEF QuietInv, NoStrayDoc, NoStraySeg, Works
<1>5. \A c \in Clients : Gone(c) /\ Knows(c)
  BY <1>1 DEF Gone, Knows, At
<1> QED  BY <1>4, <1>5 DEF TidyInv

\* Who writes or truncates has the temp version, and the file is listed.
LEMMA WorkerHas ==
    ASSUME WholeInv, QuietInv, NEW c \in Clients, Works(c)
    PROVE  /\ Holds(c) /\ loc[c].tmp = file.temp /\ file.temp # NoVer /\ file.here
           /\ listed = 1 /\ file.temp > file.data /\ loc[c].cur = file.data
           /\ \A d \in Clients : ~Exclusive(d)
<1> USE DEF WholeInv, FullInv, AllInv
<1>1. Writing(c) /\ loc[c].cur = file.data
  BY DEF QuietInv
<1>2. Holds(c)
  BY <1>1 DEF Holds, Published, Works
<1>3. file.here /\ owner[c] # NoVer /\ file.temp = owner[c]
  BY <1>2 DEF LockInv, WriterHoldsTemp
<1>4. loc[c].tmp = file.temp
  BY <1>1 DEF SourceInv, SourceOf
<1>5. \A d \in Clients : ~Exclusive(d)
  BY <1>1 DEF NameInv, Writing
<1>6. listed = 1
  BY <1>3, <1>5 DEF QuietInv
<1>7. file.temp > file.data
  BY <1>3 DEF AdvanceInv
<1> QED  BY <1>1, <1>2, <1>3, <1>4, <1>5, <1>6, <1>7

\* Which request a step leaves a client in.
LEMMA BecomesUnlink ==
    ASSUME WholeInv, NEW c \in Clients, Step(c) \/ Call(c), loc'[c].op = "unlink"
    PROVE  Unlink(c) \/ (loc[c].op = "unlink" /\ ~UnlinkEntry(c))
<1> USE DEF WholeInv, FullInv, AllInv
<1>1. CASE WorkSteps(c)
  <2>1. ~Dies(c) /\ ~UnlinkEntry(c)
    BY NoneDies, DoneMoves, IdleFields DEF CutFree, UnlinkEntry, Ends
  <2> QED  BY <1>1, <2>1, WorkProceeds DEF Proceeds, NameInv
<1>2. CASE OpenSet(c) \/ CreateInsert(c) \/ CreatePush(c)
  BY <1>2, DoneMoves, GotoMoves, IdleFields
     DEF OpenSet, CreateInsert, CreatePush, Ends, MovesTo, NameInv, Phase, At
<1>3. CASE Call(c)
  <2>1. CASE OpenWrite(c) \/ Create(c)
    BY <2>1 DEF OpenWrite, Create, Generate, Request, TypeInv, TypeOK
  <2>2. CASE OpenRead(c) \/ (Release(c) /\ UNCHANGED loc)
    BY <2>2 DEF OpenRead, Release, At, NameInv, Phase
  <2>3. CASE Release(c) /\ ~UNCHANGED loc
    BY <2>3, EnterStarts DEF Release, Starts
  <2>4. ASSUME NEW p, Read(c, p) \/ Write(c, p) \/ Truncate(c, p) PROVE FALSE
    BY <2>4, EnterStarts DEF Read, Write, Truncate, Starts
  <2> QED  BY <1>3, <2>1, <2>2, <2>3, <2>4 DEF Call
<1> QED  BY <1>1, <1>2, <1>3 DEF Step, WorkSteps

LEMMA StaysExclusive ==
    ASSUME WholeInv, NEW c \in Clients, Step(c) \/ Call(c), Exclusive(c),
           ~CreatePush(c), ~UnlinkEntry(c)
    PROVE  Exclusive(c)'
<1> USE DEF WholeInv, FullInv, AllInv
<1>1. CASE loc[c].op = "unlink"
  <2>1. UnlinkQuery(c) \/ SegList(c) \/ SegRemove(c) \/ VerRemove(c)
    BY <1>1, UnlinkIs DEF NameInv
  <2> QED  BY <1>1, <2>1, UnlinkQueryMoves, RemovalDoes, VerRemoveDoes
              DEF Passes, Turns, Exclusive
<1>2. CASE loc[c].op = "create"
  <2>1. loc[c].pc \in {"create_insert", "create_push"}
    <3>1. loc[c].pc \in Pcs /\ Phase(loc[c]) /\ handle[c] = "none"
      BY <1>2 DEF TypeInv, TypeOK, Locals, NameInv, Exclusive
    <3> QED  BY <1>2, <3>1 DEF Pcs, Phase, WriteSteps, ReleaseSteps
  <2>2. CreateInsert(c)
    BY <2>1
       DEF Step, Call, OpenSet, CreateInsert, CreatePush, ReadVer, ReadSeg, TempQuery, CurrQuery,
           CopyGet, CopyPut, VerInsert, VerRequery, SegPut, VerSet, TruncSet, TruncSeg, SegList,
           SegRemove, VerRemove, RelVer, RelReset, RelSize, RelSet, UnlinkQuery, UnlinkEntry,
           OpenRead, OpenWrite, Create, Release, Unlink, Read, Write, Truncate, Alone, At
  <2> QED  BY <1>2, <2>2, GotoMoves DEF CreateInsert, MovesTo, Exclusive
<1> QED  BY <1>1, <1>2 DEF Exclusive

\* A step that makes an entry, or makes it disappear, is one of a create or an
\* unlink; so is one that lists it.
LEMMA HereStays ==
    ASSUME WholeInv, NEW c \in Clients, Step(c) \/ Call(c)
    PROVE  /\ file'.here /\ ~file.here => CreateInsert(c) /\ Exclusive(c)'
           /\ listed' # listed => Unlink(c) \/ CreatePush(c)
           /\ CreatePush(c) => listed' = 1
           /\ Unlink(c) => file.here /\ Exclusive(c)' /\ UNCHANGED file
<1> USE DEF WholeInv, FullInv, AllInv
<1>1. CASE CreateInsert(c)
  BY <1>1, GotoMoves DEF CreateInsert, MovesTo, Exclusive, NameInv, Phase, At, CreatePush, Unlink, Alone
<1>2. CASE CreatePush(c)
  BY <1>2 DEF CreatePush, NameInv, Phase, At, Exclusive, Unlink, Alone
<1>3. CASE Unlink(c)
  BY <1>3 DEF Unlink, Request, Exclusive, CreatePush, Alone, At, TypeInv, TypeOK
<1>4. CASE OpenSet(c) \/ RelReset(c) \/ RelSet(c) \/ UnlinkEntry(c)
  BY <1>4 DEF OpenSet, RelReset, RelSet, UnlinkEntry, NoFile, CreatePush, Unlink, Alone, At
<1>5. CASE ~CreateInsert(c) /\ ~CreatePush(c) /\ ~Unlink(c)
           /\ ~(OpenSet(c) \/ RelReset(c) \/ RelSet(c) \/ UnlinkEntry(c))
  BY <1>5
     DEF Step, Call, ReadVer, ReadSeg, TempQuery, CurrQuery, CopyGet, CopyPut, VerInsert,
         VerRequery, SegPut, VerSet, TruncSet, TruncSeg, SegList, SegRemove, VerRemove, RelVer,
         RelSize, UnlinkQuery, OpenRead, OpenWrite, Create, Release, Read, Write, Truncate, db
<1> QED  BY <1>1, <1>2, <1>3, <1>4, <1>5

LEMMA QuietNext ==
    ASSUME Quiet, WholeInv, QuietInv, NEW c \in Clients, Step(c) \/ Call(c)
    PROVE  QuietInv'
<1> USE DEF WholeInv, FullInv, AllInv
<1>0. ~Dies(c)
  BY NoneDies DEF CutFree
<1>1. ASSUME NEW d \in Clients, Works(d)' PROVE Writing(d)' /\ loc'[d].cur = file'.data
  <2>1. CASE d # c
    <3>1. loc'[d] = loc[d] /\ handle'[d] = handle[d] /\ Works(d)
      BY <1>0, <1>1, <2>1, OthersStay DEF Works
    <3>2. Holds(d) /\ Writing(d) /\ loc[d].cur = file.data
      BY <3>1, WorkerHas DEF QuietInv
    <3> QED  BY <1>0, <2>1, <3>1, <3>2, HolderEntry DEF Writing
  <2>2. ASSUME d = c, NEW p, Write(c, p) \/ Truncate(c, p) PROVE Writing(c)' /\ loc'[c].cur = file'.data
    <3>1. Writing(c) /\ UNCHANGED <<file, handle>> /\ loc'[c].cur = file.data
      BY <2>2, EnterStarts DEF Write, Truncate, Starts, Quiet, db
    <3> QED  BY <3>1 DEF Writing
  <2>3. CASE d = c /\ ~(\E p \in SegNums : Write(c, p)) /\ ~\E p \in 0..MaxSegs : Truncate(c, p)
    <3>1. Works(c) /\ Continues(c)
      BY <1>0, <1>1, <2>3, WorksOn
    <3>2. UNCHANGED <<file, handle>>
      <4>1. GrowsOnly(c) /\ Phase(loc[c])
        BY DEF CutFree, NameInv
      <4> QED
        BY <1>0, <3>1, <4>1, WorkIs
           DEF TempQuery, CurrQuery, CopyGet, CopyPut, VerInsert, VerRequery, SegPut, SegList,
               SegRemove, VerSet, Dies, At, db
    <3>3. loc'[c].cur = loc[c].cur
      BY <3>1 DEF Continues, Turns
    <3> QED  BY <2>3, <3>1, <3>2, <3>3 DEF QuietInv, Writing
  <2> QED  BY <2>1, <2>2, <2>3
<1>2. ASSUME NEW d \in Clients, loc'[d].op = "unlink" PROVE file'.here
  <2>1. CASE d # c
    <3>1. loc[d].op = "unlink" /\ Exclusive(d)
      BY <1>0, <1>2, <2>1, OthersStay DEF Exclusive
    <3> QED  BY <2>1, <3>1, ExclusiveEntry DEF QuietInv
  <2>2. CASE d = c /\ Unlink(c)
    BY <2>2, HereStays
  <2>3. CASE d = c /\ ~Unlink(c)
    <3>1. loc[c].op = "unlink" /\ ~UnlinkEntry(c) /\ file.here
      BY <1>2, <2>3, BecomesUnlink DEF QuietInv
    <3>2. UNCHANGED file
      BY <3>1, UnlinkIs DEF NameInv, UnlinkQuery, SegList, SegRemove, VerRemove, db
    <3> QED  BY <3>1, <3>2
  <2> QED  BY <2>1, <2>2, <2>3
<1>3. ASSUME file'.here PROVE listed' = 1 \/ \E d \in Clients : Exclusive(d)'
  <2>1. CASE CreateInsert(c) \/ Unlink(c) \/ CreatePush(c)
    <3>1. CreateInsert(c) => Exclusive(c)'
      BY GotoMoves DEF CreateInsert, MovesTo, Exclusive, NameInv, Phase, At
    <3> QED  BY <2>1, <3>1, HereStays
  <2>2. CASE ~CreateInsert(c) /\ ~Unlink(c) /\ ~CreatePush(c)
    <3>1. file.here /\ listed' = listed
      BY <1>3, <2>2, HereStays
    <3>2. CASE listed = 1
      BY <3>1, <3>2
    <3>3. ASSUME NEW d \in Clients, Exclusive(d) PROVE \E e \in Clients : Exclusive(e)'
      <4>1. CASE d # c
        BY <1>0, <3>3, <4>1, OthersStay DEF Exclusive
      <4>2. CASE d = c
        <5>1. ~UnlinkEntry(c)
          BY <1>3 DEF UnlinkEntry, NoFile
        <5> QED  BY <2>2, <3>3, <4>2, <5>1, StaysExclusive
      <4> QED  BY <4>1, <4>2
    <3> QED  BY <3>1, <3>2, <3>3 DEF QuietInv
  <2> QED  BY <2>1, <2>2
<1> QED  BY <1>1, <1>2, <1>3 DEF QuietInv

\* What the others are removing they are removing still.
LEMMA DropsStay ==
    ASSUME WholeInv, NEW c \in Clients, Step(c) \/ Call(c),
           NEW d \in Clients, d # c, NEW v, Drops(d, v)
    PROVE  Drops(d, v)'
<1> USE DEF WholeInv, FullInv, AllInv
<1>1. loc'[d] = loc[d]
  BY NoneDies, OthersStay DEF CutFree
<1> QED  BY <1>1 DEF Drops

\* The steps of a write or a truncate change nothing but the temp version.
LEMMA WorkerDocs ==
    ASSUME WholeInv, QuietInv, NEW c \in Clients, Step(c) \/ Call(c), Works(c)
    PROVE  UNCHANGED <<file, listed>> /\ (OnlyDocs(file.temp) \/ UNCHANGED <<vers, segs>>)
<1> USE DEF WholeInv, FullInv, AllInv
<1>1. loc[c].tmp = file.temp
  BY WorkerHas
<1>2. loc[c].pc # "ver_rm" /\ (loc[c].pc = "seg_rm" => loc[c].vic = file.temp)
  BY <1>1 DEF NameInv, Phase, Works, SourceInv, SourceOf, Removal
<1>3. OnlyDocs(file.temp) \/ UNCHANGED <<vers, segs>>
  BY <1>1, <1>2, DocsOf
<1>4. GrowsOnly(c) /\ Phase(loc[c]) /\ ~Dies(c)
  BY NoneDies DEF CutFree, NameInv
<1>5. UNCHANGED <<file, listed>>
  BY <1>4, WorkIs
     DEF TempQuery, CurrQuery, CopyGet, CopyPut, VerInsert, VerRequery, SegPut, SegList,
         SegRemove, VerSet, Dies, At, db
<1> QED  BY <1>3, <1>5

LEMMA DocNext ==
    ASSUME WholeInv, TidyInv, NEW c \in Clients, Step(c) \/ Call(c)
    PROVE  NoStrayDoc'
<1> USE DEF WholeInv, FullInv, AllInv, TidyInv
<1> SUFFICES ASSUME NEW v \in AnyVer, vers'[v].here
             PROVE  /\ v # NoVer /\ file'.here
                    /\ v \in {file'.data, file'.temp} \/ \E d \in Clients : Drops(d, v)'
  BY DEF NoStrayDoc
<1> DEFINE Place == /\ v # NoVer /\ file.here
                    /\ v \in {file.data, file.temp} \/ \E d \in Clients : Drops(d, v)
           Stays == UNCHANGED file /\ (Drops(c, v) => Drops(c, v)')
<1>1. vers[v].here => Place
  BY DEF NoStrayDoc
<1>2. ASSUME Place, Stays
      PROVE  /\ v # NoVer /\ file'.here
             /\ v \in {file'.data, file'.temp} \/ \E d \in Clients : Drops(d, v)'
  BY <1>2, DropsStay
<1>3. CASE Works(c)
  <2>1. file.temp # NoVer /\ file.here
    BY <1>3, WorkerHas
  <2>2. vers[v].here \/ v = file.temp
    BY <1>3, WorkerDocs DEF OnlyDocs
  <2>3. UNCHANGED file /\ ~Drops(c, v)
    BY <1>3, WorkerDocs DEF Works, Drops
  <2> QED  BY <1>1, <1>2, <2>1, <2>2, <2>3
<1>4. CASE Plainly(c)
  <2>1. vers[v].here /\ ~Drops(c, v)
    BY <1>4, PlainDocs DEF Plainly, Drops
  <2>2. CASE OpenSet(c)
    <3>1. file.temp = NoVer
      BY <2>2 DEF OpenSet, LockInv, OpenKnows, Phase, At
    <3>2. file'.here /\ file'.data = file.data
      BY <1>1, <2>1, <2>2, VersionTypes DEF OpenSet, TypeInv, TypeOK, Files
    <3> QED  BY <1>1, <2>1, <3>1, <3>2, DropsStay
  <2>3. CASE CreateInsert(c)
    BY <1>1, <2>1, <2>3 DEF CreateInsert, NameInv
  <2>4. CASE ~OpenSet(c) /\ ~CreateInsert(c)
    <3>1. loc[c].pc \notin ReleaseSteps \cup {"unl_query", "unl_entry"}
      BY <1>4 DEF Plainly, NameInv, Phase
    <3>2. UNCHANGED file
      BY <2>4, <3>1
         DEF Step, Call, CreatePush, ReadVer, ReadSeg, TempQuery, CurrQuery, CopyGet, CopyPut,
             VerInsert, VerRequery, SegPut, VerSet, TruncSet, TruncSeg, SegList, SegRemove,
             VerRemove, RelVer, RelReset, RelSize, RelSet, UnlinkQuery, UnlinkEntry, OpenRead,
             OpenWrite, Create, Release, Unlink, Read, Write, Truncate, db, At, ReleaseSteps
    <3> QED  BY <1>1, <1>2, <2>1, <3>2
  <2> QED  BY <2>2, <2>3, <2>4
<1>5. CASE loc[c].op = "release"
  <2>1. RelVer(c) \/ RelReset(c) \/ RelSize(c) \/ RelSet(c)
        \/ SegList(c) \/ SegRemove(c) \/ VerRemove(c)
    BY <1>5, ReleaseIs DEF NameInv
  <2>2. CASE RelVer(c) \/ RelSize(c)
    <3>1. UNCHANGED <<file, vers>> /\ ~Drops(c, v)
      BY <2>2 DEF RelVer, RelSize, db, At, Drops, Removal
    <3> QED  BY <1>1, <1>2, <3>1
  <2>3. CASE RelReset(c)
    <3>1. loc[c].tmp = file.temp /\ file.here /\ ~vers[file.temp].here
      BY <2>3, ReleaseHolds DEF RelReset, At, ReleaseSteps, Knows
    <3>2. vers[v].here /\ v # file.temp /\ ~Drops(c, v)
      BY <2>3, <3>1 DEF RelReset, At, Drops, Removal
    <3>3. file'.here /\ file'.data = file.data
      BY <2>3, <3>1 DEF RelReset, TypeInv, TypeOK, Files
    <3> QED  BY <1>1, <3>2, <3>3, DropsStay
  <2>4. CASE RelSet(c)
    <3>1. loc[c].tmp = file.temp /\ file.here /\ loc[c].cur = file.data
      BY <2>4, ReleaseHolds DEF RelSet, At, ReleaseSteps, SourceInv, SourceOf
    <3>2. vers[v].here /\ ~Drops(c, v)
      BY <2>4 DEF RelSet, At, Drops, Removal
    <3>3. file'.here /\ file'.data = file.temp
      BY <2>4, <3>1 DEF RelSet
    <3>4. v = file.data => Drops(c, v)'
      BY <1>5, <2>4, <3>1, ReleaseDoes DEF Turns, Drops, Removal
    <3> QED  BY <1>1, <3>2, <3>3, <3>4, DropsStay
  <2>5. CASE SegList(c) \/ SegRemove(c)
    <3>1. UNCHANGED <<file, vers>>
      BY <2>5 DEF SegList, SegRemove, db
    <3>2. Drops(c, v) => Drops(c, v)'
      BY <1>5, <2>5, RemovalDoes DEF Passes, Turns, Drops, Removal
    <3> QED  BY <1>1, <1>2, <3>1, <3>2
  <2>6. CASE VerRemove(c)
    <3>1. vers[v].here /\ v # loc[c].vic /\ UNCHANGED file
      BY <2>6 DEF VerRemove, NoDoc, TypeInv, TypeOK
    <3> QED  BY <1>1, <1>2, <3>1 DEF Drops
  <2> QED  BY <2>1, <2>2, <2>3, <2>4, <2>5, <2>6
<1>6. CASE loc[c].op = "unlink"
  <2>1. UnlinkQuery(c) \/ SegList(c) \/ SegRemove(c) \/ VerRemove(c) \/ UnlinkEntry(c)
    BY <1>6, UnlinkIs DEF NameInv
  <2>2. ~Drops(c, v)
    BY <1>6 DEF Drops
  <2>3. CASE ~UnlinkEntry(c)
    <3>1. vers[v].here /\ UNCHANGED file
      BY <2>1, <2>3 DEF UnlinkQuery, SegList, SegRemove, VerRemove, NoDoc, db, TypeInv, TypeOK
    <3> QED  BY <1>1, <1>2, <2>2, <3>1
  <2>4. CASE UnlinkEntry(c)
    <3>1. vers[v].here /\ v \notin {file.data, file.temp}
      BY <1>6, <2>4 DEF UnlinkEntry, Knows, At
    <3>2. ASSUME NEW d \in Clients, Drops(d, v) PROVE d = c
      BY <1>6, <3>2 DEF NameInv, Exclusive, At, Drops, Removal
    <3> QED  BY <1>1, <2>2, <3>1, <3>2
  <2> QED  BY <2>3, <2>4
<1> QED  BY <1>3, <1>4, <1>5, <1>6 DEF Plainly

\* Every segment that is copied is there to be copied.
LEMMA CopyFinds ==
    ASSUME WholeInv, TidyInv, NEW c \in Clients, At(c, "copy_get")
    PROVE  segs[<<loc[c].cur, loc[c].idx>>] = "data"
<1> USE DEF WholeInv, FullInv, AllInv, TidyInv
<1>1. Works(c)
  BY DEF At, NameInv, Phase, Works, WriteSteps
<1>2. loc[c].cur = file.data /\ listed = 1
  BY <1>1, WorkerHas
<1>3. vers[file.data].here /\ loc[c].pos <= vers[file.data].size
  BY DEF Knows, At
<1>4. file.data # NoVer
  BY <1>3, VersionTypes DEF NoStrayDoc
<1>5. Filled(file.data, vers[file.data].size)
  BY <1>2, <1>4 DEF IntactInv, Complete
<1>6. loc[c].idx \in SegNums /\ loc[c].idx < vers[file.data].size
  <2>1. loc[c].idx < loc[c].pos
    BY DEF TypeInv, LocalsOK, At
  <2>2. vers[file.data].size \in 0..MaxSegs
    BY VersionTypes DEF TypeInv, TypeOK, VerDocs
  <2> QED  BY <1>3, <2>1, <2>2, VersionTypes, ConstantsAssumption DEF SegNums
<1> QED  BY <1>2, <1>5, <1>6 DEF Filled

LEMMA InsertAdds ==
    ASSUME TypeInv, NEW w \in AnyVer, w # NoVer, NEW j \in SegNums, InsertSeg(w, j),
           NEW v \in SegVers, NEW i \in SegNums, segs'[<<v, i>>] # "absent"
    PROVE  segs[<<v, i>>] # "absent" \/ (v = w /\ i = j)
<1>1. <<v, i>> \in SegIds /\ Unsigned(w) = w
  BY DEF SegIds, Unsigned
<1> QED  BY <1>1 DEF InsertSeg, TypeInv, TypeOK

LEMMA RemoveKeeps ==
    ASSUME TypeInv, NEW c \in Clients, SegRemove(c),
           NEW v \in SegVers, NEW i \in SegNums, segs'[<<v, i>>] # "absent"
    PROVE  segs'[<<v, i>>] = segs[<<v, i>>] /\ <<v, i>> # <<loc[c].vic, loc[c].idx>>
<1>1. <<v, i>> \in SegIds
  BY DEF SegIds
<1>2. segs' = [segs EXCEPT ![<<loc[c].vic, loc[c].idx>>] = "absent"]
  BY DEF SegRemove
<1> QED  BY <1>1, <1>2 DEF TypeInv, TypeOK

\* A write or a truncate leaves no segment but those listed and in hand.
LEMMA WorkSeg ==
    ASSUME WholeInv, TidyInv, NEW c \in Clients, Step(c) \/ Call(c), Works(c),
           NEW i \in SegNums, segs'[<<file.temp, i>>] # "absent"
    PROVE  \/ vers'[file.temp].here /\ i < vers'[file.temp].data
           \/ InHand(c, file.temp, i)'
<1> USE DEF WholeInv, FullInv, AllInv, TidyInv
<1> DEFINE t == file.temp
           Old == segs[<<t, i>>] # "absent"
<1>1. /\ loc[c].tmp = t /\ t # NoVer /\ t \in AnyVer /\ t \in SegVers
      /\ Phase(loc[c]) /\ GrowsOnly(c) /\ loc[c].pos \in Nat
  BY WorkerHas, VersionTypes DEF NameInv, CutFree, SegVers
<1>2. Old => Listed(t, i) \/ InHand(c, t, i)
  BY <1>1 DEF NoStraySeg, InHand, CutFree, OneWorks
<1>3. WorkOf(c) /\ vers \in [AnyVer -> VerDocs]
  BY DEF IntactInv, TypeInv, TypeOK
<1>4. TempQuery(c) \/ CurrQuery(c) \/ CopyGet(c) \/ CopyPut(c) \/ VerInsert(c)
      \/ (loc[c].op = "write"
          /\ (VerRequery(c) \/ SegPut(c) \/ SegList(c) \/ SegRemove(c) \/ VerSet(c)))
  BY <1>1, WorkIs
<1>5. CASE TempQuery(c) \/ CurrQuery(c) \/ VerRequery(c)
  <2>1. ~InHand(c, t, i) /\ UNCHANGED <<vers, segs>>
    BY <1>5 DEF TempQuery, CurrQuery, VerRequery, At, InHand, InWrite, db
  <2> QED  BY <1>2, <2>1 DEF Listed
<1>6. CASE CopyGet(c)
  <2>1. Passes(c, "copy_put") /\ UNCHANGED <<vers, segs>>
    BY <1>6, CopyFinds, GotoTurns DEF CopyGet, Passes, db
  <2>2. InHand(c, t, i) => InHand(c, t, i)'
    BY <1>1, <1>6, <2>1, WorkerDocs DEF CopyGet, At, InHand, InWrite, Passes, Turns, Works
  <2> QED  BY <1>2, <2>1, <2>2 DEF Listed
<1>7. CASE CopyPut(c)
  <2>1. loc[c].idx \in SegNums /\ loc[c].idx < loc[c].pos
    <3>1. loc[c].idx < loc[c].pos
      BY <1>7 DEF CopyPut, At, TypeInv, LocalsOK
    <3> QED  BY <3>1, VersionTypes, ConstantsAssumption DEF SegNums
  <2>2. ~Listed(t, i) /\ At(c, "copy_put")
    BY <1>1, <1>3, <1>7 DEF CopyPut, At, WorkOf, Listed
  <2>3. Old \/ i = loc[c].idx
    BY <1>1, <1>7, <2>1, InsertAdds DEF CopyPut
  <2>4. i < loc[c].pos
    BY <1>2, <2>1, <2>2, <2>3 DEF InHand, InWrite, At
  <2>5. \/ Turns(c, "copy_get", loc[c].vic, loc[c].idx + 1, 0)
        \/ Passes(c, "ver_insert")
    BY <1>7, CopyDoes
  <2> QED  BY <1>1, <2>4, <2>5, WorkerDocs DEF InHand, Passes, Turns, Works
<1>8. CASE VerInsert(c)
  <2>1. ~vers[t].here /\ At(c, "ver_insert") /\ UNCHANGED segs
    BY <1>1, <1>3, <1>8 DEF VerInsert, At, WorkOf
  <2>2. i < loc[c].pos
    BY <1>2, <2>1 DEF Listed, InHand, InWrite, At
  <2>3. vers'[t].here /\ vers'[t].data = loc[c].pos
    BY <1>1, <1>3, <1>8, <2>1 DEF VerInsert, InsertVer
  <2> QED  BY <2>2, <2>3
<1>9. CASE loc[c].op = "write" /\ SegPut(c)
  <2>1. loc[c].pos \in SegNums
    BY <1>1, <1>9, ConstantsAssumption DEF TypeInv, LocalsOK, SegNums
  <2>2. ~InHand(c, t, i) /\ UNCHANGED vers
    BY <1>9 DEF SegPut, At, InHand, InWrite
  <2>3. Old \/ i = loc[c].pos
    BY <1>1, <1>9, <2>1, InsertAdds DEF SegPut
  <2>4. i = loc[c].pos => InHand(c, t, i)'
    BY <1>1, <1>9, VersionDoes, WorkerDocs DEF Turns, InHand, InWrite, Works
  <2> QED  BY <1>2, <2>2, <2>3, <2>4 DEF Listed
<1>10. CASE loc[c].op = "write" /\ (SegList(c) \/ SegRemove(c))
  <2>1. UNCHANGED vers /\ Old
    BY <1>1, <1>10, RemoveKeeps DEF SegList, SegRemove, db
  <2>2. InHand(c, t, i) => i <= loc[c].pos
    BY <1>10 DEF SegList, SegRemove, At, InHand
  <2>3. loc'[c].tmp = t /\ InWrite(c)' /\ loc'[c].pos = loc[c].pos
    BY <1>1, <1>10, TailDoes DEF Passes, Turns, InWrite
  <2>4. InHand(c, t, i) => InHand(c, t, i)'
    BY <1>10, <2>2, <2>3, WorkerDocs DEF InHand, InWrite, Works
  <2> QED  BY <1>2, <2>1, <2>4 DEF Listed
<1>11. CASE loc[c].op = "write" /\ VerSet(c)
  <2>1. vers[t].here /\ UNCHANGED segs
    BY <1>1, <1>3, <1>11 DEF VerSet, At, WorkOf, InWrite
  <2>2. ~(i >= loc[c].pos + 1)
    BY <1>1, <1>11, <2>1 DEF VerSet, At, Gone, RemoveFrom
  <2>3. vers'[t].here /\ vers'[t].data = loc[c].pos + 1
    BY <1>1, <1>3, <1>11, <2>1 DEF VerSet, UpdateVer
  <2> QED  BY <1>1, <2>2, <2>3 DEF SegNums
<1> QED  BY <1>4, <1>5, <1>6, <1>7, <1>8, <1>9, <1>10, <1>11

LEMMA SegNext ==
    ASSUME WholeInv, TidyInv, NEW c \in Clients, Step(c) \/ Call(c)
    PROVE  NoStraySeg'
<1> USE DEF WholeInv, FullInv, AllInv, TidyInv
<1> SUFFICES ASSUME NEW v \in SegVers, NEW i \in SegNums, segs'[<<v, i>>] # "absent"
             PROVE  /\ v \in Versions
                    /\ Listed(v, i)' \/ \E d \in Clients : InHand(d, v, i)'
  BY DEF NoStraySeg
<1> DEFINE Old == segs[<<v, i>>] # "absent"
<1>1. Old => v \in Versions /\ (Listed(v, i) \/ \E d \in Clients : InHand(d, v, i))
  BY DEF NoStraySeg
<1>2. ASSUME NEW d \in Clients, d # c, InHand(d, v, i) PROVE InHand(d, v, i)'
  <2>1. loc'[d] = loc[d]
    BY <1>2, NoneDies, OthersStay DEF CutFree
  <2> QED  BY <1>2, <2>1 DEF InHand, InWrite, Works
<1>3. CASE Works(c)
  <2>1. file.temp # NoVer /\ file.temp \in Versions /\ loc[c].tmp = file.temp
    BY <1>3, WorkerHas, VersionTypes DEF AnyVer
  <2>2. CASE v = file.temp
    BY <1>3, <2>1, <2>2, WorkSeg, WorkerDocs DEF Listed
  <2>3. CASE v # file.temp
    <3>1. Old /\ (v \in AnyVer => vers'[v] = vers[v])
      BY <1>3, <2>1, <2>3, WorkerDocs DEF OnlyDocs, Unsigned
    <3>2. \A d \in Clients : ~InHand(d, v, i)
      BY <1>3, <2>1, <2>3 DEF InHand, CutFree, OneWorks
    <3> QED  BY <1>1, <3>1, <3>2 DEF Listed, AnyVer
  <2> QED  BY <2>2, <2>3
<1>4. CASE ~Works(c)
  <2>1. \A d \in Clients : InHand(d, v, i) => InHand(d, v, i)'
    BY <1>2, <1>4 DEF InHand
  <2>2. CASE UNCHANGED vers /\ Old
    BY <1>1, <2>1, <2>2 DEF Listed
  <2>3. CASE VerRemove(c)
    <3>1. loc[c].op \in {"release", "unlink"} /\ At(c, "ver_rm") /\ UNCHANGED segs
      BY <2>3 DEF VerRemove, At, NameInv, Phase
    <3>2. v # loc[c].vic
      BY <3>1 DEF Gone, At, RemoveFrom, SegNums
    <3>3. vers'[v] = vers[v]
      BY <1>1, <2>3, <3>1, <3>2 DEF VerRemove, AnyVer, TypeInv, TypeOK
    <3> QED  BY <1>1, <2>1, <3>1, <3>3 DEF Listed
  <2>4. CASE loc[c].op \in {"release", "unlink"} /\ ~VerRemove(c)
    <3>1. \/ UNCHANGED <<vers, segs>>
          \/ SegRemove(c)
      BY <2>4, ReleaseIs, UnlinkIs
         DEF NameInv, RelVer, RelReset, RelSize, RelSet, SegList, UnlinkQuery, UnlinkEntry, db
    <3>2. UNCHANGED vers /\ Old
      BY <3>1, RemoveKeeps DEF SegRemove
    <3> QED  BY <2>2, <3>2
  <2>5. CASE Plainly(c)
    BY <2>2, <2>5, PlainDocs
  <2> QED  BY <1>4, <2>3, <2>4, <2>5 DEF Plainly
<1> QED  BY <1>3, <1>4

\* Only a write and a truncate make segments, and those of the temp version.
LEMMA NewSegs ==
    ASSUME WholeInv, QuietInv, NEW c \in Clients, Step(c) \/ Call(c),
           NEW v \in SegVers, NEW i \in SegNums,
           segs'[<<v, i>>] # "absent", segs[<<v, i>>] = "absent"
    PROVE  Works(c) /\ v = file.temp
<1> USE DEF WholeInv, FullInv, AllInv
<1>1. CASE Works(c)
  <2>1. file.temp # NoVer
    BY <1>1, WorkerHas
  <2> QED  BY <1>1, <2>1, WorkerDocs DEF OnlyDocs, Unsigned
<1>2. CASE Plainly(c)
  BY <1>2, PlainDocs
<1>3. CASE loc[c].op \in {"release", "unlink"}
  <2>1. UNCHANGED segs \/ SegRemove(c)
    BY <1>3, ReleaseIs, UnlinkIs
       DEF NameInv, RelVer, RelReset, RelSize, RelSet, SegList, VerRemove, UnlinkQuery,
           UnlinkEntry, db
  <2> QED  BY <2>1, RemoveKeeps
<1> QED  BY <1>1, <1>2, <1>3 DEF Plainly

\* The steps that come before a loop over segments.
LEMMA PlainGoes ==
    ASSUME WholeInv, NEW c \in Clients, Plainly(c), Step(c) \/ Call(c)
    PROVE  /\ loc'[c].pc \in {"idle", "open_set", "create_insert", "create_push", "read_ver",
                              "read_seg", "temp_query", "rel_ver", "unl_query"}
           /\ loc'[c].op = "unlink" => loc'[c].pc = "unl_query"
<1> USE DEF WholeInv, FullInv, AllInv
<1>1. Phase(loc[c]) /\ ~Dies(c)
  BY NoneDies DEF NameInv, CutFree
<1>2. CASE OpenSet(c) \/ CreateInsert(c) \/ CreatePush(c)
  <2>1. loc[c].op # "unlink"
    BY DEF Plainly
  <2> QED  BY <1>2, <2>1, DoneMoves, GotoMoves, IdleFields
              DEF OpenSet, CreateInsert, CreatePush, Ends, MovesTo
<1>3. CASE ReadVer(c) \/ ReadSeg(c)
  <2>1. WorkSteps(c) /\ ~UnlinkQuery(c) /\ loc[c].op = "read"
        /\ loc[c].pc \in {"read_ver", "read_seg"}
    BY <1>1, <1>3 DEF WorkSteps, ReadVer, ReadSeg, UnlinkQuery, At, Phase
  <2>2. Ends(c) \/ Continues(c)
    BY <1>1, <2>1, WorkTurns
  <2> QED  BY <2>1, <2>2, IdleFields DEF Ends, Continues, Leads, Turns, WriteSteps, ReleaseSteps
<1>4. CASE Step(c) /\ ~(OpenSet(c) \/ CreateInsert(c) \/ CreatePush(c))
           /\ ~(ReadVer(c) \/ ReadSeg(c))
  <2>1. Works(c) \/ loc[c].op \in {"release", "unlink"}
    BY <1>1, <1>4
       DEF Step, TempQuery, CurrQuery, CopyGet, CopyPut, VerInsert, VerRequery, SegPut, VerSet,
           TruncSet, TruncSeg, SegList, SegRemove, VerRemove, RelVer, RelReset, RelSize, RelSet,
           UnlinkQuery, UnlinkEntry, At, Phase, Works, WriteSteps, ReleaseSteps
  <2> QED  BY <2>1 DEF Plainly
<1>5. CASE Call(c)
  <2>1. CASE OpenWrite(c) \/ Create(c)
    BY <2>1 DEF OpenWrite, Create, Generate, Request, TypeInv, TypeOK
  <2>2. CASE OpenRead(c) \/ (Release(c) /\ UNCHANGED loc)
    BY <1>1, <2>2 DEF OpenRead, Release, At, Phase
  <2>3. CASE Release(c) /\ ~UNCHANGED loc
    BY <2>3, EnterStarts DEF Release, Starts
  <2>4. ASSUME NEW p, Read(c, p) \/ Write(c, p) \/ Truncate(c, p)
        PROVE  loc'[c].pc \in {"read_ver", "temp_query"} /\ loc'[c].op # "unlink"
    BY <2>4, EnterStarts DEF Read, Write, Truncate, Starts
  <2>5. CASE Unlink(c)
    BY <2>5 DEF Unlink, Request, TypeInv, TypeOK
  <2> QED  BY <1>5, <2>1, <2>2, <2>3, <2>4, <2>5 DEF Call
<1> QED  BY <1>2, <1>3, <1>4, <1>5

LEMMA GoneOther ==
    ASSUME WholeInv, TidyInv, NEW c \in Clients, Step(c) \/ Call(c), NEW d \in Clients, d # c
    PROVE  Gone(d)'
<1> USE DEF WholeInv, FullInv, AllInv, TidyInv
<1>1. loc'[d] = loc[d]
  BY NoneDies, OthersStay DEF CutFree
<1>2. RemoveFrom(d)' = RemoveFrom(d)
  BY <1>1 DEF RemoveFrom
<1>3. ASSUME NEW i \in SegNums, loc[d].pc \in {"seg_rm", "ver_set", "ver_rm"},
             At(d, "ver_set") => loc[d].vic = loc[d].tmp,
             segs[<<loc[d].vic, i>>] = "absent"
      PROVE  segs'[<<loc[d].vic, i>>] = "absent"
  <2> SUFFICES ASSUME segs'[<<loc[d].vic, i>>] # "absent" PROVE FALSE
    OBVIOUS
  <2>1. Works(c) /\ loc[d].vic = file.temp
    BY <1>3, VersionTypes, NewSegs DEF SegVers
  <2>2. ~Works(d)
    BY <2>1 DEF CutFree, OneWorks
  <2>3. loc[d].op \in {"release", "unlink"} /\ loc[d].pc \in Removal
    BY <1>3, <2>2 DEF NameInv, Phase, Works, WriteSteps, Removal
  <2>4. loc[d].op # "unlink"
    BY <2>1, WorkerHas DEF Exclusive
  <2>5. loc[d].vic < file.data /\ file.data < file.temp
    BY <2>1, <2>3, <2>4, WorkerHas, VersionTypes DEF SourceInv, SourceOf
  <2> QED  BY <2>1, <2>5, VersionTypes
<1>4. Gone(d)
  OBVIOUS
<1> QED  BY <1>1, <1>2, <1>3, <1>4 DEF Gone, At

\* What the query of the list before a removal leaves to be removed.
LEMMA ListGone ==
    ASSUME WholeInv, TidyInv, NEW c \in Clients, SegList(c), loc[c].op # "truncate"
    PROVE  Gone(c)'
<1> USE DEF WholeInv, FullInv, AllInv, TidyInv
<1> DEFINE l == loc[c]
           w == vers[l.vic]
<1>1. /\ At(c, "seglist") /\ UNCHANGED segs /\ Phase(l)
      /\ l.op \in {"write", "release", "unlink"}
  BY DEF SegList, db, NameInv, Phase, At
<1>2. RemoveFrom(c) \in Nat /\ l.vic \in SegVers /\ w.data \in Nat
  BY VersionTypes DEF RemoveFrom, SegVers, TypeInv, TypeOK, VerDocs
<1>3. ASSUME NEW i \in SegNums, i >= RemoveFrom(c), segs[<<l.vic, i>>] # "absent"
      PROVE  w.here /\ i < w.data
  <2>1. ASSUME NEW d \in Clients, InHand(d, l.vic, i) PROVE FALSE
    <3>1. Works(d) /\ l.vic = file.temp /\ file.temp > file.data /\ ~Exclusive(c)
      BY <2>1, WorkerHas DEF InHand
    <3>2. CASE l.op = "write"
      <4>1. d = c /\ RemoveFrom(c) = l.pos + 1
        BY <3>1, <3>2 DEF CutFree, OneWorks, Works, RemoveFrom
      <4>2. i <= l.pos
        BY <1>1, <2>1, <4>1 DEF InHand, At
      <4> QED  BY <1>3, <4>1, <4>2, VersionTypes DEF SegNums
    <3>3. CASE l.op = "release"
      <4>1. l.vic < file.data
        BY <1>1, <3>3 DEF SourceInv, SourceOf, Removal, At
      <4> QED  BY <3>1, <4>1, VersionTypes
    <3> QED  BY <1>1, <3>1, <3>2, <3>3 DEF Exclusive
  <2> QED  BY <1>2, <1>3, <2>1 DEF NoStraySeg, Listed
<1>4. RemoveFrom(c)' = RemoveFrom(c) /\ loc'[c].vic = l.vic /\ loc'[c].tmp = l.tmp
  BY <1>1, SegmentsDo DEF Passes, Turns, RemoveFrom
<1>5. l.op = "write" => l.vic = l.tmp
  BY <1>1 DEF SourceInv, SourceOf, Works, Removal, At
<1>6. CASE loc'[c].pc = "seg_rm"
  <2>1. loc'[c].idx = RemoveFrom(c) /\ loc'[c].lim = w.data
    BY <1>1, <1>6, SegmentsDo DEF Passes, Turns
  <2>2. ASSUME NEW i \in SegNums, i >= RemoveFrom(c), i < RemoveFrom(c) \/ i >= w.data
        PROVE  segs'[<<l.vic, i>>] = "absent"
    BY <1>1, <1>2, <1>3, <2>2 DEF SegNums
  <2> QED  BY <1>4, <1>6, <2>1, <2>2 DEF Gone, At
<1>7. CASE loc'[c].pc # "seg_rm"
  <2>1. /\ loc'[c].pc = IF l.op = "write" THEN "ver_set" ELSE "ver_rm"
        /\ ~w.here \/ RemoveFrom(c) >= w.data
    BY <1>1, <1>7, SegmentsDo DEF Passes, Turns
  <2>2. ASSUME NEW i \in SegNums, i >= RemoveFrom(c)
        PROVE  segs'[<<l.vic, i>>] = "absent"
    BY <1>1, <1>2, <1>3, <2>1, <2>2 DEF SegNums
  <2> QED  BY <1>1, <1>4, <1>5, <2>1, <2>2 DEF Gone, At
<1> QED  BY <1>6, <1>7

LEMMA RemoveGone ==
    ASSUME WholeInv, TidyInv, NEW c \in Clients, SegRemove(c), loc[c].op # "truncate"
    PROVE  Gone(c)'
<1> USE DEF WholeInv, FullInv, AllInv, TidyInv
<1> DEFINE l == loc[c]
<1>1. At(c, "seg_rm") /\ Phase(l) /\ l.op \in {"write", "release", "unlink"}
  BY DEF SegRemove, NameInv, Phase, At
<1>2. l.idx \in Nat /\ l.lim \in Int /\ l.vic \in SegVers
  BY VersionTypes DEF SegVers, TypeInv, TypeOK, Locals
<1>3. ASSUME NEW i \in SegNums, i >= RemoveFrom(c), i < l.idx + 1 \/ i >= l.lim
      PROVE  segs'[<<l.vic, i>>] = "absent"
  <2>1. CASE i = l.idx
    BY <1>2, <2>1, RemoveKeeps
  <2>2. CASE i # l.idx
    <3>1. segs[<<l.vic, i>>] = "absent"
      BY <1>1, <1>2, <1>3, <2>2 DEF Gone, SegNums
    <3> QED  BY <1>2, <3>1, RemoveKeeps
  <2> QED  BY <2>1, <2>2
<1>4. RemoveFrom(c)' = RemoveFrom(c) /\ loc'[c].vic = l.vic /\ loc'[c].tmp = l.tmp
  BY <1>1, SegmentsDo DEF Passes, Turns, RemoveFrom
<1>5. l.op = "write" => l.vic = l.tmp
  BY <1>1 DEF SourceInv, SourceOf, Works, Removal, At
<1>6. CASE loc'[c].pc = "seg_rm"
  <2>1. loc'[c].idx = l.idx + 1 /\ loc'[c].lim = l.lim
    BY <1>1, <1>6, SegmentsDo DEF Passes, Turns
  <2> QED  BY <1>3, <1>4, <1>6, <2>1 DEF Gone, At
<1>7. CASE loc'[c].pc # "seg_rm"
  <2>1. /\ loc'[c].pc = IF l.op = "write" THEN "ver_set" ELSE "ver_rm"
        /\ l.idx + 1 >= l.lim
    BY <1>1, <1>7, SegmentsDo DEF Passes, Turns
  <2>2. ASSUME NEW i \in SegNums PROVE i < l.idx + 1 \/ i >= l.lim
    BY <1>2, <2>1 DEF SegNums
  <2> QED  BY <1>1, <1>3, <1>4, <1>5, <2>1, <2>2 DEF Gone, At
<1> QED  BY <1>6, <1>7

LEMMA GoneMine ==
    ASSUME WholeInv, TidyInv, NEW c \in Clients, Step(c) \/ Call(c)
    PROVE  Gone(c)'
<1> USE DEF WholeInv, FullInv, AllInv, TidyInv
<1> DEFINE Far == loc'[c].pc \notin {"seg_rm", "ver_set", "ver_rm"}
<1>1. Far => Gone(c)'
  BY DEF Gone, At
<1>2. Phase(loc[c]) /\ GrowsOnly(c) /\ ~Dies(c)
  BY NoneDies DEF NameInv, CutFree
<1>3. CASE Plainly(c)
  BY <1>1, <1>3, PlainGoes
<1>4. CASE SegList(c) \/ SegRemove(c)
  <2>1. loc[c].op # "truncate"
    BY <1>2, <1>4 DEF GrowsOnly, SegList, SegRemove, At, GrowSteps
  <2> QED  BY <1>4, <2>1, ListGone, RemoveGone
<1>5. CASE Works(c) /\ ~SegList(c) /\ ~SegRemove(c)
  <2>1. TempQuery(c) \/ CurrQuery(c) \/ CopyGet(c) \/ CopyPut(c) \/ VerInsert(c)
        \/ VerRequery(c) \/ SegPut(c) \/ VerSet(c)
    BY <1>2, <1>5, WorkIs
  <2>2. Far
    BY <1>2, <2>1, TempQueryDoes, CopyDoes, VersionDoes, IdleFields DEF Ends, Passes, Turns
  <2> QED  BY <1>1, <2>2
<1>6. CASE loc[c].op = "release" /\ ~SegList(c) /\ ~SegRemove(c)
  <2>1. RelVer(c) \/ RelReset(c) \/ RelSize(c) \/ RelSet(c) \/ VerRemove(c)
    BY <1>2, <1>6, ReleaseIs
  <2>2. Far
    BY <1>6, <2>1, ReleaseDoes, VerRemoveDoes, IdleFields DEF Ends, Passes, Turns
  <2> QED  BY <1>1, <2>2
<1>7. CASE loc[c].op = "unlink" /\ ~SegList(c) /\ ~SegRemove(c)
  <2>1. UnlinkQuery(c) \/ VerRemove(c) \/ UnlinkEntry(c)
    BY <1>2, <1>7, UnlinkIs
  <2>2. Far
    BY <1>7, <2>1, UnlinkQueryMoves, VerRemoveDoes, DoneMoves, IdleFields
       DEF Ends, Passes, Turns, UnlinkEntry
  <2> QED  BY <1>1, <2>2
<1> QED  BY <1>3, <1>4, <1>5, <1>6, <1>7 DEF Plainly

LEMMA KnowsOther ==
    ASSUME WholeInv, TidyInv, NEW c \in Clients, Step(c) \/ Call(c), NEW d \in Clients, d # c
    PROVE  Knows(d)'
<1> USE DEF WholeInv, FullInv, AllInv, TidyInv
<1>1. loc'[d] = loc[d] /\ ~Dies(c) /\ Knows(d)
  BY NoneDies, OthersStay DEF CutFree
<1>2. ASSUME ~Works(c), NEW v \in AnyVer, ~vers[v].here PROVE ~vers'[v].here
  BY <1>2, VersStay DEF NoDoc
<1>3. CASE loc[d].pc \in {"copy_get", "copy_put"}
  <2>1. Works(d) /\ loc[d].op # "unlink"
    BY <1>3 DEF NameInv, Phase, Works, WriteSteps
  <2>2. UNCHANGED file /\ listed = 1 /\ vers[file.data].here /\ ~Exclusive(c)
    BY <1>1, <1>3, <2>1, WorkerHas, HolderEntry DEF Knows
  <2>3. listed' = 1
    <3>1. ~Unlink(c)
      BY <2>1 DEF Unlink, Alone, At, NameInv, Phase, Works
    <3>2. ~CreatePush(c)
      BY <2>2 DEF CreatePush, At, NameInv, Phase, Exclusive
    <3> QED  BY <2>2, <3>1, <3>2, HereStays
  <2>4. vers'[file.data] = vers[file.data]
    <3>1. file.data # NoVer
      BY <2>2, VersionTypes DEF NoStrayDoc
    <3>2. ~ByPath(c)
      BY DEF ByPath, QuietInv, Works
    <3> QED  BY <2>2, <2>3, <3>1, <3>2, CurrentKept
  <2> QED  BY <1>1, <1>3, <2>1, <2>2, <2>4 DEF Knows, At
<1>4. CASE At(d, "rel_reset")
  <2>1. ~Works(c)
    BY <1>4, WorkerHas, ReleaseHolds DEF At, ReleaseSteps, LockInv, SingleWriter
  <2>2. loc[d].op # "unlink"
    BY <1>4 DEF At, NameInv, Phase, ReleaseSteps
  <2> QED  BY <1>1, <1>2, <1>4, <2>1, <2>2, VersionTypes DEF Knows, At
<1>5. CASE loc[d].op = "unlink"
  <2>1. ~Works(c) /\ UNCHANGED file
    BY <1>5, WorkerHas, ExclusiveEntry DEF Exclusive
  <2>2. loc[d].pc \notin {"copy_get", "copy_put", "rel_reset"}
    BY <1>5 DEF NameInv, Phase, WriteSteps, ReleaseSteps
  <2> QED  BY <1>1, <1>2, <1>5, <2>1, <2>2, VersionTypes DEF Knows, At
<1>6. CASE /\ loc[d].pc \notin {"copy_get", "copy_put"} /\ ~At(d, "rel_reset")
           /\ loc[d].op # "unlink"
  BY <1>1, <1>6 DEF Knows, At
<1> QED  BY <1>3, <1>4, <1>5, <1>6

\* The current version, which a write or a truncate copies, stays as it is.
LEMMA CopyKnows ==
    ASSUME WholeInv, TidyInv, NEW c \in Clients, Step(c) \/ Call(c), Works(c)
    PROVE  Knows(c)'
<1> USE DEF WholeInv, FullInv, AllInv, TidyInv
<1>1. /\ Phase(loc[c]) /\ GrowsOnly(c) /\ ~Dies(c) /\ UNCHANGED file
      /\ loc[c].cur = file.data /\ file.data # file.temp
      /\ loc[c].tmp = file.temp
  BY NoneDies, WorkerDocs, WorkerHas, VersionTypes DEF NameInv, CutFree
<1>2. vers'[file.data] = vers[file.data]
  BY <1>1, WorkerDocs, VersionTypes DEF OnlyDocs
<1>3. loc[c].op \in {"write", "truncate"}
  BY DEF Works
<1>4. loc'[c].op # "unlink" /\ loc'[c].pc # "rel_reset"
      /\ (loc'[c].pc \in {"copy_get", "copy_put"} =>
             /\ loc'[c].pos = loc[c].pos
             /\ CurrQuery(c) \/ loc[c].pc \in {"copy_get", "copy_put"})
  <2>1. CASE TempQuery(c) \/ CurrQuery(c)
    BY <1>1, <1>3, <2>1, TempQueryDoes, CopyDoes, IdleFields DEF Ends, Passes, Turns
  <2>2. CASE CopyGet(c) \/ CopyPut(c)
    BY <1>1, <1>3, <2>2, CopyDoes, IdleFields DEF Ends, Passes, Turns, CopyGet, CopyPut, At
  <2>3. CASE VerInsert(c) \/ VerRequery(c) \/ SegPut(c) \/ VerSet(c)
    BY <1>1, <1>3, <2>3, VersionDoes, IdleFields DEF Ends, Passes, Turns
  <2>4. CASE loc[c].op = "write" /\ (SegList(c) \/ SegRemove(c))
    BY <2>4, TailDoes DEF Passes, Turns
  <2> QED  BY <1>1, <2>1, <2>2, <2>3, <2>4, WorkIs
<1>5. CASE loc'[c].pc \in {"copy_get", "copy_put"}
  <2>1. vers[file.data].here /\ loc[c].pos <= vers[file.data].size
    <3>1. CASE CurrQuery(c)
      <4>1. ~Done(c)
        BY <1>5, DoneMoves, IdleFields DEF Ends
      <4>2. vers[file.data].here /\ vers[file.data].size >= loc[c].pos
        BY <1>1, <3>1, <4>1 DEF CurrQuery
      <4> QED  BY <4>2, VersionTypes DEF TypeInv, TypeOK, VerDocs
    <3>2. CASE loc[c].pc \in {"copy_get", "copy_put"}
      BY <3>2 DEF Knows
    <3> QED  BY <1>4, <1>5, <3>1, <3>2
  <2> QED  BY <1>1, <1>2, <1>4, <1>5, <2>1 DEF Knows, At
<1>6. CASE loc'[c].pc \notin {"copy_get", "copy_put"}
  BY <1>4, <1>6 DEF Knows, At
<1> QED  BY <1>5, <1>6

\* What an unlink has left of the two versions at each of its steps.
LEMMA UnlinkKnows ==
    ASSUME WholeInv, TidyInv, NEW c \in Clients, Step(c) \/ Call(c), loc[c].op = "unlink"
    PROVE  Knows(c)'
<1> USE DEF WholeInv, FullInv, AllInv, TidyInv
<1>1. /\ Phase(loc[c]) /\ file.here /\ Knows(c) /\ ~vers[NoVer].here
      /\ file.data \in AnyVer /\ file.temp \in AnyVer /\ vers \in [AnyVer -> VerDocs]
  BY VersionTypes DEF NameInv, QuietInv, NoStrayDoc, AnyVer, TypeInv, TypeOK
<1>2. UnlinkQuery(c) \/ SegList(c) \/ SegRemove(c) \/ VerRemove(c) \/ UnlinkEntry(c)
  BY <1>1, UnlinkIs
<1>3. CASE UnlinkQuery(c)
  <2> DEFINE v == IF file.data # NoVer THEN file.data ELSE file.temp
             r == Request("unlink", "unl_entry", file.temp, file.data, 0)
  <2>1. UNCHANGED <<file, vers>>
    BY <1>3 DEF UnlinkQuery, db
  <2>2. r.pc = "unl_entry" /\ r.op = "unlink" /\ r.tmp = file.temp
    BY DEF Request
  <2>3. Removing(r, v).pc = "seglist" /\ Removing(r, v).op = "unlink"
        /\ Removing(r, v).tmp = file.temp /\ Removing(r, v).vic = v
    BY DEF Removing, Request
  <2>4. loc'[c] = IF v # NoVer THEN Removing(r, v) ELSE r
    BY <1>1, <1>3 DEF UnlinkQuery, TypeInv, TypeOK
  <2> HIDE DEF r
  <2>5. CASE v # NoVer
    <3>1. v = file.data \/ (v = file.temp /\ ~vers[file.data].here)
      BY <1>1
    <3> QED  BY <2>1, <2>3, <2>4, <2>5, <3>1 DEF Knows, At, Removal
  <2>6. CASE v = NoVer
    <3>1. file.data = NoVer /\ file.temp = NoVer
      BY <2>6
    <3> QED  BY <1>1, <2>1, <2>2, <2>4, <2>6, <3>1 DEF Knows, At, Removal
  <2> QED  BY <2>5, <2>6
<1>4. CASE SegList(c) \/ SegRemove(c)
  <2>1. UNCHANGED <<file, vers>> /\ loc[c].pc \in Removal
    BY <1>4 DEF SegList, SegRemove, db, At, Removal
  <2>2. loc'[c].pc \in {"seg_rm", "ver_rm"} /\ loc'[c].op = "unlink"
        /\ loc'[c].tmp = loc[c].tmp /\ loc'[c].vic = loc[c].vic
    BY <1>4, RemovalDoes DEF Passes, Turns
  <2>3. loc[c].pc # "unl_query"
    BY <2>1 DEF Removal
  <2> QED  BY <1>1, <2>1, <2>2, <2>3 DEF Knows, At
<1>5. CASE VerRemove(c)
  <2>1. /\ loc[c].pc = "ver_rm" /\ loc[c].tmp = file.temp /\ UNCHANGED file
        /\ loc[c].vic = file.data \/ (loc[c].vic = file.temp /\ ~vers[file.data].here)
    BY <1>1, <1>5 DEF VerRemove, At, Knows, Removal
  <2>2. ~vers'[loc[c].vic].here /\ \A v \in AnyVer : ~vers[v].here => ~vers'[v].here
    BY <1>1, <1>5, <2>1 DEF VerRemove, NoDoc
  <2>3. CASE /\ loc[c].vic # loc[c].tmp
             /\ Turns(c, "seglist", loc[c].tmp, loc[c].idx, loc[c].lim)
    BY <2>1, <2>2, <2>3 DEF Turns, Knows, At, Removal
  <2>4. CASE (loc[c].vic = loc[c].tmp \/ loc[c].tmp = NoVer) /\ Passes(c, "unl_entry")
    <3>1. ~vers'[file.data].here /\ ~vers'[file.temp].here
      BY <1>1, <2>1, <2>2, <2>4
    <3> QED  BY <2>1, <2>4, <3>1 DEF Passes, Turns, Knows, At, Removal
  <2> QED  BY <1>5, <2>3, <2>4, VerRemoveDoes
<1>6. CASE UnlinkEntry(c)
  BY <1>6, DoneMoves, IdleFields DEF UnlinkEntry, Ends, Knows, At
<1> QED  BY <1>2, <1>3, <1>4, <1>5, <1>6

LEMMA KnowsMine ==
    ASSUME WholeInv, TidyInv, NEW c \in Clients, Step(c) \/ Call(c)
    PROVE  Knows(c)'
<1> USE DEF WholeInv, FullInv, AllInv, TidyInv
<1>1. CASE Plainly(c)
  BY <1>1, PlainGoes DEF Knows, At
<1>2. CASE loc[c].op = "release"
  <2>1. RelVer(c) \/ RelReset(c) \/ RelSize(c) \/ RelSet(c)
        \/ SegList(c) \/ SegRemove(c) \/ VerRemove(c)
    BY <1>2, ReleaseIs DEF NameInv
  <2>2. loc'[c].pc \notin {"copy_get", "copy_put"} /\ loc'[c].op # "unlink"
    BY <1>2, <2>1, ReleaseDoes, RemovalDoes, VerRemoveDoes, IdleFields DEF Ends, Passes, Turns
  <2>3. CASE loc'[c].pc = "rel_reset"
    <3>1. Passes(c, "rel_reset") /\ ~vers[loc[c].tmp].here /\ UNCHANGED vers
      BY <1>2, <2>1, <2>3, ReleaseDoes, RemovalDoes, VerRemoveDoes, IdleFields
         DEF Ends, Passes, Turns, RelVer, db
    <3> QED  BY <2>2, <3>1 DEF Knows, At, Passes, Turns
  <2> QED  BY <2>2, <2>3 DEF Knows, At
<1> QED  BY <1>1, <1>2, CopyKnows, UnlinkKnows DEF Plainly

LEMMA TidyNext ==
    ASSUME Quiet, WholeInv, TidyInv, [Next]_vars PROVE TidyInv'
<1>1. CASE UNCHANGED vars
  <2>1. \A c \in Clients : Gone(c)' /\ Knows(c)'
    BY <1>1 DEF TidyInv, vars, Gone, Knows, At, RemoveFrom, Removal
  <2>2. QuietInv'
    BY <1>1 DEF TidyInv, vars, QuietInv, Works, Writing, Exclusive
  <2>3. NoStraySeg' /\ NoStrayDoc'
    BY <1>1 DEF TidyInv, vars, NoStraySeg, NoStrayDoc, Listed, InHand, InWrite, Works, Drops
  <2> QED  BY <2>1, <2>2, <2>3 DEF TidyInv
<1>2. ASSUME NEW c \in Clients, Step(c) \/ Call(c) PROVE TidyInv'
  <2>1. QuietInv' /\ NoStraySeg' /\ NoStrayDoc'
    BY <1>2, QuietNext, SegNext, DocNext DEF TidyInv
  <2>2. ASSUME NEW d \in Clients PROVE Gone(d)' /\ Knows(d)'
    BY <1>2, <2>2, GoneOther, GoneMine, KnowsOther, KnowsMine
  <2> QED  BY <2>1, <2>2 DEF TidyInv
<1> QED  BY <1>1, <1>2 DEF Next, Crash, Quiet

\* Between requests nothing is left over: in quiet surroundings, that is when
\* opens for writing do not overlap, nobody truncates by path or below what is
\* being written, no write leaves a gap and the process is not killed, what
\* release, unlink and write drop they drop completely, for any number of
\* clients, versions and segments and in any interleaving.
THEOREM NothingLeftOver == ASSUME Quiet PROVE Spec => []NoOrphans
<1>1. Disciplined /\ NoShrink /\ NoSparse
  BY QuietMeans
<1>2. Spec => []WholeInv
  BY <1>1, IntactInvariant DEF WholeInv
<1>3. Init => TidyInv
  BY TidyInit
<1>4. WholeInv /\ TidyInv /\ [Next]_vars => TidyInv'
  BY TidyNext
<1>5. WholeInv /\ TidyInv => NoOrphans
  <2> SUFFICES ASSUME WholeInv, TidyInv, Alone PROVE NoOrphans
    BY DEF NoOrphans
  <2>1. \A c \in Clients : ~Works(c) /\ \A v : ~Drops(c, v)
    BY DEF Alone, At, WholeInv, FullInv, NameInv, Phase, Works, Drops
  <2>2. \A v \in AnyVer : vers[v].here =>
            file.here /\ v # NoVer /\ v \in {file.data, file.temp}
    BY <2>1 DEF TidyInv, NoStrayDoc
  <2>3. ASSUME NEW s \in SegIds, segs[s] # "absent"
        PROVE  s[1] \in AnyVer /\ vers[s[1]].here /\ s[2] < vers[s[1]].data
    <3>1. s[1] \in SegVers /\ s[2] \in SegNums /\ s = <<s[1], s[2]>>
      BY DEF SegIds
    <3>2. s[1] \in Versions /\ Listed(s[1], s[2])
      BY <2>1, <2>3, <3>1 DEF TidyInv, NoStraySeg, InHand
    <3> QED  BY <3>2 DEF AnyVer, Listed
  <2> QED  BY <2>2, <2>3 DEF NoOrphans
<1> QED  BY <1>2, <1>3, <1>4, <1>5, PTL DEF Spec
=============================================================================
