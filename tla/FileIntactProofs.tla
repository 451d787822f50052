-------------------------- MODULE FileIntactProofs --------------------------
(***************************************************************************)
(* What is in the database.  First the name in its directory and the       *)
(* versions that requests work on: what each handler knows of them from    *)
(* its first query to its last update.  Then the documents: the temp       *)
(* version has a writer, and a committed version is complete.              *)
(***************************************************************************)
EXTENDS FileProofs, FiniteSetTheorems

\* A step of a request that goes on: what it was called with and what it read
\* from the entry stay, its step, its victim and its loop may change.
Turns(c, p, v, i, n) ==
    /\ OnlyMoves(c)
    /\ loc'[c].pc = p /\ loc'[c].vic = v /\ loc'[c].idx = i /\ loc'[c].lim = n
    /\ loc'[c].op = loc[c].op /\ loc'[c].tmp = loc[c].tmp
    /\ loc'[c].cur = loc[c].cur /\ loc'[c].pos = loc[c].pos

LocalFields == {"pc", "op", "tmp", "cur", "vic", "pos", "idx", "lim"}

LEMMA LocalDomain == ASSUME TypeInv, NEW c \in Clients PROVE DOMAIN loc[c] = LocalFields
BY DEF TypeInv, TypeOK, Locals, LocalFields

LEMMA GotoTurns ==
    ASSUME TypeInv, NEW c \in Clients, NEW p, Goto(c, p)
    PROVE  Turns(c, p, loc[c].vic, loc[c].idx, loc[c].lim)
<1>1. OnlyMoves(c) /\ loc'[c] = [loc[c] EXCEPT !.pc = p]
  BY DEF Goto, OnlyMoves, TypeInv, TypeOK
<1> QED  BY <1>1, LocalDomain DEF Turns, LocalFields

LEMMA IdxTurns ==
    ASSUME TypeInv, NEW c \in Clients, NEW i, loc' = [loc EXCEPT ![c].idx = i]
    PROVE  Turns(c, loc[c].pc, loc[c].vic, i, loc[c].lim)
<1>1. OnlyMoves(c) /\ loc'[c] = [loc[c] EXCEPT !.idx = i]
  BY DEF OnlyMoves, TypeInv, TypeOK
<1> QED  BY <1>1, LocalDomain DEF Turns, LocalFields

LEMMA LoopTurns ==
    ASSUME TypeInv, NEW c \in Clients, NEW p, NEW i, NEW n,
           loc' = [loc EXCEPT ![c] = Loop(@, p, i, n)]
    PROVE  Turns(c, p, loc[c].vic, i, n)
<1> DEFINE r == loc[c]
           m == Loop(r, p, i, n)
<1>1. DOMAIN r = LocalFields
  BY LocalDomain
<1>2. OnlyMoves(c) /\ loc'[c] = m
  <2> HIDE DEF m
  <2>1. loc' = [loc EXCEPT ![c] = m]
    BY DEF m
  <2> QED  BY <2>1 DEF OnlyMoves, TypeInv, TypeOK
<1> HIDE DEF r
<1>3. /\ m.pc = p /\ m.vic = r.vic /\ m.idx = i /\ m.lim = n
      /\ m.op = r.op /\ m.tmp = r.tmp /\ m.cur = r.cur /\ m.pos = r.pos
  BY <1>1 DEF Loop, LocalFields
<1> HIDE DEF m
<1> QED  BY <1>2, <1>3 DEF Turns, r

LEMMA RemovingTurns ==
    ASSUME TypeInv, NEW c \in Clients, NEW v,
           loc' = [loc EXCEPT ![c] = Removing(@, v)]
    PROVE  Turns(c, "seglist", v, loc[c].idx, loc[c].lim)
<1> DEFINE r == loc[c]
           m == Removing(r, v)
<1>1. DOMAIN r = LocalFields
  BY LocalDomain
<1>2. OnlyMoves(c) /\ loc'[c] = m
  <2> HIDE DEF m
  <2>1. loc' = [loc EXCEPT ![c] = m]
    BY DEF m
  <2> QED  BY <2>1 DEF OnlyMoves, TypeInv, TypeOK
<1> HIDE DEF r
<1>3. /\ m.pc = "seglist" /\ m.vic = v /\ m.idx = r.idx /\ m.lim = r.lim
      /\ m.op = r.op /\ m.tmp = r.tmp /\ m.cur = r.cur /\ m.pos = r.pos
  BY <1>1 DEF Removing, LocalFields
<1> HIDE DEF m
<1> QED  BY <1>2, <1>3 DEF Turns, r

\* A step that starts a request.
Starts(c, o, k, p) ==
    /\ OnlyMoves(c)
    /\ loc'[c].pc = k /\ loc'[c].op = o /\ loc'[c].pos = p /\ loc'[c].idx = 0
    /\ loc'[c].tmp = file.temp /\ loc'[c].cur = file.data

LEMMA EnterStarts ==
    ASSUME TypeInv, NEW c \in Clients, NEW o, NEW k, NEW p, Enter(c, o, k, p)
    PROVE  Starts(c, o, k, p)
BY DEF Enter, Request, Starts, OnlyMoves, TypeInv, TypeOK

LEMMA IdleFields == Idle.pc = "idle" /\ Idle.op = "none" /\ Idle.tmp = NoVer
BY DEF Idle, Request

-----------------------------------------------------------------------------
(* The name.  Nothing is assumed of Env: that creating and unlinking exclude *)
(* every other request on the name is the kernel's doing.                    *)

Exclusive(c) == loc[c].op \in {"create", "unlink"}

NameInv ==
    /\ listed \in {0, 1} /\ (listed = 1 => file.here)
    /\ \A c \in Clients :
          /\ Phase(loc[c])
          /\ loc[c].op = "open" \/ handle[c] # "none" \/ At(c, "create_push") => file.here
          /\ At(c, "create_insert") => ~file.here
          /\ Exclusive(c) => /\ listed = 0
                             /\ \A d \in Clients : handle[d] = "none" /\ (d # c => At(d, "idle"))

LEMMA NameInit == Init => NameInv
<1> SUFFICES ASSUME Init PROVE NameInv
  OBVIOUS
<1>1. listed = 0 /\ \A c \in Clients : handle[c] = "none" /\ loc[c] = Idle
  BY DEF Init
<1> QED  BY <1>1, IdleLock DEF NameInv, Exclusive, At

\* A step that leaves the name and the entry's existence alone.
LEMMA NameStep ==
    ASSUME TypeInv, NameInv, NEW c \in Clients, OnlyMoves(c), UNCHANGED listed,
           file'.here = file.here, Phase(loc'[c]),
           \A d \in Clients : handle'[d] = handle[d] \/ handle'[d] = "none"
                              \/ (d = c /\ file.here /\ ~Exclusive(c)),
           ~At(c, "idle") \/ handle[c] # "none" \/ NameFree,
           loc'[c].pc \notin {"create_insert", "create_push"},
           \/ loc'[c].op = loc[c].op \/ loc'[c].op \in DataOps \cup {"release"}
           \/ loc'[c].op = "open" /\ file.here
    PROVE  NameInv'
<1>1. \A d \in Clients : d # c => loc'[d] = loc[d]
  BY DEF OnlyMoves
<1>2. \A d \in Clients : Exclusive(d)' => Exclusive(d)
  BY <1>1 DEF Exclusive, DataOps
<1>3. ASSUME NEW d \in Clients, Exclusive(d)
      PROVE  d = c /\ \A e \in Clients : handle'[e] = "none"
  <2>1. d = c
    BY <1>3 DEF NameInv, Exclusive, NameFree, Busy, At
  <2> QED  BY <1>3, <2>1 DEF NameInv
<1>4. ASSUME NEW d \in Clients
      PROVE  loc'[d].op = "open" \/ handle'[d] # "none" \/ At(d, "create_push")' => file'.here
  BY <1>1 DEF NameInv, At, DataOps
<1>5. ASSUME NEW d \in Clients PROVE Phase(loc'[d]) /\ (At(d, "create_insert")' => ~file'.here)
  BY <1>1 DEF NameInv, At
<1>6. ASSUME NEW d \in Clients, Exclusive(d)'
      PROVE  listed' = 0 /\ \A e \in Clients : handle'[e] = "none" /\ (e # d => At(e, "idle")')
  BY <1>1, <1>2, <1>3, <1>6 DEF NameInv, At
<1>7. listed' \in {0, 1} /\ (listed' = 1 => file'.here)
  BY DEF NameInv
<1> QED  BY <1>4, <1>5, <1>6, <1>7 DEF NameInv

\* A step after which no request runs and no handle is left.
LEMMA QuietName ==
    ASSUME \A c \in Clients : handle'[c] = "none" /\ loc'[c] = Idle,
           listed' \in {0, 1}, listed' = 1 => file'.here
    PROVE  NameInv'
BY IdleLock DEF NameInv, Exclusive, At

\* The steps of requests that neither create nor unlink.
LEMMA CallName ==
    ASSUME TypeInv, NameInv, NEW c \in Clients,
           \/ OpenRead(c) \/ Release(c)
           \/ \E p \in SegNums : Read(c, p) \/ Write(c, p)
           \/ \E p \in 0..MaxSegs : Truncate(c, p)
    PROVE  NameInv'
<1>1. UNCHANGED <<listed, file>> /\ Phase(loc[c]) /\ At(c, "idle") /\ loc[c].op = "none"
  BY DEF OpenRead, Release, Read, Write, Truncate, db, NameInv, Phase, At
<1>2. CASE OpenRead(c)
  BY <1>1, <1>2, NameStep DEF OpenRead, OnlyMoves, TypeInv, TypeOK, At, Exclusive
<1>3. CASE Release(c) /\ UNCHANGED loc
  BY <1>1, <1>3, NameStep DEF Release, Close, OnlyMoves, TypeInv, TypeOK, At
<1>4. ASSUME NEW o, NEW k, NEW p, Starts(c, o, k, p), UNCHANGED handle,
             <<o, k>> \in {<<"read", "read_ver">>, <<"write", "temp_query">>,
                           <<"truncate", "temp_query">>, <<"release", "rel_ver">>},
             handle[c] # "none" \/ NameFree
      PROVE  NameInv'
  <2>1. Phase(loc'[c]) /\ loc'[c].op \in DataOps \cup {"release"}
        /\ loc'[c].pc \notin {"create_insert", "create_push"} /\ OnlyMoves(c)
    BY <1>4 DEF Starts, Phase, DataOps, WriteSteps, ReleaseSteps
  <2> QED  BY <1>1, <1>4, <2>1, NameStep
<1>5. CASE Release(c) /\ ~UNCHANGED loc
  BY <1>4, <1>5, EnterStarts DEF Release
<1>6. ASSUME NEW p, Read(c, p) \/ Write(c, p) \/ Truncate(c, p) PROVE NameInv'
  BY <1>4, <1>6, EnterStarts DEF Read, Write, Truncate, Writing
<1> QED  BY <1>2, <1>3, <1>5, <1>6

\* Every other step of a request keeps its operation or ends it, and comes to
\* a step of that operation.
Proceeds(c) ==
    /\ OnlyMoves(c) /\ ~At(c, "idle") /\ Phase(loc'[c])
    /\ loc'[c].pc \notin {"create_insert", "create_push"}
    /\ loc'[c].op = loc[c].op \/ loc'[c].op = "none"

WorkSteps(c) ==
    \/ ReadVer(c) \/ ReadSeg(c)
    \/ TempQuery(c) \/ CurrQuery(c) \/ CopyGet(c) \/ CopyPut(c)
    \/ VerInsert(c) \/ VerRequery(c) \/ SegPut(c) \/ VerSet(c)
    \/ TruncSet(c) \/ TruncSeg(c)
    \/ SegList(c) \/ SegRemove(c) \/ VerRemove(c)
    \/ RelVer(c) \/ RelReset(c) \/ RelSize(c) \/ RelSet(c)
    \/ UnlinkQuery(c) \/ UnlinkEntry(c)

\* The step p a request goes on to, and the version v it then removes.
Leads(c, p, v) ==
    LET l == loc[c]
    IN  \/ /\ l.op = "read" /\ p = "read_seg" /\ v = l.vic
        \/ /\ l.pc \in WriteSteps /\ l.pc # "ver_set"
           /\ \/ p \in WriteSteps /\ v = l.vic
              \/ p = "seglist" /\ v = l.tmp
        \/ /\ l.pc \in {"seglist", "seg_rm"} /\ v = l.vic
           /\ \/ p = "seg_rm"
              \/ l.op = "write" /\ p = "ver_set"
              \/ l.op \in {"release", "unlink"} /\ p = "ver_rm"
        \/ /\ l.pc = "ver_rm" /\ l.op = "unlink"
           /\ \/ p = "seglist" /\ v = l.tmp
              \/ p = "unl_entry" /\ v = l.vic
        \/ /\ l.pc \in ReleaseSteps
           /\ \/ p \in ReleaseSteps /\ v = l.vic
              \/ l.pc = "rel_set" /\ p = "seglist" /\ v = l.cur

\* The step finds a segment that is no binary, which ends the process.
Dies(c) ==
    /\ loc[c].pc \in {"read_seg", "copy_get"} /\ segs[<<loc[c].cur, loc[c].idx>>] = "cut"
    /\ Killed

Continues(c) == \E p, v, i, n : Leads(c, p, v) /\ Turns(c, p, v, i, n)

LEMMA Continuing ==
    ASSUME NEW c, NEW p, NEW v, NEW i, NEW n, Leads(c, p, v), Turns(c, p, v, i, n)
    PROVE  Continues(c)
BY DEF Continues

LEMMA GotoOrDone ==
    ASSUME TypeInv, NEW c \in Clients, NEW p, Done(c) \/ Goto(c, p), Leads(c, p, loc[c].vic)
    PROVE  Ends(c) \/ Continues(c)
BY DoneMoves, GotoTurns, Continuing

\* The work of a request is done when it ends: every other step leads on.
LEMMA WorkTurns ==
    ASSUME TypeInv, NEW c \in Clients, Phase(loc[c]), WorkSteps(c), ~UnlinkQuery(c)
    PROVE  Ends(c) \/ Continues(c) \/ Dies(c)
<1>2. CASE ReadVer(c) \/ ReadSeg(c)
  <2>1. loc[c].op = "read"
    BY <1>2 DEF ReadVer, ReadSeg, At, Phase
  <2>2. CASE Done(c)
    BY <2>2, DoneMoves
  <2>3. CASE ReadVer(c) /\ ~Done(c)
    <3>1. loc' = [loc EXCEPT ![c] = Loop(@, "read_seg", loc[c].pos, vers[loc[c].cur].size)]
      BY <2>3 DEF ReadVer
    <3>2. Turns(c, "read_seg", loc[c].vic, loc[c].pos, vers[loc[c].cur].size)
      BY <3>1, LoopTurns
    <3> QED  BY <2>1, <3>2, Continuing DEF Leads
  <2>4. CASE ReadSeg(c) /\ ~Done(c) /\ ~Dies(c)
    <3>1. loc' = [loc EXCEPT ![c].idx = loc[c].idx + 1] /\ loc[c].pc = "read_seg"
      BY <2>4 DEF ReadSeg, At, Dies
    <3>2. Turns(c, "read_seg", loc[c].vic, loc[c].idx + 1, loc[c].lim)
      BY <3>1, IdxTurns
    <3> QED  BY <2>1, <3>2, Continuing DEF Leads
  <2> QED  BY <1>2, <2>2, <2>3, <2>4
<1>3. CASE loc[c].pc \in WriteSteps
  <2>1. CASE VerSet(c)
    BY <2>1, DoneMoves DEF VerSet
  <2>2. CASE CopyPut(c) /\ ~Goto(c, "ver_insert")
    <3>1. loc' = [loc EXCEPT ![c] = Loop(@, "copy_get", loc[c].idx + 1, 0)] /\ loc[c].pc = "copy_put"
      BY <2>2 DEF CopyPut, At
    <3>2. Turns(c, "copy_get", loc[c].vic, loc[c].idx + 1, 0)
      BY <3>1, LoopTurns
    <3>3. Leads(c, "copy_get", loc[c].vic)
      BY <3>1 DEF Leads, WriteSteps
    <3> QED  BY <3>2, <3>3, Continuing
  <2>3. CASE SegPut(c) \/ TruncSeg(c)
    <3>1. loc' = [loc EXCEPT ![c] = Removing(@, loc[c].tmp)] /\ loc[c].pc \in {"seg_put", "trunc_seg"}
      BY <2>3 DEF SegPut, TruncSeg, At
    <3>2. Turns(c, "seglist", loc[c].tmp, loc[c].idx, loc[c].lim)
      BY <3>1, RemovingTurns
    <3>3. Leads(c, "seglist", loc[c].tmp)
      BY <3>1 DEF Leads, WriteSteps
    <3> QED  BY <3>2, <3>3, Continuing
  <2>4. CASE /\ ~VerSet(c) /\ ~SegPut(c) /\ ~TruncSeg(c) /\ ~Dies(c)
             /\ ~(CopyPut(c) /\ ~Goto(c, "ver_insert"))
    <3>1. loc[c].pc # "ver_set" /\ \E p \in WriteSteps : Done(c) \/ Goto(c, p)
      BY <1>3, <2>4
         DEF WorkSteps, ReadVer, ReadSeg, TempQuery, CurrQuery, CopyGet, CopyPut, VerInsert,
             VerRequery, VerSet, TruncSet, SegList, SegRemove, VerRemove,
             RelVer, RelReset, RelSize, RelSet, UnlinkQuery, UnlinkEntry, At, WriteSteps, Dies
    <3> QED  BY <1>3, <3>1, GotoOrDone DEF Leads
  <2> QED  BY <2>1, <2>2, <2>3, <2>4
<1>4. CASE SegList(c) \/ SegRemove(c)
  <2>1. loc[c].pc \in {"seglist", "seg_rm"} /\ loc[c].op \in {"write", "truncate", "release", "unlink"}
    BY <1>4 DEF SegList, SegRemove, At, Phase
  <2>2. CASE AfterSegments(c)
    BY <2>1, <2>2, GotoOrDone, DoneMoves DEF AfterSegments, Leads
  <2>3. CASE SegList(c) /\ ~AfterSegments(c)
    <3>1. loc' = [loc EXCEPT ![c] = Loop(@, "seg_rm", RemoveFrom(c), vers[loc[c].vic].data)]
      BY <2>3 DEF SegList
    <3>2. Turns(c, "seg_rm", loc[c].vic, RemoveFrom(c), vers[loc[c].vic].data)
      BY <3>1, LoopTurns
    <3> QED  BY <2>1, <3>2, Continuing DEF Leads
  <2>4. CASE SegRemove(c) /\ ~AfterSegments(c)
    <3>1. loc' = [loc EXCEPT ![c].idx = loc[c].idx + 1] /\ loc[c].pc = "seg_rm"
      BY <2>4 DEF SegRemove, At
    <3>2. Turns(c, "seg_rm", loc[c].vic, loc[c].idx + 1, loc[c].lim)
      BY <3>1, IdxTurns
    <3> QED  BY <2>1, <3>2, Continuing DEF Leads
  <2> QED  BY <1>4, <2>2, <2>3, <2>4
<1>5. CASE VerRemove(c)
  <2>1. loc[c].pc = "ver_rm"
    BY <1>5 DEF VerRemove, At
  <2>2. CASE Done(c)
    BY <2>2, DoneMoves
  <2>3. CASE loc[c].op = "unlink" /\ Goto(c, "unl_entry")
    BY <2>1, <2>3, GotoOrDone DEF Leads
  <2>4. CASE loc[c].op = "unlink" /\ loc' = [loc EXCEPT ![c] = Removing(@, loc[c].tmp)]
    BY <2>1, <2>4, RemovingTurns, Continuing DEF Leads
  <2> QED  BY <1>5, <2>2, <2>3, <2>4 DEF VerRemove
<1>6. CASE RelVer(c) \/ RelReset(c) \/ RelSize(c) \/ RelSet(c)
  <2>1. CASE RelVer(c) \/ RelReset(c)
    <3>1. loc[c].pc \in ReleaseSteps /\ \E p \in ReleaseSteps : Done(c) \/ Goto(c, p)
      BY <2>1 DEF RelVer, RelReset, At, ReleaseSteps
    <3> QED  BY <3>1, GotoOrDone DEF Leads
  <2>2. CASE RelSize(c)
    <3> DEFINE n == IF vers[loc[c].tmp].here THEN vers[loc[c].tmp].size ELSE -1
    <3>1. loc' = [loc EXCEPT ![c] = Loop(@, "rel_set", 0, n)] /\ loc[c].pc = "rel_size"
      BY <2>2 DEF RelSize, At
    <3>2. Turns(c, "rel_set", loc[c].vic, 0, n)
      <4> HIDE DEF n
      <4> QED  BY <3>1, LoopTurns
    <3>3. Leads(c, "rel_set", loc[c].vic)
      BY <3>1 DEF Leads, ReleaseSteps
    <3> QED  BY <3>2, <3>3, Continuing
  <2>3. CASE RelSet(c)
    <3>1. loc' = [loc EXCEPT ![c] = Removing(@, loc[c].cur)] /\ loc[c].pc = "rel_set"
      BY <2>3 DEF RelSet, At
    <3>2. Leads(c, "seglist", loc[c].cur)
      BY <3>1 DEF Leads, ReleaseSteps
    <3> QED  BY <3>1, <3>2, RemovingTurns, Continuing
  <2> QED  BY <1>6, <2>1, <2>2, <2>3
<1>7. CASE UnlinkEntry(c)
  BY <1>7, DoneMoves DEF UnlinkEntry
<1> QED
  BY <1>2, <1>3, <1>4, <1>5, <1>6, <1>7
     DEF WorkSteps, TempQuery, CurrQuery, CopyGet, CopyPut, VerInsert, VerRequery, SegPut,
         VerSet, TruncSet, TruncSeg, At, WriteSteps

\* Where unlink goes from its query: to the removal of a version or of the entry.
LEMMA UnlinkQueryMoves ==
    ASSUME TypeInv, NEW c \in Clients, UnlinkQuery(c)
    PROVE  /\ OnlyMoves(c)
           /\ loc'[c].op = "unlink" /\ loc'[c].pc \in {"seglist", "unl_entry"}
<1> DEFINE r == Request("unlink", "unl_entry", file.temp, file.data, 0)
           v == IF file.data # NoVer THEN file.data ELSE file.temp
<1>1. /\ r.pc = "unl_entry" /\ r.op = "unlink"
      /\ Removing(r, v).pc = "seglist" /\ Removing(r, v).op = "unlink"
  BY DEF Request, Removing
<1>2. loc' = [loc EXCEPT ![c] = Removing(r, v)] \/ loc' = [loc EXCEPT ![c] = r]
  BY DEF UnlinkQuery
<1> HIDE DEF r, v
<1> QED  BY <1>1, <1>2 DEF OnlyMoves, TypeInv, TypeOK

LEMMA WorkProceeds ==
    ASSUME TypeInv, NEW c \in Clients, Phase(loc[c]), WorkSteps(c)
    PROVE  Proceeds(c) \/ Dies(c)
<1>1. ~At(c, "idle")
  BY DEF WorkSteps, ReadVer, ReadSeg, TempQuery, CurrQuery, CopyGet, CopyPut, VerInsert,
         VerRequery, SegPut, VerSet, TruncSet, TruncSeg, SegList, SegRemove, VerRemove,
         RelVer, RelReset, RelSize, RelSet, UnlinkQuery, UnlinkEntry, At
<1>2. CASE Ends(c)
  BY <1>1, <1>2, IdleLock DEF Ends, Proceeds
<1>3. CASE Continues(c)
  <2>1. PICK p, v, i, n : Leads(c, p, v) /\ Turns(c, p, v, i, n)
    BY <1>3 DEF Continues
  <2>2. OnlyMoves(c) /\ loc'[c].op = loc[c].op /\ loc'[c].pc = p
    BY <2>1 DEF Turns
  <2>3. p \notin {"create_insert", "create_push"}
    BY <2>1 DEF Leads, WriteSteps, ReleaseSteps
  <2>4. Phase(loc'[c])
    BY <2>1, <2>2 DEF Leads, Phase, WriteSteps, ReleaseSteps
  <2> QED  BY <1>1, <2>2, <2>3, <2>4 DEF Proceeds
<1>4. CASE UnlinkQuery(c)
  <2>1. loc[c].op = "unlink"
    BY <1>4 DEF UnlinkQuery, At, Phase
  <2> QED
    BY <1>1, <1>4, <2>1, UnlinkQueryMoves DEF Proceeds, Phase, WriteSteps, ReleaseSteps
<1> QED  BY <1>2, <1>3, <1>4, WorkTurns

LEMMA WorkName ==
    ASSUME TypeInv, NameInv, NEW c \in Clients, WorkSteps(c)
    PROVE  NameInv'
<1>1. Phase(loc[c]) /\ listed' = listed
  BY DEF NameInv, WorkSteps, ReadVer, ReadSeg, TempQuery, CurrQuery, CopyGet, CopyPut,
         VerInsert, VerRequery, SegPut, VerSet, TruncSet, TruncSeg, SegList, SegRemove,
         VerRemove, RelVer, RelReset, RelSize, RelSet, UnlinkQuery, UnlinkEntry, db
<1>2. CASE UnlinkEntry(c)
  <2>1. Exclusive(c) /\ Done(c) /\ UNCHANGED <<listed, handle>>
    BY <1>2 DEF UnlinkEntry, NameInv, Phase, At, Exclusive
  <2>2. \A d \in Clients : d # c => loc[d].pc = "idle" /\ loc[d].op = "none"
    BY <2>1 DEF NameInv, At, Phase
  <2>3. listed' = 0 /\ \A d \in Clients : handle'[d] = "none"
    BY <2>1 DEF NameInv
  <2>4. /\ \A d \in Clients : d # c => loc'[d] = loc[d]
        /\ loc'[c].pc = "idle" /\ loc'[c].op = "none"
    BY <2>1, DoneMoves, IdleFields DEF Ends, OnlyMoves
  <2> QED  BY <2>2, <2>3, <2>4 DEF NameInv, Phase, Exclusive, At, ReleaseSteps, WriteSteps
<1>3. CASE ~UnlinkEntry(c)
  <2>1. file'.here = file.here
    <3>1. CASE RelReset(c)
      BY <3>1 DEF RelReset, TypeInv, TypeOK, Files
    <3>3. CASE RelSet(c)
      <4>1. file.here \in BOOLEAN
        BY DEF TypeInv, TypeOK, Files
      <4>2. CASE file.here = TRUE
        BY <3>3, <4>2 DEF RelSet
      <4>3. CASE file.here = FALSE
        BY <3>3, <4>3 DEF RelSet
      <4> QED  BY <4>1, <4>2, <4>3
    <3>2. CASE ~RelReset(c) /\ ~RelSet(c)
      BY <1>3, <3>2
         DEF WorkSteps, ReadVer, ReadSeg, TempQuery, CurrQuery, CopyGet, CopyPut, VerInsert,
             VerRequery, SegPut, VerSet, TruncSet, TruncSeg, SegList, SegRemove, VerRemove,
             RelVer, RelSize, UnlinkQuery, db
    <3> QED  BY <3>1, <3>2, <3>3
  <2>2. CASE Dies(c)
    BY <1>1, <2>1, <2>2, QuietName DEF Dies, Killed, NameInv
  <2>3. CASE ~Dies(c)
    <3>1. Proceeds(c)
      BY <1>1, <2>3, WorkProceeds
    <3>2. \A d \in Clients : handle'[d] = handle[d] \/ handle'[d] = "none"
      <4>1. CASE VerRemove(c) \/ RelReset(c)
        BY <4>1 DEF VerRemove, RelReset, Close, TypeInv, TypeOK
      <4>2. CASE ~VerRemove(c) /\ ~RelReset(c)
        BY <1>3, <2>3, <4>2
           DEF WorkSteps, ReadVer, ReadSeg, TempQuery, CurrQuery, CopyGet, CopyPut, VerInsert,
               VerRequery, SegPut, VerSet, TruncSet, TruncSeg, SegList, SegRemove,
               RelVer, RelSize, RelSet, UnlinkQuery, Dies, At
      <4> QED  BY <4>1, <4>2
    <3> QED  BY <1>1, <2>1, <3>1, <3>2, NameStep DEF Proceeds, DataOps
  <2> QED  BY <2>2, <2>3
<1> QED  BY <1>2, <1>3

LEMMA OpenName ==
    ASSUME TypeInv, NameInv, NEW c \in Clients, OpenWrite(c) \/ OpenSet(c)
    PROVE  NameInv'
<1>1. CASE OpenWrite(c)
  <2>1. OnlyMoves(c) /\ loc'[c].pc = "open_set" /\ loc'[c].op = "open"
    BY <1>1 DEF OpenWrite, Generate, Request, OnlyMoves, TypeInv, TypeOK
  <2>2. Phase(loc'[c])
    BY <2>1 DEF Phase, WriteSteps, ReleaseSteps
  <2> QED  BY <1>1, <2>1, <2>2, NameStep DEF OpenWrite
<1>2. CASE OpenSet(c)
  <2>1. loc[c].op = "open" /\ file.here /\ ~At(c, "idle")
    BY <1>2 DEF OpenSet, NameInv, Phase, At
  <2>2. OnlyMoves(c) /\ loc'[c] = Idle
    BY <1>2, DoneMoves DEF OpenSet, Ends
  <2>3. UNCHANGED listed /\ file'.here = file.here
        /\ \A d \in Clients : handle'[d] = handle[d] \/ d = c
    BY <1>2 DEF OpenSet, TypeInv, TypeOK, Files
  <2> QED  BY <2>1, <2>2, <2>3, IdleLock, NameStep DEF DataOps, Exclusive
<1> QED  BY <1>1, <1>2

LEMMA ExclusiveName ==
    ASSUME TypeInv, NameInv, NEW c \in Clients,
           Create(c) \/ CreateInsert(c) \/ CreatePush(c) \/ Unlink(c)
    PROVE  NameInv'
<1>1. \A d \in Clients : d # c => At(d, "idle") /\ loc[d].op = "none"
  BY DEF Create, CreateInsert, CreatePush, Unlink, Alone, NameInv, Exclusive, Phase, At
<1>2. \A d \in Clients : handle[d] = "none"
  BY DEF Create, CreateInsert, CreatePush, Unlink, NameInv, Exclusive, Phase, At
<1>3. OnlyMoves(c)
  BY DoneMoves, GotoMoves
     DEF Create, CreateInsert, CreatePush, Unlink, Generate, Ends, MovesTo, OnlyMoves,
         TypeInv, TypeOK
<1>4. \A d \in Clients : d # c => At(d, "idle")' /\ loc'[d].op = "none" /\ Phase(loc'[d])
  BY <1>1, <1>3 DEF OnlyMoves, At, NameInv
<1>5. CASE Create(c)
  <2>1. loc'[c].pc = "create_insert" /\ loc'[c].op = "create"
    BY <1>5 DEF Create, Generate, Request, TypeInv, TypeOK
  <2>2. ~file'.here /\ listed' = 0 /\ handle' = handle
    BY <1>5 DEF Create, NameInv
  <2>3. Phase(loc'[c])
    BY <2>1 DEF Phase, WriteSteps, ReleaseSteps
  <2> QED  BY <1>2, <1>4, <2>1, <2>2, <2>3 DEF NameInv, Exclusive, At
<1>6. CASE CreateInsert(c)
  <2>1. loc[c].op = "create" /\ listed = 0
    BY <1>6 DEF CreateInsert, NameInv, Phase, At, Exclusive
  <2>2. loc'[c].pc = "create_push" /\ loc'[c].op = "create"
    BY <1>6, <2>1, GotoMoves DEF CreateInsert, MovesTo
  <2>3. file'.here /\ listed' = 0 /\ handle' = handle
    BY <1>6, <2>1 DEF CreateInsert
  <2>4. Phase(loc'[c])
    BY <2>2 DEF Phase, WriteSteps, ReleaseSteps
  <2> QED  BY <1>2, <1>4, <2>2, <2>3, <2>4 DEF NameInv, Exclusive, At
<1>7. CASE CreatePush(c)
  <2>1. listed = 0 /\ file.here
    BY <1>7 DEF CreatePush, NameInv, Phase, At, Exclusive
  <2>2. loc'[c].pc = "idle" /\ loc'[c].op = "none" /\ Phase(loc'[c])
    BY <1>7, DoneMoves, IdleLock DEF CreatePush, Ends
  <2>3. file'.here /\ listed' = 1
    BY <1>7, <2>1 DEF CreatePush
  <2> QED  BY <1>4, <2>2, <2>3 DEF NameInv, Exclusive, At
<1>8. CASE Unlink(c)
  <2>1. loc'[c].pc = "unl_query" /\ loc'[c].op = "unlink"
    BY <1>8 DEF Unlink, Request, TypeInv, TypeOK
  <2>2. file'.here /\ listed' = 0 /\ handle' = handle
    BY <1>8 DEF Unlink
  <2>3. Phase(loc'[c])
    BY <2>1 DEF Phase, WriteSteps, ReleaseSteps
  <2> QED  BY <1>2, <1>4, <2>1, <2>2, <2>3 DEF NameInv, Exclusive, At
<1> QED  BY <1>5, <1>6, <1>7, <1>8

LEMMA NameNext == ASSUME TypeInv, NameInv, [Next]_vars PROVE NameInv'
<1>1. ASSUME NEW c \in Clients, Step(c) PROVE NameInv'
  BY <1>1, WorkName, OpenName, ExclusiveName DEF Step, WorkSteps
<1>2. ASSUME NEW c \in Clients, Call(c) PROVE NameInv'
  BY <1>2, CallName, OpenName, ExclusiveName DEF Call
<1>3. CASE Crash
  BY <1>3, QuietName DEF Crash, Killed, db, NameInv
<1>4. CASE UNCHANGED vars
  BY <1>4 DEF vars, NameInv, Exclusive, At
<1> QED  BY <1>1, <1>2, <1>3, <1>4 DEF Next

LEMMA NameInvariant == Spec => [](TypeInv /\ NameInv)
<1>1. Init => TypeInv /\ NameInv
  BY TypeInit, NameInit
<1>2. TypeInv /\ NameInv /\ [Next]_vars => (TypeInv /\ NameInv)'
  BY TypeNext, NameNext
<1> QED  BY <1>1, <1>2, PTL DEF Spec

\* Whatever the surroundings do, crashes in the middle of a create or an unlink
\* included, the directory lists the name at most once and never without an
\* entry to open.
THEOREM NameAlways == Spec => []NameUnique
<1>1. NameInv => NameUnique
  BY DEF NameInv, NameUnique
<1> QED  BY <1>1, NameInvariant, PTL

-----------------------------------------------------------------------------
(* What each request knows of its version.  A write and a truncate with a    *)
(* handle work on the temp version of the entry, a release publishes over the *)
(* current version and then removes an older one.                            *)

Works(c) == loc[c].op \in {"write", "truncate"}

SourceOf(c) ==
    LET l == loc[c]
    IN  /\ l.op = "write" => Writing(c)
        /\ Works(c) /\ Writing(c) => l.tmp = file.temp
        /\ Works(c) /\ l.pc \in Removal => l.vic = l.tmp
        /\ l.pc \in ReleaseSteps => l.cur = file.data
        /\ l.op = "release" => file.here /\ (l.pc \in Removal => l.vic < file.data)

SourceInv == \A c \in Clients : SourceOf(c)

FullInv == AllInv /\ NameInv /\ SourceInv

LEMMA SourceInit == Init => SourceInv
BY IdleFields DEF Init, SourceInv, SourceOf, Works, ReleaseSteps

LEMMA IdleSource == ASSUME NEW c, loc[c] = Idle PROVE SourceOf(c)
BY IdleFields DEF SourceOf, Works, ReleaseSteps

\* A step of one client leaves the others' requests and handles alone, unless
\* it ends the process.
LEMMA OthersStay ==
    ASSUME TypeInv, NameInv, NEW c \in Clients, Step(c) \/ Call(c), ~Dies(c),
           NEW d \in Clients, d # c
    PROVE  /\ loc'[d] = loc[d] /\ handle'[d] = handle[d]
<1>1. OnlyMoves(c)
  <2>1. CASE WorkSteps(c)
    BY <2>1, WorkProceeds DEF Proceeds, NameInv
  <2>2. CASE OpenSet(c) \/ CreateInsert(c) \/ CreatePush(c)
    BY <2>2, EntryMoves DEF MovesOn
  <2>3. CASE OpenWrite(c) \/ Create(c)
    BY <2>3 DEF OpenWrite, Create, Generate, OnlyMoves, TypeInv, TypeOK
  <2> QED  BY <2>1, <2>2, <2>3, CallMoves DEF Step, WorkSteps, Call, MovesOn
<1>2. CASE Step(c)
  <2>1. CASE OpenSet(c) \/ CreatePush(c) \/ VerRemove(c) \/ RelReset(c)
    BY <1>1, <2>1 DEF OpenSet, CreatePush, VerRemove, RelReset, Close, OnlyMoves, TypeInv, TypeOK
  <2>2. CASE ~(OpenSet(c) \/ CreatePush(c) \/ VerRemove(c) \/ RelReset(c))
    BY <1>1, <1>2, <2>2
       DEF Step, CreateInsert, ReadVer, ReadSeg, TempQuery, CurrQuery, CopyGet, CopyPut,
           VerInsert, VerRequery, SegPut, VerSet, TruncSet, TruncSeg, SegList, SegRemove,
           RelVer, RelSize, RelSet, UnlinkQuery, UnlinkEntry, OnlyMoves, Dies, At
  <2> QED  BY <2>1, <2>2
<1>3. CASE Call(c)
  <2>1. CASE OpenRead(c) \/ Release(c)
    BY <1>1, <2>1 DEF OpenRead, Release, Close, OnlyMoves, TypeInv, TypeOK
  <2>2. CASE ~OpenRead(c) /\ ~Release(c)
    BY <1>1, <1>3, <2>2
       DEF Call, OpenWrite, Create, Unlink, Read, Write, Truncate, OnlyMoves
  <2> QED  BY <2>1, <2>2
<1> QED  BY <1>2, <1>3

\* The steps that change the entry, and what they leave to a request of
\* another client.
LEMMA EntryStays ==
    ASSUME AllInv, NameInv, NEW c \in Clients, Step(c) \/ Call(c),
           NEW d \in Clients, d # c
    PROVE  /\ Works(d) /\ Writing(d) => file'.temp = file.temp
           /\ loc[d].pc \in ReleaseSteps => file'.data = file.data
           /\ loc[d].op = "release" => file'.data >= file.data /\ (file.here => file'.here)
<1> USE DEF AllInv
<1>0. file.data >= file.data /\ file.data \in Int /\ file.temp \in Int
  BY DEF TypeInv, TypeOK, Files, AnyVer, Versions, NoVer
<1>1. loc[d].pc \in ReleaseSteps \/ (Works(d) /\ Writing(d)) => Holds(d)
  BY ReleaseHolds DEF Holds, Published, Works, ReleaseSteps
<1>2. CASE UNCHANGED file
  BY <1>0, <1>2
<1>3. CASE OpenSet(c)
  <2>1. file.here /\ file.temp = NoVer
    BY <1>3 DEF OpenSet, LockInv, Phase, OpenKnows, At
  <2>2. ~Holds(d)
    BY <2>1 DEF LockInv, WriterHoldsTemp
  <2>3. file'.data = file.data /\ file'.here = file.here
    BY <1>3 DEF OpenSet, TypeInv, TypeOK, Files
  <2> QED  BY <1>0, <1>1, <2>2, <2>3
<1>4. CASE CreateInsert(c) \/ UnlinkEntry(c)
  <2>1. Exclusive(c)
    BY <1>4 DEF CreateInsert, UnlinkEntry, NameInv, Phase, At, Exclusive
  <2>2. loc[d].pc = "idle" /\ loc[d].op = "none"
    BY <2>1 DEF NameInv, At, Phase
  <2> QED  BY <2>2 DEF Works, ReleaseSteps
<1>5. CASE RelReset(c) \/ RelSet(c)
  <2>1. Holds(c) /\ file.here
    BY <1>5, ReleaseHolds DEF RelReset, RelSet, At, ReleaseSteps
  <2>2. ~Holds(d)
    BY <2>1 DEF LockInv, SingleWriter
  <2>3. file'.data >= file.data /\ file'.here
    <3>1. CASE RelReset(c)
      BY <1>0, <2>1, <3>1 DEF RelReset, TypeInv, TypeOK, Files
    <3>2. CASE RelSet(c)
      <4>1. file'.data = loc[c].tmp /\ loc[c].tmp = file.temp /\ file.temp # NoVer /\ file'.here
        BY <2>1, <3>2, ReleaseHolds DEF RelSet, At, ReleaseSteps
      <4> QED  BY <1>0, <2>1, <4>1 DEF AdvanceInv
    <3> QED  BY <1>5, <3>1, <3>2
  <2> QED  BY <1>1, <2>2, <2>3
<1> QED
  BY <1>2, <1>3, <1>4, <1>5
     DEF Step, Call, CreatePush, ReadVer, ReadSeg, TempQuery, CurrQuery, CopyGet, CopyPut,
         VerInsert, VerRequery, SegPut, VerSet, TruncSet, TruncSeg, SegList, SegRemove,
         VerRemove, RelVer, RelSize, UnlinkQuery, OpenRead, OpenWrite, Create, Release,
         Unlink, Read, Write, Truncate, db

\* What the client of a step knows after it.
LEMMA SourceMine ==
    ASSUME FullInv, NEW c \in Clients, Step(c) \/ Call(c), ~Killed
    PROVE  SourceOf(c)'
<1> USE DEF FullInv, AllInv
<1>1. CASE Ends(c) \/ Done(c)
  BY <1>1, DoneMoves, IdleFields DEF Ends, SourceOf, Works, ReleaseSteps
<1>2. CASE RelSet(c)
  <2>1. /\ file.here /\ loc[c].tmp = file.temp /\ file.temp # NoVer /\ loc[c].op = "release"
        /\ loc[c].cur = file.data
    BY <1>2, ReleaseHolds DEF RelSet, At, ReleaseSteps, SourceInv, SourceOf
  <2>2. file'.data = file.temp /\ file.temp > file.data /\ file'.here
    BY <1>2, <2>1 DEF RelSet, AdvanceInv
  <2>3. Turns(c, "seglist", loc[c].cur, loc[c].idx, loc[c].lim)
    BY <1>2, RemovingTurns DEF RelSet
  <2> QED  BY <2>1, <2>2, <2>3 DEF Turns, SourceOf, Works, ReleaseSteps
<1>3. CASE WorkSteps(c) /\ ~UnlinkQuery(c) /\ ~Ends(c) /\ ~RelSet(c)
  <2>1. PICK p, v, i, n : Leads(c, p, v) /\ Turns(c, p, v, i, n)
    BY <1>3, WorkTurns DEF Continues, NameInv, Dies
  <2>2. /\ loc'[c].pc = p /\ loc'[c].vic = v /\ loc'[c].op = loc[c].op
        /\ loc'[c].tmp = loc[c].tmp /\ loc'[c].cur = loc[c].cur
    BY <2>1 DEF Turns
  <2>0. ~Done(c)
    BY <1>3, DoneMoves
  <2>3. UNCHANGED <<file, handle>>
    BY <1>3, <2>0
       DEF WorkSteps, ReadVer, ReadSeg, TempQuery, CurrQuery, CopyGet, CopyPut, VerInsert,
           VerRequery, SegPut, VerSet, TruncSet, TruncSeg, SegList, SegRemove, VerRemove,
           RelVer, RelReset, RelSize, UnlinkEntry, db
  <2>4. Phase(loc[c]) /\ SourceOf(c)
    BY DEF NameInv, SourceInv
  <2>5. loc[c].pc # "rel_set"
    BY <1>3 DEF WorkSteps, ReadVer, ReadSeg, TempQuery, CurrQuery, CopyGet, CopyPut, VerInsert,
           VerRequery, SegPut, VerSet, TruncSet, TruncSeg, SegList, SegRemove, VerRemove,
           RelVer, RelReset, RelSize, UnlinkEntry, At
  <2>6. p \in ReleaseSteps => loc[c].pc \in ReleaseSteps
    BY <2>1 DEF Leads, WriteSteps, ReleaseSteps
  <2>7. Works(c) /\ p \in Removal => v = loc[c].tmp
    BY <2>1, <2>4 DEF Leads, WriteSteps, Removal, Works, SourceOf, Phase, ReleaseSteps
  <2>8. loc[c].op = "release" /\ p \in Removal => loc[c].pc \in Removal /\ v = loc[c].vic
    BY <2>1, <2>4, <2>5 DEF Leads, WriteSteps, Removal, ReleaseSteps, Phase
  <2> QED  BY <2>2, <2>3, <2>4, <2>6, <2>7, <2>8 DEF SourceOf, Works, Writing
<1>4. CASE UnlinkQuery(c)
  BY <1>4, UnlinkQueryMoves DEF SourceOf, Works, ReleaseSteps
<1>5. CASE CreateInsert(c)
  <2>1. loc'[c].op = "create" /\ loc'[c].pc = "create_push"
    BY <1>5, GotoMoves DEF CreateInsert, MovesTo, NameInv, Phase, At
  <2> QED  BY <2>1 DEF SourceOf, Works, ReleaseSteps
<1>6. CASE OpenWrite(c) \/ Create(c) \/ Unlink(c)
  <2>1. loc'[c].op \in {"open", "create", "unlink"}
        /\ loc'[c].pc \in {"open_set", "create_insert", "unl_query"}
    BY <1>6 DEF OpenWrite, Create, Unlink, Generate, Request, TypeInv, TypeOK
  <2> QED  BY <2>1 DEF SourceOf, Works, ReleaseSteps
<1>7. CASE OpenRead(c) \/ (Release(c) /\ UNCHANGED loc)
  <2>1. loc'[c].op = "none" /\ loc'[c].pc = "idle"
    BY <1>7 DEF OpenRead, Release, NameInv, Phase, At
  <2> QED  BY <2>1 DEF SourceOf, Works, ReleaseSteps
<1>8. CASE Release(c) /\ ~UNCHANGED loc
  <2>1. Starts(c, "release", "rel_ver", 0) /\ file.here /\ UNCHANGED file
    BY <1>8, EnterStarts DEF Release, db
  <2> QED  BY <2>1 DEF Starts, SourceOf, Works, Removal
<1>9. ASSUME NEW p, Read(c, p) \/ Write(c, p) \/ Truncate(c, p) PROVE SourceOf(c)'
  <2>1. /\ Starts(c, "read", "read_ver", p) \/ Starts(c, "truncate", "temp_query", p)
           \/ (Starts(c, "write", "temp_query", p) /\ Writing(c))
        /\ UNCHANGED <<file, handle>>
    BY <1>9, EnterStarts DEF Read, Write, Truncate, db
  <2> QED  BY <2>1 DEF Starts, SourceOf, Works, Removal, ReleaseSteps, Writing
<1> QED
  BY <1>1, <1>2, <1>3, <1>4, <1>5, <1>6, <1>7, <1>8, <1>9
     DEF Step, Call, WorkSteps, OpenSet, CreatePush

LEMMA SourceNext == ASSUME FullInv, [Next]_vars PROVE SourceInv'
<1>1. CASE Killed
  BY <1>1, IdleFields DEF Killed, SourceInv, SourceOf, Works, ReleaseSteps
<1>2. ASSUME NEW c \in Clients, Step(c) \/ Call(c), ~Killed, NEW d \in Clients
      PROVE  SourceOf(d)'
  <2>1. CASE d = c
    BY <1>2, <2>1, SourceMine
  <2>2. CASE d # c
    <3>1. loc'[d] = loc[d] /\ handle'[d] = handle[d]
      BY <1>2, <2>2, OthersStay DEF FullInv, AllInv, Dies
    <3>2. /\ Works(d) /\ Writing(d) => file'.temp = file.temp
          /\ loc[d].pc \in ReleaseSteps => file'.data = file.data
          /\ loc[d].op = "release" => file'.data >= file.data /\ (file.here => file'.here)
      BY <1>2, <2>2, EntryStays DEF FullInv
    <3>3. SourceOf(d) /\ loc[d].vic \in Int /\ file.data \in Int /\ file'.data \in Int
      <4>1. AnyVer \subseteq Int
        BY DEF AnyVer, Versions, NoVer
      <4>2. TypeInv'
        BY TypeNext DEF FullInv, AllInv
      <4> QED  BY <4>1, <4>2 DEF FullInv, AllInv, SourceInv, TypeInv, TypeOK, Files, Locals
    <3> QED  BY <3>1, <3>2, <3>3 DEF SourceOf, Works, Writing
  <2> QED  BY <2>1, <2>2
<1>3. CASE UNCHANGED vars
  BY <1>3 DEF vars, FullInv, SourceInv, SourceOf, Works, Writing
<1> QED  BY <1>1, <1>2, <1>3 DEF Next, Crash, SourceInv

LEMMA FullInvariant == ASSUME Disciplined PROVE Spec => []FullInv
<1>1. Init => FullInv
  <2>1. Init => AdvanceInv
    BY DEF Init, AdvanceInv, At, Idle, Request, NoFile
  <2> QED  BY <2>1, TypeInit, VersionInit, LockInit, NameInit, SourceInit DEF FullInv, AllInv
<1>2. FullInv /\ [Next]_vars => FullInv'
  BY TypeNext, VersionNext, LockNext, Advances, NameNext, SourceNext DEF FullInv, AllInv
<1> QED  BY <1>1, <1>2, PTL DEF Spec

-----------------------------------------------------------------------------
(* Which documents a step may touch. *)

OnlyDocs(w) ==
    /\ \A v \in AnyVer : v # w => vers'[v] = vers[v]
    /\ \A v \in SegVers, i \in SegNums :
           v # w /\ v # Unsigned(w) => segs'[<<v, i>>] = segs[<<v, i>>]

LEMMA InsertDocs ==
    ASSUME TypeInv, NEW w, NEW i, InsertSeg(w, i), UNCHANGED vers
    PROVE  OnlyDocs(w)
<1>1. ASSUME NEW v \in SegVers, NEW j \in SegNums, v # Unsigned(w)
      PROVE  segs'[<<v, j>>] = segs[<<v, j>>]
  BY <1>1 DEF InsertSeg, TypeInv, TypeOK
<1> QED  BY <1>1 DEF OnlyDocs

LEMMA DocsOf ==
    ASSUME TypeInv, NEW c \in Clients, Step(c) \/ Call(c)
    PROVE  \/ UNCHANGED <<vers, segs>>
           \/ /\ loc[c].pc \in WriteSteps /\ OnlyDocs(loc[c].tmp)
              /\ loc'[c].pc # loc[c].pc
           \/ /\ loc[c].pc \in {"seg_rm", "ver_rm"} /\ OnlyDocs(loc[c].vic)
              /\ loc'[c] # loc[c]
<1>0. loc \in [Clients -> Locals] /\ loc[c].idx \in 0..MaxSegs
  BY DEF TypeInv, TypeOK, Locals
<1>1. CASE CopyPut(c) \/ SegPut(c) \/ TruncSeg(c)
  <2>1. loc[c].pc \in WriteSteps /\ UNCHANGED vers
    BY <1>1 DEF CopyPut, SegPut, TruncSeg, At, WriteSteps
  <2>2. OnlyDocs(loc[c].tmp)
    <3>1. CASE CopyPut(c) \/ SegPut(c)
      BY <2>1, <3>1, InsertDocs DEF CopyPut, SegPut
    <3>2. CASE TruncSeg(c)
      BY <2>1, <3>2 DEF TruncSeg, OnlyDocs, TypeInv, TypeOK
    <3> QED  BY <1>1, <3>1, <3>2
  <2>3. loc'[c].pc # loc[c].pc
    <3>1. CASE CopyPut(c)
      BY <3>1, GotoMoves, LoopMoves DEF CopyPut, MovesTo, At
    <3>2. CASE SegPut(c) \/ TruncSeg(c)
      BY <3>2, RemovingMoves DEF SegPut, TruncSeg, MovesTo, At
    <3> QED  BY <1>1, <3>1, <3>2
  <2> QED  BY <2>1, <2>2, <2>3
<1>2. CASE VerInsert(c) \/ VerSet(c) \/ TruncSet(c)
  <2>1. loc[c].pc \in WriteSteps /\ UNCHANGED segs
    BY <1>2 DEF VerInsert, VerSet, TruncSet, At, WriteSteps
  <2>2. OnlyDocs(loc[c].tmp)
    BY <1>2, <2>1 DEF VerInsert, VerSet, TruncSet, InsertVer, UpdateVer, OnlyDocs, TypeInv, TypeOK
  <2>3. loc'[c].pc # loc[c].pc
    BY <1>2, GotoMoves, DoneMoves, IdleFields
       DEF VerInsert, VerSet, TruncSet, MovesTo, Ends, At
  <2> QED  BY <2>1, <2>2, <2>3
<1>3. CASE SegRemove(c)
  <2>1. loc[c].pc = "seg_rm" /\ OnlyDocs(loc[c].vic)
    BY <1>3 DEF SegRemove, OnlyDocs, At, TypeInv, TypeOK
  <2>2. CASE AfterSegments(c)
    <3>1. loc'[c].pc # "seg_rm"
      BY <2>2, GotoMoves, DoneMoves, IdleFields DEF AfterSegments, MovesTo, Ends
    <3> QED  BY <2>1, <3>1
  <2>3. CASE loc' = [loc EXCEPT ![c].idx = loc[c].idx + 1]
    <3>1. loc'[c].idx = loc[c].idx + 1
      BY <2>3, IdxTurns DEF Turns
    <3>2. loc'[c].idx # loc[c].idx
      BY <1>0, <3>1
    <3> QED  BY <2>1, <3>2
  <2> QED  BY <1>3, <2>2, <2>3 DEF SegRemove
<1>4. CASE VerRemove(c)
  <2>1. loc[c].pc = "ver_rm" /\ OnlyDocs(loc[c].vic)
    BY <1>4 DEF VerRemove, OnlyDocs, At, TypeInv, TypeOK
  <2>2. loc'[c].pc # "ver_rm"
    BY <1>4, GotoMoves, DoneMoves, IdleFields, RemovingMoves DEF VerRemove, MovesTo, Ends
  <2> QED  BY <2>1, <2>2
<1> QED
  BY <1>1, <1>2, <1>3, <1>4
     DEF Step, Call, OpenSet, CreateInsert, CreatePush, ReadVer, ReadSeg, TempQuery, CurrQuery,
         CopyGet, VerRequery, SegList, RelVer, RelReset, RelSize, RelSet, UnlinkQuery,
         UnlinkEntry, OpenRead, OpenWrite, Create, Release, Unlink, Read, Write, Truncate, db

\* No step but one of a truncate by path touches the current version of a
\* listed file: the version a request works on is newer than the current one,
\* the one it removes is older.
LEMMA CurrentKept ==
    ASSUME FullInv, NEW c \in Clients, Step(c) \/ Call(c), listed = 1, listed' = 1,
           file.data # NoVer
    PROVE  \/ /\ vers'[file.data] = vers[file.data]
              /\ \A i \in SegNums : segs'[<<file.data, i>>] = segs[<<file.data, i>>]
           \/ ByPath(c) /\ loc[c].tmp = file.data /\ loc'[c] # loc[c]
<1> USE DEF FullInv, AllInv
<1>1. /\ file.data \in AnyVer /\ file.data \in SegVers /\ file.data # WrappedVer
      /\ file.data > NoVer /\ file.data \in Int
  BY DEF TypeInv, TypeOK, Files, AnyVer, Versions, SegVers, NoVer, WrappedVer
<1>2. ASSUME NEW w, OnlyDocs(w), w # file.data
      PROVE  /\ vers'[file.data] = vers[file.data]
             /\ \A i \in SegNums : segs'[<<file.data, i>>] = segs[<<file.data, i>>]
  <2>1. file.data # Unsigned(w)
    BY <1>1, <1>2 DEF Unsigned
  <2> QED  BY <1>1, <1>2, <2>1 DEF OnlyDocs
<1>3. ASSUME Works(c), Writing(c) PROVE loc[c].tmp # file.data
  <2>1. Holds(c)
    BY <1>3 DEF Holds, Published, Works
  <2>2. file.here /\ file.temp # NoVer /\ loc[c].tmp = file.temp
    BY <1>3, <2>1 DEF LockInv, WriterHoldsTemp, SourceInv, SourceOf
  <2> QED  BY <1>1, <2>2 DEF AdvanceInv
<1>4. SourceOf(c) /\ Phase(loc[c])
  BY DEF SourceInv, NameInv
<1>5. CASE UNCHANGED <<vers, segs>>
  BY <1>5
<1>6. CASE loc[c].pc \in WriteSteps /\ OnlyDocs(loc[c].tmp) /\ loc'[c].pc # loc[c].pc
  <2>1. Works(c) /\ loc'[c] # loc[c]
    BY <1>4, <1>6 DEF Phase, Works
  <2>2. CASE loc[c].tmp = file.data
    <3>1. ~Writing(c)
      BY <1>3, <2>1, <2>2
    <3> QED  BY <1>4, <2>1, <2>2, <3>1 DEF ByPath, SourceOf, Works
  <2>3. CASE loc[c].tmp # file.data
    BY <1>2, <1>6, <2>3
  <2> QED  BY <2>2, <2>3
<1>7. CASE loc[c].pc \in {"seg_rm", "ver_rm"} /\ OnlyDocs(loc[c].vic) /\ loc'[c] # loc[c]
  <2>1. CASE loc[c].vic # file.data
    BY <1>2, <1>7, <2>1
  <2>2. CASE loc[c].vic = file.data
    <3>1. loc[c].op \in {"write", "truncate", "release", "unlink"} /\ loc[c].pc \in Removal
      BY <1>4, <1>7 DEF Phase, Removal
    <3>2. loc[c].op # "unlink"
      BY DEF NameInv, Exclusive
    <3>3. loc[c].op # "release"
      BY <1>1, <1>4, <2>2, <3>1 DEF SourceOf
    <3>4. Works(c) /\ loc[c].tmp = file.data
      BY <1>4, <2>2, <3>1, <3>2, <3>3 DEF SourceOf, Works
    <3>5. ~Writing(c) /\ loc[c].op = "truncate"
      BY <1>3, <1>4, <3>4 DEF SourceOf, Works
    <3> QED  BY <1>7, <3>4, <3>5 DEF ByPath
  <2> QED  BY <2>1, <2>2
<1> QED  BY <1>5, <1>6, <1>7, DocsOf

\* While opens for writing do not overlap, a version that was committed is not
\* written again as long as it is the current one of a listed file, whatever
\* number of clients copy, write, publish and remove versions beside it, and
\* whenever the process is killed; only a truncate by path that had read the
\* version's number while it was still being written may touch it.
THEOREM FrozenAlways == ASSUME Disciplined PROVE Spec => CommittedFrozen
<1> DEFINE v == file.data
           Frozen == listed = 1 /\ listed' = 1 /\ v # NoVer /\ file'.data = v =>
                       \/ /\ vers'[v] = vers[v]
                          /\ \A i \in SegNums : segs'[<<v, i>>] = segs[<<v, i>>]
                       \/ \E c \in Clients : ByPath(c) /\ loc[c].tmp = v /\ loc'[c] # loc[c]
<1>1. FullInv /\ [Next]_vars => [Frozen]_vars
  <2> SUFFICES ASSUME FullInv, [Next]_vars PROVE Frozen
    OBVIOUS
  <2>1. ASSUME NEW c \in Clients, Step(c) \/ Call(c) PROVE Frozen
    BY <2>1, CurrentKept
  <2>2. CASE Crash \/ UNCHANGED vars
    BY <2>2 DEF Crash, db, vars
  <2> QED  BY <2>1, <2>2 DEF Next
<1> QED  BY <1>1, FullInvariant, PTL DEF Spec, CommittedFrozen

-----------------------------------------------------------------------------
(* Without a truncate below the size of the version being written no        *)
(* segment is ever cut, and no handler dies of one.                         *)

NoShrink == "shrink" \notin Env
NoCrash == "crash" \notin Env

\* The steps of a truncate that finds nothing to cut.
GrowSteps == {"temp_query", "curr_query", "copy_get", "copy_put", "ver_insert"}
GrowsOnly(c) ==
    LET v == vers[loc[c].tmp]
    IN  /\ loc[c].pc \notin {"trunc_set", "trunc_seg"}
        /\ loc[c].op = "truncate" =>
              loc[c].pc \in GrowSteps /\ (At(c, "temp_query") /\ v.here => loc[c].pos >= v.size)

NothingCut == \A v \in SegVers, i \in SegNums : segs[<<v, i>>] # "cut"
OneWorks == \A c, d \in Clients : Works(c) /\ Works(d) => c = d

CutFree == NothingCut /\ OneWorks /\ \A c \in Clients : GrowsOnly(c)

-----------------------------------------------------------------------------
(* What each step of a write, or of a truncate that cuts nothing, does.     *)

Passes(c, p) == Turns(c, p, loc[c].vic, loc[c].idx, loc[c].lim)

LEMMA TempQueryDoes ==
    ASSUME TypeInv, NEW c \in Clients, TempQuery(c), GrowsOnly(c)
    PROVE  LET v == vers[loc[c].tmp]
           IN  \/ Ends(c)
               \/ Passes(c, "curr_query") /\ ~v.here
               \/ Passes(c, "ver_insert") /\ ~v.here /\ loc[c].pos = 0
               \/ Passes(c, "seg_put") /\ v.here /\ loc[c].op = "write"
<1>1. loc[c].pos \in Int /\ vers[loc[c].tmp].size \in Int
  BY DEF TypeInv, TypeOK, Locals, VerDocs
<1>2. ~(loc[c].op = "truncate" /\ vers[loc[c].tmp].here /\ loc[c].pos < vers[loc[c].tmp].size)
  BY <1>1 DEF TempQuery, GrowsOnly
<1> QED  BY <1>2, DoneMoves, GotoTurns DEF TempQuery, Passes

LEMMA CopyDoes ==
    ASSUME TypeInv, NEW c \in Clients
    PROVE  /\ CurrQuery(c) => Ends(c) \/ Passes(c, "copy_get")
           /\ CopyGet(c) => Ends(c) \/ Passes(c, "copy_put") \/ Dies(c)
           /\ CopyPut(c) =>
                 \/ Turns(c, "copy_get", loc[c].vic, loc[c].idx + 1, 0)
                 \/ Passes(c, "ver_insert") /\ loc[c].idx + 1 >= loc[c].pos
<1>1. ASSUME CopyPut(c)
      PROVE  \/ Turns(c, "copy_get", loc[c].vic, loc[c].idx + 1, 0)
             \/ Passes(c, "ver_insert") /\ loc[c].idx + 1 >= loc[c].pos
  <2>1. CASE loc' = [loc EXCEPT ![c] = Loop(@, "copy_get", loc[c].idx + 1, 0)]
    BY <2>1, LoopTurns
  <2> QED  BY <1>1, <2>1, GotoTurns DEF CopyPut, Passes
<1> QED  BY <1>1, DoneMoves, GotoTurns DEF CurrQuery, CopyGet, Passes, Dies, At

LEMMA VersionDoes ==
    ASSUME TypeInv, NEW c \in Clients
    PROVE  /\ VerInsert(c) => \/ Passes(c, "ver_requery") /\ loc[c].op = "write"
                              \/ Ends(c) /\ loc[c].op = "truncate"
           /\ VerRequery(c) => Ends(c) \/ (Passes(c, "seg_put") /\ vers[loc[c].tmp].here)
           /\ SegPut(c) => Turns(c, "seglist", loc[c].tmp, loc[c].idx, loc[c].lim)
           /\ VerSet(c) => Ends(c)
<1>1. ASSUME SegPut(c) PROVE Turns(c, "seglist", loc[c].tmp, loc[c].idx, loc[c].lim)
  BY <1>1, RemovingTurns DEF SegPut
<1> QED  BY <1>1, DoneMoves, GotoTurns DEF VerInsert, VerRequery, VerSet, Passes

LEMMA TailDoes ==
    ASSUME TypeInv, NEW c \in Clients, loc[c].op = "write"
    PROVE  /\ SegList(c) => \/ Passes(c, "ver_set")
                            \/ \E n : Turns(c, "seg_rm", loc[c].vic, loc[c].pos + 1, n)
           /\ SegRemove(c) => \/ Passes(c, "ver_set")
                              \/ Turns(c, "seg_rm", loc[c].vic, loc[c].idx + 1, loc[c].lim)
<1>1. AfterSegments(c) => Passes(c, "ver_set")
  BY GotoTurns DEF AfterSegments, Passes
<1>2. ASSUME SegList(c), ~AfterSegments(c)
      PROVE  \E n : Turns(c, "seg_rm", loc[c].vic, loc[c].pos + 1, n)
  <2>1. loc' = [loc EXCEPT ![c] = Loop(@, "seg_rm", loc[c].pos + 1, vers[loc[c].vic].data)]
    BY <1>2 DEF SegList, RemoveFrom
  <2>2. Turns(c, "seg_rm", loc[c].vic, loc[c].pos + 1, vers[loc[c].vic].data)
    BY <2>1, LoopTurns
  <2> QED  BY <2>2
<1>3. ASSUME SegRemove(c), ~AfterSegments(c)
      PROVE  Turns(c, "seg_rm", loc[c].vic, loc[c].idx + 1, loc[c].lim)
  <2>1. loc' = [loc EXCEPT ![c].idx = loc[c].idx + 1] /\ loc[c].pc = "seg_rm"
    BY <1>3 DEF SegRemove, At
  <2> QED  BY <2>1, IdxTurns
<1> QED  BY <1>1, <1>2, <1>3

\* The steps of a client that is in a write or a truncate.
LEMMA WorkIs ==
    ASSUME NEW c \in Clients, Phase(loc[c]), GrowsOnly(c), Works(c), Step(c) \/ Call(c)
    PROVE  \/ TempQuery(c) \/ CurrQuery(c) \/ CopyGet(c) \/ CopyPut(c) \/ VerInsert(c)
           \/ /\ loc[c].op = "write"
              /\ VerRequery(c) \/ SegPut(c) \/ SegList(c) \/ SegRemove(c) \/ VerSet(c)
<1>1. Step(c)
  BY DEF Call, OpenRead, OpenWrite, Create, Release, Unlink, Read, Write, Truncate, Alone,
         At, Phase, Works
<1>2. loc[c].pc \in WriteSteps \cup {"seglist", "seg_rm"} /\ ~TruncSet(c) /\ ~TruncSeg(c)
  <2>1. ~TruncSet(c) /\ ~TruncSeg(c)
    BY DEF TruncSet, TruncSeg, At, GrowsOnly
  <2>2. loc[c].pc # "idle" /\ loc[c].op \notin {"none", "open", "create", "read", "release", "unlink"}
    BY DEF Works, Phase
  <2> QED
    BY <1>1, <2>1, <2>2
       DEF Step, OpenSet, CreateInsert, CreatePush, ReadVer, ReadSeg, TempQuery, CurrQuery,
           CopyGet, CopyPut, VerInsert, VerRequery, SegPut, VerSet, SegList, SegRemove,
           VerRemove, RelVer, RelReset, RelSize, RelSet, UnlinkQuery, UnlinkEntry, At,
           Phase, WriteSteps, ReleaseSteps
<1>3. \/ TempQuery(c) \/ CurrQuery(c) \/ CopyGet(c) \/ CopyPut(c) \/ VerInsert(c)
      \/ VerRequery(c) \/ SegPut(c) \/ SegList(c) \/ SegRemove(c) \/ VerSet(c)
  BY <1>1, <1>2
     DEF Step, OpenSet, CreateInsert, CreatePush, ReadVer, ReadSeg, VerRemove, RelVer, RelReset,
         RelSize, RelSet, UnlinkQuery, UnlinkEntry, At, WriteSteps
<1> QED
  BY <1>3 DEF VerRequery, SegPut, SegList, SegRemove, VerSet, At, GrowsOnly, GrowSteps, Works

LEMMA CutFreeInit == Init => CutFree
<1> SUFFICES ASSUME Init PROVE CutFree
  OBVIOUS
<1>1. NothingCut
  BY DEF Init, NothingCut, SegIds
<1> QED  BY <1>1, IdleFields DEF Init, CutFree, OneWorks, Works, GrowsOnly

LEMMA NothingCutNext ==
    ASSUME TypeInv, CutFree, NEW c \in Clients, Step(c) \/ Call(c)
    PROVE  NothingCut'
<1>1. CASE CopyPut(c) \/ SegPut(c)
  <2>1. PICK w, j : InsertSeg(w, j)
    BY <1>1 DEF CopyPut, SegPut
  <2> QED  BY <2>1 DEF InsertSeg, CutFree, NothingCut, TypeInv, TypeOK, SegIds
<1>2. CASE SegRemove(c)
  BY <1>2 DEF SegRemove, CutFree, NothingCut, TypeInv, TypeOK, SegIds
<1>3. ~TruncSeg(c)
  BY DEF TruncSeg, At, CutFree, GrowsOnly
<1> QED
  BY <1>1, <1>2, <1>3
     DEF CutFree, NothingCut, Step, Call, OpenSet, CreateInsert, CreatePush, ReadVer, ReadSeg,
         TempQuery, CurrQuery, CopyGet, VerInsert, VerRequery, VerSet, TruncSet, SegList,
         VerRemove, RelVer, RelReset, RelSize, RelSet, UnlinkQuery, UnlinkEntry,
         OpenRead, OpenWrite, Create, Release, Unlink, Read, Write, Truncate, db

\* A step that starts no write or truncate leaves the client in one it was in.
LEMMA WorksOn ==
    ASSUME TypeInv, NameInv, NEW c \in Clients, Step(c) \/ Call(c), ~Dies(c), Works(c)',
           ~\E p \in SegNums : Write(c, p), ~\E p \in 0..MaxSegs : Truncate(c, p)
    PROVE  Works(c) /\ Continues(c) /\ WorkSteps(c)
<1>1. CASE WorkSteps(c)
  <2>1. ~Ends(c)
    BY IdleFields DEF Ends, Works
  <2>2. ~UnlinkQuery(c)
    BY UnlinkQueryMoves DEF Works
  <2>3. Continues(c)
    BY <1>1, <2>1, <2>2, WorkTurns DEF NameInv
  <2> QED  BY <1>1, <2>3 DEF Continues, Turns, Works
<1>2. CASE CreateInsert(c)
  BY <1>2, GotoMoves DEF CreateInsert, MovesTo, Works, NameInv, Phase, At
<1>3. CASE OpenSet(c) \/ CreatePush(c)
  BY <1>3, DoneMoves, IdleFields DEF OpenSet, CreatePush, Ends, Works
<1>4. CASE Call(c)
  <2>1. CASE OpenWrite(c) \/ Create(c) \/ Unlink(c)
    BY <2>1 DEF OpenWrite, Create, Unlink, Generate, Request, Works, TypeInv, TypeOK
  <2>2. CASE OpenRead(c) \/ (Release(c) /\ UNCHANGED loc)
    BY <2>2 DEF OpenRead, Release, Works, NameInv, Phase, At
  <2>3. CASE Release(c) /\ ~UNCHANGED loc
    BY <2>3, EnterStarts DEF Release, Starts, Works
  <2>4. ASSUME NEW p, Read(c, p) PROVE FALSE
    BY <2>4, EnterStarts DEF Read, Starts, Works
  <2> QED  BY <1>4, <2>1, <2>2, <2>3, <2>4 DEF Call
<1> QED  BY <1>1, <1>2, <1>3, <1>4 DEF Step, WorkSteps

\* The inode's lock.
LEMMA OneWorksNext ==
    ASSUME TypeInv, NameInv, OneWorks, NEW c \in Clients, Step(c) \/ Call(c), ~Dies(c)
    PROVE  OneWorks'
<1>1. \A d \in Clients : d # c => (Works(d)' <=> Works(d))
  BY OthersStay DEF Works
<1>2. CASE (\E p \in SegNums : Write(c, p)) \/ \E p \in 0..MaxSegs : Truncate(c, p)
  <2>1. \A d \in Clients : ~Works(d)
    BY <1>2 DEF Write, Truncate, InodeFree, Busy, Works
  <2> QED  BY <1>1, <2>1 DEF OneWorks
<1>3. CASE ~(\E p \in SegNums : Write(c, p)) /\ ~\E p \in 0..MaxSegs : Truncate(c, p)
  <2>1. Works(c)' => Works(c)
    BY <1>3, WorksOn
  <2> QED  BY <1>1, <2>1 DEF OneWorks
<1> QED  BY <1>2, <1>3

\* Only a write, a truncate and the removal of a version change version
\* documents.
LEMMA VersStay ==
    ASSUME TypeInv, NameInv, NEW c \in Clients, Step(c) \/ Call(c), ~Works(c),
           NEW v \in AnyVer
    PROVE  vers'[v] = vers[v] \/ vers'[v] = NoDoc
<1>1. loc[c].pc \notin WriteSteps
  BY DEF NameInv, Phase, Works
<1>2. ~VerInsert(c) /\ ~VerSet(c) /\ ~TruncSet(c)
  BY <1>1 DEF VerInsert, VerSet, TruncSet, At, WriteSteps
<1>3. CASE VerRemove(c)
  BY <1>3 DEF VerRemove, TypeInv, TypeOK
<1> QED
  BY <1>2, <1>3
     DEF Step, Call, OpenSet, CreateInsert, CreatePush, ReadVer, ReadSeg, TempQuery, CurrQuery,
         CopyGet, CopyPut, VerRequery, SegPut, TruncSeg, SegList, SegRemove, RelVer, RelReset,
         RelSize, RelSet, UnlinkQuery, UnlinkEntry, OpenRead, OpenWrite, Create, Release,
         Unlink, Read, Write, Truncate, db

LEMMA GrowsOnlyNext ==
    ASSUME NoShrink, TypeInv, NameInv, CutFree, NEW c \in Clients, Step(c) \/ Call(c), ~Dies(c),
           NEW d \in Clients
    PROVE  GrowsOnly(d)'
<1>1. CASE d # c /\ loc[d].op # "truncate"
  BY <1>1, OthersStay DEF CutFree, GrowsOnly
<1>2. CASE d # c /\ loc[d].op = "truncate"
  <2>1. ~Works(c)
    BY <1>2 DEF CutFree, OneWorks, Works
  <2>2. loc[d].tmp \in AnyVer
    BY DEF TypeInv, TypeOK, Locals
  <2>3. vers'[loc[d].tmp] = vers[loc[d].tmp] \/ ~vers'[loc[d].tmp].here
    BY <2>1, <2>2, VersStay DEF NoDoc
  <2> QED  BY <1>2, <2>3, OthersStay DEF CutFree, GrowsOnly, At
<1>3. CASE d = c /\ ~Works(c)'
  <2>1. loc'[c].pc \notin WriteSteps /\ loc'[c].op # "truncate"
    BY <1>3, NameNext DEF Next, NameInv, Phase, Works
  <2> QED  BY <1>3, <2>1 DEF GrowsOnly, WriteSteps
<1>4. CASE d = c /\ Works(c)'
  <2> SUFFICES GrowsOnly(c)'
    BY <1>4
  <2>1. ASSUME NEW p \in SegNums, Write(c, p) PROVE GrowsOnly(c)'
    BY <2>1, EnterStarts DEF Write, Starts, GrowsOnly
  <2>2. ASSUME NEW p \in 0..MaxSegs, Truncate(c, p) PROVE GrowsOnly(c)'
    <3>1. Starts(c, "truncate", "temp_query", p) /\ UNCHANGED vers
      BY <2>2, EnterStarts DEF Truncate, db
    <3>2. vers[file.temp].here => p >= vers[file.temp].size
      BY <2>2 DEF Truncate, NoShrink
    <3> QED  BY <3>1, <3>2 DEF Starts, GrowsOnly, GrowSteps, At
  <2>3. CASE ~(\E p \in SegNums : Write(c, p)) /\ ~\E p \in 0..MaxSegs : Truncate(c, p)
    <3>1. Works(c) /\ GrowsOnly(c) /\ Phase(loc[c]) /\ ~Ends(c)
      BY <1>4, <2>3, WorksOn, IdleFields DEF CutFree, NameInv, Ends, Works
    <3>2. ASSUME NEW p, NEW v, NEW i, NEW n, Turns(c, p, v, i, n),
                 \/ p \in {"curr_query", "copy_get", "copy_put", "ver_insert"}
                 \/ loc[c].op = "write" /\ p \in {"ver_requery", "seg_put", "seglist", "seg_rm", "ver_set"}
          PROVE  GrowsOnly(c)'
      BY <3>2 DEF Turns, GrowsOnly, GrowSteps, At
    <3>3. CASE TempQuery(c)
      <4>1. \/ Passes(c, "curr_query") \/ Passes(c, "ver_insert")
            \/ Passes(c, "seg_put") /\ loc[c].op = "write"
        BY <3>1, <3>3, TempQueryDoes
      <4> QED  BY <3>2, <4>1 DEF Passes
    <3>4. CASE CurrQuery(c) \/ CopyGet(c) \/ CopyPut(c)
      BY <3>1, <3>2, <3>4, CopyDoes DEF Passes
    <3>5. CASE VerInsert(c)
      BY <3>1, <3>2, <3>5, VersionDoes DEF Passes
    <3>6. CASE loc[c].op = "write" /\ (VerRequery(c) \/ SegPut(c) \/ VerSet(c))
      BY <3>1, <3>2, <3>6, VersionDoes DEF Passes
    <3>7. CASE loc[c].op = "write" /\ (SegList(c) \/ SegRemove(c))
      BY <3>1, <3>2, <3>7, TailDoes DEF Passes
    <3> QED  BY <3>1, <3>3, <3>4, <3>5, <3>6, <3>7, WorkIs
  <2> QED  BY <1>4, <2>1, <2>2, <2>3
<1> QED  BY <1>1, <1>2, <1>3, <1>4

LEMMA NoneDies == ASSUME TypeInv, NothingCut, NEW c \in Clients PROVE ~Dies(c)
<1> SUFFICES ASSUME Dies(c) PROVE FALSE
  OBVIOUS
<1>1. loc[c].idx \in SegNums /\ loc[c].cur \in SegVers
  BY ConstantsAssumption DEF Dies, TypeInv, TypeOK, Locals, LocalsOK, SegNums, SegVers
<1> QED  BY <1>1 DEF Dies, NothingCut

LEMMA KilledFields ==
    ASSUME Killed, NEW c \in Clients
    PROVE  loc'[c].pc = "idle" /\ loc'[c].op = "none" /\ handle'[c] = "none"
BY IdleFields DEF Killed

LEMMA CutFreeNext ==
    ASSUME NoShrink, TypeInv, NameInv, CutFree, [Next]_vars PROVE CutFree'
<1>1. ASSUME NEW c \in Clients, Step(c) \/ Call(c) PROVE CutFree'
  <2>1. ~Dies(c)
    BY NoneDies DEF CutFree
  <2> QED  BY <1>1, <2>1, NothingCutNext, OneWorksNext, GrowsOnlyNext DEF CutFree
<1>2. CASE Crash
  <2>1. NothingCut'
    BY <1>2 DEF Crash, db, CutFree, NothingCut
  <2>2. \A c \in Clients : ~Works(c)' /\ GrowsOnly(c)'
    BY <1>2, KilledFields DEF Crash, Works, GrowsOnly
  <2> QED  BY <2>1, <2>2 DEF CutFree, OneWorks
<1>3. CASE UNCHANGED vars
  BY <1>3 DEF vars, CutFree, NothingCut, OneWorks, Works, GrowsOnly, At
<1> QED  BY <1>1, <1>2, <1>3 DEF Next

-----------------------------------------------------------------------------
(* The temp version has a writer.  A file made by create() has no current    *)
(* version until its creator publishes one, so its release never mistakes    *)
(* the handle for a reader's.                                                *)

CreatorInv ==
    \A c \in Clients :
        \/ At(c, "create_push")
        \/ handle[c] = "new" /\ Holds(c)
        => file.data = NoVer

HolderInv == CreatorInv /\ TempMeansWriter

\* Who holds the temp version keeps it while others take their steps.
LEMMA HolderEntry ==
    ASSUME FullInv, NEW c \in Clients, Step(c) \/ Call(c), ~Dies(c),
           NEW d \in Clients, d # c, Holds(d)
    PROVE  UNCHANGED file /\ Holds(d)'
<1> USE DEF FullInv, AllInv
<1>1. file.here /\ file.temp # NoVer /\ handle[d] # "none"
  BY DEF LockInv, WriterHoldsTemp, Holds, Writing
<1>2. ~OpenSet(c)
  BY <1>1 DEF OpenSet, LockInv, Phase, OpenKnows, At
<1>3. ~CreateInsert(c) /\ ~UnlinkEntry(c)
  BY <1>1 DEF CreateInsert, UnlinkEntry, NameInv, Phase, At, Exclusive
<1>4. ~RelReset(c) /\ ~RelSet(c)
  <2>1. ~Holds(c)
    BY DEF LockInv, SingleWriter
  <2> QED  BY <2>1, ReleaseHolds DEF RelReset, RelSet, At, ReleaseSteps
<1>5. UNCHANGED file
  BY <1>2, <1>3, <1>4
     DEF Step, Call, CreatePush, ReadVer, ReadSeg, TempQuery, CurrQuery, CopyGet, CopyPut,
         VerInsert, VerRequery, SegPut, VerSet, TruncSet, TruncSeg, SegList, SegRemove,
         VerRemove, RelVer, RelSize, UnlinkQuery, OpenRead, OpenWrite, Create, Release,
         Unlink, Read, Write, Truncate, db
<1> QED  BY <1>5, OthersStay DEF Holds, Published, Writing

LEMMA RemovalDoes ==
    ASSUME TypeInv, NEW c \in Clients, loc[c].op \in {"release", "unlink"},
           SegList(c) \/ SegRemove(c)
    PROVE  \/ Passes(c, "ver_rm")
           \/ \E i, n : Turns(c, "seg_rm", loc[c].vic, i, n)
<1>1. AfterSegments(c) => Passes(c, "ver_rm")
  BY GotoTurns DEF AfterSegments, Passes
<1>2. CASE SegList(c) /\ ~AfterSegments(c)
  <2>1. loc' = [loc EXCEPT ![c] = Loop(@, "seg_rm", RemoveFrom(c), vers[loc[c].vic].data)]
    BY <1>2 DEF SegList
  <2>2. Turns(c, "seg_rm", loc[c].vic, RemoveFrom(c), vers[loc[c].vic].data)
    BY <2>1, LoopTurns
  <2> QED  BY <2>2
<1>3. CASE SegRemove(c) /\ ~AfterSegments(c)
  <2>1. loc' = [loc EXCEPT ![c].idx = loc[c].idx + 1] /\ loc[c].pc = "seg_rm"
    BY <1>3 DEF SegRemove, At
  <2>2. Turns(c, "seg_rm", loc[c].vic, loc[c].idx + 1, loc[c].lim)
    BY <2>1, IdxTurns
  <2> QED  BY <2>2
<1> QED  BY <1>1, <1>2, <1>3

\* Whoever holds the temp version keeps it until its release publishes or
\* discards it.
LEMMA HolderStays ==
    ASSUME FullInv, CutFree, HolderInv, NEW c \in Clients, Step(c) \/ Call(c), Holds(c),
           ~RelReset(c), ~RelSet(c)
    PROVE  Holds(c)'
<1> USE DEF FullInv, AllInv
<1>1. /\ file.here /\ file.temp # NoVer /\ Writing(c) /\ ~Dies(c)
      /\ Phase(loc[c]) /\ loc[c].op \notin {"create", "unlink"}
  BY NoneDies DEF LockInv, WriterHoldsTemp, Holds, Writing, CutFree, NameInv, Exclusive
<1>2. CASE WorkSteps(c)
  <2>1. ~VerRemove(c) /\ ~UnlinkQuery(c)
    BY <1>1 DEF VerRemove, UnlinkQuery, At, Phase, Holds, Published
  <2>2. handle' = handle
    BY <1>1, <1>2, <2>1
       DEF WorkSteps, ReadVer, ReadSeg, TempQuery, CurrQuery, CopyGet, CopyPut, VerInsert,
           VerRequery, SegPut, VerSet, TruncSet, TruncSeg, SegList, SegRemove, RelVer, RelSize,
           UnlinkEntry, Dies, At
  <2>3. Ends(c) \/ Continues(c)
    BY <1>1, <1>2, <2>1, WorkTurns
  <2>4. ~Published(c)'
    <3>1. CASE Ends(c)
      BY <3>1, IdleFields DEF Ends, Published
    <3>2. CASE Continues(c) /\ loc[c].op = "release"
      <4>1. PICK p, v, i, n : Leads(c, p, v) /\ Turns(c, p, v, i, n)
        BY <3>2 DEF Continues
      <4>2. loc[c].pc \in {"rel_ver", "rel_size"}
        BY <1>1, <1>2, <3>2
           DEF WorkSteps, ReadVer, ReadSeg, TempQuery, CurrQuery, CopyGet, CopyPut, VerInsert,
               VerRequery, SegPut, VerSet, TruncSet, TruncSeg, SegList, SegRemove, VerRemove,
               RelVer, RelSize, UnlinkQuery, UnlinkEntry, At, Phase, WriteSteps, Holds, Published
      <4> QED  BY <4>1, <4>2 DEF Turns, Leads, Published, WriteSteps, ReleaseSteps
    <3>3. CASE Continues(c) /\ loc[c].op # "release"
      BY <3>3 DEF Continues, Turns, Published
    <3> QED  BY <2>3, <3>1, <3>2, <3>3
  <2> QED  BY <1>1, <2>2, <2>4 DEF Holds, Writing
<1>3. CASE Step(c) /\ ~WorkSteps(c)
  <2>1. FALSE
    BY <1>1, <1>3 DEF Step, WorkSteps, OpenSet, CreateInsert, CreatePush, At, Phase,
       LockInv, OpenKnows, Writing
  <2> QED  BY <2>1
<1>4. CASE Call(c)
  <2>1. ~OpenRead(c) /\ ~OpenWrite(c) /\ ~Create(c) /\ ~Unlink(c)
    BY <1>1 DEF OpenRead, OpenWrite, Create, Unlink, Writing
  <2>2. CASE Release(c)
    <3>1. Commits(c)
      BY <1>1 DEF Commits, HolderInv, CreatorInv, Writing
    <3>2. Starts(c, "release", "rel_ver", 0) /\ UNCHANGED handle
      BY <1>1, <2>2, <3>1, EnterStarts DEF Release
    <3> QED  BY <1>1, <3>2 DEF Starts, Holds, Published, Writing
  <2>3. ASSUME NEW p, Read(c, p) \/ Write(c, p) \/ Truncate(c, p) PROVE Holds(c)'
    <3>1. /\ Starts(c, "read", "read_ver", p) \/ Starts(c, "truncate", "temp_query", p)
             \/ Starts(c, "write", "temp_query", p)
          /\ UNCHANGED handle
      BY <2>3, EnterStarts DEF Read, Write, Truncate
    <3> QED  BY <1>1, <3>1 DEF Starts, Holds, Published, Writing
  <2> QED  BY <1>4, <2>1, <2>2, <2>3 DEF Call
<1> QED  BY <1>2, <1>3, <1>4

\* Who holds a version after a step held it before, or has just set it.
LEMMA HeldBefore ==
    ASSUME FullInv, CutFree, NEW c \in Clients, Step(c) \/ Call(c), ~OpenSet(c), ~CreatePush(c),
           Holds(c)'
    PROVE  UNCHANGED <<handle, file>> /\ Holds(c)
<1> USE DEF FullInv, AllInv
<1>1. ~OpenRead(c) /\ ~Close(c)
  BY DEF OpenRead, Close, Holds, Writing, TypeInv, TypeOK
<1>2. ~Dies(c)
  BY NoneDies DEF CutFree
<1>3. handle' = handle
  BY <1>1, <1>2
     DEF Step, Call, CreateInsert, CreatePush, ReadVer, ReadSeg, TempQuery, CurrQuery, CopyGet,
         CopyPut, VerInsert, VerRequery, SegPut, VerSet, TruncSet, TruncSeg, SegList, SegRemove,
         VerRemove, RelVer, RelReset, RelSize, RelSet, UnlinkQuery, UnlinkEntry, OpenWrite,
         Create, Release, Unlink, Read, Write, Truncate, Dies, At
<1>4. Writing(c) /\ loc[c].op \notin {"create", "unlink"} /\ Phase(loc[c])
  BY <1>3 DEF Holds, Writing, NameInv, Exclusive
<1>5. ~Published(c)
  <2> SUFFICES ASSUME Published(c) PROVE FALSE
    OBVIOUS
  <2>1. Step(c) /\ ~VerRemove(c)
    BY <1>1 DEF Call, OpenWrite, Create, Release, Unlink, Read, Write, Truncate, Alone, At,
       Published, VerRemove
  <2>2. SegList(c) \/ SegRemove(c)
    BY <2>1 DEF Step, OpenSet, CreateInsert, CreatePush, ReadVer, ReadSeg, TempQuery, CurrQuery,
       CopyGet, CopyPut, VerInsert, VerRequery, SegPut, VerSet, TruncSet, TruncSeg, RelVer,
       RelReset, RelSize, RelSet, UnlinkQuery, UnlinkEntry, Published, At
  <2> QED  BY <2>2, RemovalDoes DEF Passes, Turns, Published, Holds
<1>6. ~RelSet(c)
  <2> SUFFICES ASSUME RelSet(c) PROVE FALSE
    OBVIOUS
  <2>1. loc[c].op = "release" /\ Turns(c, "seglist", loc[c].cur, loc[c].idx, loc[c].lim)
    BY <1>4, RemovingTurns DEF RelSet, At, Phase, ReleaseSteps
  <2> QED  BY <2>1 DEF Turns, Holds, Published
<1>7. UNCHANGED file
  BY <1>1, <1>4, <1>6
     DEF Step, Call, CreateInsert, CreatePush, ReadVer, ReadSeg, TempQuery, CurrQuery, CopyGet,
         CopyPut, VerInsert, VerRequery, SegPut, VerSet, TruncSet, TruncSeg, SegList, SegRemove,
         VerRemove, RelVer, RelReset, RelSize, UnlinkQuery, UnlinkEntry, OpenWrite,
         Create, Release, Unlink, Read, Write, Truncate, At, Phase, db
<1> QED  BY <1>3, <1>4, <1>5, <1>7 DEF Holds

\* While a client creates or unlinks the name, no other takes a step that
\* changes the entry.
LEMMA ExclusiveEntry ==
    ASSUME FullInv, NEW c \in Clients, Step(c) \/ Call(c),
           NEW d \in Clients, d # c, Exclusive(d)
    PROVE  UNCHANGED file
<1>1. At(c, "idle")
  BY DEF FullInv, NameInv
<1> QED
  BY <1>1
     DEF Step, Call, OpenSet, CreateInsert, CreatePush, ReadVer, ReadSeg, TempQuery, CurrQuery,
         CopyGet, CopyPut, VerInsert, VerRequery, SegPut, VerSet, TruncSet, TruncSeg, SegList,
         SegRemove, VerRemove, RelVer, RelReset, RelSize, RelSet, UnlinkQuery, UnlinkEntry,
         OpenRead, OpenWrite, Create, Release, Unlink, Read, Write, Truncate, At, db

LEMMA CreatorNext ==
    ASSUME FullInv, CutFree, HolderInv, NEW c \in Clients, Step(c) \/ Call(c), NEW d \in Clients,
           At(d, "create_push")' \/ (handle'[d] = "new" /\ Holds(d)')
    PROVE  file'.data = NoVer
<1> USE DEF FullInv, AllInv
<1>1. ~Dies(c)
  BY NoneDies DEF CutFree
<1>2. CASE d # c
  <2>1. loc'[d] = loc[d] /\ handle'[d] = handle[d]
    BY <1>1, <1>2, OthersStay
  <2>2. CASE At(d, "create_push")
    <3>1. Exclusive(d)
      BY <2>2 DEF NameInv, Phase, At, Exclusive
    <3> QED  BY <1>2, <2>2, <3>1, ExclusiveEntry DEF HolderInv, CreatorInv
  <2>3. CASE handle[d] = "new" /\ Holds(d)
    BY <1>1, <1>2, <2>3, HolderEntry DEF HolderInv, CreatorInv
  <2> QED  BY <2>1, <2>2, <2>3 DEF At, Holds, Published, Writing
<1>3. CASE d = c /\ CreatePush(c)
  BY <1>3 DEF CreatePush, HolderInv, CreatorInv
<1>4. CASE d = c /\ CreateInsert(c)
  BY <1>4 DEF CreateInsert, NameInv
<1>5. CASE d = c /\ ~CreatePush(c) /\ ~CreateInsert(c)
  <2>1. loc'[c].pc # "create_push"
    <3>1. CASE WorkSteps(c)
      BY <1>1, <3>1, WorkProceeds DEF Proceeds, NameInv
    <3>2. CASE OpenSet(c)
      BY <3>2, DoneMoves, IdleFields DEF OpenSet, Ends
    <3>3. CASE OpenWrite(c) \/ Create(c) \/ Unlink(c)
      BY <3>3 DEF OpenWrite, Create, Unlink, Generate, Request, TypeInv, TypeOK
    <3>4. CASE OpenRead(c) \/ (Release(c) /\ UNCHANGED loc)
      BY <3>4 DEF OpenRead, Release, At
    <3>5. CASE Release(c) /\ ~UNCHANGED loc
      BY <3>5, EnterStarts DEF Release, Starts
    <3>6. ASSUME NEW p, Read(c, p) \/ Write(c, p) \/ Truncate(c, p) PROVE loc'[c].pc # "create_push"
      BY <3>6, EnterStarts DEF Read, Write, Truncate, Starts
    <3> QED  BY <1>5, <3>1, <3>2, <3>3, <3>4, <3>5, <3>6 DEF Step, WorkSteps, Call
  <2>2. Holds(c)' /\ handle'[c] = "new"
    BY <1>5, <2>1 DEF At
  <2>3. ~OpenSet(c)
    BY <2>2 DEF OpenSet, TypeInv, TypeOK
  <2> QED  BY <1>5, <2>2, <2>3, HeldBefore DEF HolderInv, CreatorInv
<1> QED  BY <1>2, <1>3, <1>4, <1>5

\* Only these steps leave a temp version in the entry that was not there.
LEMMA WriterNext ==
    ASSUME FullInv, CutFree, HolderInv, NEW c \in Clients, Step(c) \/ Call(c)
    PROVE  TempMeansWriter'
<1> USE DEF FullInv, AllInv
<1> SUFFICES ASSUME file'.temp # NoVer
             PROVE  \E d \in Clients : Holds(d)' \/ Exclusive(d)'
  BY DEF TempMeansWriter, Exclusive
<1>1. ~Dies(c)
  BY NoneDies DEF CutFree
<1>2. CASE OpenSet(c) \/ CreatePush(c)
  <2>1. Writing(c)' /\ loc'[c].op = "none"
    BY <1>2, DoneMoves, IdleFields DEF OpenSet, CreatePush, Writing, Ends, TypeInv, TypeOK
  <2> QED  BY <2>1 DEF Holds, Published
<1>3. CASE CreateInsert(c)
  <2>1. loc'[c].op = "create"
    BY <1>3, GotoMoves DEF CreateInsert, MovesTo, NameInv, Phase, At
  <2> QED  BY <2>1 DEF Exclusive
<1>4. ~RelReset(c) /\ ~RelSet(c) /\ ~UnlinkEntry(c)
  <2>1. ~UnlinkEntry(c)
    BY DEF UnlinkEntry, NoFile
  <2>2. ~RelReset(c) /\ ~RelSet(c)
    <3>1. RelReset(c) \/ RelSet(c) => file.here
      BY ReleaseHolds DEF RelReset, RelSet, At, ReleaseSteps
    <3> QED  BY <3>1 DEF RelReset, RelSet, TypeInv, TypeOK, Files
  <2> QED  BY <2>1, <2>2
<1>5. CASE ~OpenSet(c) /\ ~CreatePush(c) /\ ~CreateInsert(c)
  <2>1. UNCHANGED file
    BY <1>4, <1>5
       DEF Step, Call, CreatePush, ReadVer, ReadSeg, TempQuery, CurrQuery, CopyGet, CopyPut,
           VerInsert, VerRequery, SegPut, VerSet, TruncSet, TruncSeg, SegList, SegRemove,
           VerRemove, RelVer, RelSize, UnlinkQuery, OpenRead, OpenWrite, Create, Release,
           Unlink, Read, Write, Truncate, db
  <2>2. PICK d \in Clients : Holds(d) \/ Exclusive(d)
    BY <2>1 DEF HolderInv, TempMeansWriter, Exclusive
  <2>3. CASE d # c
    BY <1>1, <2>2, <2>3, OthersStay DEF Holds, Published, Writing, Exclusive
  <2>4. CASE d = c /\ Holds(c)
    BY <1>4, <2>4, HolderStays
  <2>5. CASE d = c /\ loc[c].op = "create"
    <3>1. loc[c].pc \notin {"idle", "create_insert", "create_push"}
      BY <1>5, <2>5
         DEF NameInv, Phase, Step, Call, OpenSet, CreateInsert, CreatePush, ReadVer, ReadSeg,
             TempQuery, CurrQuery, CopyGet, CopyPut, VerInsert, VerRequery, SegPut, VerSet,
             TruncSet, TruncSeg, SegList, SegRemove, VerRemove, RelVer, RelReset, RelSize,
             RelSet, UnlinkQuery, UnlinkEntry, OpenRead, OpenWrite, Create, Release, Unlink,
             Read, Write, Truncate, Alone, At
    <3>2. loc[c].pc \in Pcs /\ Phase(loc[c])
      BY DEF TypeInv, TypeOK, Locals, NameInv
    <3> QED  BY <2>5, <3>1, <3>2 DEF Pcs, Phase, WriteSteps, ReleaseSteps
  <2>6. CASE d = c /\ loc[c].op = "unlink"
    <3>1. Phase(loc[c]) /\ loc[c].pc # "idle" /\ handle[c] = "none"
      BY <2>6 DEF NameInv, Phase, Exclusive
    <3>2. \/ UnlinkQuery(c) \/ SegList(c) \/ SegRemove(c) \/ VerRemove(c)
      BY <1>4, <1>5, <2>6, <3>1
         DEF Phase, Step, Call, OpenSet, CreateInsert, CreatePush, ReadVer, ReadSeg,
             TempQuery, CurrQuery, CopyGet, CopyPut, VerInsert, VerRequery, SegPut, VerSet,
             TruncSet, TruncSeg, RelVer, RelReset, RelSize, RelSet,
             OpenRead, OpenWrite, Create, Release, Unlink, Read, Write, Truncate, Alone, At,
             WriteSteps, ReleaseSteps
    <3>3. loc'[c].op = "unlink"
      <4>1. CASE UnlinkQuery(c)
        BY <4>1, UnlinkQueryMoves
      <4>2. CASE SegList(c) \/ SegRemove(c)
        BY <2>6, <4>2, RemovalDoes DEF Passes, Turns
      <4>3. CASE VerRemove(c)
        BY <2>6, <4>3, RemovingMoves, GotoMoves DEF VerRemove, MovesTo
      <4> QED  BY <3>2, <4>1, <4>2, <4>3
    <3> QED  BY <3>3 DEF Exclusive
  <2> QED  BY <2>2, <2>3, <2>4, <2>5, <2>6 DEF Exclusive
<1> QED  BY <1>2, <1>3, <1>5

LEMMA HolderInit == Init => HolderInv
BY IdleFields DEF Init, HolderInv, CreatorInv, TempMeansWriter, At, NoFile

LEMMA HolderNext ==
    ASSUME NoCrash, FullInv, CutFree, HolderInv, [Next]_vars PROVE HolderInv'
<1>1. ASSUME NEW c \in Clients, Step(c) \/ Call(c) PROVE HolderInv'
  BY <1>1, CreatorNext, WriterNext DEF HolderInv, CreatorInv
<1>2. CASE UNCHANGED vars
  BY <1>2 DEF vars, HolderInv, CreatorInv, TempMeansWriter, At, Holds, Published, Writing
<1> QED  BY <1>1, <1>2 DEF Next, Crash, NoCrash

LEMMA CalmInvariant == ASSUME Disciplined, NoShrink PROVE Spec => [](FullInv /\ CutFree)
<1>1. FullInv /\ CutFree /\ [Next]_vars => CutFree'
  BY CutFreeNext DEF FullInv, AllInv
<1> QED  BY <1>1, CutFreeInit, FullInvariant, PTL DEF Spec

\* "If there is already a temp version there, it means that some one is
\* writing to the file now" (fs/file.cc:59): as long as opens for writing do
\* not overlap, no truncate cuts what is being written and the process is not
\* killed, the temp version that makes an open fail has a writer that will
\* release it, whatever truncates by path and sparse writes happen.
THEOREM WriterBehindTemp ==
    ASSUME Disciplined, NoShrink, NoCrash PROVE Spec => []TempMeansWriter
<1>1. FullInv /\ CutFree /\ HolderInv /\ [Next]_vars => HolderInv'
  BY HolderNext
<1>2. HolderInv => TempMeansWriter
  BY DEF HolderInv
<1> QED  BY <1>1, <1>2, HolderInit, CalmInvariant, PTL DEF Spec

-----------------------------------------------------------------------------
(* A version is complete before it is published.  Without sparse writes a    *)
(* write fills the version it extends: what each step of a write, a truncate *)
(* and a release knows of the segments of the temp version.                  *)

NoSparse == "sparse" \notin Env

Filled(v, n) == \A i \in SegNums : i < n => segs[<<v, i>>] = "data"
TempFilled == Filled(file.temp, vers[file.temp].size)

\* The segment is in place and the version's document about to say so.
InWrite(c) == loc[c].op = "write" /\ loc[c].pc \in {"seglist", "seg_rm", "ver_set"}

WorkOf(c) ==
    LET l == loc[c]
        v == vers[l.tmp]
    IN  Works(c) /\ l.tmp = file.temp /\ l.tmp # NoVer =>
          /\ l.pc \in {"ver_requery", "seg_put"} \/ InWrite(c) => v.here
          /\ \/ At(c, "temp_query") /\ l.op = "write" /\ v.here
             \/ l.pc \in {"ver_requery", "seg_put"}
             => l.pos <= v.size
          /\ l.pc \in {"curr_query", "copy_get", "copy_put", "ver_insert"} => ~v.here
          /\ l.pc \in {"copy_get", "copy_put"} => Filled(l.tmp, l.idx)
          /\ At(c, "ver_insert") => Filled(l.tmp, l.pos)
          /\ InWrite(c) => Filled(l.tmp, l.pos + 1)
          /\ InWrite(c) /\ At(c, "seg_rm") => l.idx > l.pos

HoldOf(c) ==
    LET v == vers[file.temp]
    IN  Holds(c) =>
          /\ loc[c].pc \in {"rel_size", "rel_set"} => v.here
          /\ At(c, "rel_set") => loc[c].lim = v.size
          /\ v.here /\ ~InWrite(c) => Filled(file.temp, v.size)

\* A file that was just made is empty, and one that is listed is complete.
EmptyFirst ==
    /\ \A c \in Clients : At(c, "create_push") =>
          file.data = NoVer /\ file.size = 0 /\ ~vers[file.temp].here
    /\ listed = 1 /\ file.data = NoVer => file.size = 0
Complete ==
    listed = 1 /\ file.data # NoVer =>
        vers[file.data].here /\ vers[file.data].size = file.size /\ Filled(file.data, file.size)

IntactInv == (\A c \in Clients : WorkOf(c) /\ HoldOf(c)) /\ EmptyFirst /\ Complete

LEMMA IntactInit == Init => IntactInv
BY IdleFields
   DEF Init, IntactInv, WorkOf, HoldOf, EmptyFirst, Complete, Works, Holds, Writing, At

SameDocs(v) ==
    vers'[v] = vers[v] /\ \A i \in SegNums : segs'[<<v, i>>] = segs[<<v, i>>]

LEMMA SameFilled == ASSUME NEW v, SameDocs(v), NEW n PROVE Filled(v, n)' <=> Filled(v, n)
BY DEF SameDocs, Filled

LEMMA UntouchedDocs ==
    ASSUME NEW w, NEW v \in AnyVer, OnlyDocs(w), v # w, v # NoVer PROVE SameDocs(v)
<1>1. v \in SegVers /\ v # Unsigned(w)
  BY DEF Unsigned, SegVers, AnyVer, Versions, NoVer, WrappedVer
<1> QED  BY <1>1 DEF OnlyDocs, SameDocs

LEMMA VersionTypes ==
    ASSUME TypeInv
    PROVE  /\ file.temp \in AnyVer /\ file.data \in AnyVer /\ file.here \in BOOLEAN
           /\ \A c \in Clients : loc[c].tmp \in AnyVer /\ loc[c].vic \in AnyVer
           /\ \A c \in Clients : loc[c].pos \in 0..MaxSegs /\ loc[c].idx \in 0..MaxSegs
           /\ AnyVer \subseteq Int
BY DEF TypeInv, TypeOK, Files, Locals, AnyVer, Versions, NoVer

\* Inserting a segment where nothing is cut leaves every run of segments filled.
LEMMA InsertFills ==
    ASSUME TypeInv, NothingCut, NEW w \in AnyVer, w # NoVer, NEW j \in SegNums, InsertSeg(w, j)
    PROVE  /\ segs'[<<w, j>>] = "data"
           /\ \A v \in AnyVer, i \in SegNums : segs[<<v, i>>] = "data" => segs'[<<v, i>>] = "data"
<1>1. Unsigned(w) = w /\ w \in SegVers /\ segs[<<w, j>>] \in SegDocs \ {"cut"}
  BY DEF Unsigned, SegVers, NothingCut, TypeInv, TypeOK, SegIds
<1> QED  BY <1>1 DEF InsertSeg, SegDocs, TypeInv, TypeOK, SegIds

\* A client that neither writes nor truncates does not touch the temp version
\* while another client works on it or holds it.
LEMMA TempUntouched ==
    ASSUME FullInv, NEW c \in Clients, Step(c) \/ Call(c), ~Works(c), file.temp # NoVer,
           NEW d \in Clients, Works(d) \/ Holds(d)
    PROVE  SameDocs(file.temp)
<1> USE DEF FullInv, AllInv
<1>1. Phase(loc[c]) /\ SourceOf(c)
  BY DEF NameInv, SourceInv
<1>2. CASE UNCHANGED <<vers, segs>>
  BY <1>2 DEF SameDocs
<1>3. CASE loc[c].pc \in {"seg_rm", "ver_rm"} /\ OnlyDocs(loc[c].vic)
  <2>1. loc[c].op \in {"release", "unlink"}
    BY <1>1, <1>3 DEF Phase, Works
  <2>2. loc[c].op # "unlink"
    BY DEF NameInv, Exclusive, Holds, Writing, Works, Phase, At
  <2>3. file.here /\ loc[c].vic < file.data
    BY <1>1, <1>3, <2>1, <2>2 DEF SourceOf, Removal
  <2>4. loc[c].vic # file.temp
    BY <2>3, VersionTypes DEF AdvanceInv
  <2> QED  BY <1>3, <2>4, UntouchedDocs, VersionTypes
<1>4. loc[c].pc \notin WriteSteps
  BY <1>1 DEF Phase, Works
<1> QED  BY <1>2, <1>3, <1>4, DocsOf

\* Another client's step does not give a writer a new temp version.
LEMMA OldTemp ==
    ASSUME FullInv, NEW c \in Clients, Step(c) \/ Call(c), NEW d \in Clients, d # c,
           Works(d), loc[d].tmp = file'.temp, file'.temp # NoVer
    PROVE  file'.temp = file.temp
<1> USE DEF FullInv, AllInv
<1>1. CASE OpenSet(c)
  <2>1. file.here
    BY <1>1 DEF OpenSet, LockInv, Phase, OpenKnows, At
  <2>2. file'.temp = loc[c].tmp
    BY <1>1, <2>1 DEF OpenSet, TypeInv, TypeOK, Files
  <2>3. Private(c)
    BY <1>1 DEF OpenSet, At, VersionInv, NewSteps
  <2> QED  BY <2>2, <2>3 DEF Private
<1>2. CASE CreateInsert(c) \/ UnlinkEntry(c)
  <2>1. Exclusive(c)
    BY <1>2 DEF CreateInsert, UnlinkEntry, NameInv, Phase, At, Exclusive
  <2> QED  BY <2>1 DEF NameInv, Phase, At, Works
<1>3. CASE RelReset(c) \/ RelSet(c)
  <2>1. file.here
    BY <1>3, ReleaseHolds DEF RelReset, RelSet, At, ReleaseSteps
  <2>2. file'.temp = NoVer
    BY <1>3, <2>1 DEF RelReset, RelSet, TypeInv, TypeOK, Files
  <2> QED  BY <2>2
<1> QED
  BY <1>1, <1>2, <1>3
     DEF Step, Call, CreatePush, ReadVer, ReadSeg, TempQuery, CurrQuery, CopyGet, CopyPut,
         VerInsert, VerRequery, SegPut, VerSet, TruncSet, TruncSeg, SegList, SegRemove,
         VerRemove, RelVer, RelSize, UnlinkQuery, OpenRead, OpenWrite, Create, Release,
         Unlink, Read, Write, Truncate, db

LEMMA WorkOther ==
    ASSUME FullInv, CutFree, IntactInv, NEW c \in Clients, Step(c) \/ Call(c),
           NEW d \in Clients, d # c
    PROVE  WorkOf(d)'
<1>1. ~Dies(c)
  BY NoneDies DEF CutFree, FullInv, AllInv
<1>2. loc'[d] = loc[d]
  BY <1>1, OthersStay DEF FullInv, AllInv
<1>3. CASE ~Works(d) \/ loc[d].tmp # file'.temp \/ loc[d].tmp = NoVer
  BY <1>2, <1>3 DEF WorkOf, Works
<1>4. CASE Works(d) /\ loc[d].tmp = file'.temp /\ loc[d].tmp # NoVer
  <2>1. file'.temp = file.temp
    BY <1>4, OldTemp
  <2>2. ~Works(c)
    BY <1>4 DEF CutFree, OneWorks
  <2>3. SameDocs(loc[d].tmp)
    BY <1>4, <2>1, <2>2, TempUntouched
  <2>4. \A n : Filled(loc[d].tmp, n)' <=> Filled(loc[d].tmp, n)
    BY <1>2, <2>3 DEF SameDocs, Filled
  <2>5. vers'[loc[d].tmp] = vers[loc[d].tmp]
    BY <2>3 DEF SameDocs
  <2>6. WorkOf(d)
    BY DEF IntactInv
  <2> QED  BY <1>2, <1>4, <2>1, <2>4, <2>5, <2>6 DEF WorkOf, InWrite, Works, At
<1> QED  BY <1>3, <1>4

\* What a truncate by path does to the version someone else is writing: it
\* fills it from the current one as a write would.
LEMMA TruncateFills ==
    ASSUME FullInv, CutFree, IntactInv, NEW c \in Clients, Step(c) \/ Call(c),
           loc[c].op = "truncate", NEW v \in AnyVer, v # NoVer,
           v = loc[c].tmp => v = file.temp \/ vers[v].here
    PROVE  /\ vers[v].here => vers'[v] = vers[v]
           /\ ~vers[v].here /\ vers'[v].here => Filled(v, vers[v].size)'
           /\ \A i \in SegNums : segs[<<v, i>>] = "data" => segs'[<<v, i>>] = "data"
<1> USE DEF FullInv, AllInv
<1>1. GrowsOnly(c) /\ Phase(loc[c]) /\ Works(c)
  BY DEF CutFree, NameInv, Works
<1>2. TempQuery(c) \/ CurrQuery(c) \/ CopyGet(c) \/ CopyPut(c) \/ VerInsert(c)
  BY <1>1, WorkIs
<1>3. CASE UNCHANGED <<vers, segs>>
  BY <1>3
<1>4. CASE loc[c].tmp # v /\ (CopyPut(c) \/ VerInsert(c))
  <2>1. loc[c].pc \in {"copy_put", "ver_insert"}
    BY <1>4 DEF CopyPut, VerInsert, At
  <2>2. SameDocs(v)
    BY <1>4, <2>1, DocsOf, UntouchedDocs DEF SameDocs
  <2> QED  BY <2>2 DEF SameDocs
<1>5. CASE loc[c].tmp = v /\ CopyPut(c)
  <2>1. loc[c].idx \in SegNums
    BY <1>5, ConstantsAssumption DEF CopyPut, At, TypeInv, TypeOK, Locals, LocalsOK, SegNums
  <2>2. InsertSeg(v, loc[c].idx) /\ UNCHANGED vers
    BY <1>5 DEF CopyPut
  <2> QED  BY <2>1, <2>2, InsertFills DEF CutFree
<1>6. CASE loc[c].tmp = v /\ VerInsert(c)
  <2>1. InsertVer(v, loc[c].pos) /\ UNCHANGED segs
    BY <1>6 DEF VerInsert
  <2>2. CASE vers[v].here
    BY <2>1, <2>2 DEF InsertVer
  <2>3. CASE ~vers[v].here
    <3>1. v = file.temp
      BY <1>6, <2>3
    <3>2. Filled(v, loc[c].pos)
      BY <1>1, <1>6, <3>1 DEF VerInsert, IntactInv, WorkOf
    <3>3. vers'[v].size = loc[c].pos
      BY <2>1, <2>3 DEF InsertVer, TypeInv, TypeOK
    <3> QED  BY <2>1, <2>3, <3>2, <3>3 DEF Filled
  <2> QED  BY <2>2, <2>3
<1> QED  BY <1>2, <1>3, <1>4, <1>5, <1>6 DEF TempQuery, CurrQuery, CopyGet, db

LEMMA HoldOther ==
    ASSUME FullInv, CutFree, IntactInv, NEW c \in Clients, Step(c) \/ Call(c),
           NEW d \in Clients, d # c
    PROVE  HoldOf(d)'
<1> USE DEF FullInv, AllInv
<1>1. ~Dies(c)
  BY NoneDies DEF CutFree
<1>2. loc'[d] = loc[d] /\ handle'[d] = handle[d]
  BY <1>1, OthersStay
<1>3. CASE ~Holds(d)
  BY <1>2, <1>3 DEF HoldOf, Holds, Published, Writing
<1>4. CASE Holds(d)
  <2>1. UNCHANGED file /\ HoldOf(d) /\ file.temp # NoVer /\ file.temp \in AnyVer
    BY <1>1, <1>4, HolderEntry, VersionTypes DEF IntactInv, LockInv, WriterHoldsTemp
  <2>2. /\ vers[file.temp].here => vers'[file.temp] = vers[file.temp]
        /\ ~vers[file.temp].here /\ vers'[file.temp].here
              => Filled(file.temp, vers[file.temp].size)'
        /\ vers'[file.temp].here => vers[file.temp].here \/ Works(c)
        /\ \A i \in SegNums : segs[<<file.temp, i>>] = "data" => segs'[<<file.temp, i>>] = "data"
    <3>1. CASE Works(c)
      <4>1. ~Holds(c)
        BY <1>4 DEF LockInv, SingleWriter
      <4>2. loc[c].op = "truncate"
        BY <3>1, <4>1 DEF Works, SourceInv, SourceOf, Holds, Published
      <4> QED  BY <2>1, <3>1, <4>2, TruncateFills
    <3>2. CASE ~Works(c)
      BY <1>4, <2>1, <3>2, TempUntouched DEF SameDocs
    <3> QED  BY <3>1, <3>2
  <2>3. ASSUME vers[file.temp].here, Filled(file.temp, vers[file.temp].size)
        PROVE  Filled(file.temp, vers[file.temp].size)'
    <3>1. vers'[file'.temp].size = vers[file.temp].size /\ file'.temp = file.temp
      BY <2>1, <2>2, <2>3
    <3> QED  BY <2>2, <2>3, <3>1 DEF Filled
  <2> QED  BY <1>2, <1>4, <2>1, <2>2, <2>3 DEF HoldOf, InWrite, At, Holds, Published, Writing
<1> QED  BY <1>3, <1>4

LEMMA WriteFilled ==
    ASSUME FullInv, CutFree, IntactInv, NEW c \in Clients, loc[c].op = "write",
           At(c, "seg_put"), SegPut(c)
    PROVE  Filled(loc[c].tmp, loc[c].pos + 1)'
<1> USE DEF FullInv, AllInv
<1>1. Holds(c) /\ loc[c].tmp = file.temp /\ file.temp # NoVer
  <2>1. SourceOf(c)
    BY DEF SourceInv
  <2>2. Writing(c) /\ loc[c].tmp = file.temp
    BY <2>1 DEF SourceOf, Works
  <2>3. Holds(c)
    BY <2>2 DEF Holds, Published
  <2>4. owner[c] # NoVer /\ file.temp = owner[c]
    BY <2>3 DEF LockInv, WriterHoldsTemp
  <2> QED  BY <2>2, <2>3, <2>4
<1>2. vers[file.temp].here /\ loc[c].pos <= vers[file.temp].size
  BY <1>1 DEF IntactInv, WorkOf, Works, At
<1>3. Filled(file.temp, vers[file.temp].size)
  BY <1>1, <1>2 DEF IntactInv, HoldOf, InWrite, At
<1>4. loc[c].pos \in SegNums /\ loc[c].pos \in Int /\ vers[file.temp].size \in Int
  BY ConstantsAssumption DEF TypeInv, TypeOK, Locals, LocalsOK, SegNums, Files, VerDocs
<1>5. InsertSeg(file.temp, loc[c].pos)
  BY <1>1 DEF SegPut
<1>6. /\ segs'[<<file.temp, loc[c].pos>>] = "data"
      /\ \A i \in SegNums : segs[<<file.temp, i>>] = "data" => segs'[<<file.temp, i>>] = "data"
  BY <1>1, <1>4, <1>5, InsertFills, VersionTypes DEF CutFree
<1>7. loc'[c].tmp = file.temp /\ loc'[c].pos = loc[c].pos
  BY <1>1, VersionDoes DEF Turns
<1>8. ASSUME NEW i \in SegNums, i < loc[c].pos + 1 PROVE segs'[<<file.temp, i>>] = "data"
  <2>1. i < loc[c].pos \/ i = loc[c].pos
    BY <1>4, <1>8 DEF SegNums
  <2>2. i < loc[c].pos => i < vers[file.temp].size
    BY <1>2, <1>4 DEF SegNums
  <2> QED  BY <1>3, <1>6, <2>1, <2>2 DEF Filled
<1> QED  BY <1>7, <1>8 DEF Filled

LEMMA WorkMine ==
    ASSUME NoSparse, FullInv, CutFree, IntactInv, NEW c \in Clients, Step(c) \/ Call(c)
    PROVE  WorkOf(c)'
<1> USE DEF FullInv, AllInv
<1>1. ~Dies(c)
  BY NoneDies DEF CutFree
<1>2. CASE ~Works(c)'
  BY <1>2 DEF WorkOf
<1>3. ASSUME NEW p \in SegNums, Write(c, p) PROVE WorkOf(c)'
  <2>1. Starts(c, "write", "temp_query", p) /\ UNCHANGED <<file, vers>>
    BY <1>3, EnterStarts DEF Write, db
  <2>2. vers[file.temp].here => p <= vers[file.temp].size
    BY <1>3 DEF Write, NoSparse
  <2> QED  BY <2>1, <2>2 DEF Starts, WorkOf, InWrite, At
<1>4. ASSUME NEW p \in 0..MaxSegs, Truncate(c, p) PROVE WorkOf(c)'
  <2>1. Starts(c, "truncate", "temp_query", p)
    BY <1>4, EnterStarts DEF Truncate
  <2> QED  BY <2>1 DEF Starts, WorkOf, InWrite, At
<1>5. CASE /\ Works(c)'
           /\ ~\E p \in SegNums : Write(c, p)
           /\ ~\E p \in 0..MaxSegs : Truncate(c, p)
  <2>1. Works(c) /\ GrowsOnly(c) /\ Phase(loc[c]) /\ ~Ends(c)
    BY <1>1, <1>5, WorksOn, IdleFields DEF CutFree, NameInv, Ends, Works
  <2>2. UNCHANGED file
    BY <2>1, WorkIs
       DEF TempQuery, CurrQuery, CopyGet, CopyPut, VerInsert, VerRequery, SegPut, SegList,
           SegRemove, VerSet, db
  <2>3. loc'[c].tmp = loc[c].tmp /\ loc'[c].op = loc[c].op /\ loc'[c].pos = loc[c].pos
    BY <1>1, <1>5, WorksOn DEF Continues, Turns
  <2>4. CASE loc[c].tmp # file.temp \/ loc[c].tmp = NoVer
    BY <2>2, <2>3, <2>4 DEF WorkOf
  <2>5. CASE loc[c].tmp = file.temp /\ loc[c].tmp # NoVer
    <3> DEFINE t == loc[c].tmp
    <3>0. WorkOf(c) /\ t \in AnyVer /\ loc[c].pos \in Int /\ loc[c].idx \in Int
      BY VersionTypes DEF IntactInv
    <3>1. CASE TempQuery(c)
      <4>1. UNCHANGED <<vers, segs>> /\ At(c, "temp_query")
        BY <3>1 DEF TempQuery, db
      <4>2. Filled(t, 0)
        BY DEF Filled, SegNums
      <4>3. \/ Passes(c, "curr_query") /\ ~vers[t].here
            \/ Passes(c, "ver_insert") /\ ~vers[t].here /\ loc[c].pos = 0
            \/ Passes(c, "seg_put") /\ vers[t].here /\ loc[c].op = "write"
        BY <2>1, <3>1, TempQueryDoes
      <4> QED  BY <2>1, <2>2, <2>3, <2>5, <3>0, <4>1, <4>2, <4>3
                  DEF Passes, Turns, WorkOf, InWrite, At, Filled
    <3>2. CASE CurrQuery(c) \/ CopyGet(c)
      <4>1. UNCHANGED <<vers, segs>> /\ loc[c].pc \in {"curr_query", "copy_get"}
        BY <3>2 DEF CurrQuery, CopyGet, At, db
      <4>2. At(c, "curr_query") => loc[c].idx = 0
        BY DEF At, TypeInv, LocalsOK
      <4>3. At(c, "curr_query") => Filled(t, loc[c].idx)
        BY <4>2 DEF Filled, SegNums
      <4>4. Passes(c, "copy_get") \/ Passes(c, "copy_put")
        BY <1>1, <2>1, <3>2, CopyDoes
      <4> QED  BY <2>1, <2>2, <2>3, <2>5, <3>0, <4>1, <4>3, <4>4
                  DEF Passes, Turns, WorkOf, InWrite, At, Filled
    <3>3. CASE CopyPut(c)
      <4>1. UNCHANGED vers /\ At(c, "copy_put") /\ InsertSeg(t, loc[c].idx)
        BY <3>3 DEF CopyPut
      <4>2. loc[c].idx \in SegNums
        BY <4>1, ConstantsAssumption DEF At, TypeInv, TypeOK, Locals, LocalsOK, SegNums
      <4>3. ~vers[t].here /\ Filled(t, loc[c].idx)
        BY <2>1, <2>5, <3>0, <4>1 DEF WorkOf, At
      <4>4. /\ segs'[<<t, loc[c].idx>>] = "data"
            /\ \A i \in SegNums : segs[<<t, i>>] = "data" => segs'[<<t, i>>] = "data"
        BY <2>5, <3>0, <4>1, <4>2, InsertFills DEF CutFree
      <4>5. \A i \in SegNums : i < loc[c].idx + 1 => segs'[<<t, i>>] = "data"
        <5> SUFFICES ASSUME NEW i \in SegNums, i < loc[c].idx + 1 PROVE segs'[<<t, i>>] = "data"
          OBVIOUS
        <5>1. i < loc[c].idx \/ i = loc[c].idx
          BY <4>2 DEF SegNums
        <5> QED  BY <4>3, <4>4, <5>1 DEF Filled
      <4>6. CASE Turns(c, "copy_get", loc[c].vic, loc[c].idx + 1, 0)
        <5>1. Filled(loc[c].tmp, loc[c].idx)'
          BY <2>3, <4>5, <4>6 DEF Turns, Filled
        <5> QED  BY <2>3, <4>1, <4>3, <4>6, <5>1 DEF Turns, WorkOf, InWrite, At
      <4>7. CASE Passes(c, "ver_insert") /\ loc[c].idx + 1 >= loc[c].pos
        <5>1. \A i \in SegNums : i < loc[c].pos => i < loc[c].idx + 1
          BY <3>0, <4>7 DEF SegNums
        <5>2. Filled(loc[c].tmp, loc[c].pos)'
          BY <2>3, <4>5, <5>1 DEF Filled
        <5> QED  BY <2>3, <4>1, <4>3, <4>7, <5>2 DEF Passes, Turns, WorkOf, InWrite, At
      <4> QED  BY <3>3, <4>6, <4>7, CopyDoes
    <3>4. CASE VerInsert(c)
      <4>1. Passes(c, "ver_requery") /\ ~vers[t].here
        BY <2>1, <2>5, <3>0, <3>4, VersionDoes DEF VerInsert, WorkOf, At
      <4>2. vers'[t].here /\ vers'[t].size = loc[c].pos
        BY <3>0, <3>4, <4>1 DEF VerInsert, InsertVer, TypeInv, TypeOK
      <4> QED  BY <2>3, <3>0, <4>1, <4>2 DEF Passes, Turns, WorkOf, InWrite, At
    <3>5. CASE VerRequery(c) /\ loc[c].op = "write"
      <4>1. Passes(c, "seg_put") /\ UNCHANGED vers /\ At(c, "ver_requery") /\ vers[t].here
        BY <2>1, <3>5, VersionDoes DEF VerRequery, db
      <4>2. loc[c].pos <= vers[t].size
        BY <2>1, <2>5, <3>0, <4>1 DEF WorkOf, At
      <4> QED  BY <2>3, <4>1, <4>2 DEF Passes, Turns, WorkOf, InWrite, At
    <3>6. CASE SegPut(c) /\ loc[c].op = "write"
      <4>1. At(c, "seg_put") /\ UNCHANGED vers /\ vers[t].here
        BY <2>1, <2>5, <3>0, <3>6 DEF SegPut, WorkOf, At
      <4>2. loc'[c].pc = "seglist" /\ Filled(loc[c].tmp, loc[c].pos + 1)'
        BY <3>6, <4>1, VersionDoes, WriteFilled DEF Turns
      <4> QED  BY <2>3, <4>1, <4>2 DEF WorkOf, InWrite, At
    <3>7. CASE (SegList(c) \/ SegRemove(c)) /\ loc[c].op = "write"
      <4>1. InWrite(c) /\ UNCHANGED vers /\ vers[t].here /\ Filled(t, loc[c].pos + 1)
        <5>1. InWrite(c)
          BY <3>7 DEF SegList, SegRemove, InWrite, At
        <5> QED  BY <2>1, <2>5, <3>0, <3>7, <5>1 DEF SegList, SegRemove, WorkOf, db
      <4>2. \A i \in SegNums : i < loc[c].pos + 1 => segs'[<<t, i>>] = "data"
        <5>1. CASE SegList(c)
          BY <4>1, <5>1 DEF SegList, db, Filled
        <5>2. CASE SegRemove(c)
          <6>1. loc[c].idx > loc[c].pos
            BY <2>1, <2>5, <3>0, <4>1, <5>2 DEF SegRemove, WorkOf
          <6>2. \A i \in SegNums : i < loc[c].pos + 1 => i # loc[c].idx
            BY <3>0, <6>1 DEF SegNums
          <6>3. segs' = [segs EXCEPT ![<<loc[c].vic, loc[c].idx>>] = "absent"]
            BY <5>2 DEF SegRemove
          <6>4. \A i \in SegNums : i < loc[c].pos + 1 => segs'[<<t, i>>] = segs[<<t, i>>]
            BY <3>0, <6>2, <6>3 DEF TypeInv, TypeOK, SegIds, SegVers
          <6> QED  BY <4>1, <6>4 DEF Filled
        <5> QED  BY <3>7, <5>1, <5>2
      <4>3. Filled(loc[c].tmp, loc[c].pos + 1)'
        BY <2>3, <4>2 DEF Filled
      <4>4. \/ loc'[c].pc = "ver_set"
            \/ loc'[c].pc = "seg_rm" /\ loc'[c].idx > loc[c].pos
        <5>1. loc[c].pos + 1 > loc[c].pos /\ (loc[c].idx > loc[c].pos => loc[c].idx + 1 > loc[c].pos)
          BY <3>0
        <5>2. SegRemove(c) => loc[c].idx > loc[c].pos
          BY <2>1, <2>5, <3>0, <4>1 DEF SegRemove, WorkOf
        <5> QED  BY <3>7, <5>1, <5>2, TailDoes DEF Passes, Turns
      <4> QED  BY <2>3, <4>1, <4>3, <4>4 DEF WorkOf, InWrite, At
    <3> QED  BY <2>1, <3>1, <3>2, <3>3, <3>4, <3>5, <3>6, <3>7, WorkIs, VersionDoes
  <2> QED  BY <2>4, <2>5
<1> QED  BY <1>2, <1>3, <1>4, <1>5

\* How a release comes to its last queries.
LEMMA ReleaseSize ==
    ASSUME FullInv, NEW c \in Clients, Step(c) \/ Call(c), ~Dies(c),
           loc'[c].pc \in {"rel_size", "rel_set"}
    PROVE  \/ RelVer(c) /\ loc'[c].pc = "rel_size" /\ vers[loc[c].tmp].here
           \/ RelSize(c) /\ loc'[c].pc = "rel_set"
              /\ loc'[c].lim = IF vers[loc[c].tmp].here THEN vers[loc[c].tmp].size ELSE -1
<1> USE DEF FullInv, AllInv
<1>1. CASE WorkSteps(c)
  <2>1. ~Ends(c) /\ ~UnlinkQuery(c)
    BY IdleFields, UnlinkQueryMoves DEF Ends
  <2>2. Continues(c) /\ Phase(loc[c])
    BY <1>1, <2>1, WorkTurns DEF NameInv
  <2>3. PICK p, v, i, n : Leads(c, p, v) /\ Turns(c, p, v, i, n)
    BY <2>2 DEF Continues
  <2>4. loc[c].pc \in ReleaseSteps
    BY <2>3 DEF Turns, Leads, WriteSteps
  <2>5. RelVer(c) \/ RelReset(c) \/ RelSize(c) \/ RelSet(c)
    BY <1>1, <2>4
       DEF WorkSteps, ReadVer, ReadSeg, TempQuery, CurrQuery, CopyGet, CopyPut, VerInsert,
           VerRequery, SegPut, VerSet, TruncSet, TruncSeg, SegList, SegRemove, VerRemove,
           UnlinkQuery, UnlinkEntry, At, ReleaseSteps
  <2>6. ~RelReset(c)
    BY <2>1, DoneMoves DEF RelReset
  <2>7. ~RelSet(c)
    BY RemovingMoves DEF RelSet, MovesTo
  <2>8. CASE RelVer(c)
    BY <2>8, GotoMoves DEF RelVer, MovesTo
  <2>9. CASE RelSize(c)
    <3> DEFINE sz == IF vers[loc[c].tmp].here THEN vers[loc[c].tmp].size ELSE -1
    <3>1. loc' = [loc EXCEPT ![c] = Loop(@, "rel_set", 0, sz)]
      BY <2>9 DEF RelSize
    <3> HIDE DEF sz
    <3>2. Turns(c, "rel_set", loc[c].vic, 0, sz)
      BY <3>1, LoopTurns
    <3> QED  BY <2>9, <3>2 DEF Turns, sz
  <2> QED  BY <2>5, <2>6, <2>7, <2>8, <2>9
<1>2. CASE OpenSet(c) \/ CreateInsert(c) \/ CreatePush(c)
  BY <1>2, DoneMoves, GotoMoves, IdleFields
     DEF OpenSet, CreateInsert, CreatePush, Ends, MovesTo
<1>3. CASE Call(c)
  <2>1. CASE OpenWrite(c) \/ Create(c) \/ Unlink(c)
    BY <2>1 DEF OpenWrite, Create, Unlink, Generate, Request, TypeInv, TypeOK
  <2>2. CASE OpenRead(c) \/ (Release(c) /\ UNCHANGED loc)
    BY <2>2 DEF OpenRead, Release, At
  <2>3. CASE Release(c) /\ ~UNCHANGED loc
    BY <2>3, EnterStarts DEF Release, Starts
  <2>4. ASSUME NEW p, Read(c, p) \/ Write(c, p) \/ Truncate(c, p) PROVE FALSE
    BY <2>4, EnterStarts DEF Read, Write, Truncate, Starts
  <2> QED  BY <1>3, <2>1, <2>2, <2>3, <2>4 DEF Call
<1> QED  BY <1>1, <1>2, <1>3 DEF Step, WorkSteps

\* A write or a truncate leaves the version it works on filled, unless it is
\* between a segment and the version's document.
LEMMA WorkFills ==
    ASSUME FullInv, CutFree, IntactInv, NEW c \in Clients, Step(c) \/ Call(c), Works(c),
           loc[c].tmp = file.temp, file.temp # NoVer, Holds(c)
    PROVE  vers'[file.temp].here /\ ~InWrite(c)' => TempFilled'
<1> USE DEF FullInv, AllInv
<1> DEFINE t == file.temp
<1>1. WorkOf(c) /\ HoldOf(c) /\ GrowsOnly(c) /\ Phase(loc[c])
      /\ t \in AnyVer /\ loc[c].pos \in Int /\ loc[c].idx \in Int
  BY VersionTypes DEF IntactInv, CutFree, NameInv
<1>2. TempQuery(c) \/ CurrQuery(c) \/ CopyGet(c) \/ CopyPut(c) \/ VerInsert(c)
      \/ (loc[c].op = "write" /\ (VerRequery(c) \/ SegPut(c) \/ SegList(c) \/ SegRemove(c) \/ VerSet(c)))
  BY <1>1, WorkIs
<1>3. CASE TempQuery(c) \/ CurrQuery(c) \/ CopyGet(c) \/ VerRequery(c)
  <2>1. UNCHANGED <<file, vers, segs>> /\ ~InWrite(c)
    BY <1>3 DEF TempQuery, CurrQuery, CopyGet, VerRequery, db, At, InWrite
  <2> QED  BY <1>1, <2>1 DEF HoldOf, TempFilled, Filled
<1>4. CASE CopyPut(c)
  <2>1. ~vers[t].here /\ UNCHANGED vers
    BY <1>1, <1>4 DEF CopyPut, WorkOf, At
  <2> QED  BY <2>1
<1>5. CASE VerInsert(c)
  <2>1. ~vers[t].here /\ Filled(t, loc[c].pos) /\ UNCHANGED <<file, segs>>
    BY <1>1, <1>5 DEF VerInsert, WorkOf, At
  <2>2. vers'[t].size = loc[c].pos
    BY <1>1, <1>5, <2>1 DEF VerInsert, InsertVer, TypeInv, TypeOK
  <2> QED  BY <2>1, <2>2 DEF TempFilled, Filled
<1>6. CASE SegPut(c) /\ loc[c].op = "write"
  BY <1>6, VersionDoes DEF Turns, InWrite
<1>7. CASE (SegList(c) \/ SegRemove(c)) /\ loc[c].op = "write"
  BY <1>7, TailDoes DEF Turns, Passes, InWrite
<1>8. CASE VerSet(c) /\ loc[c].op = "write"
  <2>1. At(c, "ver_set") /\ UNCHANGED <<file, segs>> /\ UpdateVer(t, loc[c].pos + 1, loc[c].pos + 1)
    BY <1>8 DEF VerSet
  <2>2. vers[t].here /\ Filled(t, loc[c].pos + 1)
    BY <1>1, <1>8, <2>1 DEF WorkOf, InWrite, At
  <2>3. vers'[t].size = loc[c].pos + 1
    BY <1>1, <2>1, <2>2 DEF UpdateVer, TypeInv, TypeOK
  <2> QED  BY <2>1, <2>2, <2>3 DEF TempFilled, Filled
<1> QED  BY <1>2, <1>3, <1>4, <1>5, <1>6, <1>7, <1>8

LEMMA HoldMine ==
    ASSUME FullInv, CutFree, IntactInv, NEW c \in Clients, Step(c) \/ Call(c)
    PROVE  HoldOf(c)'
<1> USE DEF FullInv, AllInv
<1> SUFFICES ASSUME Holds(c)' PROVE HoldOf(c)'
  BY DEF HoldOf
<1>0. ~Dies(c)
  BY NoneDies DEF CutFree
<1>1. CASE OpenSet(c)
  <2>1. file.here
    BY <1>1 DEF OpenSet, LockInv, Phase, OpenKnows, At
  <2>2. ~vers[loc[c].tmp].here
    BY <1>1 DEF OpenSet, At, VersionInv, NewSteps, Private, Unused
  <2>3. ~vers'[file'.temp].here /\ loc'[c].pc = "idle"
    BY <1>1, <2>1, <2>2, DoneMoves, IdleFields DEF OpenSet, Ends, TypeInv, TypeOK, Files
  <2> QED  BY <2>3 DEF HoldOf, At
<1>2. CASE CreatePush(c)
  <2>1. ~vers[file.temp].here /\ loc'[c].pc = "idle"
    BY <1>2, DoneMoves, IdleFields DEF CreatePush, Ends, IntactInv, EmptyFirst
  <2> QED  BY <1>2, <2>1 DEF CreatePush, HoldOf, At
<1>3. CASE ~OpenSet(c) /\ ~CreatePush(c)
  <2>1. UNCHANGED file /\ Holds(c) /\ file.temp # NoVer /\ file.temp \in AnyVer
    BY <1>3, HeldBefore, VersionTypes DEF LockInv, WriterHoldsTemp
  <2>2. HoldOf(c) /\ SourceOf(c) /\ Writing(c)
    BY <2>1 DEF IntactInv, SourceInv, Holds
  <2>3. CASE Works(c)
    <3>1. loc[c].tmp = file.temp
      BY <2>2, <2>3 DEF SourceOf
    <3>2. vers'[file.temp].here /\ ~InWrite(c)' => TempFilled'
      BY <2>1, <2>3, <3>1, WorkFills
    <3>3. loc'[c].pc \notin {"rel_size", "rel_set"}
      <4>1. ~RelVer(c) /\ ~RelSize(c)
        BY <2>3, ReleaseHolds DEF RelVer, RelSize, At, ReleaseSteps, Works
      <4> QED  BY <1>0, <4>1, ReleaseSize
    <3> QED  BY <2>1, <3>2, <3>3 DEF HoldOf, At, TempFilled
  <2>4. CASE ~Works(c)
    <3>1. SameDocs(file.temp)
      BY <2>1, <2>4, TempUntouched
    <3>2. vers[file.temp].here => TempFilled
      BY <2>1, <2>2, <2>4 DEF HoldOf, InWrite, Works, TempFilled
    <3>3. vers'[file.temp].here => TempFilled'
      BY <2>1, <3>1, <3>2 DEF SameDocs, TempFilled, Filled
    <3>4. CASE loc'[c].pc \notin {"rel_size", "rel_set"}
      BY <2>1, <3>3, <3>4 DEF HoldOf, At, TempFilled
    <3>5. CASE RelVer(c) /\ loc'[c].pc = "rel_size" /\ vers[loc[c].tmp].here
      <4>1. loc[c].tmp = file.temp
        BY <3>5, ReleaseHolds DEF RelVer, At, ReleaseSteps
      <4> QED  BY <2>1, <3>1, <3>3, <3>5, <4>1 DEF HoldOf, At, TempFilled, SameDocs
    <3>6. CASE RelSize(c) /\ loc'[c].pc = "rel_set"
               /\ loc'[c].lim = IF vers[loc[c].tmp].here THEN vers[loc[c].tmp].size ELSE -1
      <4>1. loc[c].tmp = file.temp
        BY <3>6, ReleaseHolds DEF RelSize, At, ReleaseSteps
      <4>2. vers[file.temp].here
        BY <2>1, <2>2, <3>6 DEF RelSize, At, HoldOf
      <4> QED  BY <2>1, <3>1, <3>3, <3>6, <4>1, <4>2 DEF HoldOf, At, TempFilled, SameDocs
    <3> QED  BY <1>0, <3>4, <3>5, <3>6, ReleaseSize
  <2> QED  BY <2>3, <2>4
<1> QED  BY <1>1, <1>2, <1>3

\* A file that is being made has no version: nobody else has its temp version.
LEMMA NewStaysEmpty ==
    ASSUME FullInv, CutFree, IntactInv, NEW c \in Clients, Step(c) \/ Call(c),
           NEW d \in Clients, At(d, "create_push")'
    PROVE  file'.data = NoVer /\ file'.size = 0 /\ ~vers'[file'.temp].here
<1> USE DEF FullInv, AllInv
<1>0. ~Dies(c)
  BY NoneDies DEF CutFree
<1>1. CASE d # c
  <2>1. At(d, "create_push") /\ Exclusive(d) /\ ~Exclusive(c) /\ At(c, "idle")
    BY <1>0, <1>1, OthersStay DEF At, NameInv, Phase, Exclusive
  <2>2. UNCHANGED file /\ UNCHANGED <<vers, segs>>
    BY <1>1, <2>1, ExclusiveEntry, DocsOf DEF At, WriteSteps
  <2> QED  BY <2>1, <2>2 DEF IntactInv, EmptyFirst
<1>2. CASE d = c /\ CreateInsert(c)
  <2>1. ~file.here /\ Private(c)
    BY <1>2 DEF CreateInsert, NameInv, At, VersionInv, NewSteps
  <2>2. file' = [here |-> TRUE, data |-> NoVer, temp |-> loc[c].tmp, size |-> 0]
        /\ UNCHANGED vers
    BY <1>2, <2>1 DEF CreateInsert
  <2> QED  BY <2>1, <2>2 DEF Private, Unused
<1>3. CASE d = c /\ ~CreateInsert(c)
  <2>1. CASE WorkSteps(c)
    BY <1>0, <1>3, <2>1, WorkProceeds DEF Proceeds, NameInv, At
  <2>2. CASE OpenSet(c) \/ CreatePush(c)
    BY <1>3, <2>2, DoneMoves, IdleFields DEF OpenSet, CreatePush, Ends, At
  <2>3. CASE OpenWrite(c) \/ Create(c) \/ Unlink(c)
    BY <1>3, <2>3 DEF OpenWrite, Create, Unlink, Generate, Request, TypeInv, TypeOK, At
  <2>4. CASE OpenRead(c) \/ (Release(c) /\ UNCHANGED loc)
    BY <1>3, <2>4 DEF OpenRead, Release, At
  <2>5. CASE Release(c) /\ ~UNCHANGED loc
    BY <1>3, <2>5, EnterStarts DEF Release, Starts, At
  <2>6. ASSUME NEW p, Read(c, p) \/ Write(c, p) \/ Truncate(c, p) PROVE FALSE
    BY <1>3, <2>6, EnterStarts DEF Read, Write, Truncate, Starts, At
  <2> QED  BY <1>3, <2>1, <2>2, <2>3, <2>4, <2>5, <2>6 DEF Step, WorkSteps, Call
<1> QED  BY <1>1, <1>2, <1>3

\* What publishing puts in the entry.
LEMMA PublishDoes ==
    ASSUME FullInv, IntactInv, NEW c \in Clients, RelSet(c)
    PROVE  /\ file'.data = file.temp /\ file'.size = vers[file.temp].size
           /\ vers[file.temp].here /\ TempFilled /\ file.temp # NoVer
           /\ UNCHANGED <<vers, segs>>
<1> USE DEF FullInv, AllInv
<1>1. Holds(c) /\ loc[c].op = "release" /\ file.here /\ loc[c].tmp = file.temp
      /\ file.temp # NoVer /\ At(c, "rel_set")
  BY ReleaseHolds DEF RelSet, At, ReleaseSteps
<1>2. file' = [here |-> TRUE, data |-> file.temp, temp |-> NoVer, size |-> loc[c].lim]
      /\ UNCHANGED <<vers, segs>>
  BY <1>1 DEF RelSet
<1>3. HoldOf(c) /\ ~InWrite(c)
  BY <1>1 DEF IntactInv, InWrite, At
<1>4. vers[file.temp].here /\ loc[c].lim = vers[file.temp].size /\ TempFilled
  BY <1>1, <1>3 DEF HoldOf, At, TempFilled
<1> QED  BY <1>1, <1>2, <1>4

\* What every other step leaves of the current version's number and size.
LEMMA EntryKept ==
    ASSUME FullInv, NEW c \in Clients, Step(c) \/ Call(c), ~RelSet(c), listed' = 1
    PROVE  \/ file'.data = file.data /\ file'.size = file.size /\ listed = 1
           \/ CreatePush(c)
<1> USE DEF FullInv, AllInv
<1>1. ~CreateInsert(c) /\ ~UnlinkEntry(c)
  BY DEF CreateInsert, UnlinkEntry, NameInv, Phase, At, Exclusive
<1>2. CASE OpenSet(c) \/ RelReset(c)
  BY <1>2 DEF OpenSet, RelReset, TypeInv, TypeOK, Files
<1>3. ~Unlink(c)
  BY DEF Unlink
<1>4. CASE Step(c) /\ ~OpenSet(c) /\ ~RelReset(c) /\ ~CreatePush(c)
  <2>1. UNCHANGED <<file, listed>>
    BY <1>1, <1>4
       DEF Step, ReadVer, ReadSeg, TempQuery, CurrQuery, CopyGet, CopyPut, VerInsert,
           VerRequery, SegPut, VerSet, TruncSet, TruncSeg, SegList, SegRemove, VerRemove,
           RelVer, RelSize, UnlinkQuery, db
  <2> QED  BY <2>1
<1>5. CASE Call(c)
  <2>1. UNCHANGED <<file, listed>>
    BY <1>3, <1>5 DEF Call, OpenRead, OpenWrite, Create, Release, Read, Write, Truncate, db
  <2> QED  BY <2>1
<1> QED  BY <1>2, <1>4, <1>5

LEMMA CompleteNext ==
    ASSUME FullInv, CutFree, IntactInv, NEW c \in Clients, Step(c) \/ Call(c)
    PROVE  EmptyFirst' /\ Complete'
<1> USE DEF FullInv, AllInv
<1> SUFFICES ASSUME listed' = 1
             PROVE  /\ file'.data = NoVer => file'.size = 0
                    /\ Complete'
  BY NewStaysEmpty DEF EmptyFirst, Complete
<1>1. CASE RelSet(c)
  BY <1>1, PublishDoes DEF TempFilled, Filled, Complete
<1>2. CASE CreatePush(c)
  BY <1>2 DEF CreatePush, IntactInv, EmptyFirst, Complete
<1>3. CASE file'.data = file.data /\ file'.size = file.size /\ listed = 1
  <2>1. CASE file.data = NoVer
    BY <1>3, <2>1 DEF IntactInv, EmptyFirst, Complete
  <2>2. CASE file.data # NoVer
    <3>1. vers[file.data].here /\ vers[file.data].size = file.size /\ Filled(file.data, file.size)
      BY <1>3, <2>2 DEF IntactInv, Complete
    <3>2. CASE SameDocs(file.data)
      BY <1>3, <2>2, <3>1, <3>2 DEF SameDocs, Filled, Complete
    <3>3. CASE ByPath(c)
      BY <1>3, <2>2, <3>1, <3>3, TruncateFills, VersionTypes DEF ByPath, Filled, Complete
    <3> QED  BY <1>3, <2>2, <3>2, <3>3, CurrentKept DEF SameDocs
  <2> QED  BY <2>1, <2>2
<1> QED  BY <1>1, <1>2, <1>3, EntryKept

LEMMA IntactNext ==
    ASSUME NoSparse, FullInv, CutFree, IntactInv, [Next]_vars PROVE IntactInv'
<1>1. ASSUME NEW c \in Clients, Step(c) \/ Call(c) PROVE IntactInv'
  <2>1. ASSUME NEW d \in Clients PROVE WorkOf(d)' /\ HoldOf(d)'
    BY <1>1, <2>1, WorkMine, WorkOther, HoldMine, HoldOther
  <2> QED  BY <1>1, <2>1, CompleteNext DEF IntactInv
<1>2. CASE Crash
  <2>1. UNCHANGED db
    BY <1>2 DEF Crash
  <2>2. \A d \in Clients : ~Works(d)' /\ ~Holds(d)' /\ ~At(d, "create_push")'
    BY <1>2, KilledFields DEF Crash, Works, Holds, Writing, At
  <2>3. \A d \in Clients : WorkOf(d)' /\ HoldOf(d)'
    BY <2>2 DEF WorkOf, HoldOf
  <2> QED  BY <2>1, <2>2, <2>3 DEF IntactInv, EmptyFirst, Complete, Filled, db
<1>3. CASE UNCHANGED vars
  BY <1>3
     DEF vars, IntactInv, WorkOf, HoldOf, EmptyFirst, Complete, Filled, InWrite, Works, Holds,
         Published, Writing, At
<1> QED  BY <1>1, <1>2, <1>3 DEF Next

LEMMA IntactInvariant ==
    ASSUME Disciplined, NoShrink, NoSparse PROVE Spec => [](FullInv /\ CutFree /\ IntactInv)
<1>1. FullInv /\ CutFree /\ IntactInv /\ [Next]_vars => IntactInv'
  BY IntactNext
<1> QED  BY <1>1, IntactInit, CalmInvariant, PTL DEF Spec

\* All segments of the current version can be read, and no more are listed.
LEMMA AllReadable ==
    ASSUME FullInv, IntactInv, listed = 1, file.data # NoVer
    PROVE  /\ vers[file.data].here /\ vers[file.data].size = file.size
           /\ Readable(file.data) = 0..(file.size - 1)
           /\ file.size \in 0..MaxSegs
<1>1. vers[file.data].here /\ vers[file.data].size = file.size /\ Filled(file.data, file.size)
  BY DEF IntactInv, Complete
<1>2. file.data \in AnyVer /\ vers \in [AnyVer -> VerDocs]
  BY VersionTypes DEF FullInv, AllInv, TypeInv, TypeOK
<1>3. file.size \in 0..MaxSegs
  BY <1>1, <1>2 DEF VerDocs
<1>4. 0..(file.size - 1) = {i \in SegNums : i < file.size}
  BY <1>3, ConstantsAssumption DEF SegNums
<1>5. Readable(file.data) = {i \in SegNums : i < file.size}
  BY <1>1 DEF Readable, Filled
<1> QED  BY <1>1, <1>3, <1>4, <1>5

\* A listed file can be read in full: as long as opens for writing do not
\* overlap, no truncate cuts what is being written and no write leaves a gap,
\* a version is published only with its document, its size and every segment,
\* and keeps them, wherever the process is killed and whoever truncates by path.
THEOREM IntactAlways ==
    ASSUME Disciplined, NoShrink, NoSparse PROVE Spec => []ListedIntact
<1>1. FullInv /\ CutFree /\ IntactInv => ListedIntact
  BY AllReadable DEF ListedIntact
<1> QED  BY <1>1, IntactInvariant, PTL

-----------------------------------------------------------------------------
(* The handlers implement VersionedFile.  What it shows of a listed name is   *)
(* the entry: everything the entry counts can be read.                        *)

Count == IF IsListed /\ file.data # NoVer THEN Cardinality(Readable(file.data)) ELSE 0

Shows ==
    /\ IsListed <=> listed = 1
    /\ Count = IF IsListed THEN file.size ELSE 0
    /\ IsListed => file.size \in 0..MaxSegs

LEMMA ShowsEntry == FullInv /\ IntactInv => Shows
<1> SUFFICES ASSUME FullInv, IntactInv PROVE Shows
  OBVIOUS
<1>1. IsListed <=> listed = 1
  BY DEF FullInv, NameInv, IsListed
<1>2. CASE ~IsListed
  BY <1>1, <1>2 DEF Shows, Count
<1>3. CASE IsListed /\ file.data = NoVer
  BY <1>1, <1>3, ConstantsAssumption DEF IntactInv, EmptyFirst, Shows, Count
<1>4. CASE IsListed /\ file.data # NoVer
  <2>1. Readable(file.data) = 0..(file.size - 1) /\ file.size \in 0..MaxSegs
    BY <1>1, <1>4, AllReadable
  <2>2. file.size \in Nat /\ file.size - 1 \in Int /\ 0 \in Int
    BY <2>1, ConstantsAssumption
  <2>3. Cardinality(0..(file.size - 1)) = IF 0 > file.size - 1 THEN 0 ELSE file.size - 1 - 0 + 1
    BY <2>2, FS_Interval, Zenon
  <2>4. Cardinality(Readable(file.data)) = file.size
    BY <2>1, <2>2, <2>3
  <2> QED  BY <1>1, <1>4, <2>1, <2>4 DEF Shows, Count
<1> QED  BY <1>2, <1>3, <1>4

LEMMA PromiseInit == Init => Promise!AbsInit
BY DEF Init, IsListed, NoVer, Promise!AbsInit

LEMMA PromiseStep ==
    ASSUME FullInv, CutFree, IntactInv, Shows, Shows', NEW c \in Clients, Step(c) \/ Call(c)
    PROVE  Promise!AbsNext \/ UNCHANGED Promise!absVars
<1> USE DEF FullInv, AllInv
<1>1. CASE CreatePush(c)
  <2>1. /\ listed = 0 /\ file.data = NoVer /\ file.size = 0 /\ file.temp \in Versions
        /\ file.here /\ listed' = 1 /\ UNCHANGED file
    <3>1. Exclusive(c) /\ loc[c].op = "create" /\ At(c, "create_push")
      BY <1>1 DEF CreatePush, At, NameInv, Phase, Exclusive
    <3>2. file.temp = loc[c].tmp /\ file.temp # NoVer
      BY <3>1 DEF LockInv, ExclusiveKnows
    <3>3. listed = 0 /\ file.here
      BY <3>1 DEF NameInv
    <3>4. file.data = NoVer /\ file.size = 0
      BY <3>1 DEF IntactInv, EmptyFirst
    <3>5. file.temp \in Versions
      BY <3>2, VersionTypes DEF AnyVer
    <3> QED  BY <1>1, <3>3, <3>4, <3>5 DEF CreatePush
  <2>2. Promise!Appear(file.temp)
    BY <2>1 DEF Promise!Appear, Shows, IsListed, Count, NoVer
  <2> QED  BY <2>1, <2>2 DEF Promise!AbsNext
<1>2. CASE OpenSet(c)
  <2>1. /\ file.temp = NoVer /\ loc[c].tmp \in Versions /\ loc[c].tmp > file.data
        /\ file' = [file EXCEPT !.temp = loc[c].tmp] /\ UNCHANGED listed
    BY <1>2, VersionTypes DEF OpenSet, LockInv, Phase, OpenKnows, At, AdvanceInv, AnyVer
  <2>2. /\ file'.here = file.here /\ file'.data = file.data /\ file'.size = file.size
        /\ file'.temp = loc[c].tmp
    BY <2>1 DEF TypeInv, TypeOK, Files
  <2>3. CASE IsListed
    <3>1. Promise!Begin(loc[c].tmp)
      BY <2>1, <2>2, <2>3 DEF Promise!Begin, Shows, IsListed, Count, NoVer
    <3> QED  BY <2>1, <3>1 DEF Promise!AbsNext
  <2>4. CASE ~IsListed
    BY <2>1, <2>2, <2>4 DEF Promise!absVars, IsListed
  <2> QED  BY <2>3, <2>4
<1>3. CASE RelReset(c)
  <2>1. /\ file.temp # NoVer /\ file' = [file EXCEPT !.temp = NoVer] /\ UNCHANGED listed
    BY <1>3, ReleaseHolds DEF RelReset, At, ReleaseSteps
  <2>2. /\ file'.here = file.here /\ file'.data = file.data /\ file'.size = file.size
        /\ file'.temp = NoVer
    BY <2>1 DEF TypeInv, TypeOK, Files
  <2>3. CASE IsListed
    <3>1. Promise!Discard
      BY <2>1, <2>2, <2>3 DEF Promise!Discard, Shows, IsListed, Count, NoVer
    <3> QED  BY <3>1 DEF Promise!AbsNext
  <2>4. CASE ~IsListed
    BY <2>1, <2>2, <2>4 DEF Promise!absVars, IsListed
  <2> QED  BY <2>3, <2>4
<1>4. CASE RelSet(c)
  <2>1. /\ file.temp # NoVer /\ file.here /\ UNCHANGED listed
        /\ file' = [here |-> TRUE, data |-> file.temp, temp |-> NoVer, size |-> loc[c].lim]
    BY <1>4, ReleaseHolds DEF RelSet, At, ReleaseSteps
  <2>2. file'.here /\ file'.data = file.temp /\ file'.temp = NoVer
    BY <2>1
  <2>3. CASE IsListed
    <3>1. IsListed' /\ file'.size \in 0..MaxSegs
      BY <2>1, <2>2, <2>3 DEF IsListed, Shows
    <3>2. Promise!Publish(file'.size)
      BY <2>1, <2>2, <2>3, <3>1 DEF Promise!Publish, Shows, Count, NoVer
    <3> QED  BY <3>1, <3>2 DEF Promise!AbsNext
  <2>4. CASE ~IsListed
    BY <2>1, <2>2, <2>4 DEF Promise!absVars, IsListed
  <2> QED  BY <2>3, <2>4
<1>5. CASE Unlink(c)
  <2>1. listed' = 0 /\ UNCHANGED file
    BY <1>5 DEF Unlink
  <2>2. CASE IsListed
    <3>1. Promise!Disappear
      BY <2>1, <2>2 DEF Promise!Disappear, IsListed, NoVer
    <3> QED  BY <3>1 DEF Promise!AbsNext
  <2>3. CASE ~IsListed
    BY <2>1, <2>3 DEF Promise!absVars, IsListed
  <2> QED  BY <2>2, <2>3
<1>6. CASE CreateInsert(c) \/ UnlinkEntry(c)
  <2>1. listed = 0 /\ UNCHANGED listed
    BY <1>6 DEF CreateInsert, UnlinkEntry, NameInv, Phase, At, Exclusive
  <2> QED  BY <2>1 DEF Promise!absVars, IsListed
<1>7. CASE UNCHANGED <<file, listed>>
  <2>1. IsListed' = IsListed /\ Count' = Count
    BY <1>7 DEF Shows, IsListed
  <2> QED  BY <1>7, <2>1 DEF Promise!absVars, Count
<1> QED
  BY <1>1, <1>2, <1>3, <1>4, <1>5, <1>6, <1>7
     DEF Step, Call, ReadVer, ReadSeg, TempQuery, CurrQuery, CopyGet, CopyPut, VerInsert,
         VerRequery, SegPut, VerSet, TruncSet, TruncSeg, SegList, SegRemove, VerRemove, RelVer,
         RelSize, UnlinkQuery, OpenRead, OpenWrite, Create, Release, Read, Write, Truncate, db

\* The handlers, one database operation at a time and killed anywhere, are the
\* file of VersionedFile: it appears, a version is begun, published in one step
\* or discarded, and it disappears; whatever can be read of it is exactly what
\* its entry says.
THEOREM Implements ==
    ASSUME Disciplined, NoShrink, NoSparse PROVE Spec => ImplementsVersionedFile
<1>1. FullInv /\ CutFree /\ IntactInv /\ Shows /\ Shows' /\ [Next]_vars
        => [Promise!AbsNext]_Promise!absVars
  <2> SUFFICES ASSUME FullInv, CutFree, IntactInv, Shows, Shows', [Next]_vars
               PROVE  Promise!AbsNext \/ UNCHANGED Promise!absVars
    OBVIOUS
  <2>1. ASSUME NEW c \in Clients, Step(c) \/ Call(c)
        PROVE  Promise!AbsNext \/ UNCHANGED Promise!absVars
    BY <2>1, PromiseStep
  <2>2. CASE Crash \/ UNCHANGED vars
    BY <2>2 DEF Crash, db, vars, Promise!absVars, IsListed, Readable
  <2> QED  BY <2>1, <2>2 DEF Next
<1> QED  BY <1>1, PromiseInit, ShowsEntry, IntactInvariant, PTL
            DEF Spec, ImplementsVersionedFile, Promise!AbsSpec
=============================================================================
