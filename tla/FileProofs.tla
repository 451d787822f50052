----------------------------- MODULE FileProofs -----------------------------
(***************************************************************************)
(* Theorems about the file handlers, for every value of the constants:     *)
(* types, the temp version as the writers' lock, version numbers.          *)
(***************************************************************************)
EXTENDS FileProperties, TLAPS

\* The locals of a request stay within the bounds of a version.
LocalsOK(l) ==
    /\ l.op = "write" => l.pos < MaxSegs
    /\ l.pc \in {"temp_query", "curr_query"} => l.idx = 0
    /\ l.pc = "curr_query" => l.pos > 0
    /\ l.pc \in {"copy_get", "copy_put"} => l.idx < l.pos
    /\ l.pc \in {"ver_requery", "seg_put", "ver_set"} => l.op = "write"
    /\ l.pc \in {"trunc_set", "trunc_seg"} => l.pos < MaxSegs
    /\ l.pc \in {"read_seg", "seg_rm"} => l.idx < l.lim /\ l.lim <= MaxSegs

TypeInv == TypeOK /\ \A c \in Clients : LocalsOK(loc[c])

LEMMA IdleType == Idle \in Locals /\ LocalsOK(Idle) /\ NoFile \in Files
<1> USE ConstantsAssumption
<1>1. Idle \in Locals
  BY DEF Idle, Request, Locals, Pcs, Ops, AnyVer, NoVer
<1>2. LocalsOK(Idle)
  BY DEF Idle, Request, LocalsOK
<1>3. NoFile \in Files
  BY DEF NoFile, Files, AnyVer, NoVer
<1> QED  BY <1>1, <1>2, <1>3

LEMMA TypeInit == Init => TypeInv
<1> SUFFICES ASSUME Init PROVE TypeInv
  OBVIOUS
<1> USE ConstantsAssumption, IdleType
<1>1. vers \in [AnyVer -> VerDocs]
  BY DEF Init, VerDocs, NoDoc
<1>2. segs \in [SegIds -> SegDocs]
  BY DEF Init, SegDocs
<1>3. loc \in [Clients -> Locals] /\ \A c \in Clients : LocalsOK(loc[c])
  BY DEF Init
<1>4. owner \in [Clients -> AnyVer] /\ handle \in [Clients -> {"none", "ro", "rw", "new"}]
  BY DEF Init, AnyVer
<1>5. clock \in 0..MaxVersion /\ listed \in Nat /\ file \in Files
  BY DEF Init
<1> QED  BY <1>1, <1>2, <1>3, <1>4, <1>5 DEF TypeInv, TypeOK

\* One client's request moves on, or starts, or ends: only its own locals
\* need to be looked at.
LEMMA LocType ==
    ASSUME TypeInv, NEW c \in Clients, NEW l \in Locals, LocalsOK(l),
           loc' = [loc EXCEPT ![c] = l]
    PROVE  loc' \in [Clients -> Locals] /\ \A d \in Clients : LocalsOK(loc'[d])
BY DEF TypeInv, TypeOK

\* What LocType shows, by name.
LocOK == loc \in [Clients -> Locals] /\ \A d \in Clients : LocalsOK(loc[d])

LEMMA GotoType ==
    ASSUME TypeInv, NEW c \in Clients, NEW p \in Pcs, Goto(c, p),
           LocalsOK([loc[c] EXCEPT !.pc = p])
    PROVE  LocOK'
<1>1. [loc[c] EXCEPT !.pc = p] \in Locals
  BY DEF TypeInv, TypeOK, Locals
<1>2. loc' = [loc EXCEPT ![c] = [loc[c] EXCEPT !.pc = p]]
  BY DEF Goto, TypeInv, TypeOK
<1> QED  BY <1>1, <1>2, LocType DEF LocOK

LEMMA DoneType ==
    ASSUME TypeInv, NEW c \in Clients, Done(c)
    PROVE  LocOK'
BY LocType, IdleType DEF Done, LocOK

\* A request at the head of one of its loops.
LEMMA LoopType ==
    ASSUME NEW r \in Locals, NEW p \in Pcs, NEW i \in 0..MaxSegs, NEW n \in Int
    PROVE  /\ Loop(r, p, i, n) \in Locals
           /\ Loop(r, p, i, n).pc = p /\ Loop(r, p, i, n).op = r.op
           /\ Loop(r, p, i, n).idx = i /\ Loop(r, p, i, n).lim = n
           /\ Loop(r, p, i, n).pos = r.pos
<1> DEFINE a == [r EXCEPT !.pc = p]
           b == [a EXCEPT !.idx = i]
           m == [b EXCEPT !.lim = n]
<1>1. a \in Locals /\ a.pc = p /\ a.op = r.op /\ a.pos = r.pos
  BY DEF Locals
<1> HIDE DEF a
<1>2. b \in Locals /\ b.pc = p /\ b.op = r.op /\ b.pos = r.pos /\ b.idx = i
  BY <1>1 DEF Locals
<1> HIDE DEF b
<1>3. m \in Locals /\ m.pc = p /\ m.op = r.op /\ m.pos = r.pos /\ m.idx = i /\ m.lim = n
  BY <1>2 DEF Locals
<1> QED  BY <1>3 DEF a, b, Loop

LEMMA RemovingType ==
    ASSUME NEW r \in Locals, NEW v \in AnyVer
    PROVE  /\ Removing(r, v) \in Locals
           /\ Removing(r, v).pc = "seglist" /\ Removing(r, v).op = r.op
           /\ Removing(r, v).pos = r.pos
<1> DEFINE a == [r EXCEPT !.pc = "seglist"]
           m == [a EXCEPT !.vic = v]
<1>1. a \in Locals /\ a.pc = "seglist" /\ a.op = r.op /\ a.pos = r.pos
  BY DEF Locals, Pcs
<1> HIDE DEF a
<1>2. m \in Locals /\ m.pc = "seglist" /\ m.op = r.op /\ m.pos = r.pos
  BY <1>1 DEF Locals
<1> QED  BY <1>2 DEF a, Removing

LEMMA KilledType ==
    ASSUME TypeInv, Killed
    PROVE  /\ LocOK'
           /\ owner' \in [Clients -> AnyVer]
           /\ handle' \in [Clients -> {"none", "ro", "rw", "new"}]
BY IdleType DEF Killed, LocOK, AnyVer

LEMMA CloseType ==
    ASSUME TypeInv, NEW c \in Clients, Close(c)
    PROVE  /\ owner' \in [Clients -> AnyVer]
           /\ handle' \in [Clients -> {"none", "ro", "rw", "new"}]
BY DEF Close, TypeInv, TypeOK, AnyVer

LEMMA GenerateType ==
    ASSUME TypeInv, NEW c \in Clients,
           Generate(c, "open", "open_set") \/ Generate(c, "create", "create_insert")
    PROVE  clock' \in 0..MaxVersion /\ LocOK'
<1> USE ConstantsAssumption
<1>1. clock' \in 1..MaxVersion
  BY DEF Generate, TypeInv, TypeOK
<1>2. ASSUME NEW o \in {"open", "create"}, NEW p \in {"open_set", "create_insert"},
             Generate(c, o, p)
      PROVE  LocOK'
  <2> DEFINE l == Request(o, p, clock', NoVer, 0)
  <2>1. l \in Locals
    BY <1>1 DEF Locals, Pcs, Ops, AnyVer, Versions, Request
  <2>2. LocalsOK(l)
    BY DEF LocalsOK, Request
  <2> QED  BY <1>2, <2>1, <2>2, LocType DEF Generate, LocOK
<1> QED  BY <1>1, <1>2

LEMMA EnterType ==
    ASSUME TypeInv, NEW c \in Clients, NEW o \in Ops, NEW k \in Pcs,
           NEW p \in 0..MaxSegs, Enter(c, o, k, p),
           k \in {"read_ver", "temp_query", "rel_ver"},
           o = "write" => p < MaxSegs
    PROVE  LocOK'
<1> USE ConstantsAssumption
<1> DEFINE l == Request(o, k, file.temp, file.data, p)
<1>1. l \in Locals
  BY DEF TypeInv, TypeOK, Files, Locals, AnyVer, Request
<1>2. LocalsOK(l)
  BY DEF LocalsOK, Request
<1> QED  BY <1>1, <1>2, LocType DEF Enter, LocOK

LEMMA SegmentType ==
    ASSUME TypeInv, NEW v \in AnyVer, NEW i \in 0..MaxSegs, InsertSeg(v, i)
    PROVE  segs' \in [SegIds -> SegDocs]
BY DEF InsertSeg, TypeInv, TypeOK, SegDocs

-----------------------------------------------------------------------------
(* Every action preserves the type invariant. *)

LEMMA OpenType ==
    ASSUME TypeInv, NEW c \in Clients, OpenRead(c) \/ OpenWrite(c) \/ OpenSet(c)
    PROVE  TypeInv'
<1>1. CASE OpenRead(c)
  BY <1>1 DEF TypeInv, TypeOK, OpenRead, db
<1>2. CASE OpenWrite(c)
  BY <1>2, GenerateType DEF TypeInv, TypeOK, OpenWrite, LocOK
<1>3. CASE OpenSet(c)
  <2>1. LocOK'
    BY <1>3, DoneType DEF OpenSet
  <2>2. file' \in Files /\ owner' \in [Clients -> AnyVer]
    BY <1>3 DEF TypeInv, TypeOK, OpenSet, Files, Locals
  <2> QED  BY <1>3, <2>1, <2>2 DEF TypeInv, TypeOK, OpenSet, LocOK
<1> QED  BY <1>1, <1>2, <1>3

LEMMA CreateType ==
    ASSUME TypeInv, NEW c \in Clients, Create(c) \/ CreateInsert(c) \/ CreatePush(c)
    PROVE  TypeInv'
<1>1. CASE Create(c)
  BY <1>1, GenerateType DEF TypeInv, TypeOK, Create, LocOK
<1>2. CASE CreateInsert(c)
  <2>1. LocOK'
    <3>1. LocalsOK([loc[c] EXCEPT !.pc = "create_push"])
      BY DEF TypeInv, TypeOK, Locals, LocalsOK
    <3> QED  BY <1>2, <3>1, GotoType DEF CreateInsert, Pcs
  <2>2. file' \in Files
    BY <1>2 DEF TypeInv, TypeOK, CreateInsert, Files, Locals, AnyVer, NoVer
  <2> QED  BY <1>2, <2>1, <2>2 DEF TypeInv, TypeOK, CreateInsert, LocOK
<1>3. CASE CreatePush(c)
  <2>1. LocOK'
    BY <1>3, DoneType DEF CreatePush
  <2>2. listed' \in Nat /\ owner' \in [Clients -> AnyVer]
    BY <1>3 DEF TypeInv, TypeOK, CreatePush, Locals
  <2> QED  BY <1>3, <2>1, <2>2 DEF TypeInv, TypeOK, CreatePush, LocOK
<1> QED  BY <1>1, <1>2, <1>3

\* Read, Write and Truncate take their parameters from these sets.
LEMMA SegNumType == SegNums \subseteq 0..MaxSegs /\ \A p \in SegNums : p < MaxSegs
BY ConstantsAssumption DEF SegNums

LEMMA ReadType ==
    ASSUME TypeInv, NEW c \in Clients,
           (\E p \in SegNums : Read(c, p)) \/ ReadVer(c) \/ ReadSeg(c)
    PROVE  TypeInv'
<1>1. ASSUME NEW p \in SegNums, Read(c, p) PROVE TypeInv'
  <2>1. LocOK'
    BY <1>1, SegNumType, EnterType DEF Read, Ops, Pcs
  <2> QED  BY <1>1, <2>1 DEF TypeInv, TypeOK, Read, LocOK, db
<1>2. CASE ReadVer(c)
  <2> DEFINE l == Loop(loc[c], "read_seg", loc[c].pos, vers[loc[c].cur].size)
  <2>1. ASSUME loc' = [loc EXCEPT ![c] = l], vers[loc[c].cur].size > loc[c].pos
        PROVE  LocOK'
    <3>1. loc[c] \in Locals /\ LocalsOK(loc[c])
      BY DEF TypeInv, TypeOK
    <3>2. vers[loc[c].cur] \in VerDocs
      BY <3>1 DEF TypeInv, TypeOK, Locals
    <3>3. vers[loc[c].cur].size \in 0..MaxSegs /\ loc[c].pos \in 0..MaxSegs
      BY <3>1, <3>2 DEF VerDocs, Locals
    <3>4. l \in Locals /\ l.pc = "read_seg" /\ l.op = loc[c].op /\ l.pos = loc[c].pos
          /\ l.idx = loc[c].pos /\ l.lim = vers[loc[c].cur].size
      <4> DEFINE n == vers[loc[c].cur].size
                 r == loc[c]
      <4>1. "read_seg" \in Pcs /\ n \in Int /\ r \in Locals /\ r.pos \in 0..MaxSegs
        BY <3>1, <3>3 DEF Pcs
      <4> HIDE DEF n, r
      <4>2. LET m == Loop(r, "read_seg", r.pos, n)
            IN  m \in Locals /\ m.pc = "read_seg" /\ m.op = r.op /\ m.pos = r.pos
                /\ m.idx = r.pos /\ m.lim = n
        BY <4>1, LoopType
      <4> QED  BY <4>2 DEF n, r
    <3>5. LocalsOK(l)
      <4> HIDE DEF l
      <4> QED  BY <2>1, <3>1, <3>3, <3>4 DEF LocalsOK
    <3> QED  BY <2>1, <3>4, <3>5, LocType DEF LocOK
  <2>2. Done(c) \/ (loc' = [loc EXCEPT ![c] = l] /\ vers[loc[c].cur].size > loc[c].pos)
    BY <1>2 DEF ReadVer, TypeInv, TypeOK
  <2>3. LocOK'
    BY <2>1, <2>2, DoneType
  <2> QED  BY <1>2, <2>3 DEF TypeInv, TypeOK, ReadVer, LocOK, db
<1>3. CASE ReadSeg(c)
  <2>1. CASE Done(c) /\ UNCHANGED <<handle, owner>>
    BY <1>3, <2>1, DoneType DEF TypeInv, TypeOK, ReadSeg, LocOK, db
  <2>2. CASE Killed
    BY <1>3, <2>2, KilledType DEF TypeInv, TypeOK, ReadSeg, LocOK, db
  <2>3. CASE /\ loc[c].idx + 1 < loc[c].lim
             /\ loc' = [loc EXCEPT ![c].idx = @ + 1]
             /\ UNCHANGED <<handle, owner>>
    <3> DEFINE l == [loc[c] EXCEPT !.idx = loc[c].idx + 1]
    <3>1. loc[c] \in Locals /\ LocalsOK(loc[c]) /\ loc[c].pc = "read_seg"
      BY <1>3 DEF TypeInv, TypeOK, ReadSeg, At
    <3>2. l \in Locals /\ LocalsOK(l)
      BY <2>3, <3>1, ConstantsAssumption DEF Locals, LocalsOK
    <3>3. loc' = [loc EXCEPT ![c] = l]
      BY <2>3 DEF TypeInv, TypeOK
    <3>4. LocOK'
      BY <3>2, <3>3, LocType DEF LocOK
    <3> QED  BY <1>3, <2>3, <3>4 DEF TypeInv, TypeOK, ReadSeg, LocOK, db
  <2> QED  BY <1>3, <2>1, <2>2, <2>3 DEF ReadSeg
<1> QED  BY <1>1, <1>2, <1>3

LEMMA CallType ==
    ASSUME TypeInv, NEW c \in Clients,
           \/ \E p \in SegNums : Write(c, p)
           \/ \E p \in 0..MaxSegs : Truncate(c, p)
    PROVE  TypeInv'
<1>1. ASSUME NEW p \in SegNums, Write(c, p) PROVE TypeInv'
  <2>1. LocOK'
    BY <1>1, SegNumType, EnterType DEF Write, Ops, Pcs
  <2> QED  BY <1>1, <2>1 DEF TypeInv, TypeOK, Write, LocOK, db
<1>2. ASSUME NEW p \in 0..MaxSegs, Truncate(c, p) PROVE TypeInv'
  <2>1. LocOK'
    BY <1>2, EnterType DEF Truncate, Ops, Pcs
  <2> QED  BY <1>2, <2>1 DEF TypeInv, TypeOK, Truncate, LocOK, db
<1> QED  BY <1>1, <1>2

\* The steps that only look at the database and move on or end.
LEMMA QueryType ==
    ASSUME TypeInv, NEW c \in Clients, TempQuery(c) \/ CurrQuery(c) \/ VerRequery(c)
    PROVE  TypeInv'
<1>1. loc[c] \in Locals /\ LocalsOK(loc[c])
  BY DEF TypeInv, TypeOK
<1>2. ASSUME NEW p \in Pcs, LocalsOK([loc[c] EXCEPT !.pc = p]), Goto(c, p) PROVE LocOK'
  BY <1>2, GotoType
<1>3. CASE TempQuery(c)
  <2>1. PICK p \in {"curr_query", "ver_insert", "seg_put", "trunc_set", "idle"} :
           /\ p = "idle" \/ Goto(c, p)
           /\ p = "idle" => Done(c)
           /\ p = "curr_query" => loc[c].pos > 0
           /\ p = "seg_put" => loc[c].op = "write"
           /\ p = "trunc_set" => loc[c].pos < vers[loc[c].tmp].size
    BY <1>3 DEF TempQuery
  <2>2. vers[loc[c].tmp].size \in 0..MaxSegs /\ loc[c].pos \in 0..MaxSegs /\ p \in Pcs
    BY <1>1 DEF TypeInv, TypeOK, Locals, VerDocs, Pcs
  <2>3. ASSUME p # "idle" PROVE LocOK'
    <3>1. loc[c].idx = 0
      BY <1>1, <1>3 DEF TempQuery, At, LocalsOK
    <3>2. LocalsOK([loc[c] EXCEPT !.pc = p])
      BY <1>1, <2>1, <2>2, <2>3, <3>1, ConstantsAssumption DEF LocalsOK, Locals
    <3> QED  BY <1>2, <2>1, <2>2, <2>3, <3>2
  <2>4. LocOK'
    BY <2>1, <2>3, DoneType
  <2> QED  BY <1>3, <2>4 DEF TypeInv, TypeOK, TempQuery, LocOK, db
<1>4. CASE CurrQuery(c)
  <2>1. LocalsOK([loc[c] EXCEPT !.pc = "copy_get"])
    BY <1>1, <1>4 DEF CurrQuery, At, LocalsOK, Locals
  <2>2. LocOK'
    BY <1>2, <1>4, <2>1, DoneType DEF CurrQuery, Pcs
  <2> QED  BY <1>4, <2>2 DEF TypeInv, TypeOK, CurrQuery, LocOK, db
<1>5. CASE VerRequery(c)
  <2>1. LocalsOK([loc[c] EXCEPT !.pc = "seg_put"])
    BY <1>1, <1>5 DEF VerRequery, At, LocalsOK, Locals
  <2>2. LocOK'
    BY <1>2, <1>5, <2>1, DoneType DEF VerRequery, Pcs
  <2> QED  BY <1>5, <2>2 DEF TypeInv, TypeOK, VerRequery, LocOK, db
<1> QED  BY <1>3, <1>4, <1>5

LEMMA CopyType ==
    ASSUME TypeInv, NEW c \in Clients, CopyGet(c) \/ CopyPut(c)
    PROVE  TypeInv'
<1>1. loc[c] \in Locals /\ LocalsOK(loc[c])
  BY DEF TypeInv, TypeOK
<1>2. CASE CopyGet(c)
  <2>1. LocalsOK([loc[c] EXCEPT !.pc = "copy_put"])
    BY <1>1, <1>2 DEF CopyGet, At, LocalsOK, Locals
  <2>2. CASE Goto(c, "copy_put") /\ UNCHANGED <<handle, owner>>
    <3>1. LocOK'
      BY <2>1, <2>2, GotoType DEF Pcs
    <3> QED  BY <1>2, <2>2, <3>1 DEF TypeInv, TypeOK, CopyGet, LocOK, db
  <2>3. CASE Done(c) /\ UNCHANGED <<handle, owner>>
    <3>1. LocOK'
      BY <2>3, DoneType
    <3> QED  BY <1>2, <2>3, <3>1 DEF TypeInv, TypeOK, CopyGet, LocOK, db
  <2>4. CASE Killed
    BY <1>2, <2>4, KilledType DEF TypeInv, TypeOK, CopyGet, LocOK, db
  <2> QED  BY <1>2, <2>2, <2>3, <2>4 DEF CopyGet
<1>3. CASE CopyPut(c)
  <2> DEFINE i == loc[c].idx
             r == Loop(loc[c], "copy_get", i + 1, 0)
  <2>1. i \in 0..MaxSegs /\ loc[c].pos \in 0..MaxSegs /\ i < loc[c].pos
    BY <1>1, <1>3 DEF CopyPut, At, LocalsOK, Locals
  <2>2. i + 1 \in 0..MaxSegs
    BY <2>1, ConstantsAssumption
  <2>3. segs' \in [SegIds -> SegDocs]
    BY <1>1, <1>3, <2>1, SegmentType DEF CopyPut, Locals
  <2>4. ASSUME i + 1 < loc[c].pos, loc' = [loc EXCEPT ![c] = Loop(@, "copy_get", i + 1, 0)]
        PROVE  LocOK'
    <3>1. r \in Locals /\ r.pc = "copy_get" /\ r.op = loc[c].op
          /\ r.pos = loc[c].pos /\ r.idx = i + 1
      <4>1. "copy_get" \in Pcs /\ 0 \in Int
        BY DEF Pcs
      <4> QED  BY <1>1, <2>2, <4>1, LoopType
    <3>2. LocalsOK(r)
      <4> HIDE DEF r
      <4> QED  BY <1>1, <2>4, <3>1 DEF LocalsOK
    <3>3. loc' = [loc EXCEPT ![c] = r]
      BY <2>4 DEF TypeInv, TypeOK
    <3> QED  BY <3>1, <3>2, <3>3, LocType DEF LocOK
  <2>5. ASSUME Goto(c, "ver_insert") PROVE LocOK'
    <3>1. LocalsOK([loc[c] EXCEPT !.pc = "ver_insert"])
      BY <1>1 DEF LocalsOK, Locals
    <3> QED  BY <2>5, <3>1, GotoType DEF Pcs
  <2>6. LocOK'
    BY <1>3, <2>4, <2>5 DEF CopyPut
  <2> QED  BY <1>3, <2>3, <2>6 DEF TypeInv, TypeOK, CopyPut, LocOK
<1> QED  BY <1>2, <1>3

LEMMA VersionType ==
    ASSUME TypeInv, NEW c \in Clients, VerInsert(c) \/ VerSet(c) \/ TruncSet(c)
    PROVE  TypeInv'
<1>1. loc[c] \in Locals /\ LocalsOK(loc[c])
  BY DEF TypeInv, TypeOK
<1>2. ASSUME NEW v \in AnyVer, NEW n \in 0..MaxSegs, NEW s \in 0..MaxSegs,
             InsertVer(v, n) \/ UpdateVer(v, n, s)
      PROVE  vers' \in [AnyVer -> VerDocs]
  <2>1. /\ [here |-> TRUE, data |-> n, size |-> n] \in VerDocs
        /\ [here |-> TRUE, data |-> n, size |-> s] \in VerDocs
    BY DEF VerDocs
  <2> QED  BY <1>2, <2>1 DEF InsertVer, UpdateVer, TypeInv, TypeOK
<1>3. loc[c].tmp \in AnyVer /\ loc[c].pos \in 0..MaxSegs
  BY <1>1 DEF Locals
<1>4. CASE VerInsert(c)
  <2>1. vers' \in [AnyVer -> VerDocs]
    BY <1>2, <1>3, <1>4 DEF VerInsert
  <2>2. ASSUME loc[c].op = "write" PROVE LocalsOK([loc[c] EXCEPT !.pc = "ver_requery"])
    BY <1>1, <2>2 DEF LocalsOK, Locals
  <2>3. LocOK'
    BY <1>4, <2>2, GotoType, DoneType DEF VerInsert, Pcs
  <2> QED  BY <1>4, <2>1, <2>3 DEF TypeInv, TypeOK, VerInsert, LocOK
<1>5. CASE VerSet(c)
  <2>1. loc[c].pos + 1 \in 0..MaxSegs
    <3>1. loc[c].pos < MaxSegs
      BY <1>1, <1>5 DEF VerSet, At, LocalsOK
    <3> QED  BY <1>3, <3>1, ConstantsAssumption
  <2>2. vers' \in [AnyVer -> VerDocs]
    BY <1>2, <1>3, <1>5, <2>1 DEF VerSet
  <2>3. LocOK'
    BY <1>5, DoneType DEF VerSet
  <2> QED  BY <1>5, <2>2, <2>3 DEF TypeInv, TypeOK, VerSet, LocOK
<1>6. CASE TruncSet(c)
  <2>1. loc[c].pos < MaxSegs
    BY <1>1, <1>6 DEF TruncSet, At, LocalsOK
  <2>2. loc[c].pos + 1 \in 0..MaxSegs
    BY <1>3, <2>1, ConstantsAssumption
  <2>3. vers' \in [AnyVer -> VerDocs]
    BY <1>2, <1>3, <1>6, <2>2 DEF TruncSet
  <2>4. LocalsOK([loc[c] EXCEPT !.pc = "trunc_seg"])
    BY <1>1, <2>1 DEF LocalsOK, Locals
  <2>5. LocOK'
    BY <1>6, <2>4, GotoType DEF TruncSet, Pcs
  <2> QED  BY <1>6, <2>3, <2>5 DEF TypeInv, TypeOK, TruncSet, LocOK
<1> QED  BY <1>4, <1>5, <1>6

LEMMA RemovingLocType ==
    ASSUME TypeInv, NEW c \in Clients, NEW r \in Locals, LocalsOK(r), NEW v \in AnyVer,
           loc' = [loc EXCEPT ![c] = Removing(r, v)]
    PROVE  LocOK'
<1> DEFINE m == Removing(r, v)
<1>1. m \in Locals /\ m.pc = "seglist" /\ m.op = r.op /\ m.pos = r.pos
  BY RemovingType
<1>2. LocalsOK(m)
  <2> HIDE DEF m
  <2> QED  BY <1>1 DEF LocalsOK
<1> QED  BY <1>1, <1>2, LocType DEF LocOK

LEMMA SegPutType ==
    ASSUME TypeInv, NEW c \in Clients, SegPut(c) \/ TruncSeg(c)
    PROVE  TypeInv'
<1>1. loc[c] \in Locals /\ LocalsOK(loc[c]) /\ loc[c].tmp \in AnyVer
      /\ loc[c].pos \in 0..MaxSegs
  BY DEF TypeInv, TypeOK, Locals
<1>2. loc' = [loc EXCEPT ![c] = Removing(loc[c], loc[c].tmp)]
  BY DEF SegPut, TruncSeg, TypeInv, TypeOK
<1>3. LocOK'
  BY <1>1, <1>2, RemovingLocType
<1>4. segs' \in [SegIds -> SegDocs]
  <2>1. CASE SegPut(c)
    BY <1>1, <2>1, SegmentType DEF SegPut
  <2>2. CASE TruncSeg(c)
    BY <2>2 DEF TruncSeg, TypeInv, TypeOK, SegDocs
  <2> QED  BY <2>1, <2>2
<1> QED  BY <1>3, <1>4 DEF TypeInv, TypeOK, SegPut, TruncSeg, LocOK

LEMMA AfterSegmentsType ==
    ASSUME TypeInv, NEW c \in Clients, AfterSegments(c)
    PROVE  LocOK'
<1>1. loc[c] \in Locals /\ LocalsOK(loc[c])
  BY DEF TypeInv, TypeOK
<1>2. ASSUME loc[c].op = "write" PROVE LocalsOK([loc[c] EXCEPT !.pc = "ver_set"])
  BY <1>1, <1>2 DEF LocalsOK, Locals
<1>3. LocalsOK([loc[c] EXCEPT !.pc = "ver_rm"])
  BY <1>1 DEF LocalsOK, Locals
<1> QED  BY <1>2, <1>3, GotoType, DoneType DEF AfterSegments, Pcs

LEMMA RemoveType ==
    ASSUME TypeInv, NEW c \in Clients, SegList(c) \/ SegRemove(c) \/ VerRemove(c)
    PROVE  TypeInv'
<1>1. loc[c] \in Locals /\ LocalsOK(loc[c]) /\ loc[c].pos \in 0..MaxSegs
      /\ loc[c].vic \in AnyVer /\ loc[c].tmp \in AnyVer
  BY DEF TypeInv, TypeOK, Locals
<1>2. CASE SegList(c)
  <2> DEFINE n == vers[loc[c].vic].data
             r == Loop(loc[c], "seg_rm", RemoveFrom(c), n)
  <2>1. n \in 0..MaxSegs
    BY <1>1 DEF TypeInv, TypeOK, VerDocs
  <2>2. ASSUME RemoveFrom(c) < n, loc' = [loc EXCEPT ![c] = Loop(@, "seg_rm", RemoveFrom(c), n)]
        PROVE  LocOK'
    <3>1. RemoveFrom(c) \in 0..MaxSegs /\ n \in Int /\ n <= MaxSegs
      BY <1>1, <2>1, <2>2, ConstantsAssumption DEF RemoveFrom
    <3>2. r \in Locals /\ r.pc = "seg_rm" /\ r.op = loc[c].op /\ r.pos = loc[c].pos
          /\ r.idx = RemoveFrom(c) /\ r.lim = n
      <4> HIDE DEF n
      <4>1. "seg_rm" \in Pcs
        BY DEF Pcs
      <4> QED  BY <1>1, <3>1, <4>1, LoopType
    <3>3. LocalsOK(r)
      <4> HIDE DEF n, r
      <4> QED  BY <1>1, <2>2, <3>1, <3>2 DEF LocalsOK
    <3>4. loc' = [loc EXCEPT ![c] = r]
      BY <2>2 DEF TypeInv, TypeOK
    <3> QED  BY <3>2, <3>3, <3>4, LocType DEF LocOK
  <2>3. LocOK'
    BY <1>2, <2>2, AfterSegmentsType DEF SegList
  <2> QED  BY <1>2, <2>3 DEF TypeInv, TypeOK, SegList, LocOK, db
<1>3. CASE SegRemove(c)
  <2> DEFINE i == loc[c].idx
             r == [loc[c] EXCEPT !.idx = i + 1]
  <2>1. segs' \in [SegIds -> SegDocs]
    BY <1>3 DEF SegRemove, TypeInv, TypeOK, SegDocs
  <2>2. ASSUME i + 1 < loc[c].lim, loc' = [loc EXCEPT ![c].idx = i + 1]
        PROVE  LocOK'
    <3>1. loc[c].pc = "seg_rm"
      BY <1>3 DEF SegRemove, At
    <3>2. r \in Locals /\ LocalsOK(r)
      BY <1>1, <2>2, <3>1, ConstantsAssumption DEF Locals, LocalsOK
    <3>3. loc' = [loc EXCEPT ![c] = r]
      BY <2>2 DEF TypeInv, TypeOK
    <3> QED  BY <3>2, <3>3, LocType DEF LocOK
  <2>3. LocOK'
    BY <1>3, <2>2, AfterSegmentsType DEF SegRemove
  <2> QED  BY <1>3, <2>1, <2>3 DEF TypeInv, TypeOK, SegRemove, LocOK
<1>4. CASE VerRemove(c)
  <2>1. vers' \in [AnyVer -> VerDocs]
    <3>1. NoDoc \in VerDocs
      BY ConstantsAssumption DEF NoDoc, VerDocs
    <3> QED  BY <1>4, <3>1 DEF VerRemove, TypeInv, TypeOK
  <2>2. CASE Done(c) /\ Close(c)
    BY <1>4, <2>1, <2>2, DoneType, CloseType DEF VerRemove, TypeInv, TypeOK, LocOK
  <2>3. CASE /\ loc' = [loc EXCEPT ![c] = Removing(@, loc[c].tmp)]
             /\ UNCHANGED <<handle, owner>>
    <3>1. loc' = [loc EXCEPT ![c] = Removing(loc[c], loc[c].tmp)]
      BY <2>3 DEF TypeInv, TypeOK
    <3>2. LocOK'
      BY <1>1, <3>1, RemovingLocType
    <3> QED  BY <1>4, <2>1, <2>3, <3>2 DEF VerRemove, TypeInv, TypeOK, LocOK
  <2>4. CASE Goto(c, "unl_entry") /\ UNCHANGED <<handle, owner>>
    <3>1. LocalsOK([loc[c] EXCEPT !.pc = "unl_entry"])
      BY <1>1 DEF LocalsOK, Locals
    <3>2. LocOK'
      BY <2>4, <3>1, GotoType DEF Pcs
    <3> QED  BY <1>4, <2>1, <2>4, <3>2 DEF VerRemove, TypeInv, TypeOK, LocOK
  <2> QED  BY <1>4, <2>2, <2>3, <2>4 DEF VerRemove
<1> QED  BY <1>2, <1>3, <1>4

LEMMA ReleaseType ==
    ASSUME TypeInv, NEW c \in Clients,
           Release(c) \/ RelVer(c) \/ RelReset(c) \/ RelSize(c) \/ RelSet(c)
    PROVE  TypeInv'
<1>1. loc[c] \in Locals /\ LocalsOK(loc[c])
  BY DEF TypeInv, TypeOK
<1>2. CASE Release(c)
  <2>1. CASE Close(c) /\ UNCHANGED loc
    BY <1>2, <2>1, CloseType DEF Release, TypeInv, TypeOK, db
  <2>2. CASE Enter(c, "release", "rel_ver", 0) /\ UNCHANGED <<handle, owner>>
    <3>1. "release" \in Ops /\ "rel_ver" \in Pcs /\ 0 \in 0..MaxSegs
      BY ConstantsAssumption DEF Ops, Pcs
    <3>2. LocOK'
      BY <2>2, <3>1, EnterType
    <3> QED  BY <1>2, <2>2, <3>2 DEF Release, TypeInv, TypeOK, LocOK, db
  <2> QED  BY <1>2, <2>1, <2>2 DEF Release
<1>3. CASE RelVer(c)
  <2>1. LocalsOK([loc[c] EXCEPT !.pc = "rel_size"]) /\ LocalsOK([loc[c] EXCEPT !.pc = "rel_reset"])
    BY <1>1 DEF LocalsOK, Locals
  <2>2. LocOK'
    BY <1>3, <2>1, GotoType DEF RelVer, Pcs
  <2> QED  BY <1>3, <2>2 DEF RelVer, TypeInv, TypeOK, LocOK, db
<1>4. CASE RelReset(c)
  <2>1. file' \in Files
    BY <1>4 DEF RelReset, TypeInv, TypeOK, Files, AnyVer
  <2> QED  BY <1>4, <2>1, DoneType, CloseType DEF RelReset, TypeInv, TypeOK, LocOK
<1>5. CASE RelSize(c)
  <2> DEFINE n == IF vers[loc[c].tmp].here THEN vers[loc[c].tmp].size ELSE -1
             r == Loop(loc[c], "rel_set", 0, n)
  <2>1. n \in Int
    BY <1>1 DEF TypeInv, TypeOK, Locals, VerDocs
  <2>2. r \in Locals /\ r.pc = "rel_set" /\ r.op = loc[c].op /\ r.pos = loc[c].pos
    <3> HIDE DEF n
    <3>1. "rel_set" \in Pcs /\ 0 \in 0..MaxSegs
      BY ConstantsAssumption DEF Pcs
    <3> QED  BY <1>1, <2>1, <3>1, LoopType
  <2>3. LocalsOK(r)
    <3> HIDE DEF r
    <3> QED  BY <1>1, <2>2 DEF LocalsOK
  <2>4. loc' = [loc EXCEPT ![c] = r]
    BY <1>5 DEF RelSize, TypeInv, TypeOK
  <2>5. LocOK'
    BY <2>2, <2>3, <2>4, LocType DEF LocOK
  <2> QED  BY <1>5, <2>5 DEF RelSize, TypeInv, TypeOK, LocOK, db
<1>6. CASE RelSet(c)
  <2>1. file' \in Files
    BY <1>1, <1>6 DEF RelSet, TypeInv, TypeOK, Files, AnyVer, Locals
  <2>2. loc' = [loc EXCEPT ![c] = Removing(loc[c], loc[c].cur)]
    BY <1>6 DEF RelSet, TypeInv, TypeOK
  <2>3. LocOK'
    BY <1>1, <2>2, RemovingLocType DEF Locals
  <2> QED  BY <1>6, <2>1, <2>3 DEF RelSet, TypeInv, TypeOK, LocOK
<1> QED  BY <1>2, <1>3, <1>4, <1>5, <1>6

LEMMA UnlinkType ==
    ASSUME TypeInv, NEW c \in Clients, Unlink(c) \/ UnlinkQuery(c) \/ UnlinkEntry(c)
    PROVE  TypeInv'
<1>1. ASSUME NEW k \in {"unl_query", "unl_entry"}, NEW t \in AnyVer, NEW u \in AnyVer
      PROVE  LET r == Request("unlink", k, t, u, 0)
             IN  r \in Locals /\ LocalsOK(r)
  <2>1. Request("unlink", k, t, u, 0) \in Locals
    BY <1>1, ConstantsAssumption DEF Request, Locals, Pcs, Ops, AnyVer
  <2>2. LocalsOK(Request("unlink", k, t, u, 0))
    BY DEF Request, LocalsOK
  <2> QED  BY <2>1, <2>2
<1>2. CASE Unlink(c)
  <2>1. LocOK'
    BY <1>1, <1>2, LocType DEF Unlink, LocOK, AnyVer
  <2> QED  BY <1>2, <2>1 DEF Unlink, TypeInv, TypeOK, LocOK
<1>3. CASE UnlinkQuery(c)
  <2> DEFINE r == Request("unlink", "unl_entry", file.temp, file.data, 0)
             v == IF file.data # NoVer THEN file.data ELSE file.temp
  <2>1. file.temp \in AnyVer /\ file.data \in AnyVer /\ v \in AnyVer
    BY DEF TypeInv, TypeOK, Files
  <2>2. r \in Locals /\ LocalsOK(r)
    BY <1>1, <2>1
  <2>3. loc' = [loc EXCEPT ![c] = Removing(r, v)] \/ loc' = [loc EXCEPT ![c] = r]
    BY <1>3 DEF UnlinkQuery
  <2>4. LocOK'
    <3> HIDE DEF r, v
    <3> QED  BY <2>1, <2>2, <2>3, RemovingLocType, LocType DEF LocOK
  <2> QED  BY <1>3, <2>4 DEF UnlinkQuery, TypeInv, TypeOK, LocOK, db
<1>4. CASE UnlinkEntry(c)
  BY <1>4, DoneType, IdleType DEF UnlinkEntry, TypeInv, TypeOK, LocOK
<1> QED  BY <1>2, <1>3, <1>4

LEMMA TypeNext == TypeInv /\ [Next]_vars => TypeInv'
<1> SUFFICES ASSUME TypeInv, [Next]_vars PROVE TypeInv'
  OBVIOUS
<1>1. ASSUME NEW c \in Clients, Step(c) PROVE TypeInv'
  BY <1>1, OpenType, CreateType, ReadType, QueryType, CopyType, VersionType,
     SegPutType, RemoveType, ReleaseType, UnlinkType DEF Step
<1>2. ASSUME NEW c \in Clients, Call(c) PROVE TypeInv'
  BY <1>2, OpenType, CreateType, ReadType, CallType, ReleaseType, UnlinkType DEF Call
<1>3. CASE Crash
  BY <1>3, KilledType DEF Crash, TypeInv, TypeOK, LocOK, db
<1>4. CASE UNCHANGED vars
  BY <1>4 DEF vars, TypeInv, TypeOK
<1> QED  BY <1>1, <1>2, <1>3, <1>4 DEF Next

\* Every document, and every local of a running request, stays within its
\* type, whatever the surroundings do: in particular no segment list and no
\* size exceeds the segments that were written.
THEOREM TypeCorrect == Spec => []TypeOK
<1>1. Spec => []TypeInv
  BY TypeInit, TypeNext, PTL DEF Spec
<1> QED  BY <1>1, PTL DEF TypeInv

-----------------------------------------------------------------------------
(* The temp version is a lock: as long as opens for writing do not overlap   *)
(* and no file is opened for reading before its first version, every writer  *)
(* finds its own temp version in the entry and there is one writer.          *)

Disciplined == "open_race" \notin Env /\ "fresh_reader" \notin Env

LEMMA IdleLock == Phase(Idle) /\ Idle.op = "none" /\ Idle.pc = "idle"
BY DEF Phase, Idle, Request, ReleaseSteps, WriteSteps

LEMMA LockInit == Init => LockInv
<1> SUFFICES ASSUME Init PROVE LockInv
  OBVIOUS
<1>1. \A c \in Clients : handle[c] = "none" /\ loc[c] = Idle
  BY DEF Init
<1>2. \A c \in Clients : ~Holds(c)
  BY <1>1 DEF Holds, Writing
<1> QED
  BY <1>1, <1>2, IdleLock
     DEF LockInv, WriterHoldsTemp, SingleWriter, ReleaseKnows, ReaderKnows,
         OpenKnows, ExclusiveKnows, ReleaseSteps, At

\* How the request of one client moves on: its operation and the temp version
\* it read stay, its step changes.
OnlyMoves(c) == \A d \in Clients \ {c} : loc'[d] = loc[d]
MovesTo(c, p) ==
    /\ OnlyMoves(c)
    /\ loc'[c].pc = p /\ loc'[c].op = loc[c].op /\ loc'[c].tmp = loc[c].tmp
Ends(c) == OnlyMoves(c) /\ loc'[c] = Idle

LEMMA DoneMoves ==
    ASSUME TypeInv, NEW c \in Clients, Done(c) PROVE Ends(c)
BY DEF Done, Ends, OnlyMoves, TypeInv, TypeOK

LEMMA GotoMoves ==
    ASSUME TypeInv, NEW c \in Clients, NEW p, Goto(c, p) PROVE MovesTo(c, p)
BY DEF Goto, MovesTo, OnlyMoves, TypeInv, TypeOK, Locals

LEMMA LoopMoves ==
    ASSUME TypeInv, NEW c \in Clients, NEW p, NEW i, NEW n,
           loc' = [loc EXCEPT ![c] = Loop(@, p, i, n)]
    PROVE  MovesTo(c, p)
<1> DEFINE a == [loc[c] EXCEPT !.pc = p]
           b == [a EXCEPT !.idx = i]
           m == [b EXCEPT !.lim = n]
<1>1. DOMAIN a = DOMAIN loc[c] /\ a.pc = p /\ a.op = loc[c].op /\ a.tmp = loc[c].tmp
  BY DEF Locals, TypeInv, TypeOK
<1>2. DOMAIN loc[c] = {"pc", "op", "tmp", "cur", "vic", "pos", "idx", "lim"}
  BY DEF Locals, TypeInv, TypeOK
<1> HIDE DEF a
<1>3. DOMAIN b = DOMAIN a /\ b.pc = p /\ b.op = loc[c].op /\ b.tmp = loc[c].tmp
  BY <1>1, <1>2
<1> HIDE DEF b
<1>4. m.pc = p /\ m.op = loc[c].op /\ m.tmp = loc[c].tmp
  BY <1>1, <1>2, <1>3
<1>5. m = Loop(loc[c], p, i, n)
  BY DEF a, b, Loop
<1>6. OnlyMoves(c) /\ loc'[c] = m
  <2> HIDE DEF m
  <2> QED  BY <1>5 DEF OnlyMoves, TypeInv, TypeOK
<1> QED  BY <1>4, <1>6 DEF MovesTo

LEMMA RemovingMoves ==
    ASSUME TypeInv, NEW c \in Clients, NEW v,
           loc' = [loc EXCEPT ![c] = Removing(@, v)]
    PROVE  MovesTo(c, "seglist")
<1> DEFINE a == [loc[c] EXCEPT !.pc = "seglist"]
           m == [a EXCEPT !.vic = v]
<1>1. DOMAIN a = DOMAIN loc[c] /\ a.pc = "seglist" /\ a.op = loc[c].op /\ a.tmp = loc[c].tmp
  BY DEF Locals, TypeInv, TypeOK
<1>2. DOMAIN loc[c] = {"pc", "op", "tmp", "cur", "vic", "pos", "idx", "lim"}
  BY DEF Locals, TypeInv, TypeOK
<1> HIDE DEF a
<1>3. m.pc = "seglist" /\ m.op = loc[c].op /\ m.tmp = loc[c].tmp
  BY <1>1, <1>2
<1>4. m = Removing(loc[c], v)
  BY DEF a, Removing
<1>5. OnlyMoves(c) /\ loc'[c] = m
  <2> HIDE DEF m
  <2> QED  BY <1>4 DEF OnlyMoves, TypeInv, TypeOK
<1> QED  BY <1>3, <1>5 DEF MovesTo

-----------------------------------------------------------------------------
\* A step of a read, a write or a truncate touches neither the entry nor a
\* handle; it may not run beside a create or an unlink.
LEMMA QuietStep ==
    ASSUME TypeInv, LockInv, NEW c \in Clients, OnlyMoves(c),
           UNCHANGED <<file, handle, owner>>,
           Phase(loc'[c]), loc[c].op \in DataOps, loc'[c].op \in DataOps,
           ~At(c, "idle") \/ handle[c] # "none" \/ NameFree
    PROVE  LockInv'
<1>2. \A d \in Clients : d # c => loc'[d] = loc[d]
  BY DEF OnlyMoves
<1>3. loc'[c].op \notin {"open", "create", "unlink", "release"}
      /\ loc[c].op \notin {"open", "create", "unlink", "release"}
  BY DEF DataOps
<1>4. \A d \in Clients : Holds(d)' <=> Holds(d)
  BY <1>2, <1>3 DEF Holds, Writing, Published
<1>5. \A d \in Clients : loc[d].op \notin {"create", "unlink"}
  BY <1>3 DEF LockInv, ExclusiveKnows, NameFree, Busy, At
<1>6. \A d \in Clients : loc'[d].op \notin {"create", "unlink"}
  BY <1>2, <1>3, <1>5
<1>7. loc'[c].pc \notin ReleaseSteps /\ loc'[c].pc \notin {"create_insert", "create_push"}
  BY <1>3 DEF Phase
<1>8. (WriterHoldsTemp /\ SingleWriter)'
  BY <1>4 DEF LockInv, WriterHoldsTemp, SingleWriter
<1>9. ASSUME NEW d \in Clients
      PROVE  /\ Holds(d)' => owner'[d] # NoVer
             /\ Phase(loc'[d]) /\ ReleaseKnows(d)' /\ ReaderKnows(d)'
  BY <1>2, <1>4, <1>7 DEF LockInv, ReleaseKnows, ReaderKnows, Writing
<1>10. ASSUME NEW d \in Clients PROVE OpenKnows(d)' /\ ExclusiveKnows(d)'
  BY <1>2, <1>3, <1>6, <1>9 DEF LockInv, OpenKnows, ExclusiveKnows, At, Phase
<1>11. \A d, e \in Clients : loc'[d].op = "open" /\ loc'[e].op = "open" => d = e
  BY <1>2, <1>3 DEF LockInv
<1> QED  BY <1>8, <1>9, <1>10, <1>11 DEF LockInv

\* A step of a release or of an unlink that leaves the entry alone.
Removal == {"seglist", "seg_rm", "ver_rm"}
LEMMA RemovalStep ==
    ASSUME TypeInv, LockInv, NEW c \in Clients, OnlyMoves(c),
           UNCHANGED <<file, handle, owner>>,
           Phase(loc'[c]), loc[c].op \in {"release", "unlink"}, loc'[c].op = loc[c].op,
           loc'[c].pc \in ReleaseSteps =>
               loc[c].pc \in ReleaseSteps /\ loc'[c].tmp = loc[c].tmp,
           loc[c].op = "release" => (loc'[c].pc \in Removal <=> loc[c].pc \in Removal)
    PROVE  LockInv'
<1>1. \A d \in Clients : loc'[d].op = loc[d].op /\ (d # c => loc'[d] = loc[d])
  BY DEF OnlyMoves
<1>2. ~At(c, "idle")
  BY DEF LockInv, Phase, At
<1>3. \A d \in Clients : Holds(d)' <=> Holds(d)
  BY <1>1 DEF Holds, Writing, Published, Removal
<1>4. loc'[c].pc \notin {"create_insert", "create_push", "open_set"}
  BY DEF Phase
<1>5. (WriterHoldsTemp /\ SingleWriter)'
  BY <1>3 DEF LockInv, WriterHoldsTemp, SingleWriter
<1>6. ASSUME NEW d \in Clients
      PROVE  /\ Holds(d)' => owner'[d] # NoVer
             /\ Phase(loc'[d]) /\ ReleaseKnows(d)' /\ ReaderKnows(d)' /\ OpenKnows(d)'
  BY <1>1, <1>3 DEF LockInv, ReleaseKnows, ReaderKnows, OpenKnows, Writing
<1>7. ASSUME NEW d \in Clients PROVE ExclusiveKnows(d)'
  BY <1>1, <1>2, <1>4 DEF LockInv, ExclusiveKnows, At
<1>8. \A d, e \in Clients : loc'[d].op = "open" /\ loc'[e].op = "open" => d = e
  BY <1>1 DEF LockInv
<1> QED  BY <1>5, <1>6, <1>7, <1>8 DEF LockInv

\* The end of the process leaves no handler and no handle.
LEMMA KilledStep == ASSUME LockInv, Killed PROVE LockInv'
<1>1. \A c \in Clients : handle'[c] = "none" /\ loc'[c] = Idle
  BY DEF Killed
<1>2. \A c \in Clients : ~Holds(c)'
  BY <1>1 DEF Holds, Writing
<1> QED
  BY <1>1, <1>2, IdleLock
     DEF LockInv, WriterHoldsTemp, SingleWriter, ReleaseKnows, ReaderKnows,
         OpenKnows, ExclusiveKnows, ReleaseSteps, At

\* The two ways a step of a read, a write or a truncate ends.
LEMMA QuietEnds ==
    ASSUME TypeInv, LockInv, NEW c \in Clients, Ends(c) \/ Done(c),
           UNCHANGED <<file, handle, owner>>,
           loc[c].op \in {"read", "write", "truncate"}
    PROVE  LockInv'
<1>1. OnlyMoves(c) /\ loc'[c] = Idle
  BY DoneMoves DEF Ends
<1>2. ~At(c, "idle")
  BY DEF LockInv, Phase, At
<1> QED  BY <1>1, <1>2, IdleLock, QuietStep DEF DataOps

LEMMA QuietMoves ==
    ASSUME TypeInv, LockInv, NEW c \in Clients, NEW p, MovesTo(c, p) \/ Goto(c, p),
           UNCHANGED <<file, handle, owner>>,
           \/ loc[c].op = "read" /\ p = "read_seg"
           \/ loc[c].op \in {"write", "truncate"} /\ p \in WriteSteps \cup {"seglist", "seg_rm"}
    PROVE  LockInv'
<1>1. OnlyMoves(c) /\ loc'[c].pc = p /\ loc'[c].op = loc[c].op
  BY GotoMoves DEF MovesTo
<1>2. ~At(c, "idle")
  BY DEF LockInv, Phase, At
<1>3. Phase(loc'[c])
  BY <1>1 DEF Phase, WriteSteps, ReleaseSteps
<1> QED  BY <1>1, <1>2, <1>3, QuietStep DEF DataOps

LEMMA CallLock ==
    ASSUME TypeInv, LockInv, NEW c \in Clients,
           \/ \E p \in SegNums : Read(c, p) \/ Write(c, p)
           \/ \E p \in 0..MaxSegs : Truncate(c, p)
    PROVE  LockInv'
<1>1. PICK o \in {"read", "write", "truncate"}, k \in {"read_ver", "temp_query"}, p \in 0..MaxSegs :
         /\ Enter(c, o, k, p) /\ (k = "read_ver" <=> o = "read")
         /\ At(c, "idle") /\ (handle[c] # "none" \/ NameFree)
         /\ UNCHANGED <<file, handle, owner>>
  BY SegNumType DEF Read, Write, Truncate, Writing, db
<1>2. OnlyMoves(c) /\ loc'[c].op = o /\ loc'[c].pc = k
  BY <1>1 DEF Enter, Request, OnlyMoves, TypeInv, TypeOK
<1>3. Phase(loc'[c])
  BY <1>1, <1>2 DEF Phase, WriteSteps, ReleaseSteps
<1>4. loc[c].op = "none"
  BY <1>1 DEF LockInv, Phase, At
<1> QED  BY <1>1, <1>2, <1>3, <1>4, QuietStep DEF DataOps

LEMMA ReadLock ==
    ASSUME TypeInv, LockInv, NEW c \in Clients, ReadVer(c) \/ ReadSeg(c)
    PROVE  LockInv'
<1>1. loc[c].op = "read"
  BY DEF ReadVer, ReadSeg, At, LockInv, Phase
<1>2. CASE ReadVer(c)
  <2>1. CASE Done(c)
    BY <1>1, <1>2, <2>1, QuietEnds DEF ReadVer, db
  <2>2. CASE loc' = [loc EXCEPT ![c] = Loop(@, "read_seg", @.pos, vers[loc[c].cur].size)]
    <3>1. MovesTo(c, "read_seg")
      BY <2>2, LoopMoves
    <3> QED  BY <1>1, <1>2, <3>1, QuietMoves DEF ReadVer, db
  <2> QED  BY <1>2, <2>1, <2>2 DEF ReadVer
<1>3. CASE ReadSeg(c)
  <2>1. CASE Done(c) /\ UNCHANGED <<handle, owner>>
    BY <1>1, <1>3, <2>1, QuietEnds DEF ReadSeg, db
  <2>2. CASE Killed
    BY <2>2, KilledStep
  <2>3. CASE loc' = [loc EXCEPT ![c].idx = @ + 1] /\ UNCHANGED <<handle, owner>>
    <3>1. MovesTo(c, "read_seg")
      BY <1>3, <2>3 DEF ReadSeg, At, MovesTo, OnlyMoves, TypeInv, TypeOK, Locals
    <3> QED  BY <1>1, <1>3, <2>3, <3>1, QuietMoves DEF ReadSeg, db
  <2> QED  BY <1>3, <2>1, <2>2, <2>3 DEF ReadSeg
<1> QED  BY <1>2, <1>3

LEMMA WriteLock ==
    ASSUME TypeInv, LockInv, NEW c \in Clients,
           \/ TempQuery(c) \/ CurrQuery(c) \/ CopyGet(c) \/ CopyPut(c)
           \/ VerInsert(c) \/ VerRequery(c) \/ SegPut(c) \/ VerSet(c)
           \/ TruncSet(c) \/ TruncSeg(c)
    PROVE  LockInv'
<1>1. loc[c].pc \in WriteSteps
  BY DEF TempQuery, CurrQuery, CopyGet, CopyPut, VerInsert, VerRequery, SegPut,
         VerSet, TruncSet, TruncSeg, At, WriteSteps
<1>2. loc[c].op \in {"write", "truncate"}
  BY <1>1 DEF LockInv, Phase
<1>3. CASE Done(c) /\ UNCHANGED <<file, handle, owner>>
  BY <1>2, <1>3, QuietEnds
<1>4. ASSUME NEW p \in WriteSteps, Goto(c, p), UNCHANGED <<file, handle, owner>>
      PROVE  LockInv'
  BY <1>2, <1>4, QuietMoves
<1>5. CASE Killed
  BY <1>5, KilledStep
<1>6. CASE TempQuery(c)
  BY <1>3, <1>4, <1>6 DEF TempQuery, WriteSteps, db
<1>7. CASE CurrQuery(c)
  BY <1>3, <1>4, <1>7 DEF CurrQuery, WriteSteps, db
<1>8. CASE CopyGet(c)
  BY <1>3, <1>4, <1>5, <1>8 DEF CopyGet, WriteSteps, db
<1>9. CASE CopyPut(c)
  <2>1. CASE loc' = [loc EXCEPT ![c] = Loop(@, "copy_get", loc[c].idx + 1, 0)]
    <3>1. MovesTo(c, "copy_get")
      BY <2>1, LoopMoves
    <3> QED  BY <1>2, <1>9, <3>1, QuietMoves DEF CopyPut, WriteSteps
  <2> QED  BY <1>4, <1>9, <2>1 DEF CopyPut, WriteSteps
<1>10. CASE VerInsert(c) \/ VerRequery(c)
  BY <1>3, <1>4, <1>10 DEF VerInsert, VerRequery, WriteSteps, db
<1>11. CASE SegPut(c) \/ TruncSeg(c)
  <2>1. loc' = [loc EXCEPT ![c] = Removing(@, @.tmp)]
    BY <1>11 DEF SegPut, TruncSeg
  <2>2. MovesTo(c, "seglist")
    BY <2>1, RemovingMoves
  <2> QED  BY <1>2, <1>11, <2>2, QuietMoves DEF SegPut, TruncSeg
<1>12. CASE VerSet(c) \/ TruncSet(c)
  BY <1>3, <1>4, <1>12 DEF VerSet, TruncSet, WriteSteps
<1> QED  BY <1>6, <1>7, <1>8, <1>9, <1>10, <1>11, <1>12

LEMMA RemovalMoves ==
    ASSUME TypeInv, LockInv, NEW c \in Clients, NEW p, MovesTo(c, p) \/ Goto(c, p),
           UNCHANGED <<file, handle, owner>>,
           loc[c].pc \in Removal, loc[c].op \in {"release", "unlink"},
           p \in Removal \/ (loc[c].op = "unlink" /\ p = "unl_entry")
    PROVE  LockInv'
<1>1. OnlyMoves(c) /\ loc'[c].pc = p /\ loc'[c].op = loc[c].op
  BY GotoMoves DEF MovesTo
<1>2. Phase(loc'[c])
  BY <1>1 DEF Phase, Removal, WriteSteps, ReleaseSteps
<1>3. p \notin ReleaseSteps
  BY DEF Removal, ReleaseSteps
<1> QED  BY <1>1, <1>2, <1>3, RemovalStep

LEMMA SegmentLock ==
    ASSUME TypeInv, LockInv, NEW c \in Clients, SegList(c) \/ SegRemove(c)
    PROVE  LockInv'
<1>1. loc[c].pc \in {"seglist", "seg_rm"} /\ UNCHANGED <<file, handle, owner>>
  BY DEF SegList, SegRemove, At, db
<1>2. loc[c].op \in {"write", "truncate", "release", "unlink"}
  BY <1>1 DEF LockInv, Phase
<1>3. CASE AfterSegments(c)
  <2>1. CASE loc[c].op = "write"
    BY <1>1, <1>3, <2>1, QuietMoves DEF AfterSegments, WriteSteps
  <2>2. CASE loc[c].op = "truncate"
    BY <1>1, <1>3, <2>2, QuietEnds DEF AfterSegments
  <2>3. CASE loc[c].op \in {"release", "unlink"}
    BY <1>1, <1>3, <2>3, RemovalMoves DEF AfterSegments, Removal
  <2> QED  BY <1>2, <2>1, <2>2, <2>3
<1>4. ASSUME MovesTo(c, "seg_rm") PROVE LockInv'
  BY <1>1, <1>2, <1>4, QuietMoves, RemovalMoves DEF Removal
<1>5. CASE SegList(c)
  <2>1. CASE loc' = [loc EXCEPT ![c] = Loop(@, "seg_rm", RemoveFrom(c), vers[loc[c].vic].data)]
    BY <1>4, <2>1, LoopMoves
  <2> QED  BY <1>3, <1>5, <2>1 DEF SegList
<1>6. CASE SegRemove(c)
  <2>1. CASE loc' = [loc EXCEPT ![c].idx = loc[c].idx + 1]
    <3>1. MovesTo(c, "seg_rm")
      BY <1>6, <2>1 DEF SegRemove, At, MovesTo, OnlyMoves, TypeInv, TypeOK, Locals
    <3> QED  BY <1>4, <3>1
  <2> QED  BY <1>3, <1>6, <2>1 DEF SegRemove
<1> QED  BY <1>5, <1>6

\* A handle that is closed was no writer any more, or was the only one and has
\* put the entry in order.
LEMMA CloseStep ==
    ASSUME TypeInv, LockInv, NEW c \in Clients, OnlyMoves(c), Close(c),
           loc'[c].pc = "idle", loc'[c].op = "none",
           loc[c].op \in {"none", "release"},
           loc[c].op = "none" => handle[c] # "none",
           \/ UNCHANGED file
           \/ Holds(c) /\ file'.here = file.here /\ file'.data = file.data
    PROVE  LockInv'
<1>1. /\ \A d \in Clients : d # c => loc'[d] = loc[d] /\ handle'[d] = handle[d]
                                       /\ owner'[d] = owner[d]
      /\ handle'[c] = "none"
  BY DEF OnlyMoves, Close, TypeInv, TypeOK
<1>2. ~Holds(c)' /\ \A d \in Clients : d # c => (Holds(d)' <=> Holds(d))
  BY <1>1 DEF Holds, Writing, Published
<1>3. \A d \in Clients : loc[d].op \notin {"create", "unlink"}
  BY <1>1 DEF LockInv, ExclusiveKnows, Phase, At
<1>4. ASSUME Holds(c), NEW d \in Clients PROVE loc[d].op # "open"
  BY <1>4 DEF LockInv, WriterHoldsTemp, OpenKnows
<1>5. ASSUME Holds(c), NEW d \in Clients, d # c
      PROVE  ~Holds(d) /\ loc[d].pc \notin ReleaseSteps
  <2>1. ~Holds(d)
    BY <1>5 DEF LockInv, SingleWriter
  <2>2. loc[d].pc \in ReleaseSteps => Holds(d)
    BY DEF LockInv, ReleaseKnows, Holds, Published, ReleaseSteps
  <2> QED  BY <2>1, <2>2
<1>6. (WriterHoldsTemp /\ SingleWriter)'
  BY <1>1, <1>2, <1>5 DEF LockInv, WriterHoldsTemp, SingleWriter
<1>7. ASSUME NEW d \in Clients
      PROVE  /\ Holds(d)' => owner'[d] # NoVer
             /\ Phase(loc'[d]) /\ ReleaseKnows(d)' /\ ReaderKnows(d)'
  <2>1. CASE d = c
    BY <1>1, <1>2, <2>1 DEF ReleaseKnows, ReaderKnows, ReleaseSteps, WriteSteps, Phase
  <2>2. CASE d # c
    BY <1>1, <1>2, <1>5, <2>2 DEF LockInv, ReleaseKnows, ReaderKnows, Writing
  <2> QED  BY <2>1, <2>2
<1>8. ASSUME NEW d \in Clients PROVE OpenKnows(d)' /\ ExclusiveKnows(d)'
  <2>1. CASE d = c
    BY <2>1 DEF OpenKnows, ExclusiveKnows, At
  <2>2. CASE d # c
    BY <1>1, <1>3, <1>4, <2>2 DEF LockInv, OpenKnows, ExclusiveKnows, At, Phase
  <2> QED  BY <2>1, <2>2
<1>9. \A d, e \in Clients : loc'[d].op = "open" /\ loc'[e].op = "open" => d = e
  BY <1>1 DEF LockInv
<1> QED  BY <1>6, <1>7, <1>8, <1>9 DEF LockInv

LEMMA VerRemoveLock ==
    ASSUME TypeInv, LockInv, NEW c \in Clients, VerRemove(c)
    PROVE  LockInv'
<1>1. At(c, "ver_rm") /\ loc[c].op \in {"release", "unlink"} /\ UNCHANGED file
  BY DEF VerRemove, At, LockInv, Phase
<1>2. CASE loc[c].op = "release" /\ Done(c) /\ Close(c)
  BY <1>1, <1>2, DoneMoves, CloseStep, IdleLock DEF Ends
<1>3. CASE /\ loc[c].op = "unlink" /\ UNCHANGED <<handle, owner>>
           /\ loc' = [loc EXCEPT ![c] = Removing(@, loc[c].tmp)]
  BY <1>1, <1>3, RemovingMoves, RemovalMoves DEF At, Removal
<1>4. CASE loc[c].op = "unlink" /\ Goto(c, "unl_entry") /\ UNCHANGED <<handle, owner>>
  BY <1>1, <1>4, RemovalMoves DEF At, Removal
<1> QED  BY <1>2, <1>3, <1>4 DEF VerRemove

\* Of the handles of a file, one that release() publishes is a writer's: a
\* reader's file has a current version.
LEMMA ReleaseStart ==
    ASSUME TypeInv, LockInv, NEW c \in Clients, Release(c), ~Close(c)
    PROVE  LockInv'
<1>1. /\ At(c, "idle") /\ handle[c] # "none" /\ Commits(c)
      /\ Enter(c, "release", "rel_ver", 0) /\ UNCHANGED <<file, handle, owner>>
  BY DEF Release, db
<1>2. Writing(c) /\ loc[c].op = "none"
  BY <1>1 DEF Commits, Writing, LockInv, ReaderKnows, Phase, At, TypeInv, TypeOK
<1>3. /\ \A d \in Clients : d # c => loc'[d] = loc[d]
      /\ loc'[c].op = "release" /\ loc'[c].pc = "rel_ver" /\ loc'[c].tmp = file.temp
  BY <1>1 DEF Enter, Request, TypeInv, TypeOK
<1>4. \A d \in Clients : Holds(d)' <=> Holds(d)
  BY <1>1, <1>2, <1>3 DEF Holds, Writing, Published
<1>5. \A d \in Clients : loc[d].op \notin {"create", "unlink"}
  BY <1>1, <1>2 DEF LockInv, ExclusiveKnows
<1>6. (WriterHoldsTemp /\ SingleWriter)'
  BY <1>1, <1>4 DEF LockInv, WriterHoldsTemp, SingleWriter
<1>7. Phase(loc'[c]) /\ ReleaseKnows(c)'
  BY <1>1, <1>2, <1>3 DEF Phase, WriteSteps, ReleaseSteps, ReleaseKnows, Writing
<1>8. ASSUME NEW d \in Clients
      PROVE  /\ Holds(d)' => owner'[d] # NoVer
             /\ Phase(loc'[d]) /\ ReleaseKnows(d)' /\ ReaderKnows(d)'
  BY <1>1, <1>3, <1>4, <1>7 DEF LockInv, ReleaseKnows, ReaderKnows, Writing
<1>9. ASSUME NEW d \in Clients PROVE OpenKnows(d)' /\ ExclusiveKnows(d)'
  BY <1>1, <1>3, <1>5 DEF LockInv, OpenKnows, ExclusiveKnows, At, Phase
<1>10. \A d, e \in Clients : loc'[d].op = "open" /\ loc'[e].op = "open" => d = e
  BY <1>3 DEF LockInv
<1> QED  BY <1>6, <1>8, <1>9, <1>10 DEF LockInv

\* What a release knows before it publishes.
LEMMA ReleaseHolds ==
    ASSUME LockInv, NEW c \in Clients, loc[c].pc \in ReleaseSteps
    PROVE  /\ Holds(c) /\ loc[c].op = "release"
           /\ file.here /\ loc[c].tmp = file.temp /\ file.temp # NoVer
BY DEF LockInv, ReleaseKnows, Holds, Published, ReleaseSteps, Phase, WriterHoldsTemp

LEMMA PublishLock ==
    ASSUME TypeInv, LockInv, NEW c \in Clients, RelSet(c)
    PROVE  LockInv'
<1>1. loc[c].pc \in ReleaseSteps
  BY DEF RelSet, At, ReleaseSteps
<1>2. /\ Holds(c) /\ loc[c].op = "release" /\ file.here
      /\ loc[c].tmp # NoVer /\ file.temp # NoVer
  BY <1>1, ReleaseHolds
<1>3. file'.here /\ file'.data # NoVer /\ file'.temp = NoVer /\ UNCHANGED <<handle, owner>>
  BY <1>2 DEF RelSet
<1>4. /\ \A d \in Clients : d # c => loc'[d] = loc[d]
      /\ loc'[c].pc = "seglist" /\ loc'[c].op = "release"
  <2>1. loc' = [loc EXCEPT ![c] = Removing(@, loc[c].cur)]
    BY DEF RelSet
  <2> QED  BY <1>2, <2>1, RemovingMoves DEF MovesTo, OnlyMoves
<1>5. \A d \in Clients : d # c => ~Holds(d) /\ loc[d].pc \notin ReleaseSteps
  BY <1>2, ReleaseHolds DEF LockInv, SingleWriter
<1>6. \A d \in Clients : ~Holds(d)'
  BY <1>3, <1>4, <1>5 DEF Holds, Writing, Published
<1>7. \A d \in Clients : loc[d].op \notin {"create", "unlink", "open"}
  BY <1>1, <1>2 DEF LockInv, ExclusiveKnows, OpenKnows, At, ReleaseSteps
<1>8. Phase(loc'[c]) /\ loc'[c].pc \notin ReleaseSteps
  BY <1>4 DEF Phase, WriteSteps, ReleaseSteps
<1>9. ASSUME NEW d \in Clients
      PROVE  Phase(loc'[d]) /\ ReleaseKnows(d)' /\ ReaderKnows(d)'
  BY <1>3, <1>4, <1>5, <1>8 DEF LockInv, ReleaseKnows, ReaderKnows
<1>10. \A d \in Clients : loc'[d].op \notin {"create", "unlink", "open"}
  BY <1>4, <1>7
<1>11. ASSUME NEW d \in Clients PROVE OpenKnows(d)' /\ ExclusiveKnows(d)'
  BY <1>9, <1>10 DEF OpenKnows, ExclusiveKnows, Phase, At
<1> QED  BY <1>6, <1>9, <1>10, <1>11 DEF LockInv, WriterHoldsTemp, SingleWriter

LEMMA ReleaseLock ==
    ASSUME TypeInv, LockInv, NEW c \in Clients,
           Release(c) \/ RelVer(c) \/ RelReset(c) \/ RelSize(c)
    PROVE  LockInv'
<1>1. CASE Release(c) /\ Close(c) /\ UNCHANGED loc
  <2>1. loc'[c].pc = "idle" /\ loc'[c].op = "none" /\ OnlyMoves(c) /\ UNCHANGED file
    BY <1>1 DEF Release, At, LockInv, Phase, OnlyMoves, db
  <2> QED  BY <1>1, <2>1, CloseStep DEF Release
<1>2. CASE Release(c) /\ ~Close(c)
  BY <1>2, ReleaseStart
<1>3. CASE Release(c) /\ Close(c) /\ ~UNCHANGED loc
  <2>1. UNCHANGED handle /\ handle[c] # "none"
    BY <1>3 DEF Release
  <2>2. handle'[c] = "none"
    BY <1>3 DEF Close, TypeInv, TypeOK
  <2> QED  BY <2>1, <2>2
<1>4. CASE RelVer(c)
  <2>1. loc[c].pc \in ReleaseSteps
    BY <1>4 DEF RelVer, At, ReleaseSteps
  <2>2. PICK p \in {"rel_size", "rel_reset"} : Goto(c, p)
    BY <1>4 DEF RelVer
  <2>3. MovesTo(c, p) /\ p \in ReleaseSteps
    BY <2>2, GotoMoves DEF ReleaseSteps
  <2>4. Phase(loc'[c])
    BY <2>1, <2>3, ReleaseHolds DEF MovesTo, Phase, ReleaseSteps, WriteSteps
  <2> QED
    BY <1>4, <2>1, <2>3, <2>4, ReleaseHolds, RemovalStep
       DEF MovesTo, RelVer, db, ReleaseSteps, Removal
<1>5. CASE RelSize(c)
  <2>1. loc[c].pc \in ReleaseSteps
    BY <1>5 DEF RelSize, At, ReleaseSteps
  <2>2. loc' = [loc EXCEPT ![c] = Loop(@, "rel_set", 0,
                    IF vers[loc[c].tmp].here THEN vers[loc[c].tmp].size ELSE -1)]
    BY <1>5 DEF RelSize
  <2>3. MovesTo(c, "rel_set")
    BY <2>2, LoopMoves
  <2>4. Phase(loc'[c])
    BY <2>1, <2>3, ReleaseHolds DEF MovesTo, Phase, ReleaseSteps, WriteSteps
  <2> QED
    BY <1>5, <2>1, <2>3, <2>4, ReleaseHolds, RemovalStep
       DEF MovesTo, RelSize, db, ReleaseSteps, Removal
<1>6. CASE RelReset(c)
  <2>1. loc[c].pc \in ReleaseSteps
    BY <1>6 DEF RelReset, At, ReleaseSteps
  <2>2. file'.here = file.here /\ file'.data = file.data
    BY <1>6 DEF RelReset, TypeInv, TypeOK, Files
  <2>3. Ends(c) /\ Close(c)
    BY <1>6, DoneMoves DEF RelReset
  <2> QED  BY <2>1, <2>2, <2>3, ReleaseHolds, CloseStep, IdleLock DEF Ends
<1> QED  BY <1>1, <1>2, <1>3, <1>4, <1>5, <1>6

LEMMA OpenReadLock ==
    ASSUME TypeInv, LockInv, Disciplined, NEW c \in Clients, OpenRead(c)
    PROVE  LockInv'
<1>1. /\ file.here /\ file.data # NoVer /\ NameFree /\ UNCHANGED <<file, loc, owner>>
      /\ handle'[c] = "ro" /\ \A d \in Clients : d # c => handle'[d] = handle[d]
  BY DEF OpenRead, Disciplined, db, TypeInv, TypeOK
<1>2. At(c, "idle") /\ handle[c] = "none" /\ loc[c].op = "none"
  BY DEF OpenRead, At, LockInv, Phase
<1>3. \A d \in Clients : Holds(d)' <=> Holds(d)
  BY <1>1, <1>2 DEF Holds, Writing, Published
<1>4. \A d \in Clients : loc[d].op \notin {"create", "unlink"}
  BY <1>1 DEF NameFree, Busy
<1>5. (WriterHoldsTemp /\ SingleWriter)'
  BY <1>1, <1>3 DEF LockInv, WriterHoldsTemp, SingleWriter
<1>6. ASSUME NEW d \in Clients
      PROVE  /\ Holds(d)' => owner'[d] # NoVer
             /\ Phase(loc'[d]) /\ ReaderKnows(d)' /\ OpenKnows(d)'
  BY <1>1, <1>2, <1>3 DEF LockInv, ReaderKnows, OpenKnows
<1>7. ASSUME NEW d \in Clients PROVE ReleaseKnows(d)' /\ ExclusiveKnows(d)'
  BY <1>1, <1>2, <1>4 DEF LockInv, ReleaseKnows, ReleaseSteps, ExclusiveKnows, Writing, At, Phase
<1> QED  BY <1>1, <1>5, <1>6, <1>7 DEF LockInv

\* generate_version() never returns -1.
LEMMA GenerateMoves ==
    ASSUME TypeInv, NEW c \in Clients, NEW o, NEW p, Generate(c, o, p)
    PROVE  /\ OnlyMoves(c)
           /\ loc'[c].op = o /\ loc'[c].pc = p /\ loc'[c].tmp # NoVer
<1>1. clock' # NoVer
  BY ConstantsAssumption DEF Generate, TypeInv, TypeOK, NoVer
<1> QED  BY <1>1 DEF Generate, Request, OnlyMoves, TypeInv, TypeOK

LEMMA OpenWriteLock ==
    ASSUME TypeInv, LockInv, Disciplined, NEW c \in Clients, OpenWrite(c)
    PROVE  LockInv'
<1>1. /\ file.here /\ file.temp = NoVer /\ NameFree /\ UNCHANGED <<file, handle, owner>>
      /\ handle[c] = "none" /\ Busy({"open"}) = {}
  BY DEF OpenWrite, Disciplined
<1>2. /\ \A d \in Clients : d # c => loc'[d] = loc[d]
      /\ loc'[c].op = "open" /\ loc'[c].pc = "open_set" /\ loc'[c].tmp # NoVer
  BY GenerateMoves DEF OpenWrite, OnlyMoves
<1>3. \A d \in Clients : loc[d].op \notin {"create", "unlink", "open"}
  BY <1>1 DEF NameFree, Busy
<1>4. \A d \in Clients : Holds(d)' <=> Holds(d)
  BY <1>1, <1>2 DEF Holds, Writing, Published
<1>5. (WriterHoldsTemp /\ SingleWriter)'
  BY <1>1, <1>4 DEF LockInv, WriterHoldsTemp, SingleWriter
<1>6. Phase(loc'[c]) /\ loc'[c].pc \notin ReleaseSteps
  BY <1>2 DEF Phase, WriteSteps, ReleaseSteps
<1>7. ASSUME NEW d \in Clients
      PROVE  /\ Holds(d)' => owner'[d] # NoVer
             /\ Phase(loc'[d]) /\ ReleaseKnows(d)' /\ ReaderKnows(d)'
  BY <1>1, <1>2, <1>4, <1>6 DEF LockInv, ReleaseKnows, ReaderKnows, Writing
<1>8. ASSUME NEW d \in Clients PROVE OpenKnows(d)' /\ ExclusiveKnows(d)'
  BY <1>1, <1>2, <1>3 DEF LockInv, OpenKnows, ExclusiveKnows, At, Phase
<1>9. \A d, e \in Clients : loc'[d].op = "open" /\ loc'[e].op = "open" => d = e
  BY <1>2, <1>3
<1> QED  BY <1>5, <1>7, <1>8, <1>9 DEF LockInv

\* The temp version a request puts in the entry makes its client the writer.
LEMMA BecomesWriter ==
    ASSUME TypeInv, LockInv, NEW c \in Clients, OpenSet(c) \/ CreatePush(c)
    PROVE  LockInv'
<1>1. /\ loc[c].op \in {"open", "create"} /\ file.here /\ loc[c].tmp # NoVer
      /\ handle[c] = "none"
  BY DEF OpenSet, CreatePush, At, LockInv, Phase, OpenKnows, ExclusiveKnows
<1>2. /\ file'.here /\ file'.data = file.data /\ file'.temp = loc[c].tmp
  BY <1>1 DEF OpenSet, CreatePush, LockInv, ExclusiveKnows, TypeInv, TypeOK, Files
<1>3. /\ \A d \in Clients : d # c => /\ loc'[d] = loc[d] /\ handle'[d] = handle[d]
                                    /\ owner'[d] = owner[d]
      /\ loc'[c] = Idle /\ handle'[c] \in {"rw", "new"} /\ owner'[c] = loc[c].tmp
  BY DoneMoves DEF OpenSet, CreatePush, Ends, OnlyMoves, TypeInv, TypeOK
<1>4. \A d \in Clients : ~Holds(d)
  BY <1>1 DEF LockInv, WriterHoldsTemp, OpenKnows, ExclusiveKnows, Holds, Writing
<1>5. \A d \in Clients : loc[d].pc \notin ReleaseSteps
  BY <1>4, ReleaseHolds
<1>6. \A d \in Clients : d # c => ~Holds(d)'
  BY <1>3, <1>4 DEF Holds, Writing, Published
<1>7. \A d \in Clients : d # c => loc[d].op \notin {"open", "create", "unlink"}
  <2>1. CASE loc[c].op = "open"
    BY <1>1, <2>1 DEF LockInv, ExclusiveKnows, At, Phase
  <2>2. CASE loc[c].op = "create"
    BY <2>2 DEF LockInv, ExclusiveKnows, At, Phase
  <2> QED  BY <1>1, <2>1, <2>2
<1>8. (WriterHoldsTemp /\ SingleWriter)'
  BY <1>2, <1>3, <1>6 DEF WriterHoldsTemp, SingleWriter
<1>9. ASSUME NEW d \in Clients
      PROVE  /\ Holds(d)' => owner'[d] # NoVer
             /\ Phase(loc'[d]) /\ ReleaseKnows(d)' /\ ReaderKnows(d)'
  <2>1. CASE d = c
    BY <1>1, <1>3, <2>1, IdleLock DEF ReleaseKnows, ReaderKnows, ReleaseSteps
  <2>2. CASE d # c
    BY <1>2, <1>3, <1>5, <1>6, <2>2 DEF LockInv, ReleaseKnows, ReaderKnows
  <2> QED  BY <2>1, <2>2
<1>10. ASSUME NEW d \in Clients PROVE OpenKnows(d)' /\ ExclusiveKnows(d)'
  <2>1. CASE d = c
    BY <1>3, <2>1, IdleLock DEF OpenKnows, ExclusiveKnows, At
  <2>2. CASE d # c
    BY <1>3, <1>7, <2>2 DEF LockInv, OpenKnows, ExclusiveKnows, At, Phase
  <2> QED  BY <2>1, <2>2
<1>11. \A d, e \in Clients : loc'[d].op = "open" /\ loc'[e].op = "open" => d = e
  BY <1>3, <1>7, IdleLock
<1> QED  BY <1>8, <1>9, <1>10, <1>11 DEF LockInv

\* While a create or an unlink runs, or starts, nobody else does anything.
LEMMA ExclusiveStep ==
    ASSUME TypeInv, NEW c \in Clients, OnlyMoves(c), UNCHANGED handle,
           \A d \in Clients : handle[d] = "none" /\ (d # c => At(d, "idle")),
           \A d \in Clients : Phase(loc[d]), Phase(loc'[c]), loc'[c].op # "open",
           loc'[c].pc \notin ReleaseSteps, ExclusiveKnows(c)'
    PROVE  LockInv'
<1>1. \A d \in Clients : d # c => loc'[d] = loc[d] /\ loc[d].op = "none" /\ loc[d].pc = "idle"
  BY DEF OnlyMoves, Phase, At
<1>2. \A d \in Clients : ~Holds(d)'
  BY DEF Holds, Writing
<1>3. ASSUME NEW d \in Clients
      PROVE  Phase(loc'[d]) /\ ReleaseKnows(d)' /\ ReaderKnows(d)' /\ OpenKnows(d)'
  BY <1>1 DEF ReleaseKnows, ReaderKnows, OpenKnows, ReleaseSteps
<1>4. ASSUME NEW d \in Clients PROVE ExclusiveKnows(d)'
  BY <1>1 DEF ExclusiveKnows, At
<1>5. \A d, e \in Clients : loc'[d].op = "open" /\ loc'[e].op = "open" => d = e
  BY <1>1
<1> QED  BY <1>2, <1>3, <1>4, <1>5 DEF LockInv, WriterHoldsTemp, SingleWriter

LEMMA CreateLock ==
    ASSUME TypeInv, LockInv, NEW c \in Clients, Create(c) \/ CreateInsert(c)
    PROVE  LockInv'
<1>1. CASE Create(c)
  <2>1. \A d \in Clients : handle[d] = "none" /\ At(d, "idle")
    BY <1>1 DEF Create, Alone, LockInv, WriterHoldsTemp, ReaderKnows, Holds, Writing,
                Published, At, TypeInv, TypeOK
  <2>2. /\ OnlyMoves(c) /\ loc'[c].op = "create" /\ loc'[c].pc = "create_insert"
        /\ loc'[c].tmp # NoVer /\ UNCHANGED <<file, handle>> /\ ~file.here
    BY <1>1, GenerateMoves DEF Create
  <2>3. Phase(loc'[c]) /\ loc'[c].pc \notin ReleaseSteps
    BY <2>2 DEF Phase, WriteSteps, ReleaseSteps
  <2>4. ExclusiveKnows(c)'
    BY <2>1, <2>2 DEF ExclusiveKnows, At, OnlyMoves
  <2> QED  BY <2>1, <2>2, <2>3, <2>4, ExclusiveStep DEF LockInv
<1>2. CASE CreateInsert(c)
  <2>1. loc[c].op = "create" /\ loc[c].tmp # NoVer /\ ~file.here
        /\ \A d \in Clients : handle[d] = "none" /\ (d # c => At(d, "idle"))
    BY <1>2 DEF CreateInsert, At, LockInv, Phase, ExclusiveKnows
  <2>2. MovesTo(c, "create_push") /\ UNCHANGED handle
        /\ file'.here /\ file'.temp = loc[c].tmp
    BY <1>2, <2>1, GotoMoves DEF CreateInsert
  <2>3. Phase(loc'[c]) /\ loc'[c].pc \notin ReleaseSteps
    BY <2>1, <2>2 DEF MovesTo, Phase, WriteSteps, ReleaseSteps
  <2>4. ExclusiveKnows(c)'
    BY <2>1, <2>2 DEF MovesTo, ExclusiveKnows, At, OnlyMoves
  <2> QED  BY <2>1, <2>2, <2>3, <2>4, ExclusiveStep DEF LockInv, MovesTo
<1> QED  BY <1>1, <1>2

LEMMA UnlinkLock ==
    ASSUME TypeInv, LockInv, NEW c \in Clients,
           Unlink(c) \/ UnlinkQuery(c) \/ UnlinkEntry(c)
    PROVE  LockInv'
<1>1. UNCHANGED handle /\ \A d \in Clients : handle[d] = "none" /\ (d # c => At(d, "idle"))
  BY DEF Unlink, UnlinkQuery, UnlinkEntry, Alone, At, LockInv, Phase, ExclusiveKnows
<1>2. ASSUME OnlyMoves(c), loc'[c].op \in {"none", "unlink"},
             loc'[c].op = "none" => loc'[c].pc = "idle",
             loc'[c].op = "unlink" => loc'[c].pc \in {"unl_query", "unl_entry", "seglist"}
      PROVE  LockInv'
  <2>1. Phase(loc'[c]) /\ loc'[c].pc \notin ReleaseSteps
    BY <1>2 DEF Phase, WriteSteps, ReleaseSteps
  <2>2. ExclusiveKnows(c)'
    BY <1>1, <1>2 DEF ExclusiveKnows, At, OnlyMoves
  <2> QED  BY <1>1, <1>2, <2>1, <2>2, ExclusiveStep DEF LockInv
<1>3. CASE Unlink(c)
  <2>1. OnlyMoves(c) /\ loc'[c].op = "unlink" /\ loc'[c].pc = "unl_query"
    BY <1>3 DEF Unlink, Request, OnlyMoves, TypeInv, TypeOK
  <2> QED  BY <1>2, <2>1
<1>4. CASE UnlinkQuery(c)
  <2> DEFINE r == Request("unlink", "unl_entry", file.temp, file.data, 0)
             v == IF file.data # NoVer THEN file.data ELSE file.temp
             a == [r EXCEPT !.pc = "seglist"]
             m == [a EXCEPT !.vic = v]
  <2>1. r.op = "unlink" /\ r.pc = "unl_entry"
    BY DEF Request
  <2>2. a.op = "unlink" /\ a.pc = "seglist"
        /\ DOMAIN a = {"pc", "op", "tmp", "cur", "vic", "pos", "idx", "lim"}
    BY DEF Request
  <2>3. m.op = "unlink" /\ m.pc = "seglist"
    <3> HIDE DEF a
    <3> QED  BY <2>2
  <2>4. m = Removing(r, v)
    BY DEF Removing
  <2>5. OnlyMoves(c) /\ (loc'[c] = m \/ loc'[c] = r)
    <3>1. loc' = [loc EXCEPT ![c] = Removing(r, v)] \/ loc' = [loc EXCEPT ![c] = r]
      BY <1>4 DEF UnlinkQuery
    <3> HIDE DEF r, m
    <3> QED  BY <2>4, <3>1 DEF OnlyMoves, TypeInv, TypeOK
  <2> HIDE DEF r, m
  <2> QED  BY <1>2, <2>1, <2>3, <2>5
<1>5. CASE UnlinkEntry(c)
  <2>1. Ends(c)
    BY <1>5, DoneMoves DEF UnlinkEntry
  <2> QED  BY <1>2, <2>1, IdleLock DEF Ends
<1> QED  BY <1>3, <1>4, <1>5

LEMMA LockNext ==
    ASSUME Disciplined, TypeInv, LockInv, [Next]_vars
    PROVE  LockInv'
<1>1. ASSUME NEW c \in Clients, Step(c) PROVE LockInv'
  BY <1>1, BecomesWriter, CreateLock, ReadLock, WriteLock, SegmentLock, VerRemoveLock,
     ReleaseLock, PublishLock, UnlinkLock DEF Step
<1>2. ASSUME NEW c \in Clients, Call(c) PROVE LockInv'
  BY <1>2, OpenReadLock, OpenWriteLock, CreateLock, ReleaseLock, UnlinkLock, CallLock DEF Call
<1>3. CASE Crash
  BY <1>3, KilledStep DEF Crash
<1>4. CASE UNCHANGED vars
  BY <1>4 DEF vars, LockInv, WriterHoldsTemp, SingleWriter, ReleaseKnows, ReaderKnows,
              OpenKnows, ExclusiveKnows, Holds, Published, Writing, At
<1> QED  BY <1>1, <1>2, <1>3, <1>4 DEF Next

\* For any number of clients, versions and segments, with crashes, truncates
\* and sparse writes: what the handlers know about the temp version is true.
THEOREM LockInvariant == ASSUME Disciplined PROVE Spec => []LockInv
<1>1. Init => TypeInv /\ LockInv
  BY TypeInit, LockInit
<1>2. TypeInv /\ LockInv /\ [Next]_vars => (TypeInv /\ LockInv)'
  BY TypeNext, LockNext
<1> QED  BY <1>1, <1>2, PTL DEF Spec

\* A writer never loses its temp version to another handler.
THEOREM WriterSafe == ASSUME Disciplined PROVE Spec => []WriterHoldsTemp
<1>1. LockInv => WriterHoldsTemp
  BY DEF LockInv
<1> QED  BY <1>1, LockInvariant, PTL

\* There is never a second writer: ndnfs_open rejects every open for writing
\* while a temp version is in the entry.
THEOREM MutualExclusion == ASSUME Disciplined PROVE Spec => []SingleWriter
<1>1. LockInv => SingleWriter
  BY DEF LockInv
<1> QED  BY <1>1, LockInvariant, PTL

-----------------------------------------------------------------------------
(* Version numbers: one that is about to become a temp version names no     *)
(* document, whatever the surroundings do, and a version that is published  *)
(* is newer than the one it replaces.                                       *)

\* Whatever names a version names one that was generated.
Generated ==
    /\ file.temp <= clock /\ file.data <= clock
    /\ \A v \in AnyVer : vers[v].here => v <= clock
    /\ \A v \in SegVers, i \in SegNums : segs[<<v, i>>] # "absent" => v <= clock
    /\ \A c \in Clients : loc[c].tmp <= clock

\* Only the request that generated a number knows it until it is in the entry.
NewSteps == {"open_set", "create_insert"}
Unused(v) == ~vers[v].here /\ \A i \in SegNums : segs[<<v, i>>] = "absent"
Private(c) ==
    /\ loc[c].tmp # NoVer /\ Unused(loc[c].tmp) /\ file.temp # loc[c].tmp
    /\ \A d \in Clients \ {c} : loc[d].tmp # loc[c].tmp

VersionInv == Generated /\ \A c \in Clients : loc[c].pc \in NewSteps => Private(c)

LEMMA VersionInit == Init => VersionInv
<1> SUFFICES ASSUME Init PROVE VersionInv
  OBVIOUS
<1>1. \A c \in Clients : loc[c].pc = "idle" /\ loc[c].tmp = -1
  BY DEF Init, Idle, Request, NoVer
<1>2. file.temp = -1 /\ file.data = -1 /\ clock = 0
  BY DEF Init, NoFile, NoVer
<1>3. /\ \A v \in AnyVer : ~vers[v].here
      /\ \A v \in SegVers, i \in SegNums : segs[<<v, i>>] = "absent"
  BY DEF Init, NoDoc, SegIds
<1> QED  BY <1>1, <1>2, <1>3 DEF VersionInv, Generated, NewSteps

\* A step of a request that goes on, ends or starts without a new number.
MovesOn(c) ==
    /\ OnlyMoves(c) /\ loc'[c].pc \notin NewSteps
    /\ loc'[c].tmp \in {loc[c].tmp, file.temp, NoVer}

\* New documents are those of one version only.
GrowsAt(v) ==
    /\ \A w \in AnyVer : w # v => (vers'[w].here => vers[w].here)
    /\ \A w \in SegVers, i \in SegNums :
           w # Unsigned(v) => (segs'[<<w, i>>] # "absent" => segs[<<w, i>>] # "absent")

\* What a request makes it makes at the version it read from the entry, and
\* what it puts in the entry is that version or none.
LEMMA OrdinaryStep ==
    ASSUME TypeInv, VersionInv, NEW c \in Clients, MovesOn(c), GrowsAt(loc[c].tmp),
           UNCHANGED clock,
           file'.temp \in {file.temp, loc[c].tmp, NoVer},
           file'.data \in {file.data, loc[c].tmp, NoVer}
    PROVE  VersionInv'
<1> DEFINE t == loc[c].tmp
<1>1. /\ t \in AnyVer /\ t <= clock /\ NoVer <= clock /\ Unsigned(t) <= clock
      /\ clock \in Nat /\ file.temp <= clock /\ file.data <= clock
  BY ConstantsAssumption
     DEF TypeInv, TypeOK, Locals, VersionInv, Generated, Unsigned, WrappedVer, NoVer
<1>2. \A d \in Clients : d # c => loc'[d] = loc[d]
  BY DEF MovesOn, OnlyMoves
<1>3. Generated'
  <2>1. file'.temp <= clock /\ file'.data <= clock
    BY <1>1
  <2>2. \A v \in AnyVer : vers'[v].here => v <= clock
    BY <1>1 DEF GrowsAt, VersionInv, Generated
  <2>3. \A v \in SegVers, i \in SegNums : segs'[<<v, i>>] # "absent" => v <= clock
    BY <1>1 DEF GrowsAt, VersionInv, Generated
  <2>4. \A d \in Clients : loc'[d].tmp <= clock
    BY <1>1, <1>2 DEF MovesOn, VersionInv, Generated
  <2> QED  BY <2>1, <2>2, <2>3, <2>4 DEF Generated
<1>4. ASSUME NEW d \in Clients, loc'[d].pc \in NewSteps PROVE Private(d)'
  <2> DEFINE v == loc[d].tmp
  <2>1. d # c /\ loc'[d] = loc[d] /\ Private(d)
    BY <1>2, <1>4 DEF MovesOn, VersionInv
  <2>2. v \in AnyVer /\ v \in SegVers /\ v # NoVer /\ v # t /\ v # Unsigned(t) /\ v # file.temp
    BY <2>1 DEF Private, TypeInv, TypeOK, Locals, SegVers, Unsigned, WrappedVer, AnyVer,
                Versions, NoVer
  <2>3. ~vers'[v].here /\ \A i \in SegNums : segs'[<<v, i>>] = "absent"
    BY <2>1, <2>2 DEF Private, Unused, GrowsAt
  <2>4. file'.temp # v
    BY <2>2
  <2>5. \A e \in Clients \ {d} : loc'[e].tmp # v
    BY <1>2, <2>1, <2>2 DEF Private, MovesOn
  <2> QED  BY <2>1, <2>2, <2>3, <2>4, <2>5 DEF Private, Unused
<1> QED  BY <1>3, <1>4 DEF VersionInv

LEMMA KilledVersion ==
    ASSUME TypeInv, VersionInv, Killed, UNCHANGED <<file, vers, segs, clock>>
    PROVE  VersionInv'
<1>1. \A c \in Clients : loc'[c].pc = "idle" /\ loc'[c].tmp = -1
  BY DEF Killed, Idle, Request, NoVer
<1>2. clock \in Nat
  BY ConstantsAssumption DEF TypeInv, TypeOK
<1> QED  BY <1>1, <1>2 DEF VersionInv, Generated, NewSteps

\* How the steps of module File move a request on.
LEMMA GoesOn ==
    ASSUME TypeInv, NEW c \in Clients, NEW p, p \notin NewSteps,
           Done(c) \/ Goto(c, p) \/ MovesTo(c, p)
    PROVE  MovesOn(c)
BY DoneMoves, GotoMoves
   DEF MovesOn, MovesTo, Ends, Idle, Request, NewSteps

LEMMA Enters ==
    ASSUME TypeInv, NEW c \in Clients, NEW o, NEW k, NEW p, Enter(c, o, k, p),
           k \notin NewSteps
    PROVE  MovesOn(c)
BY DEF Enter, Request, MovesOn, OnlyMoves, TypeInv, TypeOK

LEMMA NothingGrows ==
    ASSUME UNCHANGED <<vers, segs>>, NEW v PROVE GrowsAt(v)
BY DEF GrowsAt

\* The inserts and updates of a write or a truncate.
LEMMA SegmentGrows ==
    ASSUME TypeInv, NEW c \in Clients, NEW i \in 0..MaxSegs,
           InsertSeg(loc[c].tmp, i), UNCHANGED vers
    PROVE  GrowsAt(loc[c].tmp)
BY DEF InsertSeg, GrowsAt, TypeInv, TypeOK

LEMMA VersionGrows ==
    ASSUME TypeInv, NEW v \in AnyVer, NEW n, NEW s,
           InsertVer(v, n) \/ UpdateVer(v, n, s), UNCHANGED segs
    PROVE  GrowsAt(v)
BY DEF InsertVer, UpdateVer, GrowsAt, TypeInv, TypeOK

-----------------------------------------------------------------------------
(* Every step but one that generates a number or kills the process moves on. *)

LEMMA CallMoves ==
    ASSUME TypeInv, NEW c \in Clients,
           \/ OpenRead(c) \/ Release(c) \/ Unlink(c)
           \/ \E p \in SegNums : Read(c, p) \/ Write(c, p)
           \/ \E p \in 0..MaxSegs : Truncate(c, p)
    PROVE  MovesOn(c)
<1>1. CASE OpenRead(c) \/ (Release(c) /\ UNCHANGED loc)
  BY <1>1 DEF OpenRead, Release, At, MovesOn, OnlyMoves, NewSteps
<1>2. CASE Unlink(c)
  BY <1>2 DEF Unlink, Request, MovesOn, OnlyMoves, NewSteps, TypeInv, TypeOK
<1>3. CASE Release(c) /\ ~UNCHANGED loc
  BY <1>3, Enters DEF Release, NewSteps
<1>4. ASSUME NEW p, Read(c, p) \/ Write(c, p) \/ Truncate(c, p) PROVE MovesOn(c)
  BY <1>4, Enters DEF Read, Write, Truncate, NewSteps
<1> QED  BY <1>1, <1>2, <1>3, <1>4

LEMMA QueryMoves ==
    ASSUME TypeInv, NEW c \in Clients,
           \/ ReadVer(c) \/ TempQuery(c) \/ CurrQuery(c) \/ VerRequery(c)
           \/ RelVer(c) \/ RelSize(c) \/ SegList(c) \/ UnlinkQuery(c)
    PROVE  MovesOn(c)
<1>1. CASE ReadVer(c) \/ RelSize(c) \/ SegList(c)
  <2>1. PICK p \in {"read_seg", "rel_set", "seg_rm", "ver_set", "ver_rm"} :
           Done(c) \/ Goto(c, p) \/ MovesTo(c, p)
    <3>1. CASE ReadVer(c)
      BY <3>1, LoopMoves DEF ReadVer
    <3>2. CASE RelSize(c)
      BY <3>2, LoopMoves DEF RelSize
    <3>3. CASE SegList(c)
      BY <3>3, LoopMoves DEF SegList, AfterSegments
    <3> QED  BY <1>1, <3>1, <3>2, <3>3
  <2> QED  BY <2>1, GoesOn DEF NewSteps
<1>2. CASE TempQuery(c) \/ CurrQuery(c) \/ VerRequery(c) \/ RelVer(c)
  <2>1. PICK p \in {"curr_query", "ver_insert", "seg_put", "trunc_set", "copy_get",
                    "rel_size", "rel_reset"} : Done(c) \/ Goto(c, p)
    BY <1>2 DEF TempQuery, CurrQuery, VerRequery, RelVer
  <2> QED  BY <2>1, GoesOn DEF NewSteps
<1>3. CASE UnlinkQuery(c)
  <2> DEFINE r == Request("unlink", "unl_entry", file.temp, file.data, 0)
             v == IF file.data # NoVer THEN file.data ELSE file.temp
  <2>1. /\ r.pc = "unl_entry" /\ r.tmp = file.temp
        /\ Removing(r, v).pc = "seglist" /\ Removing(r, v).tmp = file.temp
    BY DEF Request, Removing
  <2>2. loc' = [loc EXCEPT ![c] = Removing(r, v)] \/ loc' = [loc EXCEPT ![c] = r]
    BY <1>3 DEF UnlinkQuery
  <2> HIDE DEF r, v
  <2> QED  BY <2>1, <2>2 DEF MovesOn, OnlyMoves, NewSteps, TypeInv, TypeOK
<1> QED  BY <1>1, <1>2, <1>3

\* binData() may end the process instead.
LEMMA SegmentReadMoves ==
    ASSUME TypeInv, NEW c \in Clients, ReadSeg(c) \/ CopyGet(c)
    PROVE  MovesOn(c) \/ Killed
<1>1. CASE loc' = [loc EXCEPT ![c].idx = @ + 1] /\ At(c, "read_seg")
  <2>1. MovesTo(c, "read_seg")
    BY <1>1 DEF At, MovesTo, OnlyMoves, TypeInv, TypeOK, Locals
  <2> QED  BY <2>1, GoesOn DEF NewSteps
<1>2. CASE Done(c) \/ Goto(c, "copy_put")
  BY <1>2, GoesOn DEF NewSteps
<1> QED  BY <1>1, <1>2 DEF ReadSeg, CopyGet

LEMMA WriteMoves ==
    ASSUME TypeInv, NEW c \in Clients,
           \/ CopyPut(c) \/ VerInsert(c) \/ SegPut(c)
           \/ VerSet(c) \/ TruncSet(c) \/ TruncSeg(c)
    PROVE  MovesOn(c)
<1>1. CASE CopyPut(c) \/ SegPut(c) \/ TruncSeg(c)
  <2>1. PICK p \in {"ver_insert", "copy_get", "seglist"} : Goto(c, p) \/ MovesTo(c, p)
    BY <1>1, LoopMoves, RemovingMoves DEF CopyPut, SegPut, TruncSeg
  <2> QED  BY <2>1, GoesOn DEF NewSteps
<1>2. CASE VerInsert(c) \/ VerSet(c) \/ TruncSet(c)
  <2>1. PICK p \in {"ver_requery", "trunc_seg"} : Done(c) \/ Goto(c, p)
    BY <1>2 DEF VerInsert, VerSet, TruncSet
  <2> QED  BY <2>1, GoesOn DEF NewSteps
<1> QED  BY <1>1, <1>2

LEMMA RemoveMoves ==
    ASSUME TypeInv, NEW c \in Clients, SegRemove(c) \/ VerRemove(c)
    PROVE  MovesOn(c)
<1>1. CASE SegRemove(c) /\ loc' = [loc EXCEPT ![c].idx = loc[c].idx + 1]
  <2>1. MovesTo(c, "seg_rm")
    BY <1>1 DEF SegRemove, At, MovesTo, OnlyMoves, TypeInv, TypeOK, Locals
  <2> QED  BY <2>1, GoesOn DEF NewSteps
<1>2. CASE SegRemove(c) /\ AfterSegments(c)
  BY <1>2, GoesOn DEF AfterSegments, NewSteps
<1>3. CASE VerRemove(c)
  <2>1. Done(c) \/ MovesTo(c, "seglist") \/ Goto(c, "unl_entry")
    BY <1>3, RemovingMoves DEF VerRemove
  <2> QED  BY <2>1, GoesOn DEF NewSteps
<1> QED  BY <1>1, <1>2, <1>3 DEF SegRemove

LEMMA EntryMoves ==
    ASSUME TypeInv, NEW c \in Clients,
           \/ OpenSet(c) \/ CreateInsert(c) \/ CreatePush(c)
           \/ RelReset(c) \/ RelSet(c) \/ UnlinkEntry(c)
    PROVE  MovesOn(c)
<1>1. CASE RelSet(c)
  <2>1. loc' = [loc EXCEPT ![c] = Removing(@, loc[c].cur)]
    BY <1>1 DEF RelSet
  <2>2. MovesTo(c, "seglist")
    BY <2>1, RemovingMoves
  <2> QED  BY <2>2, GoesOn DEF NewSteps
<1>2. CASE Done(c) \/ Goto(c, "create_push")
  BY <1>2, GoesOn DEF NewSteps
<1> QED  BY <1>1, <1>2 DEF OpenSet, CreateInsert, CreatePush, RelReset, UnlinkEntry

-----------------------------------------------------------------------------
(* Every action preserves the invariant. *)

LEMMA GenerateVersion ==
    ASSUME TypeInv, VersionInv, NEW c \in Clients, NEW o, NEW p, Generate(c, o, p),
           UNCHANGED <<file, vers, segs>>
    PROVE  VersionInv'
<1>1. /\ clock \in Nat /\ clock' = clock + 1
      /\ loc'[c].tmp = clock' /\ \A d \in Clients : d # c => loc'[d] = loc[d]
  BY ConstantsAssumption DEF Generate, Request, TypeInv, TypeOK
<1>2. clock' \in AnyVer /\ clock' \in SegVers /\ clock' # NoVer
  <2>1. clock < MaxVersion /\ MaxVersion \in Nat
    BY ConstantsAssumption DEF Generate
  <2>2. clock' \in 1..MaxVersion
    BY <1>1, <2>1
  <2> QED  BY <2>2 DEF AnyVer, Versions, SegVers, NoVer
<1>3. /\ file.temp \in Int /\ file.data \in Int /\ AnyVer \subseteq Int /\ SegVers \subseteq Int
      /\ \A d \in Clients : loc[d].tmp \in Int
  BY DEF TypeInv, TypeOK, Files, Locals, AnyVer, Versions, SegVers, NoVer, WrappedVer
<1>4. Generated'
  <2>1. \A x \in Int : x <= clock => x <= clock'
    BY <1>1
  <2>2. file'.temp <= clock' /\ file'.data <= clock'
    BY <1>3, <2>1 DEF VersionInv, Generated
  <2>3. \A v \in AnyVer : vers'[v].here => v <= clock'
    <3> SUFFICES ASSUME NEW v \in AnyVer, vers[v].here PROVE v <= clock'
      OBVIOUS
    <3>1. v <= clock /\ v \in Int
      BY <1>3 DEF VersionInv, Generated
    <3> QED  BY <2>1, <3>1
  <2>4. \A v \in SegVers, i \in SegNums : segs'[<<v, i>>] # "absent" => v <= clock'
    <3> SUFFICES ASSUME NEW v \in SegVers, NEW i \in SegNums, segs[<<v, i>>] # "absent"
                 PROVE  v <= clock'
      OBVIOUS
    <3>1. v <= clock /\ v \in Int
      BY <1>3 DEF VersionInv, Generated
    <3> QED  BY <2>1, <3>1
  <2>5. \A d \in Clients : loc'[d].tmp <= clock'
    <3> TAKE d \in Clients
    <3>1. loc[d].tmp <= clock /\ loc[d].tmp \in Int /\ clock' <= clock'
      BY <1>1, <1>3 DEF VersionInv, Generated
    <3> QED  BY <1>1, <2>1, <3>1
  <2> QED  BY <2>2, <2>3, <2>4, <2>5 DEF Generated
<1>5. /\ ~vers'[clock'].here /\ \A i \in SegNums : segs'[<<clock', i>>] = "absent"
      /\ file'.temp # clock' /\ \A d \in Clients : d # c => loc'[d].tmp # clock'
  <2>1. ~(clock' <= clock)
    BY <1>1
  <2>2. ~vers[clock'].here
    BY <1>2, <2>1 DEF VersionInv, Generated
  <2>3. \A i \in SegNums : segs[<<clock', i>>] = "absent"
    BY <1>2, <2>1 DEF VersionInv, Generated
  <2>4. file.temp # clock' /\ \A d \in Clients : loc[d].tmp # clock'
    BY <2>1 DEF VersionInv, Generated
  <2> QED  BY <1>1, <2>2, <2>3, <2>4
<1>6. Private(c)'
  <2> DEFINE v == loc'[c].tmp
  <2>1. v = clock' /\ v # NoVer
    BY <1>1, <1>2
  <2>2. ~vers'[v].here /\ \A i \in SegNums : segs'[<<v, i>>] = "absent"
    BY <1>5, <2>1
  <2>3. file'.temp # v /\ \A d \in Clients \ {c} : loc'[d].tmp # v
    BY <1>5, <2>1
  <2> QED  BY <2>1, <2>2, <2>3 DEF Private, Unused
<1>7. ASSUME NEW d \in Clients, d # c, loc'[d].pc \in NewSteps PROVE Private(d)'
  <2>1. Private(d) /\ loc'[d] = loc[d] /\ loc[d].tmp # clock'
    BY <1>1, <1>5, <1>7 DEF VersionInv
  <2> QED  BY <1>1, <2>1 DEF Private, Unused
<1> QED  BY <1>4, <1>6, <1>7 DEF VersionInv

\* Calls and queries leave every document alone.
LEMMA QueryVersion ==
    ASSUME TypeInv, VersionInv, NEW c \in Clients,
           \/ OpenRead(c) \/ Release(c) \/ Unlink(c)
           \/ \E p \in SegNums : Read(c, p) \/ Write(c, p)
           \/ \E p \in 0..MaxSegs : Truncate(c, p)
           \/ ReadVer(c) \/ TempQuery(c) \/ CurrQuery(c) \/ VerRequery(c)
           \/ RelVer(c) \/ RelSize(c) \/ SegList(c) \/ UnlinkQuery(c)
           \/ ReadSeg(c) \/ CopyGet(c)
    PROVE  VersionInv'
<1>1. UNCHANGED <<file, vers, segs, clock>>
  BY DEF OpenRead, Release, Unlink, Read, Write, Truncate, ReadVer, TempQuery, CurrQuery,
         VerRequery, RelVer, RelSize, SegList, UnlinkQuery, ReadSeg, CopyGet, db
<1>2. MovesOn(c) \/ Killed
  BY CallMoves, QueryMoves, SegmentReadMoves
<1>3. CASE MovesOn(c)
  BY <1>1, <1>3, OrdinaryStep, NothingGrows
<1>4. CASE Killed
  BY <1>1, <1>4, KilledVersion
<1> QED  BY <1>2, <1>3, <1>4

LEMMA WriteVersion ==
    ASSUME TypeInv, VersionInv, NEW c \in Clients,
           \/ CopyPut(c) \/ VerInsert(c) \/ SegPut(c)
           \/ VerSet(c) \/ TruncSet(c) \/ TruncSeg(c)
    PROVE  VersionInv'
<1>1. loc[c].tmp \in AnyVer /\ loc[c].pos \in 0..MaxSegs /\ loc[c].idx \in 0..MaxSegs
  BY DEF TypeInv, TypeOK, Locals
<1>2. UNCHANGED <<file, clock>> /\ MovesOn(c)
  BY WriteMoves DEF CopyPut, VerInsert, SegPut, VerSet, TruncSet, TruncSeg
<1>3. GrowsAt(loc[c].tmp)
  <2>1. CASE CopyPut(c) \/ SegPut(c)
    BY <1>1, <2>1, SegmentGrows DEF CopyPut, SegPut
  <2>2. CASE VerInsert(c) \/ VerSet(c) \/ TruncSet(c)
    BY <1>1, <2>2, VersionGrows DEF VerInsert, VerSet, TruncSet
  <2>3. CASE TruncSeg(c)
    BY <2>3 DEF TruncSeg, GrowsAt, TypeInv, TypeOK
  <2> QED  BY <2>1, <2>2, <2>3
<1> QED  BY <1>2, <1>3, OrdinaryStep

LEMMA RemoveVersion ==
    ASSUME TypeInv, VersionInv, NEW c \in Clients, SegRemove(c) \/ VerRemove(c)
    PROVE  VersionInv'
<1>1. UNCHANGED <<file, clock>> /\ MovesOn(c)
  BY RemoveMoves DEF SegRemove, VerRemove
<1>2. GrowsAt(loc[c].tmp)
  <2>1. CASE SegRemove(c)
    BY <2>1 DEF SegRemove, GrowsAt, TypeInv, TypeOK
  <2>2. CASE VerRemove(c)
    BY <2>2 DEF VerRemove, GrowsAt, NoDoc, TypeInv, TypeOK
  <2> QED  BY <2>1, <2>2
<1> QED  BY <1>1, <1>2, OrdinaryStep

LEMMA EntryVersion ==
    ASSUME TypeInv, VersionInv, NEW c \in Clients,
           \/ OpenSet(c) \/ CreateInsert(c) \/ CreatePush(c)
           \/ RelReset(c) \/ RelSet(c) \/ UnlinkEntry(c)
    PROVE  VersionInv'
<1>1. UNCHANGED <<vers, segs, clock>> /\ MovesOn(c)
  BY EntryMoves DEF OpenSet, CreateInsert, CreatePush, RelReset, RelSet, UnlinkEntry
<1>2. /\ file'.temp \in {file.temp, loc[c].tmp, NoVer}
      /\ file'.data \in {file.data, loc[c].tmp, NoVer}
  BY DEF OpenSet, CreateInsert, CreatePush, RelReset, RelSet, UnlinkEntry, NoFile,
         TypeInv, TypeOK, Files
<1> QED  BY <1>1, <1>2, OrdinaryStep, NothingGrows

LEMMA VersionNext ==
    ASSUME TypeInv, VersionInv, [Next]_vars
    PROVE  VersionInv'
<1>1. ASSUME NEW c \in Clients, Step(c) PROVE VersionInv'
  BY <1>1, QueryVersion, WriteVersion, RemoveVersion, EntryVersion DEF Step
<1>2. ASSUME NEW c \in Clients, Call(c) PROVE VersionInv'
  <2>1. CASE OpenWrite(c) \/ Create(c)
    BY <2>1, GenerateVersion DEF OpenWrite, Create
  <2> QED  BY <1>2, <2>1, QueryVersion DEF Call
<1>3. CASE Crash
  BY <1>3, KilledVersion DEF Crash, db
<1>4. CASE UNCHANGED vars
  BY <1>4 DEF vars, VersionInv, Generated, Private, Unused
<1> QED  BY <1>1, <1>2, <1>3, <1>4 DEF Next

LEMMA VersionInvariant == Spec => [](TypeInv /\ VersionInv)
<1>1. Init => TypeInv /\ VersionInv
  BY TypeInit, VersionInit
<1>2. TypeInv /\ VersionInv /\ [Next]_vars => (TypeInv /\ VersionInv)'
  BY TypeNext, VersionNext
<1> QED  BY <1>1, <1>2, PTL DEF Spec

\* The insert that starts a temp version never meets a document that exists:
\* for any number of clients and versions and with everything the surroundings
\* may do, overlapping opens, truncates by path and crashes included.
THEOREM FreshAlways == Spec => []FreshVersion
<1>1. VersionInv => FreshVersion
  BY DEF VersionInv, Private, Unused, NewSteps, FreshVersion
<1> QED  BY <1>1, VersionInvariant, PTL

-----------------------------------------------------------------------------
\* A version in progress is newer than the one it would replace.
AdvanceInv ==
    /\ file.here /\ file.temp # NoVer => file.temp > file.data
    /\ \A c \in Clients : At(c, "open_set") => loc[c].tmp > file.data

AllInv == TypeInv /\ VersionInv /\ LockInv /\ AdvanceInv

\* The steps of File but those that generate or set a version number.
Plain ==
    /\ UNCHANGED file
    /\ \A c \in Clients : loc'[c].pc = "open_set" => loc'[c] = loc[c]

EntryStep(c) ==
    OpenWrite(c) \/ OpenSet(c) \/ CreateInsert(c) \/ RelReset(c) \/ RelSet(c) \/ UnlinkEntry(c)

LEMMA PlainOrEntry ==
    ASSUME TypeInv, [Next]_vars
    PROVE  Plain \/ \E c \in Clients : EntryStep(c)
<1>1. ASSUME NEW c \in Clients, MovesOn(c), UNCHANGED file PROVE Plain
  BY <1>1 DEF MovesOn, OnlyMoves, NewSteps, Plain
<1>2. ASSUME Killed, UNCHANGED file PROVE Plain
  BY <1>2 DEF Killed, Idle, Request, Plain
<1>3. ASSUME NEW c \in Clients, Step(c), ~EntryStep(c) PROVE Plain
  <2>1. CASE ReadVer(c) \/ TempQuery(c) \/ CurrQuery(c) \/ VerRequery(c)
             \/ RelVer(c) \/ RelSize(c) \/ SegList(c) \/ UnlinkQuery(c)
    BY <1>1, <2>1, QueryMoves DEF ReadVer, TempQuery, CurrQuery, VerRequery, RelVer,
       RelSize, SegList, UnlinkQuery, db
  <2>2. CASE ReadSeg(c) \/ CopyGet(c)
    BY <1>1, <1>2, <2>2, SegmentReadMoves DEF ReadSeg, CopyGet, db
  <2>3. CASE CopyPut(c) \/ VerInsert(c) \/ SegPut(c) \/ VerSet(c) \/ TruncSet(c) \/ TruncSeg(c)
    BY <1>1, <2>3, WriteMoves DEF CopyPut, VerInsert, SegPut, VerSet, TruncSet, TruncSeg
  <2>4. CASE SegRemove(c) \/ VerRemove(c) \/ CreatePush(c)
    BY <1>1, <2>4, RemoveMoves, EntryMoves DEF SegRemove, VerRemove, CreatePush
  <2> QED  BY <1>3, <2>1, <2>2, <2>3, <2>4 DEF Step, EntryStep
<1>4. ASSUME NEW c \in Clients, Call(c), ~EntryStep(c) PROVE Plain
  <2>1. CASE Create(c)
    BY <2>1 DEF Create, Generate, Request, Plain, TypeInv, TypeOK
  <2>2. CASE ~Create(c)
    <3>1. MovesOn(c)
      BY <1>4, <2>2, CallMoves DEF Call, EntryStep
    <3>2. UNCHANGED file
      BY <1>4, <2>2 DEF Call, EntryStep, OpenRead, Release, Unlink, Read, Write, Truncate, db
    <3> QED  BY <1>1, <3>1, <3>2
  <2> QED  BY <2>1, <2>2
<1>5. CASE Crash
  BY <1>2, <1>5 DEF Crash, db
<1>6. CASE UNCHANGED vars
  BY <1>6 DEF vars, Plain
<1> QED  BY <1>3, <1>4, <1>5, <1>6 DEF Next

\* A step that sets a version number in the entry keeps the order, and one
\* that changes the current version of an entry moves it forward.
Forward == file.here /\ file'.here /\ file'.data # file.data => file'.data > file.data

LEMMA EntryAdvances ==
    ASSUME AllInv, NEW c \in Clients, EntryStep(c)
    PROVE  AdvanceInv' /\ Forward
<1> USE DEF AllInv
<1>1. /\ file \in Files /\ loc[c].tmp \in AnyVer /\ AnyVer \subseteq Int
      /\ \A v \in AnyVer : v # NoVer => v > NoVer
  BY ConstantsAssumption DEF TypeInv, TypeOK, Locals, AnyVer, Versions, NoVer
<1>2. CASE OpenWrite(c)
  <2>1. clock \in Nat /\ file.data \in Int
    <3>1. clock \in Nat
      BY ConstantsAssumption DEF TypeInv, TypeOK
    <3>2. file.data \in AnyVer
      BY <1>1 DEF Files
    <3> QED  BY <1>1, <3>1, <3>2
  <2>2. clock' = clock + 1 /\ file.data <= clock
    BY <1>2 DEF OpenWrite, Generate, VersionInv, Generated
  <2>3. loc'[c].tmp = clock' /\ \A d \in Clients : d # c => loc'[d] = loc[d]
    BY <1>2 DEF OpenWrite, Generate, Request, TypeInv, TypeOK
  <2>4. UNCHANGED file
    BY <1>2 DEF OpenWrite
  <2> QED  BY <2>1, <2>2, <2>3, <2>4 DEF AdvanceInv, At, Forward
<1>3. ASSUME ~OpenWrite(c) PROVE \A d \in Clients : At(d, "open_set")' => d # c /\ loc'[d] = loc[d]
  BY <1>3, EntryMoves DEF EntryStep, MovesOn, OnlyMoves, NewSteps, At
<1>4. CASE OpenSet(c)
  <2>1. file'.data = file.data /\ (file'.here => file'.temp = loc[c].tmp)
    BY <1>1, <1>4 DEF OpenSet, Files
  <2>2. ~OpenWrite(c)
    BY <1>4 DEF OpenSet, OpenWrite, At
  <2> QED  BY <1>3, <1>4, <2>1, <2>2 DEF OpenSet, AdvanceInv, At, Forward
<1>5. CASE CreateInsert(c)
  <2>1. /\ ~file.here /\ loc[c].tmp # NoVer
        /\ \A d \in Clients : d # c => At(d, "idle")
    BY <1>5 DEF CreateInsert, At, LockInv, ExclusiveKnows, Phase
  <2>2. file'.data = NoVer /\ file'.temp = loc[c].tmp
    BY <1>5, <2>1 DEF CreateInsert
  <2>3. \A d \in Clients : ~At(d, "open_set")'
    BY <1>3, <1>5, <2>1 DEF CreateInsert, OpenWrite, At
  <2> QED  BY <1>1, <2>1, <2>2, <2>3 DEF AdvanceInv, Forward
<1>6. CASE RelReset(c)
  <2>1. file'.data = file.data /\ (file'.here => file'.temp = NoVer)
    BY <1>1, <1>6 DEF RelReset, Files
  <2>2. ~OpenWrite(c)
    BY <1>6 DEF RelReset, OpenWrite, At
  <2> QED  BY <1>3, <2>1, <2>2 DEF AdvanceInv, At, Forward
<1>7. CASE RelSet(c)
  <2>1. file.here /\ loc[c].tmp = file.temp /\ file.temp # NoVer
    BY <1>7, ReleaseHolds DEF RelSet, At, ReleaseSteps
  <2>2. \A d \in Clients : ~At(d, "open_set")
    BY <2>1 DEF LockInv, Phase, OpenKnows, At
  <2>3. \A d \in Clients : ~At(d, "open_set")'
    BY <1>3, <1>7, <2>2 DEF RelSet, OpenWrite, At
  <2>4. file'.data = file.temp /\ file'.temp = NoVer
    BY <1>7, <2>1 DEF RelSet
  <2> QED  BY <2>1, <2>3, <2>4 DEF AdvanceInv, Forward
<1>8. CASE UnlinkEntry(c)
  <2>1. \A d \in Clients : d # c => At(d, "idle")
    BY <1>8 DEF UnlinkEntry, At, LockInv, ExclusiveKnows, Phase
  <2>2. \A d \in Clients : ~At(d, "open_set")'
    BY <1>3, <1>8, <2>1 DEF UnlinkEntry, OpenWrite, At
  <2>3. ~file'.here
    BY <1>8 DEF UnlinkEntry, NoFile
  <2> QED  BY <2>2, <2>3 DEF AdvanceInv, Forward
<1> QED  BY <1>2, <1>4, <1>5, <1>6, <1>7, <1>8 DEF EntryStep

LEMMA Advances ==
    ASSUME AllInv, [Next]_vars PROVE AdvanceInv' /\ Forward
<1>1. CASE Plain
  BY <1>1 DEF Plain, AllInv, AdvanceInv, At, Forward
<1> QED  BY <1>1, PlainOrEntry, EntryAdvances DEF AllInv

\* While opens for writing do not overlap, a committed version is only ever
\* replaced by a newer one: the rightmost version NDN consumers ask for is the
\* newest, whatever number of clients write, truncate and crash.
THEOREM NewerReplaces == ASSUME Disciplined PROVE Spec => VersionsAdvance
<1>1. Init => AllInv
  <2>1. Init => AdvanceInv
    BY DEF Init, AdvanceInv, At, Idle, Request, NoFile
  <2> QED  BY <2>1, TypeInit, VersionInit, LockInit DEF AllInv
<1>2. AllInv /\ [Next]_vars => AllInv'
  BY TypeNext, VersionNext, LockNext, Advances DEF AllInv
<1>3. AllInv /\ [Next]_vars
      => [file.here /\ file'.here /\ file'.data # file.data => file'.data > file.data]_vars
  BY Advances DEF Forward
<1> QED  BY <1>1, <1>2, <1>3, PTL DEF Spec, VersionsAdvance

\* Closing a handle that was opened read-only never reaches the publishing
\* update, although the release of a created file has the same flags.
THEOREM ReadersSafe == ASSUME Disciplined PROVE Spec => []ReadersPublishNothing
<1>1. LockInv => ReadersPublishNothing
  BY DEF LockInv, ReleaseKnows, ReleaseSteps, Writing, At, ReadersPublishNothing
<1> QED  BY <1>1, LockInvariant, PTL
=============================================================================
