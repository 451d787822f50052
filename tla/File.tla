-------------------------------- MODULE File --------------------------------
(***************************************************************************)
(* The file handlers of NDNFS (fs/file.cc with fs/version.cc and           *)
(* fs/segment.cc) on one path, at the granularity of one MongoDB operation *)
(* per step.                                                               *)
(*                                                                         *)
(* FUSE runs a handler per request on a pool of threads.  The handlers     *)
(* share nothing but the documents of one collection: the file entry, one  *)
(* document per version and one per segment, each found by its _id.  A     *)
(* single database operation is atomic, a handler is a sequence of them,   *)
(* and no lock is held between two of them.  Handlers on different paths   *)
(* touch different documents, so one path is enough.                       *)
(*                                                                         *)
(* Every write is modelled as one whole, aligned segment (the 4096 bytes   *)
(* FUSE sends in a request by default are exactly seg_size); module        *)
(* Content has the bytes and the offsets that are not aligned.             *)
(***************************************************************************)
EXTENDS Integers, FiniteSets

CONSTANTS
    Clients,     \* processes that use the mounted file system
    MaxVersion,  \* bound: how many version numbers are generated
    MaxSegs,     \* bound: segments in a version
    Env          \* what the surroundings may do beyond well-behaved calls

\* open_race     two opens for writing may be in progress at once
\* fresh_reader  a file may be opened for reading before its first version
\*               is committed
\* bare_truncate truncate(2) on the path, by a client without a write handle
\* shrink        a truncate below the size of the version being written
\* sparse        a write past the end of the version being written
\* crash         the file system process may be killed between two steps
EnvFlags == {"open_race", "fresh_reader", "bare_truncate", "shrink",
             "sparse", "crash"}

ASSUME ConstantsAssumption ==
    /\ MaxVersion \in Nat
    /\ MaxSegs \in Nat \ {0}
    /\ Env \subseteq EnvFlags

VARIABLES
    file,    \* the file entry: data (current version), temp, size
    vers,    \* the version documents: how many segments they list, their size
    segs,    \* the segment documents
    listed,  \* how often the parent directory's data array holds the name
    clock,   \* the last value of generate_version()
    loc,     \* per client: where its request is, and the handler's locals
    handle,  \* per client: the access mode release() will be given
    owner    \* per client: the version its open generated (ghost: the code
             \* keeps no per-handle state)

db == <<file, vers, segs, listed, clock>>
vars == <<file, vers, segs, listed, clock, loc, handle, owner>>

NoVer == -1
Versions == 1..MaxVersion
AnyVer == Versions \cup {NoVer}

\* make_segment takes the version as a uint64_t, so version -1 names its
\* segments 2^64-1 (here -2) while its version document is named "-1".
WrappedVer == -2
Unsigned(v) == IF v = NoVer THEN WrappedVer ELSE v
SegVers == AnyVer \cup {WrappedVer}
SegNums == 0..(MaxSegs - 1)
SegIds == SegVers \X SegNums

\* "cut" is what truncate_segment leaves: the content object wrapped in an
\* embedded document, which binData() cannot read.
SegDocs == {"absent", "data", "cut"}

Files == [here : BOOLEAN, data : AnyVer, temp : AnyVer, size : Int]
NoFile == [here |-> FALSE, data |-> NoVer, temp |-> NoVer, size |-> 0]
VerDocs == [here : BOOLEAN, data : 0..MaxSegs, size : 0..MaxSegs]
NoDoc == [here |-> FALSE, data |-> 0, size |-> 0]

Pcs == {"idle", "open_set", "create_insert", "create_push",
        "read_ver", "read_seg",
        "temp_query", "curr_query", "copy_get", "copy_put", "ver_insert",
        "ver_requery", "seg_put", "ver_set", "trunc_set", "trunc_seg",
        "seglist", "seg_rm", "ver_rm",
        "rel_ver", "rel_reset", "rel_size", "rel_set",
        "unl_query", "unl_entry"}
Ops == {"none", "open", "create", "read", "write", "truncate", "release",
        "unlink"}
Locals == [pc : Pcs, op : Ops, tmp : AnyVer, cur : AnyVer, vic : AnyVer,
           pos : 0..MaxSegs, idx : 0..MaxSegs, lim : Int]

\* A request o of position p about to do step l, with the version numbers t
\* and u it has read from the entry.
Request(o, l, t, u, p) ==
    [pc |-> l, op |-> o, tmp |-> t, cur |-> u, vic |-> NoVer,
     pos |-> p, idx |-> 0, lim |-> 0]
Idle == Request("none", "idle", NoVer, NoVer, 0)

\* A request that goes on at step l of a loop from i below n, and one that
\* goes on to remove segments of version v.
Loop(r, l, i, n) == [r EXCEPT !.pc = l, !.idx = i, !.lim = n]
Removing(r, v) == [r EXCEPT !.pc = "seglist", !.vic = v]

TypeOK ==
    /\ file \in Files
    /\ vers \in [AnyVer -> VerDocs]
    /\ segs \in [SegIds -> SegDocs]
    /\ listed \in Nat
    /\ clock \in 0..MaxVersion
    /\ loc \in [Clients -> Locals]
    /\ handle \in [Clients -> {"none", "ro", "rw", "new"}]
    /\ owner \in [Clients -> AnyVer]

Init ==
    /\ file = NoFile
    /\ vers = [v \in AnyVer |-> NoDoc]
    /\ segs = [s \in SegIds |-> "absent"]
    /\ listed = 0
    /\ clock = 0
    /\ loc = [c \in Clients |-> Idle]
    /\ handle = [c \in Clients |-> "none"]
    /\ owner = [c \in Clients |-> NoVer]

-----------------------------------------------------------------------------
(* The database operations: insert refuses an _id that exists (and the     *)
(* driver does not report it), update and remove ignore one that does not. *)

InsertVer(v, n) ==
    vers' = IF vers[v].here THEN vers
            ELSE [vers EXCEPT ![v] = [here |-> TRUE, data |-> n, size |-> n]]

UpdateVer(v, n, sz) ==
    vers' = IF vers[v].here
            THEN [vers EXCEPT ![v] = [here |-> TRUE, data |-> n, size |-> sz]]
            ELSE vers

InsertSeg(v, i) ==
    segs' = IF segs[<<Unsigned(v), i>>] = "absent"
            THEN [segs EXCEPT ![<<Unsigned(v), i>>] = "data"] ELSE segs

(* Control: a request's next step, its end, and its start. *)

At(c, l) == loc[c].pc = l
Goto(c, l) == loc' = [loc EXCEPT ![c].pc = l]
Done(c) == loc' = [loc EXCEPT ![c] = Idle]
Enter(c, o, l, p) ==
    loc' = [loc EXCEPT ![c] = Request(o, l, file.temp, file.data, p)]

\* A request that calls generate_version(): microseconds, so never twice the
\* same value; MaxVersion bounds how many are taken.
GenerateSeconds(c, o, l) ==   \* mutant: time(0) for gettimeofday()
    /\ clock < MaxVersion
    /\ clock' = clock + 1
    /\ loc' = [loc EXCEPT ![c] = Request(o, l, 1 + clock \div 2, NoVer, 0)]
Generate(c, o, l) ==
    /\ clock < MaxVersion
    /\ clock' = clock + 1
    /\ loc' = [loc EXCEPT ![c] = Request(o, l, clock', NoVer, 0)]

Writing(c) == handle[c] \in {"rw", "new"}
Busy(o) == {c \in Clients : loc[c].op \in o}
Close(c) ==
    /\ handle' = [handle EXCEPT ![c] = "none"]
    /\ owner' = [owner EXCEPT ![c] = NoVer]

\* The kernel and libfuse: creating or unlinking the name excludes every
\* other request on it.
NameFree == Busy({"create", "unlink"}) = {}
Alone == \A c \in Clients : At(c, "idle")

-----------------------------------------------------------------------------
(* Operators marked "mutant" are no part of the specification: each is the  *)
(* definition below it with a mistake that some property must notice.       *)

(* ndnfs_open *)

OpenRead(c) ==
    /\ At(c, "idle") /\ handle[c] = "none" /\ NameFree
    /\ file.here
    /\ "fresh_reader" \in Env \/ file.data # NoVer
    /\ handle' = [handle EXCEPT ![c] = "ro"]
    /\ UNCHANGED <<db, loc, owner>>

OpenUnchecked(c) ==   \* mutant: the temp version is not looked at
    /\ At(c, "idle") /\ handle[c] = "none" /\ NameFree
    /\ "open_race" \in Env \/ Busy({"open"}) = {}
    /\ file.here
    /\ Generate(c, "open", "open_set")
    /\ UNCHANGED <<file, vers, segs, listed, handle, owner>>

\* The query of the entry, whose temp version must be -1, and then
\* generate_version(), whose value only this request knows.
OpenWrite(c) ==
    /\ At(c, "idle") /\ handle[c] = "none" /\ NameFree
    /\ "open_race" \in Env \/ Busy({"open"}) = {}
    /\ file.here /\ file.temp = NoVer
    /\ Generate(c, "open", "open_set")
    /\ UNCHANGED <<file, vers, segs, listed, handle, owner>>

OpenSet(c) ==
    /\ At(c, "open_set")
    /\ file' = IF file.here THEN [file EXCEPT !.temp = loc[c].tmp] ELSE file
    /\ handle' = [handle EXCEPT ![c] = "rw"]
    /\ owner' = [owner EXCEPT ![c] = loc[c].tmp]
    /\ Done(c)
    /\ UNCHANGED <<vers, segs, listed, clock>>

(* ndnfs_create *)

CreateUnchecked(c) ==   \* mutant: the existing entry is not looked for
    /\ At(c, "idle") /\ handle[c] = "none" /\ Alone
    /\ Generate(c, "create", "create_insert")
    /\ UNCHANGED <<file, vers, segs, listed, handle, owner>>

Create(c) ==
    /\ At(c, "idle") /\ handle[c] = "none" /\ Alone
    /\ ~file.here
    /\ Generate(c, "create", "create_insert")
    /\ UNCHANGED <<file, vers, segs, listed, handle, owner>>

CreateInsert(c) ==
    /\ At(c, "create_insert")
    /\ file' = IF file.here THEN file
               ELSE [here |-> TRUE, data |-> NoVer, temp |-> loc[c].tmp, size |-> 0]
    /\ Goto(c, "create_push")
    /\ UNCHANGED <<vers, segs, listed, clock, handle, owner>>

CreatePush(c) ==
    /\ At(c, "create_push")
    /\ listed' = listed + 1
    /\ handle' = [handle EXCEPT ![c] = "new"]
    /\ owner' = [owner EXCEPT ![c] = loc[c].tmp]
    /\ Done(c)
    /\ UNCHANGED <<file, vers, segs, clock>>

-----------------------------------------------------------------------------
(* ndnfs_read, read_current_version, read_version, read_segment *)

Read(c, p) ==
    /\ At(c, "idle") /\ handle[c] # "none"
    /\ file.here /\ file.data # NoVer
    /\ Enter(c, "read", "read_ver", p)
    /\ UNCHANGED <<db, handle, owner>>

ReadVer(c) ==
    LET v == vers[loc[c].cur]
    IN  /\ At(c, "read_ver")
        /\ \/ /\ ~v.here \/ v.size <= loc[c].pos
              /\ Done(c)
           \/ /\ v.here /\ v.size > loc[c].pos
              /\ loc' = [loc EXCEPT ![c] = Loop(@, "read_seg", @.pos, v.size)]
        /\ UNCHANGED <<db, handle, owner>>

\* binData() on a segment that is not binary ends the process: the handlers
\* of all threads are gone and every handle with them.
Killed ==
    /\ loc' = [c \in Clients |-> Idle]
    /\ handle' = [c \in Clients |-> "none"]
    /\ owner' = [c \in Clients |-> NoVer]

ReadSeg(c) ==
    LET l == loc[c]
        s == segs[<<l.cur, l.idx>>]
    IN  /\ At(c, "read_seg")
        /\ \/ /\ s = "absent" \/ (s = "data" /\ l.idx + 1 >= l.lim)
              /\ Done(c) /\ UNCHANGED <<handle, owner>>
           \/ /\ s = "data" /\ l.idx + 1 < l.lim
              /\ loc' = [loc EXCEPT ![c].idx = @ + 1]
              /\ UNCHANGED <<handle, owner>>
           \/ s = "cut" /\ Killed
        /\ UNCHANGED db

-----------------------------------------------------------------------------
(* ndnfs_write and ndnfs_truncate, write_temp_version and                   *)
(* truncate_temp_version: the two share everything up to the temp version. *)

\* The kernel holds the inode's lock over a write and over a truncate.
InodeFree == Busy({"write", "truncate"}) = {}

Write(c, p) ==
    /\ At(c, "idle") /\ Writing(c) /\ InodeFree
    /\ file.here
    /\ "sparse" \in Env \/ (vers[file.temp].here => p <= vers[file.temp].size)
    /\ Enter(c, "write", "temp_query", p)
    /\ UNCHANGED <<db, handle, owner>>

Truncate(c, p) ==
    /\ At(c, "idle") /\ InodeFree /\ NameFree
    /\ Writing(c) \/ ("bare_truncate" \in Env /\ handle[c] = "none")
    /\ file.here
    /\ "shrink" \in Env \/ (vers[file.temp].here => p >= vers[file.temp].size)
    /\ Enter(c, "truncate", "temp_query", p)
    /\ UNCHANGED <<db, handle, owner>>

\* Is there a temp version yet?  If not, copy on write from the current one.
TempQuery(c) ==
    LET v == vers[loc[c].tmp]
        o == loc[c].op
        p == loc[c].pos
    IN  /\ At(c, "temp_query")
        /\ \/ ~v.here /\ p > 0 /\ Goto(c, "curr_query")
           \/ ~v.here /\ p = 0 /\ Goto(c, "ver_insert")
           \/ v.here /\ o = "write" /\ Goto(c, "seg_put")
           \/ v.here /\ o = "truncate" /\ p < v.size /\ Goto(c, "trunc_set")
           \/ v.here /\ o = "truncate" /\ p >= v.size /\ Done(c)
        /\ UNCHANGED <<db, handle, owner>>

CurrQuery(c) ==
    LET v == vers[loc[c].cur]
    IN  /\ At(c, "curr_query")
        /\ \/ v.here /\ v.size >= loc[c].pos /\ Goto(c, "copy_get")
           \/ (~v.here \/ v.size < loc[c].pos) /\ Done(c)
        /\ UNCHANGED <<db, handle, owner>>

CopyGet(c) ==
    LET s == segs[<<loc[c].cur, loc[c].idx>>]
    IN  /\ At(c, "copy_get")
        /\ \/ s = "data" /\ Goto(c, "copy_put") /\ UNCHANGED <<handle, owner>>
           \/ s = "absent" /\ Done(c) /\ UNCHANGED <<handle, owner>>
           \/ s = "cut" /\ Killed
        /\ UNCHANGED db

CopyPutStuck(c) ==   \* mutant: i is not incremented
    /\ At(c, "copy_put")
    /\ InsertSeg(loc[c].tmp, loc[c].idx)
    /\ Goto(c, "copy_get")
    /\ UNCHANGED <<file, vers, listed, clock, handle, owner>>

CopyPut(c) ==
    LET i == loc[c].idx
    IN  /\ At(c, "copy_put")
        /\ InsertSeg(loc[c].tmp, i)
        /\ \/ i + 1 < loc[c].pos /\ loc' = [loc EXCEPT ![c] = Loop(@, "copy_get", i + 1, 0)]
           \/ i + 1 >= loc[c].pos /\ Goto(c, "ver_insert")
        /\ UNCHANGED <<file, vers, listed, clock, handle, owner>>

VerInsert(c) ==
    /\ At(c, "ver_insert")
    /\ InsertVer(loc[c].tmp, loc[c].pos)
    /\ \/ loc[c].op = "write" /\ Goto(c, "ver_requery")
       \/ loc[c].op = "truncate" /\ Done(c)
    /\ UNCHANGED <<file, segs, listed, clock, handle, owner>>

VerRequery(c) ==
    /\ At(c, "ver_requery")
    /\ \/ vers[loc[c].tmp].here /\ Goto(c, "seg_put")
       \/ ~vers[loc[c].tmp].here /\ Done(c)
    /\ UNCHANGED <<db, handle, owner>>

SegPut(c) ==
    /\ At(c, "seg_put")
    /\ InsertSeg(loc[c].tmp, loc[c].pos)
    /\ loc' = [loc EXCEPT ![c] = Removing(@, @.tmp)]
    /\ UNCHANGED <<file, vers, listed, clock, handle, owner>>

VerSetOffByOne(c) ==   \* mutant: the list runs to seg_off inclusive
    /\ At(c, "ver_set")
    /\ UpdateVer(loc[c].tmp, loc[c].pos + 2, loc[c].pos + 1)
    /\ Done(c)
    /\ UNCHANGED <<file, segs, listed, clock, handle, owner>>

VerSet(c) ==
    /\ At(c, "ver_set")
    /\ UpdateVer(loc[c].tmp, loc[c].pos + 1, loc[c].pos + 1)
    /\ Done(c)
    /\ UNCHANGED <<file, segs, listed, clock, handle, owner>>

\* The list is shortened before remove_segments reads it.
TruncSet(c) ==
    /\ At(c, "trunc_set")
    /\ UpdateVer(loc[c].tmp, loc[c].pos + 1, loc[c].pos)
    /\ Goto(c, "trunc_seg")
    /\ UNCHANGED <<file, segs, listed, clock, handle, owner>>

TruncSeg(c) ==
    LET s == <<loc[c].tmp, loc[c].pos>>
    IN  /\ At(c, "trunc_seg")
        /\ segs' = IF segs[s] = "absent" THEN segs ELSE [segs EXCEPT ![s] = "cut"]
        /\ loc' = [loc EXCEPT ![c] = Removing(@, @.tmp)]
        /\ UNCHANGED <<file, vers, listed, clock, handle, owner>>

-----------------------------------------------------------------------------
(* remove_segments, called by write and truncate for the temp version's     *)
(* tail and by remove_version (release, unlink) for a whole version vic.    *)

RemoveFromNext(c) == loc[c].pos + 1   \* mutant: segment 0 of a version stays
RemoveFromHere(c) == loc[c].pos       \* mutant: seg_off was not incremented
RemoveFrom(c) == IF loc[c].op \in {"write", "truncate"} THEN loc[c].pos + 1 ELSE 0

AfterSegments(c) ==
    \/ loc[c].op = "write" /\ Goto(c, "ver_set")
    \/ loc[c].op = "truncate" /\ Done(c)
    \/ loc[c].op \in {"release", "unlink"} /\ Goto(c, "ver_rm")

SegList(c) ==
    LET v == vers[loc[c].vic]
    IN  /\ At(c, "seglist")
        /\ \/ (~v.here \/ RemoveFrom(c) >= v.data) /\ AfterSegments(c)
           \/ /\ v.here /\ RemoveFrom(c) < v.data
              /\ loc' = [loc EXCEPT ![c] = Loop(@, "seg_rm", RemoveFrom(c), v.data)]
        /\ UNCHANGED <<db, handle, owner>>

SegRemove(c) ==
    LET i == loc[c].idx
    IN  /\ At(c, "seg_rm")
        /\ segs' = [segs EXCEPT ![<<loc[c].vic, i>>] = "absent"]
        /\ \/ i + 1 < loc[c].lim /\ loc' = [loc EXCEPT ![c].idx = i + 1]
           \/ i + 1 >= loc[c].lim /\ AfterSegments(c)
        /\ UNCHANGED <<file, vers, listed, clock, handle, owner>>

\* remove_version's last step; unlink goes on with the temp version.
VerRemove(c) ==
    LET l == loc[c]
    IN  /\ At(c, "ver_rm")
        /\ vers' = [vers EXCEPT ![l.vic] = NoDoc]
        /\ \/ l.op = "release" /\ Done(c) /\ Close(c)
           \/ /\ l.op = "unlink" /\ l.vic # l.tmp /\ l.tmp # NoVer
              /\ loc' = [loc EXCEPT ![c] = Removing(@, l.tmp)]
              /\ UNCHANGED <<handle, owner>>
           \/ /\ l.op = "unlink" /\ (l.vic = l.tmp \/ l.tmp = NoVer)
              /\ Goto(c, "unl_entry") /\ UNCHANGED <<handle, owner>>
        /\ UNCHANGED <<file, segs, listed, clock>>

-----------------------------------------------------------------------------
(* ndnfs_release.  A handle made by create() is released with flags 0, that *)
(* is read-only, so the code also asks whether a version was ever committed.*)

CommitsAlways(c) == TRUE              \* mutant: the open flags are ignored
CommitsByFlag(c) == handle[c] = "rw"  \* mutant: a created file looks read-only
Commits(c) == handle[c] = "rw" \/ file.data = NoVer

Release(c) ==
    /\ At(c, "idle") /\ handle[c] # "none"
    /\ \/ /\ ~file.here \/ ~Commits(c) \/ file.temp = NoVer
          /\ Close(c) /\ UNCHANGED loc
       \/ /\ file.here /\ Commits(c) /\ file.temp # NoVer
          /\ Enter(c, "release", "rel_ver", 0) /\ UNCHANGED <<handle, owner>>
    /\ UNCHANGED db

RelVer(c) ==
    /\ At(c, "rel_ver")
    /\ \/ vers[loc[c].tmp].here /\ Goto(c, "rel_size")
       \/ ~vers[loc[c].tmp].here /\ Goto(c, "rel_reset")
    /\ UNCHANGED <<db, handle, owner>>

RelResetAll(c) ==   \* mutant: the current version number is reset as well
    /\ At(c, "rel_reset")
    /\ file' = IF file.here THEN [file EXCEPT !.temp = NoVer, !.data = NoVer] ELSE file
    /\ Done(c) /\ Close(c)
    /\ UNCHANGED <<vers, segs, listed, clock>>

\* Nothing was written: keep the current version.
RelReset(c) ==
    /\ At(c, "rel_reset")
    /\ file' = IF file.here THEN [file EXCEPT !.temp = NoVer] ELSE file
    /\ Done(c) /\ Close(c)
    /\ UNCHANGED <<vers, segs, listed, clock>>

RelSize(c) ==
    LET v == vers[loc[c].tmp]
    IN  /\ At(c, "rel_size")
        /\ loc' = [loc EXCEPT ![c] = Loop(@, "rel_set", 0, IF v.here THEN v.size ELSE -1)]
        /\ UNCHANGED <<db, handle, owner>>

RelSetNew(c) ==   \* mutant: the version removed is the one just published
    LET l == loc[c]
    IN  /\ At(c, "rel_set")
        /\ file' = IF file.here
                   THEN [here |-> TRUE, data |-> l.tmp, temp |-> NoVer, size |-> l.lim]
                   ELSE file
        /\ loc' = [loc EXCEPT ![c] = Removing(@, l.tmp)]
        /\ UNCHANGED <<vers, segs, listed, clock, handle, owner>>

RelSetKeeps(c) ==   \* mutant: the temp version number stays in the entry
    LET l == loc[c]
    IN  /\ At(c, "rel_set")
        /\ file' = IF file.here
                   THEN [here |-> TRUE, data |-> l.tmp, temp |-> file.temp, size |-> l.lim]
                   ELSE file
        /\ loc' = [loc EXCEPT ![c] = Removing(@, l.cur)]
        /\ UNCHANGED <<vers, segs, listed, clock, handle, owner>>

\* Publish the temp version, then remove the old one.
RelSet(c) ==
    LET l == loc[c]
    IN  /\ At(c, "rel_set")
        /\ file' = IF file.here
                   THEN [here |-> TRUE, data |-> l.tmp, temp |-> NoVer, size |-> l.lim]
                   ELSE file
        /\ loc' = [loc EXCEPT ![c] = Removing(@, l.cur)]
        /\ UNCHANGED <<vers, segs, listed, clock, handle, owner>>

(* ndnfs_unlink and remove_versions.  libfuse does not hand NDNFS the unlink *)
(* of a file that is open (it would rename it, which NDNFS cannot do).      *)

Unlink(c) ==
    /\ Alone /\ \A d \in Clients : handle[d] = "none"
    /\ file.here
    /\ listed' = 0
    /\ loc' = [loc EXCEPT ![c] = Request("unlink", "unl_query", NoVer, NoVer, 0)]
    /\ UNCHANGED <<file, vers, segs, clock, handle, owner>>

UnlinkQuery(c) ==
    LET v == IF file.data # NoVer THEN file.data ELSE file.temp
        r == Request("unlink", "unl_entry", file.temp, file.data, 0)
    IN  /\ At(c, "unl_query")
        /\ loc' = [loc EXCEPT ![c] = IF file.here /\ v # NoVer THEN Removing(r, v) ELSE r]
        /\ UNCHANGED <<db, handle, owner>>

UnlinkEntry(c) ==
    /\ At(c, "unl_entry")
    /\ file' = NoFile
    /\ Done(c)
    /\ UNCHANGED <<vers, segs, listed, clock, handle, owner>>

-----------------------------------------------------------------------------
\* The process is killed; main() finds the root entry and changes nothing.
Crash ==
    /\ "crash" \in Env
    /\ Killed
    /\ UNCHANGED db

Step(c) ==
    \/ OpenSet(c) \/ CreateInsert(c) \/ CreatePush(c)
    \/ ReadVer(c) \/ ReadSeg(c)
    \/ TempQuery(c) \/ CurrQuery(c) \/ CopyGet(c) \/ CopyPut(c)
    \/ VerInsert(c) \/ VerRequery(c) \/ SegPut(c) \/ VerSet(c)
    \/ TruncSet(c) \/ TruncSeg(c)
    \/ SegList(c) \/ SegRemove(c) \/ VerRemove(c)
    \/ RelVer(c) \/ RelReset(c) \/ RelSize(c) \/ RelSet(c)
    \/ UnlinkQuery(c) \/ UnlinkEntry(c)

Call(c) ==
    \/ OpenRead(c) \/ OpenWrite(c) \/ Create(c) \/ Release(c) \/ Unlink(c)
    \/ \E p \in SegNums : Read(c, p) \/ Write(c, p)
    \/ \E p \in 0..MaxSegs : Truncate(c, p)

Next == (\E c \in Clients : Step(c) \/ Call(c)) \/ Crash

Spec == Init /\ [][Next]_vars

\* FUSE threads keep running a request they began; clients close what they
\* opened, however often they use it before.
Fairness == \A c \in Clients : WF_vars(Step(c)) /\ SF_vars(Release(c))
FairSpec == Spec /\ Fairness
=============================================================================
