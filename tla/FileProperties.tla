--------------------------- MODULE FileProperties ---------------------------
(***************************************************************************)
(* What the file handlers of module File guarantee, and what they are      *)
(* documented to guarantee.                                                *)
(***************************************************************************)
EXTENDS File

\* c may still write: it opened or created the file for writing and its
\* release has not yet set the entry.
Published(c) == loc[c].op = "release" /\ loc[c].pc \in {"seglist", "seg_rm", "ver_rm"}
Holds(c) == Writing(c) /\ ~Published(c)

\* A process with the file open for writing always finds in the file entry
\* the temp version its own open() or create() put there: no other handler
\* publishes, discards or replaces a version that is being written.
WriterHoldsTemp == \A c \in Clients : Holds(c) => file.here /\ file.temp = owner[c]

\* "If there is already a temp version there, it means that some one is
\* writing to the file now. We should reject this open request."
\* (fs/file.cc:59-61), first half: a temp version has a writer.
TempMeansWriter ==
    file.temp # NoVer =>
        \E c \in Clients : Holds(c) \/ loc[c].op \in {"create", "unlink"}

\* The same comment, second half: never two writers.
SingleWriter == \A c, d \in Clients : Holds(c) /\ Holds(d) => c = d

\* A file that a directory lists and that was ever committed can be read in
\* full: release() publishes a version only when its document, its size and
\* every segment are in place, and nothing removes them while it is current.
Readable(v) == {i \in SegNums : vers[v].here /\ i < vers[v].size
                                /\ segs[<<v, i>>] = "data"}
ListedIntact ==
    listed = 1 /\ file.here /\ file.data # NoVer =>
        /\ vers[file.data].here
        /\ vers[file.data].size = file.size
        /\ Readable(file.data) = 0..(file.size - 1)

\* A truncate without a write handle, on the version its entry had when it
\* began.
ByPath(c) == loc[c].op = "truncate" /\ ~Writing(c)

\* No step changes a document of the version that is current before and after
\* it: readers and the NDN servers may read it in as many queries as they like.
\* Only a truncate by path that began before the version was published can.
CommittedFrozen ==
    [][ LET v == file.data
        IN  listed = 1 /\ listed' = 1 /\ v # NoVer /\ file'.data = v =>
                \/ /\ vers'[v] = vers[v]
                   /\ \A i \in SegNums : segs'[<<v, i>>] = segs[<<v, i>>]
                \/ \E c \in Clients : ByPath(c) /\ loc[c].tmp = v /\ loc'[c] # loc[c] ]_vars

\* A version replaces an older one: NDN consumers ask for the rightmost
\* version and rely on its being the newest.
VersionsAdvance ==
    [][file.here /\ file'.here /\ file'.data # file.data
        => file'.data > file.data]_vars

\* When no request is running, the database holds nothing of a version that
\* is neither current nor being written, and no segment its version does not
\* list: what release(), unlink() and write() drop they drop completely.
NoOrphans ==
    Alone =>
        /\ \A v \in AnyVer : vers[v].here =>
               file.here /\ v # NoVer /\ v \in {file.data, file.temp}
        /\ \A s \in SegIds : segs[s] # "absent" =>
               s[1] \in AnyVer /\ vers[s[1]].here /\ s[2] < vers[s[1]].data

\* A directory lists the name at most once, and only if the entry exists,
\* wherever a create() or an unlink() was cut off.
NameUnique == listed <= 1 /\ (listed = 1 => file.here)

\* Inserts of an _id that exists are lost without an error, so a version
\* number that is about to become a temp version must not name any document,
\* whatever crashed, raced or was truncated before.
FreshVersion ==
    \A c \in Clients : loc[c].pc \in {"open_set", "create_insert"} =>
        /\ ~vers[loc[c].tmp].here
        /\ \A i \in SegNums : segs[<<loc[c].tmp, i>>] = "absent"

\* Closing a handle that was opened read-only publishes nothing: "we need to
\* check the current version number to tell if the file is just created or
\* opened in read only mode" (fs/file.cc:282-283).
ReadersPublishNothing ==
    \A c \in Clients : handle[c] = "ro" => ~At(c, "rel_set")

\* The inductive strengthening of WriterHoldsTemp and SingleWriter: what the
\* handlers that matter for the temp version know at each of their steps.
DataOps == {"none", "read", "write", "truncate"}
WriteSteps == {"temp_query", "curr_query", "copy_get", "copy_put", "ver_insert",
               "ver_requery", "seg_put", "ver_set", "trunc_set", "trunc_seg"}
ReleaseSteps == {"rel_ver", "rel_reset", "rel_size", "rel_set"}

\* The step a request is at tells which operation it belongs to.
Phase(l) ==
    /\ l.pc = "idle" => l.op = "none"
    /\ l.pc = "open_set" => l.op = "open"
    /\ l.pc \in {"create_insert", "create_push"} => l.op = "create"
    /\ l.pc \in {"unl_query", "unl_entry"} => l.op = "unlink"
    /\ l.pc \in ReleaseSteps => l.op = "release"
    /\ l.pc = "ver_rm" => l.op \in {"release", "unlink"}
    /\ l.pc \in {"seglist", "seg_rm"} => l.op \in {"write", "truncate", "release", "unlink"}
    /\ l.pc \in {"read_ver", "read_seg"} => l.op = "read"
    /\ l.pc \in WriteSteps => l.op \in {"write", "truncate"}

\* A release that has not published yet works on the version of its own handle.
ReleaseKnows(c) == loc[c].pc \in ReleaseSteps => Writing(c) /\ loc[c].tmp = file.temp
\* A reader's file has a current version.
ReaderKnows(c) == handle[c] = "ro" => file.here /\ file.data # NoVer
\* An open that has seen no temp version is still right about it.
OpenKnows(c) ==
    loc[c].op = "open" => handle[c] = "none" /\ file.here /\ file.temp = NoVer
                          /\ loc[c].tmp # NoVer
\* Creating and unlinking have the name to themselves.
ExclusiveKnows(c) ==
    /\ loc[c].op \in {"create", "unlink"} =>
          \A d \in Clients : handle[d] = "none" /\ (d # c => At(d, "idle"))
    /\ loc[c].op = "create" => loc[c].tmp # NoVer
    /\ At(c, "create_insert") => ~file.here
    /\ At(c, "create_push") => file.here /\ file.temp = loc[c].tmp

LockInv ==
    /\ WriterHoldsTemp /\ SingleWriter
    /\ \A c \in Clients :
          /\ Holds(c) => owner[c] # NoVer
          /\ Phase(loc[c]) /\ ReleaseKnows(c) /\ ReaderKnows(c)
          /\ OpenKnows(c) /\ ExclusiveKnows(c)
    /\ \A c, d \in Clients : loc[c].op = "open" /\ loc[d].op = "open" => c = d

\* The lock that a temp version is gets released: the file can be opened for
\* writing again.
TempReleased == file.temp # NoVer ~> file.temp = NoVer

\* Every request is answered: no handler loops over segments that other
\* handlers keep adding.
RequestsComplete == \A c \in Clients : ~At(c, "idle") ~> At(c, "idle")

\* The handlers implement the promise of VersionedFile for a listed name.
IsListed == listed = 1 /\ file.here
Promise == INSTANCE VersionedFile WITH
    Versions <- Versions, MaxSize <- MaxSegs,
    present <- IsListed,
    current <- IF IsListed THEN file.data ELSE NoVer,
    pending <- IF IsListed THEN file.temp ELSE NoVer,
    size <- IF IsListed THEN file.size ELSE 0,
    readable <- IF IsListed /\ file.data # NoVer
                THEN Cardinality(Readable(file.data)) ELSE 0
ImplementsVersionedFile == Promise!AbsSpec
=============================================================================
