# A verification of NDNFS in TLA+

NDNFS is a FUSE file system whose files are kept in MongoDB as signed NDN
content objects, versioned, and served to NDN consumers by a separate server.
This directory holds TLA+ models of its handlers, TLC configurations that check
them on small instances, and proofs for TLAPS.

    tlc -config MCFile_crash.cfg MCFile.tla        # one run
    tlapm FileProofs.tla                           # one module of proofs

## 1. The system

### Components

| component | source | state | operations |
|---|---|---|---|
| file handlers | `fs/file.cc` | the file entry: `data` (current version), `temp` (version being written), `size`, mode and times | open, create, read, write, truncate, unlink, release |
| versions and segments | `fs/version.*`, `fs/segment.*` | a document per version (list of segment numbers, size) and one per segment (a content object) | copy-on-write on the first write or truncate, in-place work on the temp version, removal |
| directories | `fs/directory.cc` | an entry per directory: `data`, an array of names | readdir, mkdir, rmdir; create and unlink push and pull names too |
| attributes | `fs/attribute.cc` | mode, times | getattr, chmod, setxattr (a dummy) |
| process | `fs/ndnfs.cc` | none that outlives it | looks for the root, makes it in an empty database, runs libfuse's loop |
| NDN server | `server/` | a global `child_selector_set`, the stack of the search | interest -> depth-first search of the entries -> second query for the segment |
| JavaScript server | `server-js/server.js` | the path in a closure | the same, as a chain of callbacks |
| consumers | `test/` | counters of segments | fetch a file segment by segment, one by one or with a pipe of interests |

The components share nothing but one MongoDB collection, in which every
document is found by its full path: `/dir/file`, `/dir/file/<version>`,
`/dir/file/<version>/<segment>`. A database operation is atomic; a handler is a
sequence of them with no lock, no transaction and no condition on an update.
The driver reports no error for an insert whose `_id` exists (the old document
stays) nor for an update or remove of a document that does not exist.

### What is hard

* **Interleaving.** libfuse runs handlers on many threads, and the NDN servers
  are other processes. What a handler read from the entry may be stale when it
  writes it back (`open`: query at `file.cc:34`, `$set` at 68; `release`: query
  at 265, `$set` at 307).
* **Crashes.** Handlers change two to a dozen documents one after another, and
  a killed process leaves any prefix of that. The write lock of a file *is* a
  field of its entry.
* **Silent failures.** Inserts over existing documents; copies that stop at a
  missing segment; loops that end at the first missing segment.
* **Boundaries.** Offsets inside a segment, holes, truncation.

### What makes each component correct

* file handlers: at most one writer; a writer finds its own temp version until
  it closes; readers and consumers see complete versions only, which never
  change; versions grow; what is dropped is dropped completely; the lock is
  released. *(modelled)*
* bytes: a draft is a prefix of what was there plus what was written; reads are
  slices of the content; an acknowledged write is stored; the list of segments
  agrees with the size. *(modelled)*
* directories: lookups (by path) and listings (by the parent's array) agree;
  what can be reached stays reachable until removed. *(modelled)*
* attributes: what `getattr` finds is what the kernel walks a path by; a `chmod`
  that is acknowledged happened. *(modelled)*
* process: however often it is killed and started, the root is made once and
  nothing that can be reached is lost. *(modelled)*
* NDN servers: the segment returned satisfies the selectors as the server is
  given them and is the first in order that does; if there is one, one is
  returned; what the first query
  selected, the second finds; drafts are not served. *(modelled)*
* consumers: every segment of one version is counted once, who stops asking has
  them all, and nobody is stuck before `main()` returns, under loss, delay and
  repeated answers. *(modelled)*

## 2. The modules

| module | role |
|---|---|
| `File` | the file handlers on one path, one database operation per step; clients, interleavings, crashes |
| `FileProperties` | its properties, the inductive invariant `LockInv`, the refinement to `VersionedFile` |
| `VersionedFile` | abstract: one name with a current version that is replaced in one step |
| `Content` | the bytes: one writer, each handler in one step, every offset and length |
| `ContentProperties` | its properties, the refinement to `Draft` |
| `Draft` | abstract: a sequence of bytes that is edited and committed |
| `Directory` | the tree of entries: mkdir, rmdir, create, unlink, chmod, getattr, readdir; process start and crashes |
| `DirectoryProperties` | its properties and the inductive invariant `TreeInv` |
| `Server` | both NDN servers: the search and the fetch, one query per step, on any collection |
| `ServerProperties` | which segments match an interest, and what the searches find |
| `Consumers` | composition: the consumers of `test/`, a network that loses and delays, `Server` on a fixed collection |
| `ServedFile` | composition: `Server` on the documents that the steps of `File` change |
| `MCFile`, `MCContent`, `MCDirectory`, `MCConsumers`, `MCServedFile` | instances for TLC |
| `FileProofs` | theorems about `File`: types, the temp version as a lock, version numbers |
| `FileIntactProofs` | the name in its directory; the current version never changes; a temp version has a writer; a listed version is complete; `File` implements `VersionedFile` |
| `FileTidyProofs` | nothing is left over |
| `ContentProofs` | theorems about `Content`: the bytes, for any sizes; `Content` implements `Draft` |
| `DirectoryProofs` | theorems about `Directory` |
| `ServerProofs` | lemmas about `Server` on any collection: what a whole search finds |
| `ServedFileProofs` | theorems about `ServedFile`: a server amid running handlers |
| `ConsumersProofs` | theorems about `Consumers`: what the servers find for it, the programs that fetch a file |

### File

`file`, `vers`, `segs` are the documents of one path; `listed` counts the name
in the parent's array; `clock` is the last version number generated. `loc[c]` is
the request of client c: the database operation it does next (`pc`), the
operation it belongs to and the handler's locals (`tmp`, `cur`: the version
numbers read from the entry at the start; `pos`: `seg_off`; `idx`, `lim`: the
loops; `vic`: the version whose segments are removed). `handle[c]` is the access
mode `release()` is given: a handle of `create()` ("new") comes with flags 0
(`file.cc:279-284`). `owner` is a ghost: the version the client's open
generated.

Each action is one database operation with the code up to the next one. A
client's call (`OpenRead`, `OpenWrite`, `Create`, `Read`, `Write`, `Truncate`,
`Release`, `Unlink`) is the handler's first query; a query whose result ends the
handler without a change is a guard of it. `write_temp_version` and
`truncate_temp_version` share the steps `TempQuery` ... `VerInsert`, which are the
same lines in both; `remove_segments` is `SegList` and `SegRemove` for write,
truncate, release and unlink alike. `UnlinkQuery` ... `UnlinkEntry` are
`remove_versions` and the removal of the entry. `Killed` is the death of the
process, at a crash or where `binData()` is given a segment that
`truncate_segment` has replaced by an embedded document.

A write is one whole, aligned segment (FUSE's default requests are 4096 bytes,
which is `seg_size`). Handlers on different paths touch different documents, so
one path is enough.

Taken from the surroundings, and stated as guards: the kernel holds the inode's
lock over a write or a truncate; libfuse and the kernel let creation and removal
of a name run alone on it; libfuse does not pass on the unlink of an open file
(it renames it, which NDNFS does not implement). `generate_version()` never
returns a value twice (microseconds of a clock that is not set back). Beyond
that, the constant `Env` says what clients and surroundings do:

| flag | meaning |
|---|---|
| `open_race` | two opens for writing may overlap (otherwise the second starts when the first has answered) |
| `fresh_reader` | a file may be opened for reading before its first version is committed |
| `bare_truncate` | `truncate(2)` on the path, without a write handle |
| `shrink` | a truncate below the size of the version being written |
| `sparse` | a write past the end of the version being written |
| `crash` | the process may be killed between two steps |

### Content

`cur` and `tmp` are the current and the temp version: is there a document, how
many segments it lists, its size, and the bytes of each segment. Byte k of the
n-th write is `<<n, k>>`, so every byte tells where it came from. The loops of
the code are closed forms: `CopyEnd(n)` is the `i` at which the copy loop stops,
`StoredSegs` what the write loop, the insert that does not replace, and
`remove_segments` leave. `read_version` is `read_segment` for the first segment
and `read_rest` for the others. `Copy...(n)` are the ways the copy can end, `Put`
and `Shorten` have one disjunct for each way the rest can. `alive` says whether
and why the process ended; a call that changes nothing (a read that succeeds, a
truncate to the same size or beyond the end) is left out. `Env` says which calls
are made: `unaligned`, `rewrite`, `sparse`, `shrink`.

### Directory

An entry is stored twice: under its path (`kind`, `mode`) and as a name in its
parent's array (`times`, a count, because `$push` does not check). mkdir and
create insert, then push; rmdir removes, then pulls; unlink pulls, then removes
(the versions in between are `File`'s). Removing a directory's document removes
its array as well. An update of a document that is gone does nothing (`Push`,
`ChmodSet`); `UpdatesLand` says that it does not come to that.

`Getattr` is what `ndnfs_getattr` tells the kernel, `Lookup` the kernel's walk
over it, `Readdir` what a listing shows. The kernel has looked up the parent
before it calls mkdir or create and the path before it calls rmdir, unlink or
chmod, so the handlers' first queries succeed and are part of the call.
libfuse's path locks are the guard `Free`/`Using`: a path is not removed while a
request on it or below it runs, and no two requests make or remove the same
path.

`proc` is main(): `Start` looks for the root, `RootInsert` makes it, and only
then are calls served. `Crash` kills the process at any of these points or in
the middle of any handlers, and leads back to `Start` on the database as it is.
`broken` is a ghost: the paths of requests that were killed and that have not
been removed since.

### Server

`coll` is the collection the server searches, a function from paths to entries;
whoever instantiates the module supplies it. A name is a number: for the name of
an entry its rank in the order of `BSONElementLessThan`, for versions and
segments the number itself. The recursion of `Search4PossibleMatch_Rec` is its
stack `todo`: the paths still to be queried, in the order in which the loops of
all levels would reach them. `Missing` is a query without a result,
`SearchList`, `SearchFile` and `SearchSegment` are the cases of the switch,
`Selects` is `!child_selector_set && child_selector`, and `SearchNothing` is the
access to element -1 of an empty vector, which is undefined: the server may
die or go on with a name that does not exist. `FetchData` is the second query;
`FetchNull` is that query without a result, where `len` is uninitialised and the
copy from NULL may or may not crash; `FetchCut` is `binData()` on what
`truncate_segment` leaves of a segment. `Js...` are the callbacks of
`server.js`, which take the first child without sorting and without selectors
and send the segment from the query that found it. Two of its details matter: the
child of "/" is asked for as "//x", which does not exist, and `data[0]` of an
empty array is the text "undefined" (`NoName`). `Ordered` is `std::sort`: *a*
permutation that puts the list in order, chosen, not computed, so that the
proofs can use the two facts they need: it only moves elements about, and leaves
them in order.

Of the child selectors only `CHILD_RIGHT` changes a search. The condition at
`servermodule.cc:231` tests the selector's value, and `CHILD_LEFT` is 0: its case
in the switch is never reached, and such an interest has all children searched,
in order and with backtracking, like one with `CHILD_DEFAULT` (`Children`).
Moreover the TODO at `servermodule.cc:228` says that `getChildSelector()` "returns
nothing and the child selector switch() always goes to CHILD_LEFT". That
function is the library's, and the code alone does not tell whether this is
still so; the model has both, one or the other for each interest
(`ChildSelector`, chosen when the search starts). `srv.want` is the interest with
the selector that the server got for it, and that is what the properties speak
of: with the getter of the TODO a consumer that asks for the rightmost child is
given the first match of all. `Plain` interests set nothing; which of the two
values without effect they carry does not matter.

`Interests` are the interests there may be, with any name and any bounds.
`Tree(c)` says of a collection what the handlers keep true of it (`Holds`: what an
entry of each type lists is, if it is there, of the type that belongs below it; a
file has one version; a version lists its segments without gaps). A list may be
in any order, name an entry twice and name entries that are gone, as handlers
leave it when they are killed.

### Consumers

`pending` are the interests a consumer's library waits with (a bag, so that an
interest expressed twice is seen), `wire` those on their way, `data` the
segments that the daemon holds. `Send` may lose any part of what is sent,
`LoseData` drops data, `OnTimeout` may come at any time, also when the answer is
on its way, and data stays for a repeated interest. `ClientOnData`, `CatOnData`,
`CatPyOnData` and `PipeStart`/`PipeOnData` are the programs' OnData; `fname`,
`nextseq`, `count` are their globals; `over` says that a program returned
without asking for more. `got` is a ghost: what the program was given.
`main()` sends the first interest and sleeps, while the library's thread does
the rest: `up` says that it has not returned yet, and `MainReturns` is its return,
after 3 s in `client.cc` (line 89), 10 s in `cat_file.cc` (154) and
`cat_file_pipe.cc` (182), and at the end of `run(20000)` in `cat_file.py` (62).
It may come at any moment, whatever is still missing; then nothing is received,
nothing times out and nothing is sent again.
`Scenarios` says who asks whom for what in which collection. `client` may ask for
anything; the programs that fetch a file are given one whose current version is
complete (`WholeFile`), which is what `IntactAlways` and `NothingLeftOver` prove of a
file that a directory lists. Every collection is a `Tree`, which is what
`CollectionIsTree` proves of the documents of `File`.

### ServedFile

`Collection` is the state of `File` as the server sees it, and a step is a step
of `File` or of `Server`. Interests are for the directory or the file, so that
the server chooses the version.

## 3. The runs

All runs have `CHECK_DEADLOCK FALSE`: version numbers, writes and listings are
bounded, so a run may legitimately end (every request is still answered, which
`RequestsComplete` checks). Safety runs use the symmetry of clients.

| run | instance | what it shows |
|---|---|---|
| `file_live` | 2 clients, 3 versions, 2 segments, `Env = {}`, fairness | `TempMeansWriter`, `NoOrphans`, `VersionsAdvance`, `TempReleased`, `RequestsComplete` |
| `file_crash` | the same with `crash` | `WriterHoldsTemp`, `SingleWriter`, `ListedIntact`, `NameUnique`, `FreshVersion`, refinement `ImplementsVersionedFile` |
| `file_damage` | 2 versions, 2 segments, `bare_truncate`, `shrink`, `sparse` | `TypeOK`, `LockInv`, `CommittedFrozen` |
| `content_whole` | segments of 2 bytes, 3 segments, 4 writes, `Env = {}` | `ReadsSlice`, `StaysUp`, `AckedStored`, refinement `ImplementsDraft` |
| `content_any` | segments of 3 bytes, 2 segments, 3 writes, all flags | `TypeOK`, `ListCoversSize`; every way a handler can end occurs |
| `directory` | 2 clients, paths `/a /b /a/a`, from an empty database, crashes | `TypeOK`, `ListingAgrees`, `ParentExists`, `UpdatesLand`, `TreeInv`, `ReachableStays` |
| `consumers` | one interest with every name, selector and bound for 11 collections; the three fetching consumers on a file of 3 segments, pipe of 2 | `TypeOK`, `SearchInv`, `JsInv`, `FindsMatch`, `JsAgrees`, `UniqueCount`, `PipeFull`, `Whole`, `NotStuck` |
| `served_file` | 2 clients, 2 versions, 2 segments, both servers, fairness | `ServesCommitted`, `SelectionStands`, `InterestsEnd` |

Runs that end in a counterexample, each against a sentence of the sources:

| run | the code says | what happens |
|---|---|---|
| `file_open_race` | "We should reject this open request" (`file.cc:60`) | two overlapping opens are both accepted |
| `file_reader_release` | release can tell a created file from a reader (`file.cc:282`) | a reader of an unfinished file publishes it |
| `content_lost_write` | write returns the bytes written (`file.cc:196`) | a segment that exists is not replaced, the write is acknowledged and lost |
| `served_gone` | the server responds or ignores the interest (`servermodule.cc:39-40`) | the segment it selected is removed before it is fetched; it copies an unknown number of bytes from NULL |

Further behaviours the models have, and that the properties above exclude by
their `Env` or name as exceptions: a consumer whose `main()` returns before it has
the whole file leaves it incomplete, prints no error and exits with 0; an
interest for the leftmost child has all children searched, and the rightmost
child of an empty list is element -1 of a vector; after a crash the temp version of an open
file stays in its entry, so that the file can never be opened for writing again;
a first write at an offset inside a segment (appending to a file of 5000 bytes)
fails `assert(i <= seg_off)` at `version.cc:177`; a shrunk draft keeps segments nothing lists and cannot be read at
its new end; a truncate by path makes a version named -1 that unlink leaves
behind, and one that overlaps another client's release cuts the committed
version (the exception of `CommittedFrozen`); an append to a draft whose last segment is not full fails the assertion
at `version.cc:228`; a read from the middle of a segment (only on a mount with
`direct_io`, reads are page-aligned otherwise) returns bytes from beyond its
end; an entry whose
mkdir or create is killed between insert and push, or whose unlink is killed
between pull and remove, is left unlisted, and one made again after a killed rmdir is listed
twice until it is removed (`ListingAgrees` says that only such paths are
affected, and that removing them repairs them).

### Why the bounds are enough

Two clients give every pairwise interleaving of handlers, and the lock admits no
third role besides a writer and another. Three versions are a committed one, its
successor and the draft after that; two segments distinguish the first, the
last, the one kept and the one removed by every loop. `file_damage` and
`served_file` have two versions, a committed one and its successor, to pay for
more kinds of steps. In `Content` a segment of two bytes has an aligned and an
unaligned offset, one of three also a segment that is shorter than a tail to be
kept; four writes fill a version, commit it and rewrite it. In `Directory` the
three paths are a parent, its child and a sibling; `MaxTimes = 2` allows a double
listing; the theorems of section 4 cover every other tree. In `Consumers` the
collections have, below the root, every kind of entry in every state the other
models leave it in (a whole file, a missing, cut or unlisted segment, a file
without a version, an empty directory, a directory with a file), alone and
beside a sibling, one listed twice, so that the search has to order, to select and
to backtrack; a
file of three segments has a first, a middle and a last one, and a pipe of two
asks beyond its end.

### Fairness

`FairSpec` has weak fairness of `Step(c)`: a libfuse thread that has started a
handler goes on with it, since a handler waits for nothing but MongoDB. It has
strong fairness of `Release(c)`: a process that can close its handle again and
again does so at last (at the latest the kernel does, when it exits); between
two of its own requests the release is only intermittently enabled. No fairness
is assumed of opens, writes, unlinks or crashes, and the liveness run has no
crashes.

In `Consumers` fairness is about a process that keeps running. Nothing is assumed
of `MainReturns`, which may come at once or late, and when it has come the steps
of the program are no longer enabled, so that fairness asks nothing of them. The
server runs (weak fairness of `Serve`: it waits for nothing
but MongoDB), and the network is fair-lossy, per segment asked for: an interest
that is expressed again and again at its timeouts is not lost for ever
(`Resend`), one that reaches the daemon again and again reaches the server
(`Take`, strong because the server may be busy with others), and data that is
held again and again is delivered. The timeout itself is the library's timer.
What follows from this is `NotStuck`: as long as it runs, a program never waits
for what nobody will do, so all it can lack is time. That is less than that it
completes. `main()` sleeps for a fixed time, which bounds the number of times an
interest is sent again, and over a network that loses enough the file is
incomplete when the process ends. The safety properties (`UniqueCount`,
`PipeFull`, `Whole`) assume no fairness and hold at that moment too. In
`ServedFile` only the server's steps are fair: a search ends whatever the file
handlers do, or do not do, meanwhile.

## 4. The proofs

The `File...Proofs` modules are about `File` for every set of clients, every
`MaxVersion`, `MaxSegs` and `Env` allowed by `ConstantsAssumption`. A theorem that
does not hold in every surrounding says which flags it excludes:

| hypothesis | excludes | because |
|---|---|---|
| `Disciplined` | `open_race`, `fresh_reader` | either breaks the lock (runs `file_open_race`, `file_reader_release`) |
| `NoCrash` | `crash` | a temp version outlives its writer, half-removed versions stay |
| `NoShrink` | `shrink` | a truncate shortens the list before it removes segments, and leaves a segment cut in half |
| `NoSparse` | `sparse` | a hole is a listed segment that is not there, and a copy stops at it |
| `NoBare` | `bare_truncate` | a truncate by path makes a version -1 and works on whatever version the entry had |
| `Quiet` | all | each of the above leaves something over |

**Types, lock and versions.**

* `TypeCorrect`: `Spec => []TypeOK`. `TypeOK` is not inductive by itself (a loop
  index might leave the bounds of a version), so the induction is over `TypeInv`,
  which adds `LocalsOK`: the relation between a request's step and its locals.
* `LockInvariant`, `WriterSafe`, `MutualExclusion`: `Spec => []LockInv`, and from
  it `WriterHoldsTemp` and `SingleWriter`, assuming `Disciplined`: `open_race` and
  `fresh_reader` are not in `Env`. The two are exactly the assumptions whose
  violation the runs `file_open_race` and `file_reader_release` exhibit; crashes,
  truncates by path, shrinking and holes are allowed. A writer's temp version is
  safe because of facts about *other* requests at each of their steps, which
  `LockInv` adds: a release that has not published yet belongs to a writer and
  works on the version in the entry (`ReleaseKnows`); a reader's file has a
  current version, so that its release publishes nothing (`ReaderKnows`); an open
  that saw no temp version is still right and is alone (`OpenKnows`); create and
  unlink have the name to themselves (`ExclusiveKnows`); and the step a request
  is at tells its operation (`Phase`). One lemma per handler shows that its steps
  keep `LockInv`; `QuietStep` covers all steps that change neither the entry nor
  the handles.

* `FreshAlways`: `Spec => []FreshVersion`, for every `Env`: overlapping opens,
  truncates by path and crashes included. `VersionInv` adds that every number in
  use, in the entry, in a document or with a request, is at most `clock`
  (`Generated`), and that a request which generated a number is the only one to
  know it until the entry has it (`Private`). `OrdinaryStep` is the argument for
  all other steps: what a request makes it makes at the version it read from the
  entry, so never at a private one. That holds for the numbers of `make_segment`
  too, where version -1 wraps (`Unsigned`).
* `NewerReplaces`: `Spec => VersionsAdvance` under `Disciplined`. `AdvanceInv` says
  that the temp version of the entry, and the number an open is about to put
  there, are newer than the current version; publishing (`RelSet`) needs `LockInv`
  to know that its version is still the one in the entry and that no open is in
  progress. `PlainOrEntry` reduces `Next` to the six steps that touch a version
  number of the entry or generate one.
* `ReadersSafe`: `Spec => []ReadersPublishNothing`, from `LockInv`.

`file_damage` checks `LockInv` itself on a small instance.

**The name and the documents.**

* `NameAlways`: `Spec => []NameUnique`, for every `Env`. `NameInv` adds that create
  and unlink are alone on the name, what each of their steps knows of the entry
  and the listing (create pushes a name that is not listed, unlink pulls before
  it removes), and `Phase`.
* `FrozenAlways`: `Spec => CommittedFrozen` under `Disciplined`; crashes, shrinking
  and truncates by path included. `FullInv` puts `NameInv`, `LockInv`, `VersionInv`
  and `AdvanceInv` together with `SourceInv`: who writes, or truncates with a handle,
  works on the temp version of the entry, and a release removes a version older
  than the current one. Every step that touches a document is then looked at once.
* `WriterBehindTemp`: `Spec => []TempMeansWriter` under `Disciplined`, `NoShrink`,
  `NoCrash`. The lock goes one way in `LockInv` (a writer finds its temp version);
  `HolderInv` is the converse, with the fact that a created file has no current
  version until its creator publishes one, so that its release never takes the
  handle for a reader's. It needs `CutFree`: without a shrinking truncate no
  segment is ever cut, so no handler dies of one with the file open.
* `IntactAlways`: `Spec => []ListedIntact` under `Disciplined`, `NoShrink`, `NoSparse`;
  crashes and truncates by path included. `Complete` is the property of the current
  version; that a release keeps it is what it knows of the version it is about to
  publish (`HoldOf`: the document is there, the size it read is still its size,
  every segment below it is there), and that is what the writes before have left:
  `WorkOf` says up to which segment the version is filled at each step of a copy
  and of a write. `EmptyFirst` is about a file that has never been committed.
  `NoSparse` is what makes a write end without a hole.
* `Implements`: `Spec => ImplementsVersionedFile` under the same hypotheses. The
  initial state maps to the initial state; a lemma per handler maps each of its
  steps to a step of `VersionedFile` or to a stutter. The step of substance is
  `RelSet`, which is the commit; that the abstract `readable` is the whole size
  at that point and stays so is `IntactInv`, as a cardinality.
* `NothingLeftOver`: `Spec => []NoOrphans` under `Quiet`. `TidyInv` says of every
  document whose it is: a version belongs to the entry or to a release that is
  removing it (`NoStrayDoc`), a segment to the list of its version or to the write
  that is about to list it (`NoStraySeg`); and what the removal loops have passed
  is gone and does not come back (`Gone`, `Knows`). When no request runs, nobody is
  left to own a stray document.

**Bytes.** `ContentProofs` is about `Content` for every segment size, number of
segments and number of writes.

* `ContentTyped`: `Spec => []TypeOK` and `ListAlways`: `Spec => []ListCoversSize`,
  for every `Env`: unaligned, repeated and sparse writes and shrinking truncates
  included. `ContentInv` is the types and `Covers` of both versions. The cases of
  substance are a copy, whose list is as long as the segments it found and whose
  size is what was asked for (`BeforeBound`: i segments hold at most i times the
  segment size; `assert(i <= seg_off)` bounds the other side), and a write, whose
  list ends at the segment of its last byte (`LastSegment`).
* `SlicesAlways`: `Spec => []ReadsSlice`, `AckedAlways`: `Spec => []AckedStored` and
  `ContentImplements`: `Spec => ImplementsDraft` under `Appending`, that is
  `Env \subseteq {"unaligned"}`: clients append at any offset, truncate before they
  write to any length, and read from anywhere. The three flags it excludes each
  break all three properties: a write over stored segments is acknowledged and
  lost (run `content_lost_write`), a write past the end leaves a hole, a shrinking
  truncate leaves a segment that ends the process at the next read.
  `PlainInv` says what such clients keep true: every segment below the size is
  full but the last, none beyond it is there, none is cut (`Plain`), and what was
  acknowledged last stands where it was written (`Acked`); a copy that fails its
  assertion may leave segments of no version. `Flat` is the content of a version,
  byte by byte, and each loop of `fs/version.cc` has a lemma in terms of it:
  reading (`ReadVersion`), copying (`PlainCopy`, `CopyWithin`), storing (`PlainWrite`).
  The refinement follows from these: a write maps to `DraftWrite`, a truncate to
  `DraftTruncate`, or either to a stutter when it is refused or ends the process.
  The run `content_whole` has `Env = {}`, because it checks `StaysUp` too; the three
  properties also hold on its instance with `unaligned`.
* `UpAlways`: `Spec => []StaysUp` under `WholeSegments`, that is `Env = {}`, since an
  append inside a segment fails an assertion (`version.cc:177`, `228`).

`Before` and `read_rest` are recursive functions; what they compute for every
input is induction over data. The induction theorems of the library take an
operator and cannot be instantiated, but its well-foundedness of `<` on the
naturals can: `Least` gives every set of naturals a least element, and
`Induction` is that on the set of counterexamples. `SumExists` builds the
function that `Before` defines.

**Directories.** `DirectoryProofs` is about `Directory` for every set of clients and every set of
paths that `ConstantsAssumption` allows: any depth and any number of names, as
long as the ancestors of a path are paths too. `ListingAgrees`, `ParentExists`,
`UpdatesLand` and `ReachableStays` are not inductive by themselves, because they
say nothing of what a handler has found out some steps before. `TreeInv` adds it:
`Alone` (who makes or removes a path is alone on it, and who removes it also
below it), `Serving` (requests run only when the root is there), `Knows` (what
each request knows of its path at each step) and `Listed` (how often a path that
no killed request was about is listed). One lemma per handler keeps `TreeInv`
(`TreeInvariant`); `TreeTypeCorrect`, `ParentAlways`, `ListingAlways` and
`UpdatesAlways` are consequences, and `ReachableAlways` proves the action property
by going through the same steps once more. The step that needs an argument is
`RmdirRemove`: nothing reachable is lost below the directory because a reachable
child would be listed in it, and `Knows` has the list empty since the query.

**A server amid handlers.** `ServedFileProofs` is about `ServedFile`, with both
servers, for every instance of `File` (its theorems rest on those above: a step
of the server leaves `File` alone, a step of `File` leaves the search alone).

* `ServesOnlyPast`: `SFSpec => []ServesCommitted` under `Disciplined`, `NoBare`. What
  a search has on its stack may be long out of date. `SearchInv` says what is
  true of it all the same: every path below the file is of a version that is
  *past* (`Past`: a number no greater than `clock` that is not the temp version,
  and that no request has just generated). Past is for ever (`PastStays`), since
  versions never come back, and the current version is past (`CurrentPast`), so
  reading it from the entry puts nothing else on the stack. `NoneNamed` has the
  documents of version -1, which `NoBare` keeps away.
* `SelectionFits`: `SFSpec => []SelectionStands` under `Disciplined`, `NoShrink`,
  `NoSparse`. `FitsInv` says that a path of the *current* version is one of its
  segments, whichever step put it there; publishing keeps it because a search
  cannot have a path of a version that was only just published, and
  `IntactInv` with `ListsSize` then has the document there.

* `CollectionIsTree`: `SFSpec => []S!Tree(Collection)`, for every `Env`, crashes
  included: the assumption that `Consumers` makes of a collection holds of the
  documents of a file at every step of its handlers.

**A whole search.** `ServerProofs` is about `Server` on any collection that is a
`Tree`, of any depth, with any interest; `ConsumersProofs` concludes from it what
holds in every scenario (`ScenarioInv`: every interest under way is one of
`Interests`).

* `SearchesAll`: `Spec => []SearchInv` and `FindsFirstMatch`: `Spec => []FindsMatch`.
  `FindsMatch` is about the end of the search; `SearchInv` is why. Of the stack of
  the recursion it says that every path on it was reached as a match is (`Reached`:
  from the interest's name, by members of the lists, and with `CHILD_RIGHT` by the
  greatest member of the first list), and that every match is below a path of the stack and after
  the paths before that one (`Awaits`). `SelectorUsed` ties `child_selector_set` to
  the stack: with `CHILD_RIGHT` it is set exactly when the paths are
  beyond the first list. `MatchesAre` restates a match in the terms of one step:
  reached, and accepted by `CheckSuffix`. Both theorems are about the interest as
  the server sees it, with its own selector or with `CHILD_LEFT` (`SeenAs`); with
  `CHILD_LEFT` and `CHILD_DEFAULT` every path below the name counts. A step that opens a list or a file replaces
  the first path by its children (`Stepped`): a match below it is below one of those
  that `Children` keeps, since the selector only drops what `Selected` excludes, and
  the order of the children is the order of the matches. A list that names an entry
  twice puts it on the stack twice; a match is awaited at the first of the two, and
  the second visit does no harm. A path that is popped without a
  result, or a segment that `CheckSuffix` refuses, has no match below it
  (`Dropped`). When a segment is selected, no match is before it; when the stack is
  empty, none is left.
* `Ordered` is a CHOOSE among the permutations that sort. That there is one
  (`SortExists`) is the case of the least counterexample: a list whose last element
  is its greatest, put there by one exchange, and the rest, which is shorter.
* `JsSearchesFirst`: `Spec => []JsInv` and `ServersAgree`: `Spec => []JsAgrees`. The
  JavaScript search has one path. Below a file or a version every match is below
  that path or after it, because a file has one version and the first element of a
  version's list is its least; so the segment it arrives at is the first match,
  which by `FindsFirstMatch` is what the C++ server fetches.
* `ConsumersTyped`: `Spec => []TypeOK`, from `FetchInv` below and `Progress`, which
  bounds what a program has asked for by `nextseq`.

**Consumers.** `ConsumersProofs` is also about the three programs of `Consumers` that
fetch a file, for any number of segments (`Total`), any `PipeSize` and any
collection around the file, either server, and a network that loses, delays and
repeats; `client` asks for one segment only, and the properties except it.

* `CountsOnce`: `Spec => []UniqueCount`; `PipeStaysFull`: `Spec => []PipeFull`;
  `StopsWithWhole`: `Spec => []Whole`. None is inductive. `FetchInv` relates four
  things: what a program has, what it waits for, what may be on its way, and what
  the server is looking for. `Starting` is the state before segment 0: only the
  file's name has been asked for, so that nothing but segment 0 can be about,
  however often it was asked; from then on (`Going`) every interest names one
  segment and is answered by that one only (`AnswersAre`), and none waits for a
  segment that the program has (`OneByOne`, `Piped`), so a late or repeated answer
  finds nobody. `ServerInv` is what makes the first answer segment 0: a search
  for the file passes the file, its version and the first of the segments in
  order (`FirstInOrder`), whichever server runs it.

**Only model-checked.**

* Liveness (`TempReleased`, `RequestsComplete`, `NotStuck`, `InterestsEnd`): temporal
  reasoning under fairness is outside what these proofs do.

## 5. Not modelled

Access and modification times, the values of modes and debug output (no
property depends on them); signing and naming of content objects
(`make_segment` builds them, the models keep the payload); two paths at once in
`File` (disjoint documents); a database that fails or restarts; option parsing.

The width of `int`: `seek_segment`, `segment_to_size` and the `size` field of an
entry are exact below 2^31, which is where the models are; the repository neither
handles nor tests larger files.

The pool of database connections: `chmod` leaks the one it took, which the driver
makes up for by opening another.

The conversion of name components in `ndnName2String` and `onInterest` (the
markers 0xFD and 0x00 of versions and segments) is taken to give back the
numbers that `make_segment` put in; `FetchStringData`, which nothing calls.

Consumers on a collection that changes: a consumer that has learnt a version
asks for it until its `main()` returns once it is replaced, as the code stands.
How many timeouts fit into the sleep of `main()`: the models have no time. Interests that
name a version which is still written are answered from the draft
(`ServesCommitted` is about those that leave the version to the server).

`wscript` and `waf`, which build the programs.

## 6. Plan

1. `File`, `VersionedFile`, `Content`, `Draft`, `Directory`, `Server`, `Consumers`,
   `ServedFile`, their runs, and the proofs of section 4: done.
2. The properties of `File` and `ServedFile` for every instance, and the step
   simulation `File` => `VersionedFile`: done.
3. `UniqueCount`, `PipeFull` and `Whole` for files and pipes of any size: done.
4. The bytes for every segment size, with the refinement `Content` => `Draft`: done.
5. `FindsMatch` and `JsAgrees` for trees of any depth, `TypeOK` of `Consumers`, and
   that the documents of a file are such a tree: done. What is left is for TLC.
