------------------------------- MODULE Content -------------------------------
(***************************************************************************)
(* The bytes of a file: how write_temp_version and truncate_temp_version   *)
(* (fs/version.cc) copy and cut segments, and what read_version returns.   *)
(*                                                                         *)
(* One writer at a time and every handler in one step: module File has the *)
(* interleavings.  cur is the current version, tmp the temp version.  The  *)
(* process ends at a failed assert() (the build does not define NDEBUG)    *)
(* and when binData() is given a segment that is not binary; alive says    *)
(* which.  Offsets and lengths that are not multiples of the segment size, *)
(* writes before the draft's end, writes past it and truncates             *)
(* below its size happen if Env says so.                                   *)
(***************************************************************************)
EXTENDS Integers, Sequences, SequencesExt

CONSTANTS
    SegSize,    \* bytes in a full segment (seg_size, 4096)
    MaxSegs,    \* bound: segments in a version
    MaxWrites,  \* bound: how many writes are made
    Env         \* which calls the clients make beyond appending whole segments

EnvFlags == {"unaligned", "rewrite", "sparse", "shrink"}

ASSUME ConstantsAssumption ==
    /\ SegSize \in Nat \ {0} /\ MaxSegs \in Nat \ {0} /\ MaxWrites \in Nat
    /\ Env \subseteq EnvFlags

VARIABLES
    cur, tmp,  \* the version documents with their segments
    writing,   \* is the file open for writing
    alive,     \* "ok", or what ended the process
    writes,    \* number of writes made
    last       \* the last write that returned its size, if it is the last
               \* change to the draft (ghost)

vars == <<cur, tmp, writing, alive, writes, last>>

SegNums == 0..(MaxSegs - 1)
MaxSize == SegSize * MaxSegs

\* Byte k of the n-th write is <<n, k>>.  Junk is a byte from beyond the end
\* of a segment; Cut is a segment that is no longer binary data; a segment
\* that does not exist is empty (make_segment stores no empty one).
Junk == <<0, 0>>
CutByte == <<0, 1>>
Cut == <<CutByte>>
Bytes == ((1..MaxWrites) \X (1..MaxSize)) \cup {Junk, CutByte}

NoVersion == [here |-> FALSE, list |-> 0, size |-> 0,
              seg |-> [i \in SegNums |-> <<>>]]
NoWrite == [off |-> 0, data |-> <<>>]

VersionOK(v) ==
    /\ v.here \in BOOLEAN /\ v.list \in 0..MaxSegs /\ v.size \in 0..MaxSize
    /\ DOMAIN v.seg = SegNums
    /\ \A i \in SegNums : v.seg[i] \in Seq(Bytes) /\ Len(v.seg[i]) <= SegSize

TypeOK ==
    /\ VersionOK(cur) /\ VersionOK(tmp)
    /\ writing \in BOOLEAN
    /\ alive \in {"ok", "copy_assert", "tail_assert", "size_assert", "killed"}
    /\ writes \in 0..MaxWrites
    /\ last.off \in 0..MaxSize /\ last.data \in Seq(Bytes)

\* create() has just made the file.
Init ==
    /\ cur = NoVersion /\ tmp = NoVersion
    /\ writing = TRUE /\ alive = "ok" /\ writes = 0 /\ last = NoWrite

seek_segment(off) == off \div SegSize
Seg(v, i) == IF i \in SegNums THEN v.seg[i] ELSE <<>>

-----------------------------------------------------------------------------
(* Reading.  The start offset moves the source of the copy but not its     *)
(* length, so a read that starts inside a segment runs past its end.       *)

read_segment_unlimited(v, i, limit, off) ==   \* mutant: the limit is ignored
    LET s == Seg(v, i)
    IN  IF s = Cut THEN Cut
        ELSE [k \in 1..Len(s) |-> IF off + k <= Len(s) THEN s[off + k] ELSE Junk]

read_segment(v, i, limit, off) ==
    LET s == Seg(v, i)
    IN  IF s = Cut THEN Cut
        ELSE [k \in 1..Min({Len(s), limit}) |->
                 IF off + k <= Len(s) THEN s[off + k] ELSE Junk]

\* The segments from i on, each from its start, until left bytes are read or
\* a segment is missing.
read_rest(v, first, size) ==
    LET rest[i \in first..(MaxSegs + 1)] ==
            [left \in 0..size |->
                LET s == read_segment(v, i, left, 0)
                IN  IF left = 0 \/ s = <<>> THEN <<>>
                    ELSE s \o rest[i + 1][Max({0, left - Len(s)})]]
    IN  rest[first][size]

read_version(v, off, n) ==
    LET size == Min({n, v.size - off})
        i == seek_segment(off)
        head == read_segment(v, i, size, off - i * SegSize)
    IN  IF ~v.here \/ v.size <= off \/ head = <<>> THEN <<>>
        ELSE head \o read_rest(v, i + 1, Max({0, size - Len(head)}))

Dies(bytes) == CutByte \in ToSet(bytes)

\* A read changes nothing, unless it ends the process.
Read(off, n) ==
    /\ alive = "ok" /\ cur.here
    /\ "unaligned" \in Env \/ off % SegSize = 0
    /\ Dies(read_version(cur, off, n)) /\ alive' = "killed"
    /\ UNCHANGED <<cur, tmp, writing, writes, last>>

-----------------------------------------------------------------------------
(* Copy on write: the first write or truncate after open() copies the      *)
(* first n bytes of the current version, segment by segment, and stops at  *)
(* a segment that is missing or not binary.                                *)

\* The bytes in the segments before i.
Before(v, i) ==
    LET sum[k \in 0..MaxSegs] == IF k = 0 THEN 0 ELSE sum[k - 1] + Len(v.seg[k - 1])
    IN  sum[i]
CopyEndLate(n) ==   \* mutant: while (tail >= 0)
    Min({i \in 0..MaxSegs : Before(cur, i) > n \/ Seg(cur, i) \in {<<>>, Cut}})
CopyEnd(n) ==
    Min({i \in 0..MaxSegs : Before(cur, i) >= n \/ Seg(cur, i) \in {<<>>, Cut}})

CopiedShort(n) ==   \* mutant: the last segment before n is not copied
    [i \in SegNums |->
        IF i < CopyEnd(n) - 1 /\ tmp.seg[i] = <<>>
        THEN SubSeq(cur.seg[i], 1, Min({Len(cur.seg[i]), n - Before(cur, i)}))
        ELSE tmp.seg[i]]

Copied(n) ==
    [i \in SegNums |->
        IF i < CopyEnd(n) /\ tmp.seg[i] = <<>>
        THEN SubSeq(cur.seg[i], 1, Min({Len(cur.seg[i]), n - Before(cur, i)}))
        ELSE tmp.seg[i]]

\* How the copy ends: refused without a copy, refused on the way, the process
\* ended by a segment or by assert(i <= seg_off), or done.
Refused(n) == ~tmp.here /\ n > 0 /\ (~cur.here \/ cur.size < n)
Tried(n) == ~tmp.here /\ ~Refused(n)
CopyBreaks(n) == Tried(n) /\ Before(cur, CopyEnd(n)) < n /\ Seg(cur, CopyEnd(n)) = <<>>
CopyKilled(n) == Tried(n) /\ Before(cur, CopyEnd(n)) < n /\ Seg(cur, CopyEnd(n)) = Cut
CopyAsserts(n) == Tried(n) /\ Before(cur, CopyEnd(n)) >= n /\ CopyEnd(n) > seek_segment(n)
CopyDone(n) == Tried(n) /\ Before(cur, CopyEnd(n)) >= n /\ CopyEnd(n) <= seek_segment(n)

Prepared(n) ==
    IF tmp.here THEN tmp
    ELSE [here |-> TRUE, list |-> CopyEnd(n), size |-> n, seg |-> Copied(n)]

\* The copying part of a call that gets no further: the segments copied so
\* far stay, without a version document.
CopyFails(n) ==
    /\ \/ Refused(n) /\ UNCHANGED <<tmp, alive>>
       \/ CopyBreaks(n) /\ tmp' = [tmp EXCEPT !.seg = Copied(n)] /\ UNCHANGED alive
       \/ CopyKilled(n) /\ tmp' = [tmp EXCEPT !.seg = Copied(n)] /\ alive' = "killed"
       \/ CopyAsserts(n) /\ tmp' = [tmp EXCEPT !.seg = Copied(n)] /\ alive' = "copy_assert"
    /\ UNCHANGED last

-----------------------------------------------------------------------------
(* ndnfs_write, write_temp_version                                          *)

\* The part of the data that goes into segment i, when the first tail bytes
\* of the first segment are kept.
Piece(v, off, buf, i) ==
    LET first == seek_segment(off)
        whole == SubSeq(v.seg[first], 1, off - first * SegSize) \o buf
    IN  SubSeq(whole, (i - first) * SegSize + 1, Min({(i - first + 1) * SegSize, Len(whole)}))

\* An insert does not replace a segment that exists; listed segments after
\* the last one written are removed.
StoredSegs(v, off, buf) ==
    LET end == seek_segment(off + Len(buf) - 1) + 1
    IN  [i \in SegNums |->
            IF i \in seek_segment(off)..(end - 1) /\ v.seg[i] = <<>> THEN Piece(v, off, buf, i)
            ELSE IF i >= end /\ i < v.list THEN <<>> ELSE v.seg[i]]

StoredSized(v, off, buf) ==   \* mutant: size is the size of the data written
    [here |-> TRUE, list |-> seek_segment(off + Len(buf) - 1) + 1, size |-> Len(buf),
     seg |-> StoredSegs(v, off, buf)]

StoredLong(v, off, buf) ==    \* mutant: the list has one segment too many
    [here |-> TRUE, list |-> seek_segment(off + Len(buf) - 1) + 2, size |-> off + Len(buf),
     seg |-> StoredSegs(v, off, buf)]

Stored(v, off, buf) ==
    [here |-> TRUE, list |-> seek_segment(off + Len(buf) - 1) + 1, size |-> off + Len(buf),
     seg |-> StoredSegs(v, off, buf)]

\* The write proper, on the temp version v: into the middle of a segment only
\* if it is there and longer than what is kept of it.
Put(v, off, buf) ==
    LET tail == off % SegSize
        s == v.seg[seek_segment(off)]
    IN  \/ /\ tail = 0 \/ (s \notin {<<>>, Cut} /\ tail < Len(s))
           /\ tmp' = Stored(v, off, buf)
           /\ last' = [off |-> off, data |-> buf]
           /\ UNCHANGED alive
        \/ /\ tail > 0 /\ s = <<>>
           /\ tmp' = v /\ UNCHANGED <<alive, last>>
        \/ /\ tail > 0 /\ s \notin {<<>>, Cut} /\ tail >= Len(s)
           /\ tmp' = v /\ alive' = "tail_assert" /\ UNCHANGED last
        \/ /\ tail > 0 /\ s = Cut
           /\ tmp' = v /\ alive' = "killed" /\ UNCHANGED last

End == IF tmp.here THEN tmp.size ELSE IF cur.here THEN cur.size ELSE 0

Write(off, n) ==
    /\ alive = "ok" /\ writing /\ writes < MaxWrites
    /\ "unaligned" \in Env \/ off % SegSize = 0
    /\ "sparse" \in Env \/ off <= End
    /\ "rewrite" \in Env \/ (tmp.here => off >= tmp.size)
    /\ writes' = writes + 1
    /\ \/ CopyFails(off)
       \/ /\ tmp.here \/ CopyDone(off)
          /\ Put(Prepared(off), off, [k \in 1..n |-> <<writes', k>>])
    /\ UNCHANGED <<cur, writing>>

-----------------------------------------------------------------------------
(* ndnfs_truncate, truncate_temp_version                                    *)

\* On a temp version of size n or less nothing changes.  Otherwise the version
\* document comes first, then the segment that the new end is in.  Its
\* data is replaced by a document that holds the data.  A segment shorter
\* than what is to be kept may or may not pass assert(co_size > length),
\* depending on how much longer than its content the packet is.
ShortenList(n) == seek_segment(n)   \* mutant: i < seg_end for i <= seg_end
ListAfterCut(n) == seek_segment(n) + 1

Shorten(n) ==
    LET e == seek_segment(n)
        tail == n % SegSize
        s == tmp.seg[e]
        doc == [tmp EXCEPT !.list = ListAfterCut(n), !.size = n]
    IN  \/ /\ s = <<>> \/ (tail > 0 /\ s = Cut)
           /\ tmp' = doc
           /\ alive' = IF s = Cut THEN "killed" ELSE alive
        \/ /\ s # <<>> /\ (tail = 0 \/ s # Cut)
           /\ tmp' = [doc EXCEPT !.seg[e] = Cut]
           /\ UNCHANGED alive
        \/ /\ s \notin {<<>>, Cut} /\ tail > Len(s)
           /\ tmp' = doc /\ alive' = "size_assert"

Truncate(n) ==
    /\ alive = "ok" /\ writing
    /\ "unaligned" \in Env \/ n % SegSize = 0
    /\ \/ CopyFails(n)
       \/ CopyDone(n) /\ tmp' = Prepared(n) /\ last' = NoWrite /\ UNCHANGED alive
       \/ "shrink" \in Env /\ tmp.here /\ n < tmp.size /\ Shorten(n) /\ last' = NoWrite
    /\ UNCHANGED <<cur, writing, writes>>

-----------------------------------------------------------------------------
(* ndnfs_open for writing generates a version no segment has; ndnfs_release *)
(* makes the temp version current if it was ever inserted.                  *)

Open ==
    /\ alive = "ok" /\ ~writing
    /\ writing' = TRUE
    /\ UNCHANGED <<cur, tmp, alive, writes, last>>

Release ==
    /\ alive = "ok" /\ writing
    /\ writing' = FALSE
    /\ cur' = IF tmp.here THEN tmp ELSE cur
    /\ tmp' = NoVersion /\ last' = NoWrite
    /\ UNCHANGED <<alive, writes>>

Next ==
    \/ Open \/ Release
    \/ \E n \in 0..MaxSize : Truncate(n)
    \/ \E off \in 0..(MaxSize - 1) :
           \E n \in 1..(MaxSize - off) : Read(off, n) \/ Write(off, n)

Spec == Init /\ [][Next]_vars
=============================================================================
