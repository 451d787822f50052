-------------------------- MODULE ContentProperties --------------------------
(***************************************************************************)
(* What the bytes of a version are, and what the code's assertions and     *)
(* comments say of them.                                                   *)
(***************************************************************************)
EXTENDS Content

\* What a reader gets who asks for the whole version from the start.
ContentOf(v) == read_version(v, 0, v.size)
Starts == {off \in 0..MaxSize : off % SegSize = 0}
Slice(v, off, n) ==
    LET whole == ContentOf(v)
    IN  SubSeq(whole, off + 1, Min({off + n, Len(whole)}))

\* Reading from any segment on gives the same bytes as reading the whole
\* version and skipping: the segments before the end are all full, none is
\* missing and the sizes of the documents agree with them.
ReadsSlice ==
    \A v \in {cur, tmp}, off \in Starts, n \in 1..MaxSize :
        v.here /\ off < v.size =>
            read_version(v, off, n) = Slice(v, off, n)

\* The list of a version's segments covers its size and names at most one
\* segment more: write and truncate set both, each from its own offset, and
\* the NDN server and remove_segments trust the list where readers trust the
\* size.
ListCoversSize ==
    \A v \in {cur, tmp} : v.here =>
        /\ v.size <= v.list * SegSize
        /\ v.list <= v.size \div SegSize + 1

\* "return the number of tyes written on success" (fs/file.cc:196): what a
\* write acknowledged is in the draft, where it was written, until the next
\* write or truncate.
AckedStored ==
    alive = "ok" /\ last.data # <<>> /\ last.off % SegSize = 0 =>
        read_version(tmp, last.off, Len(last.data)) = last.data

\* Nothing ends the process, as long as clients append whole segments.
StaysUp == alive = "ok"

\* The handlers implement Draft: what a write or a truncate keeps is exactly
\* the prefix of what was there, and readers see what was closed last.
Buffers == UNION {{[k \in 1..n |-> <<w, k>>] : n \in 1..MaxSize} : w \in 1..MaxWrites}
Abstract == INSTANCE Draft WITH
    Offsets <- 0..MaxSize, Buffers <- Buffers,
    committed <- ContentOf(cur),
    editing <- writing,
    draft <- IF tmp.here THEN ContentOf(tmp) ELSE ContentOf(cur)
ImplementsDraft == Abstract!DraftSpec
=============================================================================
