-------------------------------- MODULE Draft --------------------------------
(***************************************************************************)
(* What a file's content promises to one writer after another: the draft   *)
(* starts as the committed content, a write or a truncate keeps a prefix   *)
(* of it, and closing the file commits it.  A write ends the draft: it is  *)
(* copy-on-write for files that are rewritten from some offset on.         *)
(***************************************************************************)
EXTENDS Integers, Sequences

CONSTANTS Offsets, Buffers  \* the offsets and the data of the calls

VARIABLES committed, editing, draft

draftVars == <<committed, editing, draft>>

DraftInit == committed = <<>> /\ editing = TRUE /\ draft = <<>>

DraftOpen ==
    /\ ~editing /\ editing' = TRUE
    /\ draft' = committed
    /\ UNCHANGED committed

DraftWrite(p, buf) ==
    /\ editing /\ p <= Len(draft)
    /\ draft' = SubSeq(draft, 1, p) \o buf
    /\ UNCHANGED <<committed, editing>>

DraftTruncate(n) ==
    /\ editing /\ n <= Len(draft)
    /\ draft' = SubSeq(draft, 1, n)
    /\ UNCHANGED <<committed, editing>>

DraftCommit ==
    /\ editing /\ editing' = FALSE
    /\ committed' = draft /\ draft' = draft

DraftNext ==
    \/ DraftOpen \/ DraftCommit
    \/ \E p \in Offsets : DraftTruncate(p) \/ \E buf \in Buffers : DraftWrite(p, buf)

DraftSpec == DraftInit /\ [][DraftNext]_draftVars
=============================================================================
