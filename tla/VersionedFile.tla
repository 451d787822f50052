---------------------------- MODULE VersionedFile ----------------------------
(***************************************************************************)
(* What NDNFS promises of one name in a directory listing, whatever the    *)
(* threads of the file system do and wherever they are killed: a listed    *)
(* file has one current version, complete and of the size its entry says,  *)
(* until a newer version replaces it in one step; at most one version is   *)
(* being prepared.                                                         *)
(***************************************************************************)
EXTENDS Integers

CONSTANTS
    Versions,  \* version numbers, later ones larger
    MaxSize    \* bound: segments in a version

VARIABLES
    present,   \* is the name in the directory
    current,   \* the version readers and consumers get, or -1
    size,      \* the size the entry shows, in segments
    readable,  \* how many segments of the current version can be read
    pending    \* the version a writer prepares, or -1

absVars == <<present, current, size, readable, pending>>

AbsInit ==
    /\ ~present /\ current = -1 /\ pending = -1
    /\ size = 0 /\ readable = 0

Appear(v) ==
    /\ ~present
    /\ present' = TRUE /\ pending' = v
    /\ UNCHANGED <<current, size, readable>>

Begin(v) ==
    /\ present /\ pending = -1 /\ v > current
    /\ pending' = v
    /\ UNCHANGED <<present, current, size, readable>>

Publish(n) ==
    /\ present /\ pending # -1
    /\ current' = pending /\ pending' = -1
    /\ size' = n /\ readable' = n
    /\ UNCHANGED present

Discard ==
    /\ present /\ pending # -1
    /\ pending' = -1
    /\ UNCHANGED <<present, current, size, readable>>

Disappear ==
    /\ present
    /\ present' = FALSE /\ current' = -1 /\ pending' = -1
    /\ size' = 0 /\ readable' = 0

AbsNext ==
    \/ \E v \in Versions : Appear(v) \/ Begin(v)
    \/ \E n \in 0..MaxSize : Publish(n)
    \/ Discard
    \/ Disappear

AbsSpec == AbsInit /\ [][AbsNext]_absVars
=============================================================================
