------------------------------ MODULE Directory ------------------------------
(***************************************************************************)
(* The tree of entries: mkdir, create, rmdir, unlink and chmod on any path *)
(* and the start of the process, one database operation per step           *)
(* (fs/directory.cc, fs/attribute.cc, main() in fs/ndnfs.cc, and           *)
(* fs/file.cc for the entries of files).                                   *)
(*                                                                         *)
(* The tree is stored twice.  An entry's _id is its full path, which is    *)
(* all that a lookup uses; the data array of the parent lists its name,    *)
(* which is all that a listing, the check for an empty directory and the   *)
(* NDN servers use.  Each handler changes both, in an order of its own.    *)
(***************************************************************************)
EXTENDS Integers, Sequences, SequencesExt

CONSTANTS
    Clients,  \* processes that use the mounted file system
    Names,    \* the names of entries
    Paths,    \* bound: the paths below the root, as sequences of names
    MaxTimes, \* bound: how often a directory lists one name
    Crashes   \* may the file system process be killed between two steps

ASSUME ConstantsAssumption ==
    /\ Paths \subseteq Seq(Names)
    /\ \A p \in Paths : Len(p) > 0 /\ \A n \in 1..Len(p) : SubSeq(p, 1, n) \in Paths
    /\ MaxTimes \in Nat \ {0}
    /\ Crashes \in BOOLEAN

VARIABLES
    proc,   \* the file system process: how far main() is
    kind,   \* per path and for the root: what its entry is, or "none"
    mode,   \* per path: the mode of its entry, "set" by chmod
    times,  \* per path: how often the parent's data array has its name
    loc,    \* per client: where its request is, and the path it is about
    broken  \* paths a request was killed on, and not removed since (ghost)

vars == <<proc, kind, mode, times, loc, broken>>

Root == <<>>
Parent(p) == Front(p)
Children(p) == {q \in Paths : Parent(q) = p}
Ancestors(p) == {q \in Paths : IsPrefix(q, p)}

\* getattr() has what the kernel's lookup of a path goes by, readdir() what a
\* listing shows.  Version and segment documents have no attributes.
Getattr(p) == kind[p]
Readdir(p) == {q \in Children(p) : times[q] > 0}
Lookup(p) ==
    /\ Getattr(p) # "none"
    /\ \A q \in (Ancestors(p) \cup {Root}) \ {p} : Getattr(q) = "dir"

Removals == {"rm_remove", "rm_pull", "unl_remove"}
Pcs == {"idle", "mk_insert", "cr_insert", "push", "chmod_set"} \cup Removals
Idle == [pc |-> "idle", path |-> Root]

TypeOK ==
    /\ proc \in {"start", "root_insert", "up"}
    /\ kind \in [Paths \cup {Root} -> {"none", "dir", "file"}]
    /\ mode \in [Paths -> {"made", "set"}]
    /\ times \in [Paths -> 0..MaxTimes]
    /\ loc \in [Clients -> [pc : Pcs, path : Paths \cup {Root}]]
    /\ broken \subseteq Paths

\* An empty database.
Init ==
    /\ proc = "start"
    /\ kind = [p \in Paths \cup {Root} |-> "none"]
    /\ mode = [p \in Paths |-> "made"]
    /\ times = [p \in Paths |-> 0]
    /\ loc = [c \in Clients |-> Idle]
    /\ broken = {}

At(c, l) == loc[c].pc = l
Goto(c, l) == loc' = [loc EXCEPT ![c].pc = l] /\ UNCHANGED proc
Enter(c, l, p) ==
    /\ proc = "up" /\ At(c, "idle")
    /\ loc' = [loc EXCEPT ![c] = [pc |-> l, path |-> p]]
    /\ UNCHANGED proc
Done(c) == loc' = [loc EXCEPT ![c] = Idle] /\ UNCHANGED proc

\* The kernel and libfuse: two requests never make or remove the same path,
\* and a path is not removed while a request on it or below it is running.
Using(p) == \E d \in Clients : ~At(d, "idle") /\ IsPrefix(p, loc[d].path)
Removing(p) == \E d \in Clients : loc[d].pc \in Removals /\ IsPrefix(loc[d].path, p)
Free(p) == ~Removing(p) /\ \A d \in Clients : loc[d].path # p

-----------------------------------------------------------------------------
(* main(): the root is made unless the database has it.                     *)

Start ==
    /\ proc = "start"
    /\ proc' = IF kind[Root] = "none" THEN "root_insert" ELSE "up"
    /\ UNCHANGED <<kind, mode, times, loc, broken>>

RootInsert ==
    /\ proc = "root_insert"
    /\ proc' = "up"
    /\ kind' = [kind EXCEPT ![Root] = "dir"]
    /\ UNCHANGED <<mode, times, loc, broken>>

-----------------------------------------------------------------------------
(* ndnfs_mkdir and ndnfs_create.  The kernel has looked the parent up.      *)

MakeAnywhere(c, p, step) ==   \* mutant: the parent is not looked for
    /\ Free(p)
    /\ Getattr(p) = "none"
    /\ times[p] < MaxTimes
    /\ Enter(c, step, p)
    /\ UNCHANGED <<kind, mode, times, broken>>

Make(c, p, step) ==
    /\ Free(p)
    /\ Lookup(Parent(p)) /\ Getattr(Parent(p)) = "dir" /\ Getattr(p) = "none"
    /\ times[p] < MaxTimes
    /\ Enter(c, step, p)
    /\ UNCHANGED <<kind, mode, times, broken>>

Mkdir(c, p) == Make(c, p, "mk_insert")
Create(c, p) == Make(c, p, "cr_insert")

InsertOver(c) ==   \* mutant: the parent's list is written back from its entry
    /\ At(c, "mk_insert")
    /\ kind' = [kind EXCEPT ![loc[c].path] = "dir"]
    /\ mode' = [mode EXCEPT ![loc[c].path] = "made"]
    /\ times' = [p \in Paths |-> IF Parent(p) = Parent(loc[c].path) THEN 0 ELSE times[p]]
    /\ Goto(c, "push")
    /\ UNCHANGED broken

Insert(c, k) ==
    /\ kind' = [kind EXCEPT ![loc[c].path] = k]
    /\ mode' = [mode EXCEPT ![loc[c].path] = "made"]
    /\ Goto(c, "push")
    /\ UNCHANGED <<times, broken>>
InsertDir(c) == At(c, "mk_insert") /\ Insert(c, "dir")
InsertFile(c) == At(c, "cr_insert") /\ Insert(c, "file")

\* $push does nothing if the parent's entry is gone.
Push(c) ==
    /\ At(c, "push")
    /\ times' = IF Getattr(Parent(loc[c].path)) = "none" THEN times
                ELSE [times EXCEPT ![loc[c].path] = @ + 1]
    /\ Done(c)
    /\ UNCHANGED <<kind, mode, broken>>

-----------------------------------------------------------------------------
(* ndnfs_rmdir: a directory that lists nothing, whatever there is below it. *)

RmdirFull(c, p) ==   \* mutant: the list is not looked at
    /\ Free(p) /\ ~Using(p)
    /\ Lookup(p) /\ Getattr(p) = "dir"
    /\ Enter(c, "rm_remove", p)
    /\ UNCHANGED <<kind, mode, times, broken>>

Rmdir(c, p) ==
    /\ Free(p) /\ ~Using(p)
    /\ Lookup(p) /\ Getattr(p) = "dir" /\ Readdir(p) = {}
    /\ Enter(c, "rm_remove", p)
    /\ UNCHANGED <<kind, mode, times, broken>>

\* What a removed entry had its mode and its list is gone with it.
RemoveEntry(c) ==
    /\ kind' = [kind EXCEPT ![loc[c].path] = "none"]
    /\ mode' = [mode EXCEPT ![loc[c].path] = "made"]
    /\ times' = [q \in Paths |-> IF Parent(q) = loc[c].path THEN 0 ELSE times[q]]

RmdirRemove(c) ==
    /\ At(c, "rm_remove") /\ RemoveEntry(c)
    /\ Goto(c, "rm_pull")
    /\ UNCHANGED broken

RmdirPullOne(c) ==   \* mutant: one occurrence of the name is removed
    /\ At(c, "rm_pull")
    /\ times' = [times EXCEPT ![loc[c].path] = @ - 1]
    /\ broken' = broken \ {loc[c].path}
    /\ Done(c)
    /\ UNCHANGED <<kind, mode>>

\* $pull removes every occurrence of the name.
RmdirPull(c) ==
    /\ At(c, "rm_pull")
    /\ times' = [times EXCEPT ![loc[c].path] = 0]
    /\ broken' = broken \ {loc[c].path}
    /\ Done(c)
    /\ UNCHANGED <<kind, mode>>

(* ndnfs_unlink, in the other order.                                        *)

UnlinkListed(c, p) ==   \* mutant: the name is not pulled
    /\ Free(p) /\ ~Using(p)
    /\ Lookup(p) /\ Getattr(p) = "file"
    /\ Enter(c, "unl_remove", p)
    /\ UNCHANGED <<kind, mode, times, broken>>

Unlink(c, p) ==
    /\ Free(p) /\ ~Using(p)
    /\ Lookup(p) /\ Getattr(p) = "file"
    /\ times' = [times EXCEPT ![p] = 0]
    /\ Enter(c, "unl_remove", p)
    /\ UNCHANGED <<kind, mode, broken>>

UnlinkRemove(c) ==
    /\ At(c, "unl_remove") /\ RemoveEntry(c)
    /\ broken' = broken \ {loc[c].path}
    /\ Done(c)

(* ndnfs_chmod.  setxattr does nothing.                                     *)

Chmod(c, p) ==
    /\ ~Removing(p)
    /\ Lookup(p)
    /\ Enter(c, "chmod_set", p)
    /\ UNCHANGED <<kind, mode, times, broken>>

ChmodSet(c) ==
    /\ At(c, "chmod_set")
    /\ mode' = IF Getattr(loc[c].path) = "none" THEN mode
               ELSE [mode EXCEPT ![loc[c].path] = "set"]
    /\ Done(c)
    /\ UNCHANGED <<kind, times, broken>>

-----------------------------------------------------------------------------
\* The process is killed, and started again on the same database.
Crash ==
    /\ Crashes
    /\ proc' = "start"
    /\ broken' = broken \cup {loc[c].path : c \in {d \in Clients : loc[d].pc \notin {"idle", "chmod_set"}}}
    /\ loc' = [c \in Clients |-> Idle]
    /\ UNCHANGED <<kind, mode, times>>

Step(c) ==
    \/ InsertDir(c) \/ InsertFile(c) \/ Push(c)
    \/ RmdirRemove(c) \/ RmdirPull(c) \/ UnlinkRemove(c) \/ ChmodSet(c)
Call(c) ==
    \E p \in Paths :
        Mkdir(c, p) \/ Create(c, p) \/ Rmdir(c, p) \/ Unlink(c, p) \/ Chmod(c, p)
Next == Start \/ RootInsert \/ Crash \/ \E c \in Clients : Step(c) \/ Call(c)

Spec == Init /\ [][Next]_vars
=============================================================================
