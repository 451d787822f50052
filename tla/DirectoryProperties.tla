------------------------- MODULE DirectoryProperties -------------------------
(***************************************************************************)
(* What the handlers of module Directory guarantee of the tree of entries. *)
(***************************************************************************)
EXTENDS Directory

\* A path by which an application finds an entry: each directory on the way
\* lists the next name, and each name has its entry.
Reachable(p) == Lookup(p) /\ \A q \in Ancestors(p) : times[q] > 0

\* Lookups and listings agree on every path no request is about: the handlers
\* make and remove an entry and its name together, whatever else happens in
\* the same directory meanwhile.  A killed process damages no path but those
\* its requests were about, and removing such a path repairs it.
ListingAgrees ==
    \A p \in Paths \ broken : (\A c \in Clients : loc[c].path # p) =>
        times[p] = IF kind[p] = "none" THEN 0 ELSE 1

\* "Cannot create file without creating necessary folders in advance"
\* (fs/file.cc:101): an entry is in a directory, and stays in one.
ParentExists == \A p \in Paths \ broken : kind[p] # "none" => kind[Parent(p)] = "dir"

\* An update of a document that is gone is no error and does nothing.  A
\* handler that answers with success did what it was asked for: its $push,
\* $pull or $set finds the entry that its queries found some steps before.
UpdatesLand ==
    \A c \in Clients :
        /\ loc[c].pc \in {"push", "rm_pull"} => kind[Parent(loc[c].path)] = "dir"
        /\ At(c, "chmod_set") => kind[loc[c].path] # "none"

\* What can be reached stays what it is and can be reached until it is itself
\* removed, with the mode it was given last: no handler takes a directory away
\* from above it, and neither does one that is killed or a process that is
\* started again.
ReachableStays ==
    [][ \A p \in Paths : Reachable(p) =>
            \/ /\ Reachable(p)' /\ kind'[p] = kind[p]
               /\ mode'[p] = mode[p] \/ \E c \in Clients : At(c, "chmod_set") /\ loc[c].path = p
            \/ \E c \in Clients : loc'[c].path = p /\ loc'[c].pc \in Removals ]_vars

\* The inductive strengthening of the three.  A request that makes or removes
\* a path is alone on it, and a removal is alone below its path as well.
Work(c) == loc[c].pc \notin {"idle", "chmod_set"}
Alone ==
    \A c, d \in Clients : c # d =>
        /\ Work(c) /\ Work(d) => loc[c].path # loc[d].path
        /\ loc[c].pc \in Removals /\ ~At(d, "idle") => ~IsPrefix(loc[c].path, loc[d].path)

\* Requests are on paths below the root, and run once the root is made.
Serving ==
    /\ \A c \in Clients : At(c, "idle") <=> loc[c].path = Root
    /\ proc # "up" => \A c \in Clients : At(c, "idle")
    /\ proc = "up" => kind[Root] = "dir"
    /\ kind[Root] # "file"

\* What a request knows of its path at each of its steps.
Knows(c) ==
    LET p == loc[c].path
    IN  /\ loc[c].pc \in {"mk_insert", "cr_insert"} => kind[p] = "none" /\ times[p] < MaxTimes
        /\ At(c, "push") => kind[p] # "none" /\ times[p] < MaxTimes
        /\ At(c, "rm_remove") => kind[p] = "dir" /\ \A q \in Children(p) : times[q] = 0
        /\ At(c, "rm_pull") => kind[p] = "none"
        /\ At(c, "unl_remove") => kind[p] = "file" /\ times[p] = 0
        /\ At(c, "chmod_set") => kind[p] # "none"
        /\ Work(c) => kind[Parent(p)] = "dir"

\* A path that no killed request was about is listed as often as it should be.
Listed(p) ==
    /\ (\A c \in Clients : Work(c) => loc[c].path # p) =>
          times[p] = IF kind[p] = "none" THEN 0 ELSE 1
    /\ \A c \in Clients :
          loc[c].pc \in {"mk_insert", "cr_insert", "push"} /\ loc[c].path = p => times[p] = 0

TreeInv ==
    /\ TypeOK /\ Alone /\ Serving /\ ParentExists
    /\ \A c \in Clients : Knows(c)
    /\ \A p \in Paths \ broken : Listed(p)
=============================================================================
