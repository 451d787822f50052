----------------------------- MODULE Consumers -----------------------------
(***************************************************************************)
(* The consumers of test/ and a server on a collection that does not       *)
(* change, with the NDN daemon between them: client.cc sends one interest  *)
(* with selectors, cat_file.cc and cat_file.py fetch a file by segments,   *)
(* cat_file_pipe.cc with a pipe of interests.  Interests and data may be   *)
(* lost, delayed and answered twice; a consumer sends an interest again    *)
(* when it times out, until its main() returns, whatever it has by then.   *)
(***************************************************************************)
EXTENDS ServerProperties, FiniteSets, Bags

CONSTANTS
    Scenarios,  \* records [prog, js, want, coll]: who asks whom for what
    Total,      \* segments of the file (23952 + 1 in the tests)
    PipeSize    \* interest_pipe_size

\* A file of Total segments whose current version is complete, asked for by
\* its name: what the consumers that fetch a file are run on.
WholeFile(i, c) ==
    LET v == c[i.name].data[1]
        q == Append(i.name, v)
        segments == {Append(q, n) : n \in 0..(Total - 1)}
    IN  /\ i = Plain(i.name) /\ i.name \in Seq(Int) \ {<<>>} /\ v \in Int
        /\ {i.name, q} \cup segments \subseteq DOMAIN c
        /\ c[i.name] = Entry("file", <<v>>)
        /\ c[q] = Entry("ver", [k \in 1..Total |-> k - 1])
        /\ \A p \in segments : c[p].type = "seg" /\ c[p].data # <<>>
        /\ \A p \in DOMAIN c : IsStrictPrefix(q, p) => p \in segments

Programs == {"client", "cat_file", "cat_file_py", "cat_file_pipe"}

ASSUME ConstantsAssumption ==
    /\ Total \in Nat \ {0} /\ PipeSize \in Nat \ {0}
    /\ \A s \in Scenarios :
          /\ s.prog \in Programs /\ s.js \in BOOLEAN /\ s.want \in Interests /\ Tree(s.coll)
          /\ s.prog # "client" => WholeFile(s.want, s.coll)

VARIABLES
    run,      \* the scenario but for the collection
    fname,    \* the consumer's filename
    nextseq,  \* next_seq, and seqnum and segnum of cat_file
    count,    \* totalseq
    over,     \* has the consumer stopped asking for more
    up,       \* main() has not returned
    pending,  \* the interests its library waits with, a bag
    wire,     \* interests that reach the server
    data,     \* segments the daemon holds for the consumer
    got       \* segments the consumer was given (ghost)

consumer == <<fname, nextseq, count, over, up, pending, got>>
cvars == <<coll, srv, run, consumer, wire, data>>

Waiting == BagToSet(pending)
For(i, p) == IsPrefix(i.name, p)
Version(p) == p[Len(p) - 1]
AskFor(f, ns) == {Plain(Append(f, n)) : n \in ns}

TypeOK ==
    /\ srv.pc \in {"idle", "search", "fetch", "down"} /\ srv.set \in BOOLEAN
    /\ ToSet(srv.todo) \subseteq Seq(Int) /\ srv.hit \in {<<>>} \cup DOMAIN coll
    /\ srv.want.sel \in Selectors
    /\ nextseq \in Nat /\ count \in Nat /\ over \in BOOLEAN /\ up \in BOOLEAN
    /\ \A i \in Waiting : pending[i] = 1
    /\ wire \subseteq Waiting \cup AskFor(fname, 0..(nextseq + 1)) \cup {run.want}
    /\ data \cup got \subseteq DOMAIN coll

\* main(): the interest of the command line is sent, and main() goes to sleep.
Init ==
    /\ \E s \in Scenarios : /\ run = [prog |-> s.prog, js |-> s.js, want |-> s.want]
                            /\ coll = s.coll
    /\ SInit
    /\ fname = run.want.name /\ nextseq = 0 /\ count = 0 /\ over = FALSE /\ up = TRUE
    /\ pending = SetToBag({run.want}) /\ wire \in {{}, {run.want}}
    /\ data = {} /\ got = {}

-----------------------------------------------------------------------------
(* The consumers.  Received(i, p) is the library's part of OnData, and       *)
(* Send(i, s) its part of sendInterest once i is no longer pending: some of *)
(* the interests may get lost.                                              *)

Send(i, s) ==
    /\ pending' = (pending (-) SetToBag({i})) (+) SetToBag(s)
    /\ \E lost \in SUBSET s : wire' = wire \cup (s \ lost)

Received(i, p) ==
    /\ up /\ i \in Waiting /\ p \in data /\ For(i, p)
    /\ got' = got \cup {p}
    /\ UNCHANGED <<coll, srv, run, up, data>>

ClientOnData(i, p) ==
    /\ run.prog = "client" /\ Received(i, p)
    /\ over' = TRUE
    /\ Send(i, {})
    /\ UNCHANGED <<fname, nextseq, count>>

CatOnData(i, p) ==
    LET n == Last(p)
        f == IF n = 0 THEN Append(fname, Version(p)) ELSE fname
    IN  /\ run.prog = "cat_file" /\ Received(i, p)
        /\ fname' = f
        /\ over' = (over \/ (n # 0 /\ n = Total - 1))
        /\ nextseq' = IF n # 0 /\ n = Total - 1 THEN n ELSE n + 1
        /\ Send(i, IF n # 0 /\ n = Total - 1 THEN {} ELSE AskFor(f, {n + 1}))
        /\ UNCHANGED count

CatPyOnData(i, p) ==
    LET n == Last(p)
        f == IF fname = run.want.name THEN Append(fname, Version(p)) ELSE fname
    IN  /\ run.prog = "cat_file_py" /\ Received(i, p)
        /\ fname' = f /\ nextseq' = n
        /\ \/ n = Total - 1 /\ over' = TRUE /\ Send(i, {})
           \/ n # Total - 1 /\ Send(i, AskFor(f, {n + 1})) /\ UNCHANGED over
        /\ UNCHANGED count

PipeStartZero(i, p) ==   \* mutant: next_seq is incremented after its use
    /\ run.prog = "cat_file_pipe" /\ Received(i, p) /\ Last(p) = 0
    /\ count' = count + 1
    /\ fname' = Append(fname, Version(p))
    /\ nextseq' = nextseq + PipeSize
    /\ Send(i, AskFor(fname', nextseq..nextseq'))
    /\ UNCHANGED over

PipeStart(i, p) ==
    /\ run.prog = "cat_file_pipe" /\ Received(i, p) /\ Last(p) = 0
    /\ count' = count + 1
    /\ fname' = Append(fname, Version(p))
    /\ nextseq' = nextseq + PipeSize
    /\ Send(i, AskFor(fname', (nextseq + 1)..nextseq'))
    /\ UNCHANGED over

PipeOnDataShort(i, p) ==   \* mutant: segment 0 is not counted in the total
    /\ run.prog = "cat_file_pipe" /\ Received(i, p) /\ Last(p) # 0
    /\ count' = count + 1
    /\ \/ /\ count' = Total - 1
          /\ over' = TRUE /\ Send(i, {}) /\ UNCHANGED nextseq
       \/ /\ count' # Total - 1
          /\ nextseq' = nextseq + 1 /\ Send(i, AskFor(fname, {nextseq'})) /\ UNCHANGED over
    /\ UNCHANGED fname

PipeOnData(i, p) ==
    /\ run.prog = "cat_file_pipe" /\ Received(i, p) /\ Last(p) # 0
    /\ count' = count + 1
    /\ \/ /\ count' = Total
          /\ over' = TRUE /\ Send(i, {}) /\ UNCHANGED nextseq
       \/ /\ count' # Total
          /\ nextseq' = nextseq + 1 /\ Send(i, AskFor(fname, {nextseq'})) /\ UNCHANGED over
    /\ UNCHANGED fname

\* The pipe gives up what is pending once it has everything, the others
\* always ask again.
PipeGivesUpEarly == run.prog = "cat_file_pipe" /\ count + 1 >= Total   \* mutant
PipeGivesUp == run.prog = "cat_file_pipe" /\ count >= Total
OnTimeoutTwice(i) ==   \* mutant: the interest stays pending as well
    /\ up /\ i \in Waiting /\ pending[i] < 3
    /\ pending' = pending (+) SetToBag({i}) /\ wire' = wire \cup {i}
    /\ UNCHANGED <<coll, srv, run, fname, nextseq, count, over, up, data, got>>
OnTimeout(i) ==
    /\ up /\ i \in Waiting
    /\ Send(i, IF PipeGivesUp THEN {} ELSE {i})
    /\ UNCHANGED <<coll, srv, run, fname, nextseq, count, over, up, data, got>>

\* The process sleeps for a fixed time and ends, whether it is over or not: 3 s
\* for client.cc, 10 s for the programs that fetch, and run(20000) in cat_file.py.
MainReturns ==
    /\ up /\ up' = FALSE
    /\ UNCHANGED <<coll, srv, run, fname, nextseq, count, over, pending, got, wire, data>>

(* The server, and the daemon, which may drop what it holds.                *)

Deliver(i) ==
    /\ i \in wire /\ OnInterest(i, run.js)
    /\ wire' = wire \ {i}
    /\ UNCHANGED <<coll, run, consumer, data>>

Serve ==
    /\ \/ (Search \/ JsSearch) /\ UNCHANGED data
       \/ FetchData /\ data' = data \cup {srv.hit}
       \/ JsSend /\ data' = data \cup {Path}
    /\ UNCHANGED <<coll, run, consumer, wire>>

LoseData(p) ==
    /\ p \in data /\ data' = data \ {p}
    /\ UNCHANGED <<coll, srv, run, consumer, wire>>

OnData(i, p) ==
    \/ ClientOnData(i, p) \/ CatOnData(i, p) \/ CatPyOnData(i, p)
    \/ PipeStart(i, p) \/ PipeOnData(i, p)

\* What is about the first interest and about segment n.
First == {run.want}
Asking(n) == {i \in Waiting \cup wire : i # run.want /\ Last(i.name) = n}
Segment(n) == {p \in data : Last(p) = n}

Next ==
    \/ \E i \in Waiting : OnTimeout(i) \/ \E p \in data : OnData(i, p)
    \/ \E i \in wire : Deliver(i)
    \/ \E p \in data : LoseData(p)
    \/ Serve
    \/ MainReturns

Spec == Init /\ [][Next]_cvars

\* An interest that is sent again and not lost.
Resend(S) == \E i \in S : OnTimeout(i) /\ i \in wire'
Take(S) == \E i \in S : Deliver(i)

\* Of a process that keeps running: the server runs and takes every interest
\* that reaches it, what waits times out, and of what is sent again and again not
\* everything is lost.  Nothing is said of when main() returns: each of these
\* actions but the server's stops when it does.
Fairness ==
    /\ WF_cvars(Serve)
    /\ SF_cvars(Resend(First)) /\ SF_cvars(Take(First))
    /\ \A n \in 1..(Total - 1) : SF_cvars(Resend(Asking(n))) /\ SF_cvars(Take(Asking(n)))
    /\ \A n \in 0..(Total - 1) :
           SF_cvars(\E i \in Waiting, p \in Segment(n) : OnData(i, p))
FairSpec == Spec /\ Fairness
-----------------------------------------------------------------------------
\* Asked for a file, a version or a segment, the JavaScript server sends what
\* the C++ server would, if it sends anything.
JsAgrees ==
    Js("seg") /\ Query(run.want.name).type # "dir" =>
        IsFirst(Path, Matches(Plain(srv.want.name)))

\* "total number of unique seq num received" (test/cat_file_pipe.cc:65): no
\* timeout, late answer or answer from the daemon's store counts twice.
UniqueCount == run.prog = "cat_file_pipe" => count = Cardinality(got)

\* "so that there is always fixed number of outstanding interests"
\* (test/cat_file_pipe.cc:109), from the first segment to the last.
PipeFull ==
    run.prog = "cat_file_pipe" /\ count \in 1..(Total - 1) =>
        pending = SetToBag(Waiting) /\ Cardinality(Waiting) = PipeSize

\* A consumer that stops has all the segments of one version of the file.
Whole ==
    over /\ run.prog # "client" =>
        {Last(p) : p \in got} = 0..(Total - 1)
        /\ Cardinality({Front(p) : p \in got}) = 1

\* Nobody waits for ever for something nobody will do: whatever is lost or late,
\* as long as main() has not returned a consumer comes nearer to what it asked for
\* and gets it, the file, or a segment if the C++ server has one that matches.
\* How long it has is what main() sleeps for, and that bounds the retries: a file
\* that is not complete by then never will be.
NotStuck ==
    run.prog # "client" \/ (~run.js /\ Matches(run.want) # {})
        ~> over \/ srv.pc = "down" \/ ~up
=============================================================================
