-------------------------- MODULE RequestScheduler --------------------------
(***************************************************************************)
(* RequestScheduler: reads and writes are cut into ranges, queued in a     *)
(* RangeScheduler (FIFO, or merged by handle), taken out in batches by one *)
(* run of the scheduler in the thread pool, and issued to the file system; *)
(* a completed batch calls back the requests whose ranges it held.         *)
(*                                                                         *)
(* A request asks for the segments of file, each [st, size], of the file   *)
(* FileOf[handle] (a handle is a pointer, whose contents name the file).   *)
(* Segment i of request c is the child <<c, i>>.                           *)
(***************************************************************************)
EXTENDS RangeSet, Sequences

CONSTANTS Requests,      \* clients, each of which makes one request
          Handles,       \* addresses of handles
          FileOf,        \* their contents
          Reads, Writes, \* the segment lists a client may ask for
          SchedAlgos,    \* the values of the key schedalgo: "fifo", "merge"
          batch_size_,
          default_quantum_,
          Exits,         \* whether the scheduler may be destroyed
          NoRange

ASSUME SchedulerAssumption ==
    /\ SchedAlgos \subseteq {"fifo", "merge"}
    /\ batch_size_ \in Nat \ {0}
    /\ default_quantum_ \in Nat \ {0}

\* A range is requested for a client's segment of a file, at an offset.
ASSUME RangeAssumption ==
    /\ Reads \cup Writes \subseteq Seq([st : Nat, size : Nat])
    /\ NoRange \notin [st_ : Nat, en_ : Nat, type_ : {"read", "write"},
                       handle_ : Handles, children : SUBSET (Requests \X Nat)]

VARIABLES
    schedalgo,    \* which RangeScheduler the configuration asks for
    request,      \* what each client asked for, and the next segment to queue
    wrapper,      \* its IOCBWrapper: callbacks still to come, deleted
    calls,        \* how often the client has been called back
    q_,           \* the queue of the RangeScheduler
    schedActive_,
    exiting_,
    spc,          \* where the scheduler is in run
    rs,           \* its batch,
    tmp_r,        \* the range that did not fit into it,
    cur_batch,    \* and the number of children in it
    issued        \* the batches given to the file system

vars == <<schedalgo, request, wrapper, calls, q_, schedActive_, exiting_, spc,
          rs, tmp_r, cur_batch, issued>>

NoRequest == [type |-> "none", handle |-> NoRange, file |-> << >>, next |-> 1]

Init ==
    /\ schedalgo \in SchedAlgos
    /\ request = [c \in Requests |-> NoRequest]
    /\ wrapper = [c \in Requests |->
                    [count_ |-> 0, deleted |-> FALSE]]
    /\ calls = [c \in Requests |-> 0]
    /\ q_ = << >>
    /\ schedActive_ = FALSE
    /\ exiting_ = FALSE
    /\ spc = "none"
    /\ rs = << >>
    /\ tmp_r = NoRange
    /\ cur_batch = 0
    /\ issued = {}

\* The scheduler holds lock_ while it fills a batch.
Unlocked == spc # "batch"

-----------------------------------------------------------------------------
(* RangeScheduler *)

\* The position of the HandleQueue for ranges like r, if there is one.
QueueOf(q, r) ==
    {k \in DOMAIN q : q[k].type = r.type_ /\ q[k].handle = r.handle_}

NewQueue(r) ==
    [type |-> r.type_, handle |-> r.handle_, brs |-> add(EmptyRangeSet, r),
     quantum |-> default_quantum_]

\* Mutant: reads and writes share a queue.
enqueue_mixed(q, r) ==
    LET K == {k \in DOMAIN q : q[k].handle = r.handle_} IN
    IF schedalgo = "fifo" THEN Append(q, r)
    ELSE IF K = {} THEN Append(q, NewQueue(r))
    ELSE [k \in DOMAIN q |->
            IF k \in K THEN [q[k] EXCEPT !.brs = add(@, r)] ELSE q[k]]

enqueue(q, r) ==
    LET K == QueueOf(q, r) IN
    IF schedalgo = "fifo" THEN Append(q, r)
    ELSE IF K = {} THEN Append(q, NewQueue(r))
    ELSE [k \in DOMAIN q |->
            IF k \in K THEN [q[k] EXCEPT !.brs = add(@, r)] ELSE q[k]]

\* Mutant: the queue is dropped when its turn is over.
NextTurn_dropped(q, hq) == IF hq.quantum > 0 THEN <<hq>> \o Tail(q) ELSE Tail(q)

\* The queues after a range has been taken out of the first one, hq.
NextTurn(q, hq) ==
    IF hq.brs.ranges = {} THEN Tail(q)
    ELSE IF hq.quantum > 0 THEN <<hq>> \o Tail(q)
    ELSE Append(Tail(q), [hq EXCEPT !.quantum = default_quantum_])

\* The ranges dequeue may return, each with the queue that remains.  A range
\* set is ordered by address, so any of its ranges may come first.
dequeue(q) ==
    IF schedalgo = "fifo" THEN {[r |-> Head(q), q |-> Tail(q)]}
    ELSE {[r |-> r,
           q |-> NextTurn(q, [Head(q) EXCEPT !.brs = get(@, r),
                                             !.quantum = @ - 1])] :
              r \in Head(q).brs.ranges}

-----------------------------------------------------------------------------
(* read and write, in the thread of client c *)

Submit(c, ty, h, f) ==
    /\ request[c] = NoRequest
    /\ ~exiting_
    /\ request' = [request EXCEPT ![c] =
                     [type |-> ty, handle |-> h, file |-> f, next |-> 1]]
    /\ wrapper' = [wrapper EXCEPT ![c].count_ =
                     Cardinality({i \in DOMAIN f : f[i].size > 0})]
    /\ UNCHANGED <<schedalgo, calls, q_, schedActive_, exiting_, spc, rs,
                   tmp_r, cur_batch, issued>>

Child(c, i) ==
    LET R == request[c] IN
    [st_ |-> R.file[i].st, en_ |-> R.file[i].st + R.file[i].size,
     type_ |-> R.type, handle_ |-> R.handle, children |-> {<<c, i>>}]

\* The next segment is queued, and the scheduler started if it does not run.
\* A segment of length zero is left out of a write.
Enqueue(c) ==
    LET R == request[c] IN
    /\ R.next <= Len(R.file)
    /\ request' = [request EXCEPT ![c].next = @ + 1]
    /\ IF R.type = "write" /\ R.file[R.next].size = 0
       THEN UNCHANGED <<q_, schedActive_, spc>>
       ELSE /\ Unlocked
            /\ q_' = enqueue(q_, Child(c, R.next))
            /\ schedActive_' = TRUE
            /\ spc' = IF schedActive_ THEN spc ELSE "queued"
    /\ UNCHANGED <<schedalgo, wrapper, calls, exiting_, rs, tmp_r, cur_batch,
                   issued>>

-----------------------------------------------------------------------------
(* run, in a thread of the pool *)

RunStart ==
    /\ spc = "queued"
    /\ spc' = "top"
    /\ UNCHANGED <<schedalgo, request, wrapper, calls, q_, schedActive_,
                   exiting_, rs, tmp_r, cur_batch, issued>>

\* Mutant: run ends without saying so.
RunTop_silent ==
    /\ spc = "top"
    /\ spc' = IF q_ = << >> /\ ~exiting_ /\ rs = << >> THEN "none" ELSE "batch"
    /\ UNCHANGED <<schedalgo, request, wrapper, calls, q_, schedActive_,
                   exiting_, rs, tmp_r, cur_batch, issued>>

\* Without work, run ends; else it goes on with the batch it has begun.
RunTop ==
    /\ spc = "top"
    /\ IF q_ = << >> /\ ~exiting_ /\ rs = << >>
       THEN schedActive_' = FALSE /\ spc' = "none"
       ELSE UNCHANGED schedActive_ /\ spc' = "batch"
    /\ UNCHANGED <<schedalgo, request, wrapper, calls, q_, exiting_, rs, tmp_r,
                   cur_batch, issued>>

SameFile(r, q) == r.type_ = q.type_ /\ FileOf[r.handle_] = FileOf[q.handle_]

\* One more range for the batch, if it is of the same kind.
RunDequeue ==
    /\ spc = "batch" /\ cur_batch < batch_size_ /\ q_ # << >>
    /\ \E d \in dequeue(q_) :
          /\ q_' = d.q
          /\ IF rs # << >> /\ ~SameFile(d.r, rs[Len(rs)])
             THEN tmp_r' = d.r /\ spc' = "issue" /\ UNCHANGED <<rs, cur_batch>>
             ELSE /\ rs' = Append(rs, d.r)
                  /\ cur_batch' = cur_batch + Cardinality(d.r.children)
                  /\ UNCHANGED <<tmp_r, spc>>
    /\ UNCHANGED <<schedalgo, request, wrapper, calls, schedActive_, exiting_,
                   issued>>

\* The batch is full, or nothing is left to add to it.
RunUnlock ==
    /\ spc = "batch" /\ (cur_batch >= batch_size_ \/ q_ = << >>)
    /\ spc' = IF rs = << >> THEN "top" ELSE "issue"
    /\ UNCHANGED <<schedalgo, request, wrapper, calls, q_, schedActive_,
                   exiting_, rs, tmp_r, cur_batch, issued>>

Children(s) == UNION {r.children : r \in Range(s)}

\* The batch goes to the file system; the range that did not fit begins the
\* next one.
issue ==
    /\ spc = "issue"
    /\ issued' = issued \cup {[todo |-> Children(rs), complete |-> FALSE]}
    /\ rs' = IF tmp_r = NoRange THEN << >> ELSE <<tmp_r>>
    /\ cur_batch' = IF tmp_r = NoRange THEN 0 ELSE Cardinality(tmp_r.children)
    /\ tmp_r' = NoRange
    /\ spc' = "top"
    /\ UNCHANGED <<schedalgo, request, wrapper, calls, q_, schedActive_,
                   exiting_>>

\* ~RequestScheduler, once no client is in read or write.
Destroy ==
    /\ Exits /\ ~exiting_ /\ Unlocked
    /\ \A c \in Requests : request[c].next > Len(request[c].file)
    /\ exiting_' = TRUE
    /\ UNCHANGED <<schedalgo, request, wrapper, calls, q_, schedActive_, spc,
                   rs, tmp_r, cur_batch, issued>>

-----------------------------------------------------------------------------
(* The file system, and the callbacks of a batch *)

\* The file system completes a batch.  Its result is handed on, whatever it is.
Complete(b) ==
    /\ ~b.complete
    /\ issued' = (issued \ {b}) \cup {[b EXCEPT !.complete = TRUE]}
    /\ UNCHANGED <<schedalgo, request, wrapper, calls, q_, schedActive_,
                   exiting_, spc, rs, tmp_r, cur_batch>>

\* issueIOCallbacks calls IOCBWrapper::invoke for one child x of the batch;
\* the last one of a request calls the client back and deletes the wrapper.
\* (The order of the children of a merged range is that of addresses.)
invoke(b, x) ==
    LET c == x[1] IN
    /\ b.complete /\ x \in b.todo
    /\ ~wrapper[c].deleted
    /\ IF wrapper[c].count_ = 1
       THEN /\ wrapper' = [wrapper EXCEPT ![c].deleted = TRUE]
            /\ calls' = [calls EXCEPT ![c] = @ + 1]
       ELSE /\ wrapper' = [wrapper EXCEPT ![c].count_ = @ - 1]
            /\ UNCHANGED calls
    /\ issued' = (issued \ {b}) \cup
                   (IF b.todo = {x} THEN {}
                    ELSE {[b EXCEPT !.todo = @ \ {x}]})
    /\ UNCHANGED <<schedalgo, request, q_, schedActive_, exiting_, spc, rs,
                   tmp_r, cur_batch>>

\* Every client has been called back, or came too late.
Terminated ==
    /\ spc = "none"
    /\ \A c \in Requests : calls[c] = 1 \/ (exiting_ /\ request[c] = NoRequest)
    /\ UNCHANGED vars

Next ==
    \/ \E c \in Requests :
          \/ \E h \in Handles :
                \/ \E f \in Reads : Submit(c, "read", h, f)
                \/ \E f \in Writes : Submit(c, "write", h, f)
          \/ Enqueue(c)
    \/ RunStart \/ RunTop \/ RunDequeue \/ RunUnlock \/ issue
    \/ Destroy
    \/ \E b \in issued :
          \/ Complete(b)
          \/ \E x \in b.todo : invoke(b, x)
    \/ Terminated

Spec == Init /\ [][Next]_vars

\* Clients finish what they have begun, the pool runs the scheduler, and the
\* file system completes every batch.
FairSpec ==
    /\ Spec
    /\ \A c \in Requests : WF_vars(Enqueue(c))
    /\ WF_vars(RunStart \/ RunTop \/ RunDequeue \/ RunUnlock \/ issue)
    /\ WF_vars(\E b \in issued :
                  \/ Complete(b)
                  \/ \E x \in b.todo : invoke(b, x))

-----------------------------------------------------------------------------
(* Properties *)

\* The ranges of the queue, and all that are not yet issued.
Queued ==
    IF schedalgo = "fifo" THEN Range(q_)
    ELSE UNION {q_[k].brs.ranges : k \in DOMAIN q_}

Unissued == Queued \cup Range(rs) \cup ({tmp_r} \ {NoRange})

\* The children of a request that are still to be queued, and those that are
\* on their way.
ToQueue(c) ==
    {<<c, i>> : i \in {i \in request[c].next .. Len(request[c].file) :
        request[c].type = "read" \/ request[c].file[i].size > 0}}

OnTheWay(c) ==
    {x \in (UNION {r.children : r \in Unissued}) \cup (UNION {b.todo : b \in issued}) :
        x[1] = c}

TypeOK ==
    /\ \A c \in Requests :
          /\ request[c] # NoRequest =>
                /\ request[c].handle \in Handles
                /\ \/ request[c].type = "read" /\ request[c].file \in Reads
                   \/ request[c].type = "write" /\ request[c].file \in Writes
          /\ request[c].next \in 1 .. Len(request[c].file) + 1
          /\ wrapper[c].count_ \in Nat
    /\ schedActive_ \in BOOLEAN /\ exiting_ \in BOOLEAN
    /\ spc \in {"none", "queued", "top", "batch", "issue"}
    /\ cur_batch = Cardinality(Children(rs))
    /\ tmp_r # NoRange => spc = "issue"

\* However ranges arrive and are taken out, the range set of a handle holds
\* maximal ranges: no two of them touch, and its two maps find each of them.
QueuesCanonical ==
    schedalgo = "merge" =>
        \A k \in DOMAIN q_ : q_[k].brs.ranges # {} /\ Canonical(q_[k].brs)

\* A merged range covers just what its children ask for, and they ask for the
\* same kind of access to the same handle.  A batch of ranges is one kind of
\* access to one file, as check_ranges asserts.
MergesFaithfully ==
    /\ \A r \in Unissued :
          LET C == {Child(x[1], x[2]) : x \in r.children} IN
          /\ \A x \in C : x.type_ = r.type_ /\ x.handle_ = r.handle_
          /\ r.st_ .. (r.en_ - 1) = UNION {x.st_ .. (x.en_ - 1) : x \in C}
    /\ spc = "issue" => \A r, q \in Range(rs) : SameFile(r, q)

\* No segment is lost or issued twice, through merging, batching, the range
\* that did not fit and the callbacks: a client that has not been called back
\* has as many segments on their way as its wrapper counts, each in one place,
\* and one that has been called back has none.
SegmentsCounted ==
    /\ TypeOK
    /\ \A c \in Requests : request[c] # NoRequest =>
          LET n == Cardinality(ToQueue(c)) + Cardinality(OnTheWay(c)) IN
          IF calls[c] = 0 THEN ~wrapper[c].deleted /\ n = wrapper[c].count_
          ELSE calls[c] = 1 /\ wrapper[c].deleted /\ n = 0
    /\ \A r, q \in Unissued : r # q => r.children \cap q.children = {}
    /\ \A b \in issued :
          /\ \A r \in Unissued : r.children \cap b.todo = {}
          /\ \A a \in issued : a # b => a.todo \cap b.todo = {}

\* Every request is called back.
EventuallyCalledBack ==
    \A c \in Requests : request[c] # NoRequest ~> calls[c] = 1

\* The destructor waits "for the sched to finish".
SchedulerFinishes == exiting_ ~> ~schedActive_
=============================================================================
