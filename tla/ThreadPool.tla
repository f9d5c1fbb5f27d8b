----------------------------- MODULE ThreadPool -----------------------------
(***************************************************************************)
(* iofwdutil::ThreadPool (src/src/iofwdutil/ThreadPool.{hh,cpp}), as built *)
(* with USE_CRAY_TP: a stack of parked threads and, for each of the two    *)
(* priorities, a queue of work and a count of busy threads, all protected  *)
(* by queue_mutex_.                                                        *)
(*                                                                         *)
(* submitWorkUnit drops the lock after it has taken a thread off the stack *)
(* and only then hands it the work, through a barrier of two; until then   *)
(* the submitter is in handoff.  A thread that has run its work enters     *)
(* addThread, which parks it or gives it the next work.                    *)
(*                                                                         *)
(* start and reset are called by the one thread that sets up the server.   *)
(***************************************************************************)
EXTENDS Naturals, Sequences, FiniteSets

CONSTANTS
    Submitters,   \* threads that submit work
    Work,         \* units of work
    High,         \* the units submitted with priority HIGH
    Threads,      \* bound: the threads that start can create
    NoWork,       \* noop_
    MaxHigh,      \* max_high_thread_count_
    MaxNorm,      \* max_norm_thread_count_
    MaxRefs       \* bound: users of the pool

ASSUME CountsAssumption ==
    /\ MaxHigh \in Nat \ {0}
    /\ MaxNorm \in Nat \ {0}
    /\ MaxRefs \in Nat
    /\ IsFiniteSet(Threads)
    /\ High \subseteq Work
    /\ NoWork \notin Work

VARIABLES
    started_,
    tp_start_ref_count_,
    tpgroup_,         \* stack of parked threads, top first
    active_threads_,  \* high_active_threads_ and norm_active_threads_
    queue_,           \* prio_queue_ and norm_queue_
    created,          \* threads that exist
    pc,               \* of a thread: at its barrier, running, done
    w_,               \* the work of a thread
    prio_,            \* the priority a thread works at
    handoff,          \* of a submitter: thread and work it holds after unlock
    done              \* units that have been run

vars == <<started_, tp_start_ref_count_, tpgroup_, active_threads_, queue_,
          created, pc, w_, prio_, handoff, done>>

startvars == <<started_, tp_start_ref_count_, created>>

TPPrio == {"HIGH", "LOW"}
PrioOf(w) == IF w \in High THEN "HIGH" ELSE "LOW"
max_thread_count_(p) == IF p = "HIGH" THEN MaxHigh ELSE MaxNorm

NoHandoff == [thread |-> NoWork, func |-> NoWork]
Elements(q) == {q[i] : i \in DOMAIN q}

TypeOK ==
    /\ started_ \in BOOLEAN
    /\ tp_start_ref_count_ \in 0..MaxRefs
    /\ tpgroup_ \in Seq(Threads)
    /\ active_threads_ \in [TPPrio -> Nat]
    /\ queue_ \in [TPPrio -> Seq(Work)]
    /\ created \in SUBSET Threads
    /\ pc \in [Threads -> {"barrier", "run", "done"}]
    /\ w_ \in [Threads -> Work \cup {NoWork}]
    /\ prio_ \in [Threads -> TPPrio]
    /\ handoff \in [Submitters -> [thread : Threads, func : Work]
                                    \cup {NoHandoff}]
    /\ done \in SUBSET Work

Init ==
    /\ started_ = FALSE
    /\ tp_start_ref_count_ = 0
    /\ tpgroup_ = <<>>
    /\ active_threads_ = [p \in TPPrio |-> 0]
    /\ queue_ = [p \in TPPrio |-> <<>>]
    /\ created = {}
    /\ pc = [t \in Threads |-> "barrier"]
    /\ w_ = [t \in Threads |-> NoWork]
    /\ prio_ = [t \in Threads |-> "LOW"]
    /\ handoff = [s \in Submitters |-> NoHandoff]
    /\ done = {}

\* Work that was submitted and not begun, and work that is being run.
Pending == (UNION {Elements(queue_[p]) : p \in TPPrio}) \cup
           ({handoff[s].func : s \in Submitters} \ {NoWork})
Working == {w_[t] : t \in {u \in Threads : pc[u] = "run"}}

-----------------------------------------------------------------------------

\* The first start creates the threads and puts them on the stack, one by one
\* and without queue_mutex_.  It is one step because its only caller, the
\* constructor of DefRequestHandler, returns before anything can submit work.
start ==
    /\ tp_start_ref_count_ < MaxRefs
    /\ tp_start_ref_count_' = tp_start_ref_count_ + 1
    /\ started_' = TRUE
    /\ \/ /\ started_
          /\ UNCHANGED <<tpgroup_, created>>
       \/ /\ ~started_
          /\ \E ts \in [1..(MaxHigh + MaxNorm) -> Threads \ created] :
                /\ \A i, j \in DOMAIN ts : i # j => ts[i] # ts[j]
                /\ tpgroup_' = ts \o tpgroup_
                /\ created' = created \cup Elements(ts)
    /\ UNCHANGED <<active_threads_, queue_, pc, w_, prio_, handoff, done>>

\* The last reset joins the threads of thread_vec_, which is always empty: the
\* threads that start created are neither killed nor taken off the stack.
reset ==
    /\ started_
    /\ tp_start_ref_count_' = tp_start_ref_count_ - 1
    /\ started_' = (tp_start_ref_count_' # 0)
    /\ UNCHANGED <<tpgroup_, active_threads_, queue_, created, pc, w_, prio_,
                   handoff, done>>

\* No more threads may work at priority p.
Limited(p) == active_threads_[p] >= max_thread_count_(p)

submitWorkUnit(s, w) ==
    LET p == PrioOf(w) IN
    /\ started_
    /\ handoff[s] = NoHandoff
    /\ w \notin Pending \cup Working \cup done
    /\ \/ /\ Limited(p)
          /\ queue_' = [queue_ EXCEPT ![p] = Append(@, w)]
          /\ UNCHANGED <<active_threads_, tpgroup_, handoff>>
       \/ /\ ~Limited(p)
          /\ active_threads_' = [active_threads_ EXCEPT ![p] = @ + 1]
          /\ handoff' = [handoff EXCEPT ![s] =
                            [thread |-> Head(tpgroup_), func |-> w]]
          /\ tpgroup_' = Tail(tpgroup_)
          /\ UNCHANGED queue_
    /\ UNCHANGED <<startvars, pc, w_, prio_, done>>

\* Mutant: waits for the thread to have run something first.
setWork_done(s) ==
    LET t == handoff[s].thread  w == handoff[s].func IN
    /\ handoff[s] # NoHandoff
    /\ pc[t] = "done"
    /\ prio_' = [prio_ EXCEPT ![t] = PrioOf(w)]
    /\ w_' = [w_ EXCEPT ![t] = w]
    /\ pc' = [pc EXCEPT ![t] = "run"]
    /\ handoff' = [handoff EXCEPT ![s] = NoHandoff]
    /\ UNCHANGED <<startvars, tpgroup_, active_threads_, queue_, done>>

\* setPrio and setWork: the submitter meets the thread at its barrier.
setWork(s) ==
    LET t == handoff[s].thread  w == handoff[s].func IN
    /\ handoff[s] # NoHandoff
    /\ pc[t] = "barrier"
    /\ prio_' = [prio_ EXCEPT ![t] = PrioOf(w)]
    /\ w_' = [w_ EXCEPT ![t] = w]
    /\ pc' = [pc EXCEPT ![t] = "run"]
    /\ handoff' = [handoff EXCEPT ![s] = NoHandoff]
    /\ UNCHANGED <<startvars, tpgroup_, active_threads_, queue_, done>>

\* The loop of a thread up to addThread: run the work and forget it.
RunWork(t) ==
    /\ pc[t] = "run"
    /\ done' = done \cup {w_[t]}
    /\ w_' = [w_ EXCEPT ![t] = NoWork]
    /\ pc' = [pc EXCEPT ![t] = "done"]
    /\ UNCHANGED <<startvars, tpgroup_, active_threads_, queue_, prio_,
                   handoff>>

\* Onto the stack and back to the barrier.
Park(t) ==
    /\ active_threads_' = [active_threads_ EXCEPT ![prio_[t]] = @ - 1]
    /\ tpgroup_' = <<t>> \o tpgroup_
    /\ pc' = [pc EXCEPT ![t] = "barrier"]
    /\ UNCHANGED <<queue_, w_, prio_>>

\* Mutant: the work is not taken off the queue.
GoOn_kept(t, q) ==
    /\ w_' = [w_ EXCEPT ![t] = Head(queue_[q])]
    /\ prio_' = [prio_ EXCEPT ![t] = q]
    /\ pc' = [pc EXCEPT ![t] = "run"]
    /\ UNCHANGED <<queue_, tpgroup_>>

\* setPrio and setWorkNL: go on with the oldest work of priority q.
GoOn(t, q) ==
    /\ w_' = [w_ EXCEPT ![t] = Head(queue_[q])]
    /\ queue_' = [queue_ EXCEPT ![q] = Tail(@)]
    /\ prio_' = [prio_ EXCEPT ![t] = q]
    /\ pc' = [pc EXCEPT ![t] = "run"]
    /\ UNCHANGED tpgroup_

\* Mutant: a thread that changes its priority keeps its old place too.
Switch_leak(t, q) ==
    active_threads_' = [active_threads_ EXCEPT ![q] = @ + 1]

Switch(t, q) ==
    active_threads_' = [active_threads_ EXCEPT ![prio_[t]] = @ - 1, ![q] = @ + 1]

\* The queue that a thread is given work from.
Served(t) == IF queue_["HIGH"] # <<>> THEN "HIGH" ELSE "LOW"

\* A thread that cannot change to the priority of that queue is parked, even
\* if there is work of its own priority.
addThread(t) ==
    LET q == Served(t) IN
    /\ pc[t] = "done"
    /\ \/ /\ queue_[q] = <<>>
          /\ Park(t)
       \/ /\ queue_[q] # <<>>
          /\ prio_[t] = q
          /\ GoOn(t, q)
          /\ UNCHANGED active_threads_
       \/ /\ queue_[q] # <<>>
          /\ prio_[t] # q
          /\ active_threads_[q] = max_thread_count_(q)
          /\ Park(t)
       \/ /\ queue_[q] # <<>>
          /\ prio_[t] # q
          /\ active_threads_[q] # max_thread_count_(q)
          /\ Switch(t, q)
          /\ GoOn(t, q)
    /\ UNCHANGED <<startvars, handoff, done>>

Next ==
    \/ start
    \/ reset
    \/ \E s \in Submitters, w \in Work : submitWorkUnit(s, w)
    \/ \E s \in Submitters : setWork(s)
    \/ \E t \in Threads : RunWork(t) \/ addThread(t)

Spec == Init /\ [][Next]_vars

\* A submitter that has dropped the lock goes on, work ends, and a thread that
\* has run it goes on.
FairSpec ==
    /\ Spec
    /\ \A s \in Submitters : WF_vars(setWork(s))
    /\ \A t \in Threads : WF_vars(RunWork(t)) /\ WF_vars(addThread(t))

-----------------------------------------------------------------------------
(* Properties *)

\* The threads at work or about to be, at priority p.
Busy(p) == {t \in Threads : pc[t] # "barrier" /\ prio_[t] = p} \cup
           {handoff[s].thread : s \in {u \in Submitters :
                handoff[u] # NoHandoff /\ PrioOf(handoff[u].func) = p}}

\* The counts that submitWorkUnit and addThread keep are those of the busy
\* threads, whoever is between unlock and barrier; a thread is parked once, or
\* busy at one priority; and when submitWorkUnit may take a thread, one is parked.
Accounted ==
    /\ TypeOK
    /\ \A p \in TPPrio : active_threads_[p] = Cardinality(Busy(p))
    /\ Busy("HIGH") \cap Busy("LOW") = {}
    /\ Elements(tpgroup_) = created \ (Busy("HIGH") \cup Busy("LOW"))
    /\ Cardinality(Elements(tpgroup_)) = Len(tpgroup_)
    /\ started_ /\ (\E p \in TPPrio : ~Limited(p)) => tpgroup_ # <<>>

\* The pool runs each unit of work once for each time it was submitted, within
\* the limits of both priorities.
Pool == INSTANCE WorkPool WITH pending <- Pending, working <- Working

RunsWorkOnce == Pool!PoolSpec

\* All of a finite amount of submitted work is run: no thread is parked with
\* work left that nobody will fetch.
AllWorkRuns == \A w \in Work : w \in Pending ~> w \in done
=============================================================================
