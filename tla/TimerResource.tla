--------------------------- MODULE TimerResource ---------------------------
(***************************************************************************)
(* iofwdevent/TimerResource.{hh,cpp} on top of ThreadedResource: callbacks *)
(* called by one worker thread when their alarm has passed, or by cancel.  *)
(*                                                                         *)
(* lock_ protects everything but the callbacks, so each critical section   *)
(* is one action and each call made without the lock is another.  Timer    *)
(* entries are named by their sequence number; 0 is the null pointer.      *)
(* The numbers of timers that nobody can meet any more are used again, so  *)
(* that timers can be created for ever.                                    *)
(*                                                                         *)
(* queue_ is a std::set ordered by `alarm_ >': its first element has the   *)
(* LATEST alarm, and two entries with the same alarm are one element.      *)
(* Alarms are kept relative to now: the code only compares them with each  *)
(* other and with the current time.                                        *)
(***************************************************************************)
EXTENDS Integers

CONSTANTS
    Cancellers,   \* threads that call cancel
    Delays,       \* the timeouts createTimer is called with
    MaxTimers,    \* bound on the number of timers at one time
    Garbage       \* what the uninitialised `e' of cancel can hold

ASSUME TimerAssumption ==
    /\ Delays \subseteq Nat /\ MaxTimers \in Nat
    /\ Garbage \subseteq {"entry", "other", "null"}

VARIABLES
    queue_,       \* the entries in the ordered set
    ids_,         \* the sequence numbers cancel can still find
    executing_,   \* the entry the worker picked, or 0
    alarm,        \* how far the alarm of every entry is from now
    running_,
    shutdown_,
    worker,       \* where the worker thread is; `left' is what its wait has left
    cancels,      \* where each cancelling thread is
    calls,        \* how often each callback was called, as done and as cancelled
    returned,     \* timers for which some cancel has returned
    crashed       \* a null executing_ was dereferenced, or an assertion failed

vars == <<queue_, ids_, executing_, alarm, running_, shutdown_, worker, cancels,
          calls, returned, crashed>>

Timers == 1 .. MaxTimers
Forever == -1
Idle == [pc |-> "idle", seq |-> 0, e |-> "other"]
NotCalled == [done |-> 0, cancelled |-> 0]

\* `*queue_.begin ()' and `peekNext ()' under TimerComp.
first == CHOOSE s \in queue_ : \A r \in queue_ : alarm[r] <= alarm[s]
peekNext == alarm[first]

\* Mutant: erases everything from the entry to the end of the set.
Equivalent_rest(s) == {r \in queue_ : alarm[r] <= alarm[s]}

\* TimerComp does not order entries with the same alarm: they are one key.
Equivalent(s) == {r \in queue_ : alarm[r] = alarm[s]}

Init ==
    /\ queue_ = {} /\ ids_ = {} /\ executing_ = 0
    /\ alarm = [s \in Timers |-> 0]
    /\ calls = [s \in Timers |-> NotCalled]
    /\ running_ = FALSE /\ shutdown_ = FALSE
    /\ worker = [pc |-> "off", left |-> Forever]
    /\ cancels = [t \in Cancellers |-> Idle]
    /\ returned = {}
    /\ crashed = FALSE

\* cond_.notify_one: only a thread that is waiting is woken.
notified == IF worker.pc = "wait" THEN [pc |-> "outer", left |-> Forever]
                                  ELSE worker

\* Time passes.  An alarm that has passed only counts by its order among the
\* others, so it moves on only if the alarms after it push it.
Pushed(s) == \A a \in alarm[s] .. 0 : \E r \in ids_ : alarm[r] = a

tick ==
    /\ alarm' = [s \in Timers |->
                    IF s \in ids_ /\ (alarm[s] > 0 \/ Pushed(s))
                       THEN alarm[s] - 1 ELSE alarm[s]]
    /\ worker' = IF worker.left > 0 THEN [worker EXCEPT !.left = @ - 1] ELSE worker
    /\ UNCHANGED <<queue_, ids_, executing_, running_, shutdown_, cancels, calls,
                   returned, crashed>>

----------------------------------------------------------------------------
\* ThreadedResource::start and stop.

start ==
    /\ ~running_ /\ worker.pc = "off"
    /\ running_' = TRUE /\ shutdown_' = FALSE
    /\ worker' = [pc |-> "outer", left |-> Forever]
    /\ UNCHANGED <<queue_, ids_, executing_, alarm, cancels, calls, returned,
                   crashed>>

\* `There should be no remaining requests if everything else did a proper
\* cleanup and cancel': the owners of the timers stop before the resource.
ProperCleanup ==
    /\ ids_ = {} /\ worker.pc # "call"
    /\ \A t \in Cancellers : cancels[t] = Idle

\* Mutant: the worker is not told.
stop_silent ==
    /\ running_ /\ ~shutdown_ /\ ProperCleanup
    /\ shutdown_' = TRUE
    /\ UNCHANGED <<queue_, ids_, executing_, alarm, running_, worker, cancels,
                   calls, returned, crashed>>

stop ==
    /\ running_ /\ ~shutdown_ /\ ProperCleanup
    /\ shutdown_' = TRUE
    /\ worker' = notified
    /\ UNCHANGED <<queue_, ids_, executing_, alarm, running_, cancels, calls,
                   returned, crashed>>

\* The rest of stop, after the worker was joined: it asserts that no timer is
\* queued, so its loop over the queue has nothing to do.
join ==
    /\ running_ /\ shutdown_ /\ worker.pc = "off"
    /\ running_' = FALSE
    /\ crashed' = (queue_ # {})
    /\ UNCHANGED <<queue_, ids_, executing_, alarm, shutdown_, worker, cancels,
                   calls, returned>>

----------------------------------------------------------------------------
\* createTimer, from any thread or callback; it throws when not running or
\* shutting down.  std::set::insert drops an entry whose key is present.

\* Numbers of timers that were called, or never used, and that no thread is
\* still concerned with.
Unused == {s \in Timers \ (ids_ \union queue_) :
             executing_ # s /\ \A t \in Cancellers : cancels[t].seq # s}

\* ++sequence_: which unused number it is makes no difference.
sequence_ == CHOOSE s \in Unused : \A r \in Unused : s <= r

\* Mutant: the worker is not told of a timer that comes before the others.
workerTold_never(a) == worker

\* The worker is notified if the new entry is the first of queue_.
workerTold(a) == IF \A r \in queue_ : alarm[r] < a THEN notified ELSE worker

createTimer(d) ==
    LET s == sequence_
    IN /\ running_ /\ ~shutdown_
       /\ Unused # {}
       /\ alarm' = [alarm EXCEPT ![s] = d]
       /\ calls' = [calls EXCEPT ![s] = NotCalled]
       /\ returned' = returned \ {s}
       /\ queue_' = IF \E r \in queue_ : alarm[r] = d THEN queue_
                                                     ELSE queue_ \union {s}
       /\ ids_' = ids_ \union {s}
       /\ worker' = workerTold(d)
       /\ UNCHANGED <<executing_, running_, shutdown_, cancels, crashed>>

----------------------------------------------------------------------------
\* threadMain.  "outer" and "inner" are the heads of its two loops; the lock is
\* held from there to the callback, to the wait or to the end of the thread.

Due == queue_ # {} /\ peekNext <= 0

pick ==
    /\ worker.pc = "inner" \/ (worker.pc = "outer" /\ ~shutdown_)
    /\ Due
    /\ executing_' = first
    /\ queue_' = queue_ \ {first}
    /\ ids_' = ids_ \ {first}
    /\ worker' = [worker EXCEPT !.pc = "call"]
    /\ UNCHANGED <<alarm, running_, shutdown_, cancels, calls, returned,
                   crashed>>

\* `e->cb_ (CBException ())', without the lock: the call and its return.
callback ==
    /\ worker.pc = "call"
    /\ calls' = [calls EXCEPT ![executing_].done = @ + 1]
    /\ worker' = [worker EXCEPT !.pc = "callback"]
    /\ UNCHANGED <<queue_, ids_, executing_, alarm, running_, shutdown_,
                   cancels, returned, crashed>>

callbackReturns ==
    /\ worker.pc = "callback"
    /\ worker' = [worker EXCEPT !.pc = "inner"]
    /\ UNCHANGED <<queue_, ids_, executing_, alarm, running_, shutdown_,
                   cancels, calls, returned, crashed>>

wait ==
    /\ worker.pc \in {"inner", "outer"} /\ ~shutdown_ /\ ~Due
    /\ executing_' = 0
    /\ worker' = [pc |-> "wait",
                  left |-> IF queue_ = {} THEN Forever ELSE peekNext]
    /\ UNCHANGED <<queue_, ids_, alarm, running_, shutdown_, cancels,
                   calls, returned, crashed>>

timeout ==
    /\ worker.pc = "wait" /\ worker.left = 0
    /\ worker' = notified
    /\ UNCHANGED <<queue_, ids_, executing_, alarm, running_, shutdown_,
                   cancels, calls, returned, crashed>>

spuriousWakeup ==
    /\ worker.pc = "wait"
    /\ worker' = notified
    /\ UNCHANGED <<queue_, ids_, executing_, alarm, running_, shutdown_,
                   cancels, calls, returned, crashed>>

exit ==
    /\ shutdown_
    /\ worker.pc = "outer" \/ (worker.pc = "inner" /\ ~Due)
    /\ executing_' = 0
    /\ worker' = [pc |-> "off", left |-> Forever]
    /\ UNCHANGED <<queue_, ids_, alarm, running_, shutdown_, cancels,
                   calls, returned, crashed>>

----------------------------------------------------------------------------
\* cancel.

\* The entry is being executed: cancel gives the lock back and then compares
\* executing_ with its own `e', which nothing has assigned.
cancelExecuting(t, s) ==
    /\ cancels[t] = Idle /\ executing_ = s
    /\ \E g \in Garbage :
         cancels' = [cancels EXCEPT ![t] = [pc |-> "spin", seq |-> s, e |-> g]]
    /\ UNCHANGED <<queue_, ids_, executing_, alarm, running_, shutdown_,
                   worker, calls, returned, crashed>>

\* One turn of the busy wait ends it: `executing_ != e || executing_->sequence_ != seq'.
spinBreaks(c) ==
    CASE c.e = "entry" -> executing_ # c.seq
      [] c.e = "null"  -> executing_ # 0
      [] OTHER         -> TRUE

cancelSpin(t) ==
    LET c == cancels[t] IN
    /\ c.pc = "spin"
    /\ \/ /\ spinBreaks(c)
          /\ cancels' = [cancels EXCEPT ![t] = Idle]
          /\ returned' = returned \union {c.seq}
          /\ crashed' = crashed
       \/ /\ c.e = "null" /\ executing_ = 0
          /\ crashed' = TRUE
          /\ UNCHANGED <<cancels, returned>>
    /\ UNCHANGED <<queue_, ids_, executing_, alarm, running_, shutdown_,
                   worker, calls>>

\* The timer completed or was cancelled before: return false.
cancelUnknown(t, s) ==
    /\ cancels[t] = Idle /\ executing_ # s /\ s \notin ids_
    /\ returned' = returned \union {s}
    /\ UNCHANGED <<queue_, ids_, executing_, alarm, running_, shutdown_,
                   worker, cancels, calls, crashed>>

\* Mutant: the sequence number can still be found.
cancelPending_late(t, s) ==
    /\ cancels[t] = Idle /\ executing_ # s /\ s \in ids_
    /\ queue_' = queue_ \ Equivalent(s)
    /\ cancels' = [cancels EXCEPT ![t].pc = "notify", ![t].seq = s]
    /\ UNCHANGED <<ids_, executing_, alarm, running_, shutdown_, worker,
                   calls, returned, crashed>>

\* queue_.erase (e) erases by key: whatever entry has the alarm of e.
cancelPending(t, s) ==
    /\ cancels[t] = Idle /\ executing_ # s /\ s \in ids_
    /\ ids_' = ids_ \ {s}
    /\ queue_' = queue_ \ Equivalent(s)
    /\ cancels' = [cancels EXCEPT ![t].pc = "notify", ![t].seq = s]
    /\ UNCHANGED <<executing_, alarm, running_, shutdown_, worker, calls,
                   returned, crashed>>

\* `e->cb_ (CBException::cancelledOperation (h))', without the lock; return true.
cancelCallback(t) ==
    LET s == cancels[t].seq IN
    /\ cancels[t].pc = "notify"
    /\ calls' = [calls EXCEPT ![s].cancelled = @ + 1]
    /\ cancels' = [cancels EXCEPT ![t] = Idle]
    /\ returned' = returned \union {s}
    /\ UNCHANGED <<queue_, ids_, executing_, alarm, running_, shutdown_,
                   worker, crashed>>

----------------------------------------------------------------------------
cancel(t) ==
    \/ \E s \in Timers :
         cancelExecuting(t, s) \/ cancelUnknown(t, s) \/ cancelPending(t, s)
    \/ cancelSpin(t) \/ cancelCallback(t)

threadMain == pick \/ callback \/ callbackReturns \/ wait \/ timeout \/ exit

\* The process is gone.
Dead == crashed /\ UNCHANGED vars

Next ==
    \/ /\ ~crashed
       /\ \/ tick \/ start \/ stop \/ join \/ threadMain \/ spuriousWakeup
          \/ \E d \in Delays : createTimer(d)
          \/ \E t \in Cancellers : cancel(t)
    \/ Dead

Spec == Init /\ [][Next]_vars

\* Time passes, the worker is scheduled, callbacks return, a cancel that has
\* begun goes on.  Nothing forces a spurious wakeup, a cancel or a stop.
Fairness ==
    /\ WF_vars(~crashed /\ tick)
    /\ WF_vars(~crashed /\ threadMain)
    /\ WF_vars(~crashed /\ join)
    /\ \A t \in Cancellers :
          WF_vars(~crashed /\ (cancelSpin(t) \/ cancelCallback(t)))

FairSpec == Spec /\ Fairness

----------------------------------------------------------------------------
TypeOK ==
    /\ alarm \in [Timers -> Int]
    /\ calls \in [Timers -> [done : Nat, cancelled : Nat]]
    /\ ids_ \subseteq Timers /\ returned \subseteq Timers
    /\ executing_ \in Timers \union {0}
    /\ running_ \in BOOLEAN /\ shutdown_ \in BOOLEAN /\ crashed \in BOOLEAN
    /\ worker \in [pc : {"off", "outer", "inner", "wait", "call", "callback"},
                   left : Nat \union {Forever}]
    /\ cancels \in [Cancellers -> [pc : {"idle", "spin", "notify"},
                                   seq : Timers \union {0},
                                   e : {"entry", "other", "null"}]]

\* Whatever the worker and the cancelling threads do, a timer's callback is
\* called at most once, either as done or as cancelled: the entry leaves ids_ in
\* the critical section that decides who calls it (pick or cancelPending), and
\* the queue holds no entry without its number (the ALWAYS_ASSERT of threadMain).
CalledOnce ==
    /\ TypeOK
    /\ queue_ \subseteq ids_
    /\ \A s \in Timers : calls[s].done + calls[s].cancelled <= 1

\* The entry was dropped by queue_.insert, or erased with another one: cancel can
\* find it and the worker cannot.
Lost(s) == s \in ids_ \ queue_

\* No step makes the worker lose a timer that cancel can still find, except for
\* another timer with the same alarm: the one it was created after, or the one
\* with which cancel erased it.
LostByCollision ==
    [][\A s \in Timers :
         Lost(s)' /\ ~Lost(s) => \E r \in ids_ \ {s} : alarm'[r] = alarm'[s]]_vars

Called(s) == calls[s].done + calls[s].cancelled = 1

CreatedForEver == []<><<\E d \in Delays : createTimer(d)>>_vars

\* Unless timers are created for ever, the callback of every timer in the queue
\* is eventually called, as done or as cancelled, or the timer is lost to another
\* one with its alarm: no notification of the worker thread is lost, although the
\* queue shows it the latest alarm first.
EventuallyCalled ==
    CreatedForEver
    \/ \A s \in Timers : s \in queue_ ~> Called(s) \/ Lost(s) \/ crashed

\* `Calls specified callback when timer expires': the callback of a timer in the
\* queue whose alarm has passed is eventually called, whatever other timers are
\* created, unless the timer is lost to another one with its alarm.
CalledWhenExpired ==
    \A s \in Timers :
       s \in queue_ /\ alarm[s] <= 0 ~> Called(s) \/ Lost(s) \/ crashed

\* cancel returns, and so does stop: the busy wait ends with the callback it
\* waits for, and the worker thread always notices the shutdown.
CancelAndStopReturn ==
    /\ \A t \in Cancellers :
          cancels[t].pc # "idle" ~> cancels[t].pc = "idle" \/ crashed
    /\ shutdown_ /\ running_ ~> ~running_ \/ crashed

\* `We need to guarantee that the callback is not going to be called AFTER cancel
\* returns': the worker calls no callback for which a cancel has returned.
NoCallAfterCancel ==
    worker.pc = "call" => executing_ \notin returned
=============================================================================
