------------------------------ MODULE SimpleSM ------------------------------
(***************************************************************************)
(* The life of one state machine: sm::SimpleSM (SimpleSM.hh), its callback *)
(* slots sm::SimpleSlots (SimpleSlots.hh), and the work units with which   *)
(* sm::SMManager runs it on the thread pool (src/src/sm).  Every request   *)
(* of the server is such a machine.                                        *)
(*                                                                         *)
(* A method of the machine arms slots, handing each to an operation, and   *)
(* ends by waiting for one slot, by naming the next method, or for good.   *)
(* The operations call their callbacks from other threads, at any time     *)
(* after the slot was armed.  A critical section of state_lock_ or of a    *)
(* slot's lock is one action.  A callback that an operation calls at once, *)
(* on the thread of the method, is one that comes before the wait.         *)
(***************************************************************************)
EXTENDS Naturals, FiniteSets

CONSTANTS
    Slots,      \* callback slots of the machine
    Workers,    \* threads of the pool
    Callers,    \* bound: callbacks in progress, each on a thread of its own
    NoMethod    \* the null method pointer

ASSUME SMAssumption ==
    /\ Workers \cap Callers = {}
    /\ IsFiniteSet(Workers) /\ IsFiniteSet(Callers)
    /\ NoMethod \notin Slots
    /\ {"init", "step"} \cap (Slots \cup {NoMethod}) = {}

Threads == Workers \cup Callers

VARIABLES
    running_,
    next_,       \* next_ and next_status_: the method to run, its argument
    slot,        \* of a slot: status_, next_, exception_
    refcount_,
    deleted,     \* the last reference is gone
    scheduled,   \* work units queued in the pool for the machine
    pc,          \* where a thread is
    cb,          \* of a caller: the slot it completes, later the call to make
    outcome,     \* what the last operation of a slot ended with
    poll_        \* the machine is executed by the thread that resumes it

vars == <<running_, next_, slot, refcount_, deleted, scheduled, pc, cb,
          outcome, poll_>>

CBException == {"ok", "error"}
Methods == Slots \cup {"init", "step"}   \* a slot stands for what waits for it
Call == [to : Methods, status : CBException]
NoCall == [to |-> NoMethod, status |-> "ok"]
Slot == [status_ : {"FREE", "WAITING", "COMPLETED"},
         next_ : Methods \cup {NoMethod},
         exception_ : CBException]
FreeSlot == [status_ |-> "FREE", next_ |-> NoMethod, exception_ |-> "ok"]

TypeOK ==
    /\ running_ \in BOOLEAN
    /\ next_ \in Call \cup {NoCall}
    /\ slot \in [Slots -> Slot]
    /\ refcount_ \in Nat
    /\ deleted \in BOOLEAN
    /\ scheduled \in Nat
    /\ pc \in [Threads -> {"idle", "enter", "fetch", "body", "check", "leave",
                           "op", "resume", "schedule", "release"}]
    /\ cb \in [Callers -> Call \cup {NoCall}]
    /\ outcome \in [Slots -> CBException]
    /\ poll_ \in BOOLEAN

\* The machine has been constructed and scheduled.
Init ==
    /\ running_ = FALSE
    /\ next_ = [to |-> "init", status |-> "ok"]
    /\ slot = [s \in Slots |-> FreeSlot]
    /\ refcount_ = 1
    /\ deleted = FALSE
    /\ scheduled = 1
    /\ pc = [t \in Threads |-> "idle"]
    /\ cb = [c \in Callers |-> NoCall]
    /\ outcome = [s \in Slots |-> "ok"]
    /\ poll_ \in BOOLEAN

Goto(t, l) == pc' = [pc EXCEPT ![t] = l]

\* intrusive_ptr_release
Release ==
    /\ refcount_' = refcount_ - 1
    /\ deleted' = (refcount_' = 0)

-----------------------------------------------------------------------------
(* SMManager: a thread of the pool takes the work unit and executes *)

Begin(t) ==
    /\ pc[t] = "idle" /\ t \in Workers
    /\ scheduled > 0
    /\ scheduled' = scheduled - 1
    /\ Goto(t, "enter")
    /\ UNCHANGED <<running_, next_, slot, refcount_, deleted, cb,
                   outcome, poll_>>

\* The first block of execute.
Enter(t) ==
    /\ pc[t] = "enter"
    /\ running_' = TRUE
    /\ Goto(t, "fetch")
    /\ UNCHANGED <<next_, slot, refcount_, deleted, scheduled, cb,
                   outcome, poll_>>

\* The method to call is taken out of next_, and called.
Fetch(t) ==
    /\ pc[t] = "fetch"
    /\ next_' = NoCall
    /\ Goto(t, "body")
    /\ UNCHANGED <<running_, slot, refcount_, deleted, scheduled, cb,
                   outcome, poll_>>

\* Mutant: the machine is not kept alive for the callback.
Arm_unref(t, s) ==
    /\ pc[t] = "body"
    /\ slot[s].status_ = "FREE"
    /\ slot' = [slot EXCEPT ![s].status_ = "WAITING", ![s].next_ = NoMethod]
    /\ \E c \in Callers :
          /\ pc[c] = "idle"
          /\ Goto(c, "op")
          /\ cb' = [cb EXCEPT ![c] = [to |-> s, status |-> "ok"]]
    /\ UNCHANGED <<running_, next_, refcount_, deleted, scheduled,
                   outcome, poll_>>

\* The method arms slot s, whose callback some thread will call.
Arm(t, s) ==
    /\ pc[t] = "body"
    /\ slot[s].status_ = "FREE"
    /\ slot' = [slot EXCEPT ![s].status_ = "WAITING", ![s].next_ = NoMethod]
    /\ refcount_' = refcount_ + 1
    /\ \E c \in Callers :
          /\ pc[c] = "idle"
          /\ Goto(c, "op")
          /\ cb' = [cb EXCEPT ![c] = [to |-> s, status |-> "ok"]]
    /\ UNCHANGED <<running_, next_, deleted, scheduled, outcome, poll_>>

\* Mutant: waits for the callback even if it has been called.
Wait_late(t, s) ==
    /\ pc[t] = "body"
    /\ slot[s].status_ # "FREE"
    /\ slot' = [slot EXCEPT ![s].next_ = s]
    /\ Goto(t, "check")
    /\ UNCHANGED <<running_, next_, refcount_, deleted, scheduled, cb,
                   outcome, poll_>>

\* Mutant: the exception stays in the slot.
Wait_dropped(t, s) ==
    /\ pc[t] = "body"
    /\ \/ /\ slot[s].status_ = "WAITING"
          /\ slot' = [slot EXCEPT ![s].next_ = s]
          /\ UNCHANGED next_
       \/ /\ slot[s].status_ = "COMPLETED"
          /\ slot' = [slot EXCEPT ![s] = FreeSlot]
          /\ next_' = [to |-> s, status |-> "ok"]
    /\ Goto(t, "check")
    /\ UNCHANGED <<running_, refcount_, deleted, scheduled, cb, outcome, poll_>>

\* The method ends with a wait for slot s.
Wait(t, s) ==
    /\ pc[t] = "body"
    /\ \/ /\ slot[s].status_ = "WAITING"
          /\ slot' = [slot EXCEPT ![s].next_ = s]
          /\ UNCHANGED next_
       \/ /\ slot[s].status_ = "COMPLETED"
          /\ slot' = [slot EXCEPT ![s] = FreeSlot]
          /\ next_' = [to |-> s, status |-> slot[s].exception_]
    /\ Goto(t, "check")
    /\ UNCHANGED <<running_, refcount_, deleted, scheduled, cb, outcome, poll_>>

\* The method ends by naming the next one.
setNextMethod(t) ==
    /\ pc[t] = "body"
    /\ next_' = [to |-> "step", status |-> "ok"]
    /\ Goto(t, "check")
    /\ UNCHANGED <<running_, slot, refcount_, deleted, scheduled, cb,
                   outcome, poll_>>

\* The last method ends.  The machine is responsible for having no operation
\* pending then (~SimpleSlots).
Finish(t) ==
    /\ pc[t] = "body"
    /\ \A s \in Slots : slot[s].status_ = "FREE"
    /\ Goto(t, "check")
    /\ UNCHANGED <<running_, next_, slot, refcount_, deleted, scheduled, cb,
                   outcome, poll_>>

\* Mutant: running_ is not reset.
Check_running(t) ==
    /\ pc[t] = "check"
    /\ Goto(t, IF next_ = NoCall THEN "leave" ELSE "fetch")
    /\ UNCHANGED <<running_, next_, slot, refcount_, deleted, scheduled, cb,
                   outcome, poll_>>

\* The end of the loop of execute.
Check(t) ==
    /\ pc[t] = "check"
    /\ IF next_ = NoCall
       THEN running_' = FALSE /\ Goto(t, "leave")
       ELSE UNCHANGED running_ /\ Goto(t, "fetch")
    /\ UNCHANGED <<next_, slot, refcount_, deleted, scheduled, cb,
                   outcome, poll_>>

\* Mutant: the SMWrapper is not deleted.
Leave_kept(t) ==
    /\ pc[t] = "leave"
    /\ Goto(t, IF t \in Workers THEN "idle" ELSE "release")
    /\ UNCHANGED <<running_, next_, slot, refcount_, deleted, scheduled, cb,
                   outcome, poll_>>

\* A thread of the pool deletes its SMWrapper, and its reference with it; a
\* caller that executed the machine itself returns to callbackhelper.
Leave(t) ==
    /\ pc[t] = "leave"
    /\ \/ t \in Workers /\ Release /\ Goto(t, "idle")
       \/ t \in Callers /\ Goto(t, "release") /\ UNCHANGED <<refcount_, deleted>>
    /\ UNCHANGED <<running_, next_, slot, scheduled, cb, outcome, poll_>>

-----------------------------------------------------------------------------
(* SimpleSlots: the callback of slot cb[c].to *)

Callback(c, e) ==
    LET s == cb[c].to IN
    /\ pc[c] = "op"
    /\ outcome' = [outcome EXCEPT ![s] = e]
    /\ \/ /\ slot[s].next_ # NoMethod
          /\ slot' = [slot EXCEPT ![s].status_ = "FREE", ![s].next_ = NoMethod]
          /\ cb' = [cb EXCEPT ![c] = [to |-> slot[s].next_, status |-> e]]
          /\ Goto(c, "resume")
       \/ /\ slot[s].next_ = NoMethod
          /\ slot' = [slot EXCEPT ![s].status_ = "COMPLETED",
                                  ![s].exception_ = e]
          /\ Goto(c, "release")
          /\ UNCHANGED cb
    /\ UNCHANGED <<running_, next_, refcount_, deleted, scheduled, poll_>>

\* Mutant: resumes a machine that is still running.
Resume_now(c) ==
    /\ pc[c] = "resume"
    /\ next_' = cb[c]
    /\ Goto(c, "schedule")
    /\ UNCHANGED <<running_, slot, refcount_, deleted, scheduled, cb,
                   outcome, poll_>>

\* resumeSM waits until nobody runs the machine.
Resume(c) ==
    /\ pc[c] = "resume"
    /\ ~running_
    /\ next_' = cb[c]
    /\ Goto(c, "schedule")
    /\ UNCHANGED <<running_, slot, refcount_, deleted, scheduled, cb,
                   outcome, poll_>>

\* The rest of resumeSM: execute here, or submit a work unit, which holds a
\* reference.
Schedule(c) ==
    /\ pc[c] = "schedule"
    /\ \/ /\ poll_
          /\ Goto(c, "enter")
          /\ UNCHANGED <<scheduled, refcount_>>
       \/ /\ ~poll_
          /\ Goto(c, "release")
          /\ scheduled' = scheduled + 1
          /\ refcount_' = refcount_ + 1
    /\ UNCHANGED <<running_, next_, slot, deleted, cb, outcome, poll_>>

\* The end of callbackhelper.
CallerRelease(c) ==
    /\ pc[c] = "release"
    /\ Release
    /\ Goto(c, "idle")
    /\ cb' = [cb EXCEPT ![c] = NoCall]
    /\ UNCHANGED <<running_, next_, slot, scheduled, outcome, poll_>>

\* Nothing is left to do for a machine that is gone.
Terminated == deleted /\ UNCHANGED vars

Next ==
    \/ \E t \in Threads :
          \/ Begin(t) \/ Enter(t) \/ Fetch(t) \/ Check(t) \/ Leave(t)
          \/ \E s \in Slots : Arm(t, s) \/ Wait(t, s)
          \/ setNextMethod(t)
          \/ Finish(t)
    \/ \E c \in Callers :
          \/ \E e \in CBException : Callback(c, e)
          \/ Resume(c) \/ Schedule(c) \/ CallerRelease(c)
    \/ Terminated

Spec == Init /\ [][Next]_vars

\* Threads go on, operations complete, and a method does not run for ever
\* without waiting or ending.
FairSpec ==
    /\ Spec
    /\ \A t \in Threads :
          /\ WF_vars(Begin(t)) /\ WF_vars(Enter(t)) /\ WF_vars(Fetch(t))
          /\ WF_vars(Check(t)) /\ WF_vars(Leave(t))
          /\ WF_vars(\E s \in Slots : Wait(t, s))
    /\ \A c \in Callers :
          /\ WF_vars(\E e \in CBException : Callback(c, e))
          /\ WF_vars(Resume(c)) /\ WF_vars(Schedule(c))
          /\ WF_vars(CallerRelease(c))

-----------------------------------------------------------------------------
(* Properties *)

Executing(t) == pc[t] \in {"fetch", "body", "check"}

\* Methods of the machine, which use its state without a lock, run one at a
\* time, whichever threads resume it; running_ says whether one is running.
OneExecutor ==
    /\ \A t, u \in Threads : Executing(t) /\ Executing(u) => t = u
    /\ running_ <=> \E t \in Threads : Executing(t)

\* The assertions of execute and resumeSM: a thread that enters execute finds
\* a method to call and nobody executing; one that resumes the machine finds no
\* method set.
AssertsHold ==
    /\ \A t \in Threads :
          /\ pc[t] = "enter" => next_ # NoCall /\ ~running_
          /\ pc[t] = "fetch" => next_ # NoCall
    /\ \A c \in Callers : pc[c] = "resume" /\ ~running_ => next_ = NoCall

\* The machine is deleted only when no thread will touch it again: no
\* callback is to come or on its way through callbackhelper, no work unit is
\* queued, all slots are free (~SimpleSlots) and nothing runs (~SimpleSM).
DeletedUnused ==
    deleted => /\ \A t \in Threads : pc[t] = "idle"
               /\ scheduled = 0
               /\ ~running_
               /\ \A s \in Slots : slot[s].status_ = "FREE"

\* The method that waits for a slot is called with the exception of that
\* slot's operation, whether the callback came before the wait or after it.
StatusDelivered ==
    next_.to \in Slots => next_.status = outcome[next_.to]

\* A machine that waits for a slot is resumed, with the method it named.
EventuallyResumed ==
    \A s \in Slots :
        slot[s].next_ = s ~> next_.to = s

\* A machine whose last method has ended is deleted.
EventuallyDeleted ==
    (/\ next_ = NoCall /\ ~running_
     /\ \A c \in Callers : pc[c] \notin {"resume", "schedule"}
     /\ \A s \in Slots : slot[s].status_ = "FREE") ~> deleted
=============================================================================
