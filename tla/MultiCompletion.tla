-------------------------- MODULE MultiCompletion --------------------------
(***************************************************************************)
(* iofwdevent::MultiCompletion (src/src/iofwdevent/MultiCompletion.hh):    *)
(* waits for some, any or all of COUNT operations.  The slots are chained  *)
(* in two lists that share the fields next_ and prev_: the free slots and  *)
(* the completed ones, oldest first.  mc is the object.                    *)
(*                                                                         *)
(* One user arms slots, tests and waits; other threads complete the slots. *)
(* Every method is a critical section of lock_, a callback runs after it.  *)
(***************************************************************************)
EXTENDS Integers, Sequences, FiniteSets

CONSTANTS
    COUNT,      \* the number of slots
    Failing,    \* the outcomes of an operation: whether it fails
    MaxPending  \* bound on the callbacks that wait for a thread to call them

Slots == 0..(COUNT - 1)
Nil == -1

VARIABLES
    mc,         \* the MultiCompletion
    pending,    \* callbacks that threads which completed a slot have yet to call
    inline,     \* wait or cancel is about to call the callback itself
    stuck,      \* a testSome that waits for the lock it holds
    patient     \* the user does not test slots while a callback waits

vars == <<mc, pending, inline, stuck, patient>>

Init ==
    /\ mc = [next_            |-> [i \in Slots |-> IF i = COUNT - 1 THEN Nil
                                                   ELSE i + 1],
             prev_            |-> [i \in Slots |-> i - 1],
             status_          |-> [i \in Slots |-> "FREE"],
             exception_       |-> [i \in Slots |-> FALSE],
             slots_waiting_   |-> 0,
             slots_completed_ |-> 0,
             first_completed_ |-> Nil,
             last_completed_  |-> Nil,
             first_free_      |-> 0,
             slots_exception_ |-> 0,
             waiting_for_     |-> 0,
             cb_              |-> FALSE]
    /\ pending = 0
    /\ inline = FALSE
    /\ stuck = FALSE
    /\ patient \in BOOLEAN

-----------------------------------------------------------------------------

\* The user can call a method: no testSome holds lock_, and the user's thread
\* is not inside wait or cancel, which return after the callback.
UserCalls == ~stuck /\ ~inline

\* Assign to a field of the slot pos, if there is such a slot.
Set(f, pos, val) == IF pos = Nil THEN f ELSE [f EXCEPT ![pos] = val]

\* Mutant: the successor in the free list is not told.
Armed_forward(o, pos) ==
    [o EXCEPT !.next_ = Set(@, o.prev_[pos], o.next_[pos]),
              !.first_free_ = IF o.prev_[pos] = Nil THEN o.next_[pos] ELSE @,
              !.status_[pos] = "WAITING",
              !.slots_waiting_ = @ + 1]

\* operator[]: take the slot out of the free list, wherever it is.
Armed(o, pos) ==
    [o EXCEPT !.next_ = Set(@, o.prev_[pos], o.next_[pos]),
              !.prev_ = Set(@, o.next_[pos], o.prev_[pos]),
              !.first_free_ = IF o.prev_[pos] = Nil THEN o.next_[pos] ELSE @,
              !.status_[pos] = "WAITING",
              !.slots_waiting_ = @ + 1]

Arm(pos) ==
    /\ UserCalls
    /\ mc.status_[pos] = "FREE"
    /\ mc' = Armed(mc, pos)
    /\ UNCHANGED <<pending, inline, stuck, patient>>

\* operator CBType: take the first free slot.
ArmAny ==
    LET pos == mc.first_free_ IN
    /\ UserCalls
    /\ pos # Nil
    /\ mc' = [mc EXCEPT !.next_[pos] = Nil,
                        !.prev_ = Set([@ EXCEPT ![pos] = Nil],
                                      mc.next_[pos], Nil),
                        !.first_free_ = mc.next_[pos],
                        !.status_[pos] = "WAITING",
                        !.slots_waiting_ = @ + 1]
    /\ UNCHANGED <<pending, inline, stuck, patient>>

\* Add a slot to the end of the completed chain.
Completed(o, pos, e) ==
    [o EXCEPT !.slots_completed_ = @ + 1,
              !.slots_waiting_ = @ - 1,
              !.status_[pos] = "COMPLETED",
              !.next_ = Set([@ EXCEPT ![pos] = Nil], o.last_completed_, pos),
              !.prev_[pos] = o.last_completed_,
              !.exception_[pos] = e,
              !.slots_exception_ = IF e THEN @ + 1 ELSE @,
              !.last_completed_ = pos,
              !.first_completed_ = IF @ = Nil THEN pos ELSE @]

\* Mutant: one more than asked for.
Satisfied_late(o, n) == n < o.slots_completed_ \/ o.slots_exception_ # 0

Satisfied(o, n) == n <= o.slots_completed_ \/ o.slots_exception_ # 0

\* Mutant: an exception does not end the wait.
completeSlot_silent(pos, e) ==
    LET o == Completed(mc, pos, e) IN
    /\ ~stuck
    /\ mc.status_[pos] = "WAITING"
    /\ IF mc.waiting_for_ # 0 /\ mc.waiting_for_ <= o.slots_completed_
       THEN /\ mc' = [o EXCEPT !.waiting_for_ = 0, !.cb_ = FALSE]
            /\ pending' = pending + 1
       ELSE mc' = o /\ UNCHANGED pending
    /\ UNCHANGED <<inline, stuck, patient>>

\* Mutant: only a wait for any slot is ended.
completeSlot_exact(pos, e) ==
    LET o == Completed(mc, pos, e) IN
    /\ ~stuck
    /\ mc.status_[pos] = "WAITING"
    /\ IF mc.waiting_for_ = 1 /\ Satisfied(o, mc.waiting_for_)
       THEN /\ mc' = [o EXCEPT !.waiting_for_ = 0, !.cb_ = FALSE]
            /\ pending' = pending + 1
       ELSE mc' = o /\ UNCHANGED pending
    /\ UNCHANGED <<inline, stuck, patient>>

completeSlot(pos, e) ==
    LET o == Completed(mc, pos, e) IN
    /\ ~stuck
    /\ mc.status_[pos] = "WAITING"
    /\ IF mc.waiting_for_ # 0 /\ Satisfied(o, mc.waiting_for_)
       THEN /\ mc' = [o EXCEPT !.waiting_for_ = 0, !.cb_ = FALSE]
            /\ pending' = pending + 1
       ELSE mc' = o /\ UNCHANGED pending
    /\ UNCHANGED <<inline, stuck, patient>>

\* Mutant: the last of the chain is taken off, not the one that was tested.
Removed_last(o, pos) ==
    LET last == o.last_completed_
        prev == o.prev_[last] IN
    [o EXCEPT !.first_completed_ = IF @ = last THEN Nil ELSE @,
              !.last_completed_ = prev,
              !.next_ = [Set(@, prev, Nil) EXCEPT ![last] = o.first_free_],
              !.prev_ = Set([@ EXCEPT ![last] = Nil], o.first_free_, last),
              !.first_free_ = last,
              !.status_[last] = "FREE",
              !.exception_[last] = FALSE,
              !.slots_completed_ = @ - 1,
              !.slots_exception_ = IF o.exception_[last] THEN @ - 1 ELSE @]

\* Move a slot from the completed chain to the front of the free chain.
Removed(o, pos) ==
    LET next == Set(o.next_, o.prev_[pos], o.next_[pos])
        prev == Set(o.prev_, o.next_[pos], o.prev_[pos]) IN
    [o EXCEPT !.first_completed_ = IF @ = pos THEN o.next_[pos] ELSE @,
              !.last_completed_ = IF @ = pos THEN o.prev_[pos] ELSE @,
              !.next_ = [next EXCEPT ![pos] = o.first_free_],
              !.prev_ = Set([prev EXCEPT ![pos] = Nil], o.first_free_, pos),
              !.first_free_ = pos,
              !.status_[pos] = "FREE",
              !.exception_[pos] = FALSE,
              !.slots_completed_ = @ - 1,
              !.slots_exception_ = IF o.exception_[pos] THEN @ - 1 ELSE @]

MayTest == mc.cb_ => ~patient

testAny ==
    /\ UserCalls /\ MayTest
    /\ mc.slots_completed_ # 0
    /\ mc' = Removed(mc, mc.first_completed_)
    /\ UNCHANGED <<pending, inline, stuck, patient>>

\* The object after n passes through the loop of testSome.
AfterTests[n \in Nat] ==
    IF n = 0 THEN mc
    ELSE LET o == AfterTests[n - 1] IN Removed(o, o.first_completed_)

\* max = 0 stands for all.  When there is an exception testSome calls
\* completeSlot, which takes lock_, with lock_ held.
testSome(max) ==
    LET all == mc.slots_completed_
        n == IF max = 0 \/ max > all THEN all ELSE max IN
    /\ UserCalls /\ MayTest
    /\ \/ /\ mc.slots_exception_ # 0
          /\ stuck' = TRUE
          /\ UNCHANGED mc
       \/ /\ mc.slots_exception_ = 0
          /\ mc' = AfterTests[n]
          /\ UNCHANGED stuck
    /\ UNCHANGED <<pending, inline, patient>>

\* count = 0 stands for all that are armed or completed.  wait asserts that no
\* other callback waits; one that is still to be called does not count.
wait(count) ==
    LET n == IF count = 0 THEN mc.slots_waiting_ + mc.slots_completed_
             ELSE count IN
    /\ UserCalls
    /\ mc.waiting_for_ = 0 /\ ~mc.cb_
    /\ pending < MaxPending
    /\ IF Satisfied(mc, n)
       THEN inline' = TRUE /\ UNCHANGED mc
       ELSE mc' = [mc EXCEPT !.waiting_for_ = n, !.cb_ = TRUE] /\ UNCHANGED inline
    /\ UNCHANGED <<pending, stuck, patient>>

cancel ==
    /\ UserCalls
    /\ mc.waiting_for_ # 0
    /\ mc' = [mc EXCEPT !.waiting_for_ = 0, !.cb_ = FALSE]
    /\ inline' = TRUE
    /\ UNCHANGED <<pending, stuck, patient>>

\* A callback runs after lock_ is dropped.
Call ==
    /\ \/ inline /\ inline' = FALSE /\ UNCHANGED pending
       \/ pending > 0 /\ pending' = pending - 1 /\ UNCHANGED inline
    /\ UNCHANGED <<mc, stuck, patient>>

\* Everyone waits for the lock that testSome never gives back.
Hung == stuck /\ ~inline /\ pending = 0 /\ UNCHANGED vars

Next ==
    \/ \E pos \in Slots : Arm(pos) \/ \E e \in Failing : completeSlot(pos, e)
    \/ ArmAny \/ testAny
    \/ \E n \in 0..COUNT : testSome(n) \/ wait(n)
    \/ cancel \/ Call \/ Hung

Spec == Init /\ [][Next]_vars

\* Operations that are in progress complete and callbacks that are due run.
Fairness ==
    /\ WF_vars(Call)
    /\ \A pos \in Slots : WF_vars(\E e \in Failing : completeSlot(pos, e))

FairSpec == Spec /\ Fairness

-----------------------------------------------------------------------------

StatusOf(st) == {i \in Slots : mc.status_[i] = st}

TypeOK ==
    /\ mc.next_ \in [Slots -> Slots \cup {Nil}]
    /\ mc.prev_ \in [Slots -> Slots \cup {Nil}]
    /\ mc.status_ \in [Slots -> {"WAITING", "FREE", "COMPLETED"}]
    /\ mc.slots_exception_ \in Nat /\ mc.waiting_for_ \in 0..COUNT
    /\ mc.slots_waiting_ = Cardinality(StatusOf("WAITING"))
    /\ mc.cb_ \in BOOLEAN /\ pending \in 0..MaxPending

\* The chain that starts at a slot, following next_; longer than COUNT only
\* if it is a cycle.
From(first) ==
    LET walk[n \in 0..COUNT] ==
           IF n = 0 THEN (IF first = Nil THEN <<>> ELSE <<first>>)
           ELSE LET w == walk[n - 1] IN
                IF w = <<>> \/ mc.next_[w[Len(w)]] = Nil THEN w
                ELSE Append(w, mc.next_[w[Len(w)]])
    IN walk[COUNT]

IsChain(w, first, last, S) ==
    /\ Len(w) = Cardinality(S) /\ {w[i] : i \in DOMAIN w} = S
    /\ \A i \in DOMAIN w :
          mc.prev_[w[i]] = (IF i = 1 THEN Nil ELSE w[i - 1])
    /\ w # <<>> => first = w[1] /\ last = w[Len(w)]
    /\ w = <<>> => first = Nil /\ last = Nil

\* checkInvariants and more: each chain is well linked in both directions,
\* has no cycle and consists of exactly the slots with its status, whatever
\* the order in which slots are taken from the middle of the free chain.
ChainsMatch ==
    LET free == From(mc.first_free_) IN
    /\ TypeOK
    /\ IsChain(From(mc.first_completed_), mc.first_completed_,
               mc.last_completed_, StatusOf("COMPLETED"))
    /\ IsChain(free, mc.first_free_,
               IF free = <<>> THEN Nil ELSE free[Len(free)],
               StatusOf("FREE"))
    /\ mc.slots_completed_ = Cardinality(StatusOf("COMPLETED"))
    /\ mc.slots_exception_ = Cardinality({i \in Slots : mc.exception_[i]})

\* No wake-up is lost: a callback is only kept while what it waits for has not
\* happened, and completeSlot knows of it exactly then (the two assertions of
\* wait agree).
NoMissedWait ==
    /\ mc.cb_ <=> mc.waiting_for_ # 0
    /\ mc.cb_ => ~Satisfied(mc, mc.waiting_for_)

\* The chains implement a queue of completions.
Queue == INSTANCE CompletionQueue WITH
    armed <- StatusOf("WAITING"),
    done  <- [i \in DOMAIN From(mc.first_completed_) |->
                LET s == From(mc.first_completed_)[i] IN
                [slot |-> s, failed |-> mc.exception_[s]]],
    want  <- mc.waiting_for_,
    due   <- pending + (IF inline THEN 1 ELSE 0)

\* MultiCompletion is a queue: slots are tested once, in the order in which
\* they completed, and the callback is called as the queue says.
ImplementsQueue == Queue!Spec

\* Waiting for no more slots than are armed or completed, the callback is
\* called, if the user does not test slots meanwhile.
EventuallyCalled ==
    (patient /\ mc.cb_
       /\ mc.waiting_for_ <= mc.slots_waiting_ + mc.slots_completed_)
       ~> ~mc.cb_

=============================================================================
