-------------------------- MODULE CompletionQueue --------------------------
(***************************************************************************)
(* What MultiCompletion promises: slots are armed, complete in some order, *)
(* and are tested in the order in which they completed.  One callback can  *)
(* wait for a number of completed slots.                                   *)
(***************************************************************************)
EXTENDS Naturals, Sequences, FiniteSets

CONSTANT Slots

VARIABLES
    armed,      \* slots whose operation is in progress
    done,       \* completed and not yet tested: [slot, failed], oldest first
    want,       \* how many the callback waits for, 0 if none waits
    due         \* callbacks to be called

vars == <<armed, done, want, due>>

Free == Slots \ (armed \cup {done[i].slot : i \in DOMAIN done})

Failures(d) == SelectSeq(d, LAMBDA c : c.failed)

Enough(d, n) == n <= Len(d) \/ Failures(d) # <<>>

Init == armed = {} /\ done = <<>> /\ want = 0 /\ due = 0

Arm(s) ==
    /\ s \in Free
    /\ armed' = armed \cup {s}
    /\ UNCHANGED <<done, want, due>>

\* A completion that is awaited makes the callback due.
Complete(s, failed) ==
    /\ s \in armed
    /\ armed' = armed \ {s}
    /\ done' = Append(done, [slot |-> s, failed |-> failed])
    /\ IF want # 0 /\ Enough(done', want)
       THEN want' = 0 /\ due' = due + 1 ELSE UNCHANGED <<want, due>>

\* The n oldest are tested and free again.  A failure is reported alone.
Test(n) ==
    /\ n \in 1..Len(done)
    /\ n > 1 => Failures(done) = <<>>
    /\ done' = SubSeq(done, n + 1, Len(done))
    /\ UNCHANGED <<armed, want, due>>

Wait(n) ==
    /\ want = 0
    /\ IF Enough(done, n) THEN due' = due + 1 /\ UNCHANGED want
                          ELSE want' = n /\ UNCHANGED due
    /\ UNCHANGED <<armed, done>>

Cancel ==
    /\ want # 0
    /\ want' = 0 /\ due' = due + 1
    /\ UNCHANGED <<armed, done>>

Call == due > 0 /\ due' = due - 1 /\ UNCHANGED <<armed, done, want>>

Next ==
    \/ \E s \in Slots : Arm(s) \/ \E f \in BOOLEAN : Complete(s, f)
    \/ \E n \in 1..Len(done) : Test(n)
    \/ \E n \in 0..Cardinality(Slots) : Wait(n)
    \/ Cancel \/ Call

Spec == Init /\ [][Next]_vars

=============================================================================
