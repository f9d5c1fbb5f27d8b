-------------------------- MODULE MCEventResources --------------------------
(* TokenResource with three clients, and MultiCompletion with three slots,   *)
(* which give a chain a first, a middle and a last element, and a wait for   *)
(* some of the slots that is neither for any nor for all of them.  The two   *)
(* do not interact: a behaviour is one of the first or one of the second.    *)
EXTENDS TokenResource

CONSTANTS c1, c2, c3, a1, a2, a3, Nobody, COUNT, Failing, MaxPending

VARIABLES part, mc, pending, inline, stuck, patient

Multi == INSTANCE MultiCompletion

multivars == <<mc, pending, inline, stuck, patient>>
allvars == <<part, vars, multivars>>

MCInit ==
    /\ part \in {"tokens", "completions"}
    /\ Init /\ Multi!Init
    /\ part = "tokens" => patient

MCNext ==
    \/ part = "tokens" /\ Next /\ UNCHANGED <<part, multivars>>
    \/ part = "completions" /\ Multi!Next /\ UNCHANGED <<part, vars>>

\* Nothing of the other part is ever enabled by these.
MCSpec == MCInit /\ [][MCNext]_allvars /\ Fairness /\ Multi!Fairness

\* MultiCompletion: the two chains of slots are well linked and hold exactly the
\* free and the completed slots.
ChainsMatch == Multi!ChainsMatch

\* MultiCompletion: no wake-up of a waiting callback is lost.
NoMissedWait == Multi!NoMissedWait

\* MultiCompletion implements the abstract queue of completions.
ImplementsQueue == Multi!ImplementsQueue

\* MultiCompletion: a callback that waits for no more slots than are armed or
\* completed is called.
EventuallyCalled == Multi!EventuallyCalled
=============================================================================
