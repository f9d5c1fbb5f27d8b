------------------------------ MODULE WorkPool ------------------------------
(***************************************************************************)
(* What iofwdutil::ThreadPool promises to those who submit work to it:     *)
(* every unit of work that is submitted is run once per submission, and    *)
(* never more than MaxHigh units of high priority and MaxNorm other units  *)
(* at a time.  SMManager::schedule and ZoidFSDefAsync rely on no more.     *)
(***************************************************************************)
EXTENDS Naturals, FiniteSets

CONSTANTS Work, High, MaxHigh, MaxNorm

VARIABLES pending, working

poolvars == <<pending, working>>

PoolInit == pending = {} /\ working = {}

Submit(w) ==
    /\ w \notin pending \cup working
    /\ pending' = pending \cup {w}
    /\ UNCHANGED working

Begin(w) ==
    /\ w \in pending
    /\ pending' = pending \ {w}
    /\ working' = working \cup {w}
    /\ Cardinality(working' \cap High) =< MaxHigh
    /\ Cardinality(working' \ High) =< MaxNorm

Finish(w) ==
    /\ w \in working
    /\ working' = working \ {w}
    /\ UNCHANGED pending

PoolNext == \E w \in Work : Submit(w) \/ Begin(w) \/ Finish(w)

PoolSpec == PoolInit /\ [][PoolNext]_poolvars
=============================================================================
