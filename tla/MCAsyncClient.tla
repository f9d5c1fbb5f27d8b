--------------------------- MODULE MCAsyncClient ---------------------------
(* One thread makes any call, blocking or not, with one or two packets as     *)
(* the answer; or two threads make calls at once, in one packet or two; or a  *)
(* thread makes a blocking call after one it may not have waited for.         *)
EXTENDS AsyncClient, TLC

CONSTANTS t1, t2

Blocking(op, packets) == [op |-> op, sync |-> TRUE, packets |-> packets, tests |-> 0]
Async(op, packets, tests) == [op |-> op, sync |-> FALSE, packets |-> packets, tests |-> tests]

Alone(k) == (t1 :> <<k>>) @@ (t2 :> <<>>)

MCPrograms ==
  {Alone(Blocking(op, 1)) : op \in DOMAIN ClientSM}
  \cup {Alone(Async(op, 2, 2)) : op \in DOMAIN ClientSM}
  \cup {(t1 :> <<Async("getattr", 1, 1)>>) @@ (t2 :> <<Blocking("lookup", 2)>>),
        (t1 :> <<Async("rename", 1, 1), Blocking("create", 1)>>) @@ (t2 :> <<>>)}

\* A blocking call alone.
MCBlocking == {Alone(Blocking("getattr", 1))}
============================================================================
