--------------------------- MODULE ForwardedCalls ---------------------------
(***************************************************************************)
(* What I/O forwarding promises to the callers of the client library: a    *)
(* call made on the compute node is executed on the server's file system at *)
(* most once, with the arguments the caller gave, and returns what that    *)
(* execution gave; a call that fails in between returns an error instead.  *)
(*                                                                         *)
(* A call is identified by the thread that makes it and its number there.  *)
(***************************************************************************)
EXTENDS Naturals, TLC

VARIABLES asked,      \* function: call id -> what the caller asked for: the call,
                      \* the names of its outputs, whether it may reach the
                      \* server, and what the library may return by itself
          executed,   \* function: call id -> the call made of the file system
                      \* and its status
          returned    \* function: call id -> what the caller got

avars == <<asked, executed, returned>>

Extend(f, id, v) == (id :> v) @@ f

Outstanding == DOMAIN asked \ DOMAIN returned

AInit == asked = <<>> /\ executed = <<>> /\ returned = <<>>

\* A thread makes its next call; it has none outstanding.
Ask ==
  /\ \E id \in DOMAIN asked' \ DOMAIN asked :
       /\ \A o \in Outstanding : o[1] # id[1]
       /\ asked' = Extend(asked, id, asked'[id])
  /\ UNCHANGED <<executed, returned>>

\* The caller may have given up meanwhile.
Execute ==
  /\ \E id \in (DOMAIN executed' \ DOMAIN executed) \cap DOMAIN asked :
       /\ asked[id].executable
       /\ executed' = Extend(executed, id, [call |-> asked[id].call,
                                            status |-> executed'[id].status])
  /\ UNCHANGED <<asked, returned>>

\* The value of output x of the execution of call id.
Output(id, x) == <<"result", id, x>>

Results(id) ==
  [status |-> executed[id].status,
   out |-> IF executed[id].status = "ZFS_OK"
           THEN [x \in asked[id].outputs |-> Output(id, x)] ELSE <<>>]

Return ==
  /\ \E id \in Outstanding \cap DOMAIN executed : returned' = Extend(returned, id, Results(id))
  /\ UNCHANGED <<asked, executed>>

\* The client library gives up, or has nothing to do.
Fail ==
  /\ \E id \in Outstanding : \E e \in asked[id].local :
       returned' = Extend(returned, id, [status |-> e, out |-> <<>>])
  /\ UNCHANGED <<asked, executed>>

ANext == Ask \/ Execute \/ Return \/ Fail

Calls == AInit /\ [][ANext]_avars
=============================================================================
