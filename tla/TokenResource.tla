--------------------------- MODULE TokenResource ---------------------------
(***************************************************************************)
(* iofwdevent::TokenResource (src/src/iofwdevent/TokenResource.{hh,cpp}):  *)
(* a counted resource with a FIFO list of waiting requests.  The I/O       *)
(* forwarder uses it to bound the number and the size of the BMI buffers   *)
(* (BMIMemoryManager) and to limit the rate of operations                  *)
(* (RateLimiterAsync).                                                     *)
(*                                                                         *)
(* Every method does its work inside one critical section of lock_ and     *)
(* calls the callback after unlocking, so a method is one action and a     *)
(* callback that is due is state: other threads run in between.            *)
(*                                                                         *)
(* A client is a request that is reused: it asks, waits, holds, returns.   *)
(* held and supply are history variables, the code keeps no such account.  *)
(***************************************************************************)
EXTENDS Naturals, Sequences, FiniteSets

CONSTANTS
    Clients,        \* the callbacks that ask for tokens
    Addrs,          \* heap addresses a queued TokenRequest can have
    NoHandle,       \* the handle 0 of a request that completed at once
    InitialTokens,  \* tokens given to the constructor
    MaxTokens,      \* bound: the largest request, and the largest addition
    MaxSupply,      \* bound: the tokens that may ever be in the system
    Limits,         \* limits passed to add_tokens_limit, 0 for none
    Cancels         \* whether clients use cancel

ASSUME ClientsAssumption == IsFiniteSet(Clients)
ASSUME AddrsAssumption == NoHandle \notin Addrs
ASSUME BoundsAssumption ==
    /\ InitialTokens \in Nat
    /\ MaxTokens \in Nat
    /\ MaxSupply \in Nat
    /\ Limits \subseteq Nat
    /\ Cancels \in BOOLEAN

VARIABLES
    tokens_available_,
    waitlist_,      \* sequence of TokenRequest, oldest first
    started_,
    due,            \* the callback that the resource still has to call
    handle,         \* the handle the last request of a client returned
    looping,        \* a cancel that does not leave its loop, holding lock_
    held,           \* tokens granted to a client and not returned
    supply          \* all tokens put into the resource so far

vars == <<tokens_available_, waitlist_, started_, due, handle, looping,
          held, supply>>

TokenRequest == [cb : Clients, tokens : 1..MaxTokens, at : Addrs]

TypeOK ==
    /\ tokens_available_ \in Nat
    /\ waitlist_ \in Seq(TokenRequest)
    /\ started_ \in BOOLEAN
    /\ due \in [Clients -> {"none", "ok", "cancelled"}]
    /\ handle \in [Clients -> Addrs \cup {NoHandle}]
    /\ looping \in BOOLEAN
    /\ held \in [Clients -> 0..MaxTokens]
    /\ supply \in Nat

Init ==
    /\ tokens_available_ = InitialTokens
    /\ waitlist_ = <<>>
    /\ started_ = FALSE
    /\ due = [c \in Clients |-> "none"]
    /\ handle = [c \in Clients |-> NoHandle]
    /\ looping = FALSE
    /\ held = [c \in Clients |-> 0]
    /\ supply = InitialTokens

Waiting == {waitlist_[i].cb : i \in DOMAIN waitlist_}

UsedAddrs == {waitlist_[i].at : i \in DOMAIN waitlist_}

\* A client that can ask: nothing queued, nothing due, nothing held.
Idle(c) == c \notin Waiting /\ due[c] = "none" /\ held[c] = 0

-----------------------------------------------------------------------------

Start ==
    /\ ~looping
    /\ ~started_
    /\ started_' = TRUE
    /\ UNCHANGED <<tokens_available_, waitlist_, due, handle, looping, held,
                   supply>>

Stop ==
    /\ ~looping
    /\ started_
    /\ started_' = FALSE
    /\ UNCHANGED <<tokens_available_, waitlist_, due, handle, looping, held,
                   supply>>

\* Mutant: overtake the waiting requests when there are tokens.
try_request_unlocked_barging(n) == n = 0 \/ tokens_available_ >= n

\* The condition under which try_request_unlocked takes n tokens.
try_request_unlocked(n) ==
    \/ n = 0
    \/ waitlist_ = <<>> /\ tokens_available_ >= n

Take(c, n) ==
    /\ tokens_available_' = tokens_available_ - n
    /\ held' = [held EXCEPT ![c] = n]

request(c, n) ==
    /\ started_ /\ ~looping
    /\ Idle(c)
    /\ \/ /\ try_request_unlocked(n)
          /\ Take(c, n)
          /\ due' = [due EXCEPT ![c] = "ok"]
          /\ handle' = [handle EXCEPT ![c] = NoHandle]
          /\ UNCHANGED waitlist_
       \/ /\ ~try_request_unlocked(n)
          /\ \E a \in Addrs \ UsedAddrs :
                /\ waitlist_' =
                      Append(waitlist_, [cb |-> c, tokens |-> n, at |-> a])
                /\ handle' = [handle EXCEPT ![c] = a]
          /\ UNCHANGED <<tokens_available_, held, due>>
    /\ UNCHANGED <<started_, looping, supply>>

try_request(c, n) ==
    /\ started_ /\ ~looping
    /\ Idle(c)
    /\ \/ try_request_unlocked(n) /\ Take(c, n)
       \/ ~try_request_unlocked(n) /\ UNCHANGED <<tokens_available_, held>>
    /\ UNCHANGED <<waitlist_, started_, due, handle, looping, supply>>

\* Mutant: the head is taken off the list without being called.
notify_next_silent(avail, hold) ==
    LET f == Head(waitlist_) IN
    /\ tokens_available_' = avail - f.tokens
    /\ held' = hold
    /\ due' = due
    /\ waitlist_' = Tail(waitlist_)

\* Mutant: the request is served but stays in the list.
notify_next_kept(avail, hold) ==
    LET f == Head(waitlist_) IN
    /\ tokens_available_' = avail - f.tokens
    /\ held' = [hold EXCEPT ![f.cb] = f.tokens]
    /\ due' = [due EXCEPT ![f.cb] = "ok"]
    /\ waitlist_' = waitlist_

\* Grant the oldest request out of avail tokens.
notify_next(avail, hold) ==
    LET f == Head(waitlist_) IN
    /\ tokens_available_' = avail - f.tokens
    /\ held' = [hold EXCEPT ![f.cb] = f.tokens]
    /\ due' = [due EXCEPT ![f.cb] = "ok"]
    /\ waitlist_' = Tail(waitlist_)

\* Mutant: a request for exactly the tokens that are free is not served.
check_strict(avail, hold) ==
    IF waitlist_ # <<>> /\ Head(waitlist_).tokens < avail
    THEN notify_next(avail, hold)
    ELSE /\ tokens_available_' = avail
         /\ held' = hold
         /\ UNCHANGED <<waitlist_, due>>

\* After tokens were put back: serve the oldest request if that is enough.
\* One request at most, whatever is left over.
check(avail, hold) ==
    IF waitlist_ # <<>> /\ Head(waitlist_).tokens =< avail
    THEN notify_next(avail, hold)
    ELSE /\ tokens_available_' = avail
         /\ held' = hold
         /\ UNCHANGED <<waitlist_, due>>

\* The holder returns n of its tokens, once its callback has told it that it
\* has them.
release(c, n) ==
    /\ started_ /\ ~looping
    /\ due[c] = "none"
    /\ n =< held[c]
    /\ check(tokens_available_ + n, [held EXCEPT ![c] = @ - n])
    /\ UNCHANGED <<started_, handle, looping, supply>>

add_tokens_limit(tokens, limit) ==
    /\ ~looping
    /\ supply + tokens =< MaxSupply
    /\ \/ /\ tokens = 0 \/ (limit # 0 /\ tokens_available_ >= limit)
          /\ UNCHANGED <<tokens_available_, waitlist_, due, held, supply>>
       \/ /\ tokens # 0
          /\ limit = 0 \/ tokens_available_ < limit
          /\ LET added == IF limit # 0 /\ limit - tokens_available_ < tokens
                          THEN limit - tokens_available_
                          ELSE tokens
             IN  /\ check(tokens_available_ + added, held)
                 /\ supply' = supply + added
    /\ UNCHANGED <<started_, handle, looping>>

\* cancel walks the list with an iterator it never advances: it finds h at the
\* head or, with a list that is not empty, never ends (and never unlocks).
\* h is the handle the client got; the memory it names may by now hold the
\* request of another client.
cancel(c) ==
    /\ Cancels
    /\ ~looping
    /\ handle[c] # NoHandle
    /\ \/ /\ waitlist_ = <<>>
          /\ UNCHANGED <<waitlist_, due, looping>>
       \/ /\ waitlist_ # <<>>
          /\ Head(waitlist_).at = handle[c]
          /\ waitlist_' = Tail(waitlist_)
          /\ due' = [due EXCEPT ![Head(waitlist_).cb] = "cancelled"]
          /\ UNCHANGED looping
       \/ /\ waitlist_ # <<>>
          /\ Head(waitlist_).at # handle[c]
          /\ looping' = TRUE
          /\ UNCHANGED <<waitlist_, due>>
    /\ UNCHANGED <<tokens_available_, started_, handle, held, supply>>

\* One more round of that loop.
cancel_loop == looping /\ UNCHANGED vars

\* Mutant: only a request that was cancelled is told.
callback_cancelled(c) ==
    /\ due[c] = "cancelled"
    /\ due' = [due EXCEPT ![c] = "none"]
    /\ UNCHANGED <<tokens_available_, waitlist_, started_, handle, looping,
                   held, supply>>

\* The callback, outside of the lock, on the thread that made it due.
callback(c) ==
    /\ due[c] # "none"
    /\ due' = [due EXCEPT ![c] = "none"]
    /\ UNCHANGED <<tokens_available_, waitlist_, started_, handle, looping,
                   held, supply>>

Next ==
    \/ Start
    \/ Stop
    \/ \E c \in Clients, n \in 0..MaxTokens :
          request(c, n) \/ try_request(c, n) \/ release(c, n)
    \/ \E n \in 0..MaxTokens, limit \in Limits : add_tokens_limit(n, limit)
    \/ \E c \in Clients : cancel(c) \/ callback(c)
    \/ cancel_loop

Spec == Init /\ [][Next]_vars

\* The caller runs the callback it made due, and a holder that was told
\* returns all its tokens (every user of the class does: an SM releases its
\* buffer once the I/O on it has completed).
release_all(c) == held[c] > 0 /\ release(c, held[c])

Fairness ==
    \A c \in Clients : WF_vars(callback(c)) /\ WF_vars(release_all(c))

FairSpec == Spec /\ Fairness

-----------------------------------------------------------------------------
(* Properties *)

\* The tokens that the clients hold, one pair for each: their number is the
\* sum of hold.
HeldTokens(hold) == {u \in Clients \X (1..MaxTokens) : u[2] =< hold[u[1]]}

\* Tokens are neither made nor lost: what is free and what the clients hold is
\* what was put in, whatever the interleaving of request, release and
\* cancel ("Sum of used tokens and unused tokens should be equal to
\* TOKENCOUNT", test/boost/tokenresource.cpp).
Conservation == tokens_available_ + Cardinality(HeldTokens(held)) = supply

\* Waking a single waiter per release, and leaving the next one for later
\* even if its tokens are there, strands nobody: while a request waits (and
\* the resource is large enough for any request), somebody holds tokens, so
\* another release is still to come.
NoStranding ==
    waitlist_ # <<>> /\ MaxTokens =< supply => \E c \in Clients : held[c] > 0

\* A client is in one place: queued once, and then it holds nothing and no
\* callback is due to it; so no request is granted twice.
QueuedOnce ==
    \A i \in DOMAIN waitlist_ :
        /\ held[waitlist_[i].cb] = 0
        /\ due[waitlist_[i].cb] = "none"
        /\ \A j \in DOMAIN waitlist_ :
              i # j => /\ waitlist_[i].cb # waitlist_[j].cb
                       /\ waitlist_[i].at # waitlist_[j].at

GrantsOldest ==
    /\ \A c \in Clients : held'[c] > held[c] =>
          waitlist_ = <<>> \/ Head(waitlist_).cb = c
    /\ \/ waitlist_ # <<>> /\ waitlist_' = Tail(waitlist_)
       \/ \A i \in DOMAIN waitlist_ :
             i \in DOMAIN waitlist_' /\ waitlist_'[i] = waitlist_[i]

\* "if there is a waitlist, always queue to keep fairness": a step that gives
\* tokens to a client gives them to the oldest waiting request, or nobody
\* waits; and whoever is still waiting keeps its place behind the same
\* requests.
FIFOGrants == [][GrantsOldest]_vars

\* Every queued request of at most the initial tokens is granted (or cancelled)
\* if holders return their tokens, unless the resource is stopped or a cancel
\* keeps its lock for ever.
EventuallyGranted ==
    \A c \in Clients : c \in Waiting ~> c \notin Waiting \/ ~started_ \/ looping
=============================================================================
