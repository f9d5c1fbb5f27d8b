-------------------------- MODULE BMIMemoryManager --------------------------
(***************************************************************************)
(* iofwdutil::mm::BMIMemoryManager (src/src/iofwdutil/mm/): a buffer needs *)
(* one token of tokens_, which bounds the number of buffers, and then as   *)
(* many tokens of mem_ as it has bytes.  Both are TokenResources, whose    *)
(* critical sections are atomic and whose callbacks run after them, on the *)
(* thread that called request or release.                                  *)
(*                                                                         *)
(* A BMIMemoryAlloc is used once: the task state machines create one for   *)
(* each buffer and delete it when they give the buffer back.               *)
(***************************************************************************)
EXTENDS Naturals, Sequences, FiniteSets, Functions

CONSTANTS
    Allocs,         \* the BMIMemoryAllocs
    NoAlloc,        \* no callback to run
    numTokens_,     \* buffers that may exist at a time
    memAmount_      \* bytes that may be allocated at a time

\* What is assumed of the constants.
ManagerAssumption ==
    /\ IsFiniteSet(Allocs) /\ NoAlloc \notin Allocs
    /\ numTokens_ \in Nat \ {0} /\ memAmount_ \in Nat

VARIABLES
    bufferSize_,    \* bytes an alloc asks for
    tokens_,        \* [avail, wait]: free buffers, allocs waiting for one
    mem_,           \* [avail, wait]: free bytes, allocs waiting for them
    state,          \* where an alloc is
    callback        \* the alloc whose callback tokens_->release ran last

mmvars == <<bufferSize_, tokens_, mem_, state, callback>>

\* "new"       not requested
\* "tokens"    waits for tokens_           "CB1" has one: runBufferAllocCB1
\* "mem"       waits for mem_              "CB2" has them: runBufferAllocCB2
\* "allocated" the buffer exists
\* "dealloc"   dealloc between its two releases, the memory is freed
\* "freed"     given back
States == {"new", "tokens", "CB1", "mem", "CB2", "allocated", "dealloc",
           "freed"}

start ==
    /\ tokens_ = [avail |-> numTokens_, wait |-> <<>>]
    /\ mem_ = [avail |-> memAmount_, wait |-> <<>>]
    /\ state = [a \in Allocs |-> "new"]
    /\ callback = [a \in Allocs |-> NoAlloc]

-----------------------------------------------------------------------------

\* TokenResource::try_request_unlocked
Obtains(r, n) == n = 0 \/ (r.wait = <<>> /\ r.avail >= n)

Take(r, n) == [r EXCEPT !.avail = @ - n]

Queue(r, a) == [r EXCEPT !.wait = Append(@, a)]

\* TokenResource::release of n, where the alloc a needs need[a] tokens: the
\* alloc that is notified, and the resource after it.
Notified(r, n, need) ==
    IF r.wait # <<>> /\ need[Head(r.wait)] <= r.avail + n
    THEN Head(r.wait) ELSE NoAlloc

\* Mutant: what the notified alloc takes stays free.
Released_granted(r, n, need) ==
    [avail |-> r.avail + n,
     wait |-> IF Notified(r, n, need) = NoAlloc THEN r.wait ELSE Tail(r.wait)]

Released(r, n, need) ==
    LET f == Notified(r, n, need) IN
    IF f = NoAlloc THEN [r EXCEPT !.avail = @ + n]
    ELSE [avail |-> r.avail + n - need[f], wait |-> Tail(r.wait)]

\* A step of an alloc itself and, when there is one, of the alloc it notifies.
MovesBoth(a, to, f, fto) ==
    state' = [b \in Allocs |-> IF b = a THEN to
                               ELSE IF b = f THEN fto ELSE state[b]]

One == [a \in Allocs |-> 1]

\* The callback that a thread ran inside tokens_->release(1), and those that
\* one ran, have returned.
Returned(a) ==
    callback[a] # NoAlloc => state[callback[a]] \notin {"CB1", "CB2"}

alloc(a) ==
    /\ state[a] = "new"
    /\ IF Obtains(tokens_, 1)
       THEN /\ tokens_' = Take(tokens_, 1)
            /\ state' = [state EXCEPT ![a] = "CB1"]
       ELSE /\ tokens_' = Queue(tokens_, a)
            /\ state' = [state EXCEPT ![a] = "tokens"]
    /\ UNCHANGED <<bufferSize_, mem_, callback>>

\* The token was granted: ask for the memory.
runBufferAllocCB1(a) ==
    /\ state[a] = "CB1"
    /\ IF Obtains(mem_, bufferSize_[a])
       THEN /\ mem_' = Take(mem_, bufferSize_[a])
            /\ state' = [state EXCEPT ![a] = "CB2"]
       ELSE /\ mem_' = Queue(mem_, a)
            /\ state' = [state EXCEPT ![a] = "mem"]
    /\ UNCHANGED <<bufferSize_, tokens_, callback>>

\* The memory was granted: allocate and call the client back.
runBufferAllocCB2(a) ==
    /\ state[a] = "CB2"
    /\ state' = [state EXCEPT ![a] = "allocated"]
    /\ UNCHANGED <<bufferSize_, tokens_, mem_, callback>>

\* dealloc up to and including tokens_->release(1).
dealloc(a) ==
    /\ state[a] = "allocated"
    /\ tokens_' = Released(tokens_, 1, One)
    /\ callback' = [callback EXCEPT ![a] = Notified(tokens_, 1, One)]
    /\ MovesBoth(a, "dealloc", Notified(tokens_, 1, One), "CB1")
    /\ UNCHANGED <<bufferSize_, mem_>>

\* The rest of dealloc: mem_->release(mr).
deallocMemory(a) ==
    /\ state[a] = "dealloc" /\ Returned(a)
    /\ mem_' = Released(mem_, bufferSize_[a], bufferSize_)
    /\ MovesBoth(a, "freed", Notified(mem_, bufferSize_[a], bufferSize_),
                 "CB2")
    /\ UNCHANGED <<bufferSize_, tokens_, callback>>

\* The allocs that count against tokens_ and against mem_.
HasToken == {a \in Allocs :
               state[a] \in {"CB1", "mem", "CB2", "allocated"}}
HasMemory == {a \in Allocs : state[a] \in {"CB2", "allocated", "dealloc"}}

\* Each byte of the buffers of S, named by its buffer and its place in it.
BytesOf(S) == UNION {{a} \X (1 .. bufferSize_[a]) : a \in S}

\* Types, and the two waiting lists name each waiting alloc once.
MMTypeOK ==
    /\ bufferSize_ \in [Allocs -> Nat]
    /\ tokens_.avail \in Nat /\ mem_.avail \in Nat
    /\ state \in [Allocs -> States]
    /\ callback \in [Allocs -> Allocs \cup {NoAlloc}]
    /\ \A r \in {tokens_, mem_} :
          /\ r.wait \in Seq(Allocs)
          /\ Cardinality(Range(r.wait)) = Len(r.wait)
    /\ Range(tokens_.wait) = {a \in Allocs : state[a] = "tokens"}
    /\ Range(mem_.wait) = {a \in Allocs : state[a] = "mem"}

\* The manager keeps its two limits: the buffers and the bytes that are in
\* use and those that are free always add up to numTokens_ and memAmount_,
\* although alloc and dealloc change them in steps.
LimitsKept ==
    /\ MMTypeOK
    /\ tokens_.avail + Cardinality(HasToken) = numTokens_
    /\ mem_.avail + Cardinality(BytesOf(HasMemory)) = memAmount_

=============================================================================
