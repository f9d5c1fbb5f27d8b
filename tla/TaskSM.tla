------------------------------- MODULE TaskSM -------------------------------
(***************************************************************************)
(* The state machines that serve a write and a read request,               *)
(* iofwd::tasksm::WriteTaskSM and ReadTaskSM (src/src/iofwd/tasksm/), and  *)
(* the BMIMemoryManager from which all of them take their buffers.         *)
(*                                                                         *)
(* A machine runs one method at a time (SimpleSM).  method[m] is the next  *)
(* one; it runs when waiting[m] is "none", that is, when the callback of   *)
(* the slot was called.  A write machine with a pipeline posts its writes  *)
(* without waiting for them: they complete in any order on other threads,  *)
(* in writeDoneCB, under slot_mutex_.                                      *)
(*                                                                         *)
(* Buffer i of machine m is the alloc <<m, i>>.  The contents of a buffer  *)
(* are where in the transfer they come from (siz and off); which file      *)
(* segments that is says PipelineSegments.                                 *)
(***************************************************************************)
EXTENDS BMIMemoryManager

CONSTANTS
    Writers,            \* write machines
    Readers,            \* read machines
    MaxOps,             \* bound: buffers of one request
    max_buffer_size,    \* of the server
    Transfers           \* parameters of a request: [total, pipeline]

Machines == Writers \cup Readers

min(a, b) == IF a < b THEN a ELSE b

\* What is assumed of the constants.
TaskAssumption ==
    /\ Writers \cap Readers = {}
    /\ MaxOps \in Nat \ {0} /\ max_buffer_size \in Nat \ {0}
    /\ Allocs = Machines \X (0..(MaxOps - 1))
    /\ \A t \in Transfers :
          /\ t.total \in Nat \ {0} /\ t.pipeline \in Nat
          /\ t.total <= MaxOps * min(max_buffer_size, t.pipeline) \/ t.pipeline = 0

VARIABLES
    p,                  \* the parameters of the request
    method,             \* the method that runs next
    waiting,            \* what the slot waits for
    bytes,              \* cur_recv_bytes_, cur_sent_bytes_
    p_siz_,
    cw_post_index_,
    io_ops_done_,
    ret_,
    rbuffer_,           \* the RetrievedBuffers: [siz, off, ret]
    io,                 \* where the parallel write of a buffer is
    slot_mutex_,        \* whether a writeDoneCB holds it
    count               \* the local variable of writeDoneCB

smvars == <<p, method, waiting, bytes, p_siz_, cw_post_index_, io_ops_done_,
            ret_, rbuffer_, io, slot_mutex_, count>>

vars == <<mmvars, smvars>>

Buffers == 0..(MaxOps - 1)

total_bytes_(m) == p[m].total

pipelined(m) == p[m].pipeline # 0

pipeline_size_(m) == min(max_buffer_size, p[m].pipeline)

total_pipeline_ops_(m) ==
    (total_bytes_(m) + pipeline_size_(m) - 1) \div pipeline_size_(m)

\* The writes of a pipeline are posted in parallel
\* (WRITESM_PARA_IO_PIPELINE); the reads are serial.
parallel(m) == m \in Writers /\ pipelined(m)

Init ==
    /\ start
    /\ bufferSize_ = [a \in Allocs |-> 0]
    /\ p \in [Machines -> Transfers]
    /\ method = [m \in Machines |-> "init"]
    /\ waiting = [m \in Machines |-> "none"]
    /\ bytes = [m \in Machines |-> 0]
    /\ p_siz_ = [m \in Machines |-> 0]
    /\ cw_post_index_ = [m \in Machines |-> 0]
    /\ io_ops_done_ = [m \in Machines |-> 0]
    /\ ret_ = [m \in Machines |-> "OK"]
    /\ rbuffer_ = [m \in Machines |-> [i \in Buffers |->
                      [siz |-> 0, off |-> 0, ret |-> "OK"]]]
    /\ io = [m \in Machines |-> [i \in Buffers |-> "none"]]
    /\ slot_mutex_ = [m \in Machines |-> FALSE]
    /\ count = [m \in Machines |-> [i \in Buffers |-> 0]]

-----------------------------------------------------------------------------

\* The thread of the machine is not inside releaseBuffer.  (The buffers of
\* parallel writes are released by other threads.)
NotReleasing(m) ==
    parallel(m) \/ \A i \in Buffers : state[<<m, i>>] # "dealloc"

Runs(m, name) == method[m] = name /\ waiting[m] = "none" /\ NotReleasing(m)

setNextMethod(m, name) == method' = [method EXCEPT ![m] = name]

\* Post an operation with the callback of the slot, and wait for it.
Post(m, what, name) ==
    /\ waiting' = [waiting EXCEPT ![m] = what]
    /\ setNextMethod(m, name)

\* Methods that do nothing but choose the next one.
Chain(m) ==
    IF m \in Writers
    THEN {<<"init", "decodeInputParams">>,
          <<"waitAllocateSingleBuffer", "postRecvInputBuffers">>,
          <<"waitRecvInputBuffers", "postEnqueueWrite">>,
          <<"waitAllocateBuffer", "postRecvPipelineBuffer">>,
          <<"waitRecvPipelineBuffer", "postPipelineEnqueueWrite">>}
    ELSE {<<"init", "decodeInputParams">>,
          <<"waitAllocateSingleBuffer", "postEnqueueRead">>,
          <<"waitEnqueueRead", "postSendInputBuffers">>,
          <<"waitAllocateBuffer", "postPipelineEnqueueRead">>,
          <<"waitPipelineEnqueueRead", "postSendPipelineBuffer">>}

Continue(m) ==
    /\ \E c \in Chain(m) : Runs(m, c[1]) /\ setNextMethod(m, c[2])
    /\ UNCHANGED <<mmvars, p, waiting, bytes, p_siz_, cw_post_index_,
                   io_ops_done_, ret_, rbuffer_, io, slot_mutex_, count>>

\* Methods that post an operation of the network or of the file system and
\* change nothing else.
Operations ==
    {<<"postRecvInputBuffers", "net", "waitRecvInputBuffers">>,
     <<"postEnqueueWrite", "fs", "waitEnqueueWrite">>,
     <<"postEnqueueRead", "fs", "waitEnqueueRead">>,
     <<"postSendInputBuffers", "net", "waitSendInputBuffers">>,
     <<"postSendPipelineBuffer", "net", "waitSendPipelineBuffer">>,
     <<"postReply", "net", "waitReply">>}

PostOperation(m) ==
    /\ \E o \in Operations : Runs(m, o[1]) /\ Post(m, o[2], o[3])
    /\ UNCHANGED <<mmvars, p, bytes, p_siz_, cw_post_index_, io_ops_done_,
                   ret_, rbuffer_, io, slot_mutex_, count>>

\* The size of a RetrievedBuffer: the last one may be partial.
BufferSize(m, i) ==
    IF ~pipelined(m) THEN (IF i = 0 THEN total_bytes_(m) ELSE 0)
    ELSE IF i >= total_pipeline_ops_(m) THEN 0
    ELSE IF total_bytes_(m) % pipeline_size_(m) # 0
            /\ i + 1 = total_pipeline_ops_(m)
         THEN total_bytes_(m) % pipeline_size_(m) ELSE pipeline_size_(m)

decodeInputParams(m) ==
    /\ Runs(m, "decodeInputParams")
    /\ bufferSize_' = [a \in Allocs |-> IF a[1] = m THEN BufferSize(m, a[2])
                                        ELSE bufferSize_[a]]
    /\ setNextMethod(m, IF pipelined(m) THEN "postAllocateBuffer"
                        ELSE "postAllocateSingleBuffer")
    /\ UNCHANGED <<tokens_, mem_, state, callback, p, waiting, bytes, p_siz_,
                   cw_post_index_, io_ops_done_, ret_, rbuffer_, io,
                   slot_mutex_, count>>

getSingleBuffer(m) ==
    /\ Runs(m, "postAllocateSingleBuffer")
    /\ alloc(<<m, 0>>)
    /\ Post(m, "buffer", "waitAllocateSingleBuffer")
    /\ UNCHANGED <<p, bytes, p_siz_, cw_post_index_, io_ops_done_, ret_,
                   rbuffer_, io, slot_mutex_, count>>

\* Mutant: go on without waiting for the buffer.
getBuffer_nowait(m) ==
    /\ Runs(m, "postAllocateBuffer")
    /\ alloc(<<m, cw_post_index_[m]>>)
    /\ setNextMethod(m, "waitAllocateBuffer")
    /\ UNCHANGED <<p, waiting, bytes, p_siz_, cw_post_index_, io_ops_done_,
                   ret_, rbuffer_, io, slot_mutex_, count>>

getBuffer(m) ==
    /\ Runs(m, "postAllocateBuffer")
    /\ alloc(<<m, cw_post_index_[m]>>)
    /\ Post(m, "buffer", "waitAllocateBuffer")
    /\ UNCHANGED <<p, bytes, p_siz_, cw_post_index_, io_ops_done_, ret_,
                   rbuffer_, io, slot_mutex_, count>>

\* The manager has the token, or the memory, for a buffer of m.
TokenGranted(m) ==
    /\ \E i \in Buffers : runBufferAllocCB1(<<m, i>>)
    /\ UNCHANGED smvars

BufferGranted(m) ==
    /\ \E i \in Buffers : runBufferAllocCB2(<<m, i>>)
    /\ waiting' = [waiting EXCEPT ![m] = "none"]
    /\ UNCHANGED <<p, method, bytes, p_siz_, cw_post_index_, io_ops_done_,
                   ret_, rbuffer_, io, slot_mutex_, count>>

\* Mutant: the last buffer is taken to be full.
Rest_full(m) == pipeline_size_(m)

Rest(m) == min(pipeline_size_(m), total_bytes_(m) - bytes[m])

recvPipelineBuffer(m) ==
    /\ Runs(m, "postRecvPipelineBuffer")
    /\ p_siz_' = [p_siz_ EXCEPT ![m] = Rest(m)]
    /\ Post(m, "net", "waitRecvPipelineBuffer")
    /\ UNCHANGED <<mmvars, p, bytes, cw_post_index_, io_ops_done_, ret_,
                   rbuffer_, io, slot_mutex_, count>>

postPipelineEnqueueRead(m) ==
    /\ Runs(m, "postPipelineEnqueueRead")
    /\ p_siz_' = [p_siz_ EXCEPT ![m] = Rest(m)]
    /\ rbuffer_' = [rbuffer_ EXCEPT ![m][cw_post_index_[m]] =
                      [siz |-> Rest(m), off |-> bytes[m], ret |-> "OK"]]
    /\ Post(m, "fs", "waitPipelineEnqueueRead")
    /\ UNCHANGED <<mmvars, p, bytes, cw_post_index_, io_ops_done_, ret_, io,
                   slot_mutex_, count>>

\* Mutant: reply after the last write is posted, without the barrier.
execPipelineIO_reply(m) ==
    LET i == cw_post_index_[m] IN
    /\ Runs(m, "postPipelineEnqueueWrite") /\ ~slot_mutex_[m]
    /\ rbuffer_' = [rbuffer_ EXCEPT ![m][i] =
                      [siz |-> p_siz_[m], off |-> bytes[m], ret |-> "OK"]]
    /\ cw_post_index_' = [cw_post_index_ EXCEPT ![m] = i + 1]
    /\ bytes' = [bytes EXCEPT ![m] = @ + p_siz_[m]]
    /\ io' = [io EXCEPT ![m][i] = "posted"]
    /\ setNextMethod(m, IF bytes'[m] = total_bytes_(m) THEN "postReply"
                        ELSE "waitPipelineEnqueueWrite")
    /\ UNCHANGED <<mmvars, p, waiting, p_siz_, io_ops_done_, ret_,
                   slot_mutex_, count>>

\* Mutant: the end is tested before the bytes are counted.
execPipelineIO_early(m) ==
    LET i == cw_post_index_[m] IN
    /\ Runs(m, "postPipelineEnqueueWrite") /\ ~slot_mutex_[m]
    /\ rbuffer_' = [rbuffer_ EXCEPT ![m][i] =
                      [siz |-> p_siz_[m], off |-> bytes[m], ret |-> "OK"]]
    /\ cw_post_index_' = [cw_post_index_ EXCEPT ![m] = i + 1]
    /\ bytes' = [bytes EXCEPT ![m] = @ + p_siz_[m]]
    /\ io' = [io EXCEPT ![m][i] = "posted"]
    /\ IF bytes[m] = total_bytes_(m)
       THEN Post(m, "barrier", "waitWriteBarrier")
       ELSE setNextMethod(m, "waitPipelineEnqueueWrite") /\ UNCHANGED waiting
    /\ UNCHANGED <<mmvars, p, p_siz_, io_ops_done_, ret_, slot_mutex_, count>>

\* postPipelineEnqueueWrite with the parallel part of execPipelineIO.  The
\* write is posted and the next state chosen under slot_mutex_.
execPipelineIO(m) ==
    LET i == cw_post_index_[m] IN
    /\ Runs(m, "postPipelineEnqueueWrite") /\ ~slot_mutex_[m]
    /\ rbuffer_' = [rbuffer_ EXCEPT ![m][i] =
                      [siz |-> p_siz_[m], off |-> bytes[m], ret |-> "OK"]]
    /\ cw_post_index_' = [cw_post_index_ EXCEPT ![m] = i + 1]
    /\ bytes' = [bytes EXCEPT ![m] = @ + p_siz_[m]]
    /\ io' = [io EXCEPT ![m][i] = "posted"]
    /\ IF bytes'[m] = total_bytes_(m)
       THEN Post(m, "barrier", "waitWriteBarrier")
       ELSE setNextMethod(m, "waitPipelineEnqueueWrite") /\ UNCHANGED waiting
    /\ UNCHANGED <<mmvars, p, p_siz_, io_ops_done_, ret_, slot_mutex_, count>>

\* A machine that sets no next method and does not wait has ended.
waitPipelineEnqueueWrite(m) ==
    /\ Runs(m, "waitPipelineEnqueueWrite") /\ ~slot_mutex_[m]
    /\ setNextMethod(m, IF bytes[m] < total_bytes_(m)
                        THEN "postAllocateBuffer" ELSE "deleted")
    /\ UNCHANGED <<mmvars, p, waiting, bytes, p_siz_, cw_post_index_,
                   io_ops_done_, ret_, rbuffer_, io, slot_mutex_, count>>

waitWriteBarrier(m) ==
    /\ Runs(m, "waitWriteBarrier") /\ ~slot_mutex_[m]
    /\ setNextMethod(m, IF io_ops_done_[m] = total_pipeline_ops_(m)
                        THEN "postReply" ELSE "deleted")
    /\ UNCHANGED <<mmvars, p, waiting, bytes, p_siz_, cw_post_index_,
                   io_ops_done_, ret_, rbuffer_, io, slot_mutex_, count>>

\* waitEnqueueWrite and waitSendInputBuffers: the only buffer is released.
releaseSingleBuffer(m) ==
    /\ Runs(m, "waitEnqueueWrite") \/ Runs(m, "waitSendInputBuffers")
    /\ dealloc(<<m, 0>>)
    /\ setNextMethod(m, "postReply")
    /\ UNCHANGED <<p, waiting, bytes, p_siz_, cw_post_index_, io_ops_done_,
                   ret_, rbuffer_, io, slot_mutex_, count>>

\* Mutant: the result is that of the last operation.
Result_last(m, i) == rbuffer_[m][i].ret

\* An error is kept: a later success does not hide it.
Result(m, i) ==
    IF rbuffer_[m][i].ret # "OK" THEN rbuffer_[m][i].ret ELSE ret_[m]

waitSendPipelineBuffer(m) ==
    LET i == cw_post_index_[m] IN
    /\ Runs(m, "waitSendPipelineBuffer")
    /\ ret_' = [ret_ EXCEPT ![m] = Result(m, i)]
    /\ bytes' = [bytes EXCEPT ![m] = @ + p_siz_[m]]
    /\ dealloc(<<m, i>>)
    /\ cw_post_index_' = [cw_post_index_ EXCEPT ![m] = i + 1]
    /\ setNextMethod(m, IF bytes'[m] < total_bytes_(m)
                        THEN "postAllocateBuffer" ELSE "postReply")
    /\ UNCHANGED <<p, waiting, p_siz_, io_ops_done_, rbuffer_, io,
                   slot_mutex_, count>>

\* The reply was sent: the machine has no next method and is destroyed.
waitReply(m) ==
    /\ Runs(m, "waitReply")
    /\ setNextMethod(m, "deleted")
    /\ UNCHANGED <<mmvars, p, waiting, bytes, p_siz_, cw_post_index_,
                   io_ops_done_, ret_, rbuffer_, io, slot_mutex_, count>>

-----------------------------------------------------------------------------

\* Mutant: the operation is counted twice.
writeDoneCB_twice(m, i) ==
    /\ io[m][i] = "writeDoneCB" /\ ~slot_mutex_[m]
    /\ slot_mutex_' = [slot_mutex_ EXCEPT ![m] = TRUE]
    /\ io_ops_done_' = [io_ops_done_ EXCEPT ![m] = @ + 1]
    /\ count' = [count EXCEPT ![m][i] = io_ops_done_[m] + 2]
    /\ ret_' = [ret_ EXCEPT ![m] = Result(m, i)]
    /\ dealloc(<<m, i>>)
    /\ io' = [io EXCEPT ![m][i] = "release"]
    /\ UNCHANGED <<p, method, waiting, bytes, p_siz_, cw_post_index_,
                   rbuffer_>>

\* writeDoneCB up to the first half of releaseBuffer, slot_mutex_ is held.
writeDoneCB(m, i) ==
    /\ io[m][i] = "writeDoneCB" /\ ~slot_mutex_[m]
    /\ slot_mutex_' = [slot_mutex_ EXCEPT ![m] = TRUE]
    /\ io_ops_done_' = [io_ops_done_ EXCEPT ![m] = @ + 1]
    /\ count' = [count EXCEPT ![m][i] = io_ops_done_[m] + 1]
    /\ ret_' = [ret_ EXCEPT ![m] = Result(m, i)]
    /\ dealloc(<<m, i>>)
    /\ io' = [io EXCEPT ![m][i] = "release"]
    /\ UNCHANGED <<p, method, waiting, bytes, p_siz_, cw_post_index_,
                   rbuffer_>>

\* The second half of releaseBuffer; writeDoneCB drops slot_mutex_ after it.
releaseBuffer(m, i) ==
    /\ deallocMemory(<<m, i>>)
    /\ IF parallel(m)
       THEN /\ slot_mutex_' = [slot_mutex_ EXCEPT ![m] = FALSE]
            /\ io' = [io EXCEPT ![m][i] = "unlocked"]
       ELSE UNCHANGED <<slot_mutex_, io>>
    /\ UNCHANGED <<p, method, waiting, bytes, p_siz_, cw_post_index_,
                   io_ops_done_, ret_, rbuffer_, count>>

\* The end of writeDoneCB: the last write calls the callback of the slot.
writeDoneEnd(m, i) ==
    /\ io[m][i] = "unlocked"
    /\ io' = [io EXCEPT ![m][i] = "done"]
    /\ waiting' = IF count[m][i] = total_pipeline_ops_(m)
                  THEN [waiting EXCEPT ![m] = "none"] ELSE waiting
    /\ count' = [count EXCEPT ![m][i] = 0]
    /\ UNCHANGED <<mmvars, p, method, bytes, p_siz_, cw_post_index_,
                   io_ops_done_, ret_, rbuffer_, slot_mutex_>>

\* External: the network and the file system complete what was posted, the
\* file system with a result.
NetworkDone(m) ==
    /\ waiting[m] = "net"
    /\ waiting' = [waiting EXCEPT ![m] = "none"]
    /\ UNCHANGED <<mmvars, p, method, bytes, p_siz_, cw_post_index_,
                   io_ops_done_, ret_, rbuffer_, io, slot_mutex_, count>>

FileSystemDone(m, result) ==
    /\ waiting[m] = "fs"
    /\ waiting' = [waiting EXCEPT ![m] = "none"]
    /\ IF pipelined(m)
       THEN /\ rbuffer_' = [rbuffer_ EXCEPT ![m][cw_post_index_[m]].ret = result]
            /\ UNCHANGED ret_
       ELSE /\ ret_' = [ret_ EXCEPT ![m] = result]
            /\ UNCHANGED rbuffer_
    /\ UNCHANGED <<mmvars, p, method, bytes, p_siz_, cw_post_index_,
                   io_ops_done_, io, slot_mutex_, count>>

WriteDone(m, i, result) ==
    /\ io[m][i] = "posted"
    /\ rbuffer_' = [rbuffer_ EXCEPT ![m][i].ret = result]
    /\ io' = [io EXCEPT ![m][i] = "writeDoneCB"]
    /\ UNCHANGED <<mmvars, p, method, waiting, bytes, p_siz_, cw_post_index_,
                   io_ops_done_, ret_, slot_mutex_, count>>

Finished == \A m \in Machines : method[m] = "deleted"

Results == {"OK", "error"}

Method(m) ==
    \/ Continue(m) \/ PostOperation(m) \/ decodeInputParams(m)
    \/ getSingleBuffer(m) \/ getBuffer(m)
    \/ recvPipelineBuffer(m) \/ postPipelineEnqueueRead(m)
    \/ execPipelineIO(m) \/ waitPipelineEnqueueWrite(m)
    \/ waitWriteBarrier(m) \/ releaseSingleBuffer(m)
    \/ waitSendPipelineBuffer(m) \/ waitReply(m)

Callback(m) ==
    \/ TokenGranted(m) \/ BufferGranted(m) \/ NetworkDone(m)
    \/ \E r \in Results : FileSystemDone(m, r)

WriteCallback(m, i) ==
    \/ writeDoneCB(m, i) \/ releaseBuffer(m, i) \/ writeDoneEnd(m, i)
    \/ \E r \in Results : WriteDone(m, i, r)

Next ==
    \/ \E m \in Machines : Method(m) \/ Callback(m)
    \/ \E m \in Machines, i \in Buffers : WriteCallback(m, i)
    \/ Finished /\ UNCHANGED vars

Spec == Init /\ [][Next]_vars

\* Threads run, the network and the file system complete what was posted.
Fairness ==
    \A m \in Machines :
       /\ WF_vars(Method(m)) /\ WF_vars(Callback(m))
       /\ \A i \in Buffers : WF_vars(WriteCallback(m, i))

FairSpec == Spec /\ Fairness

-----------------------------------------------------------------------------

\* Types; a writeDoneCB that holds slot_mutex_ is the only one of its machine.
TypeOK ==
    /\ MMTypeOK
    /\ waiting \in [Machines -> {"none", "net", "fs", "buffer", "barrier"}]
    /\ bytes \in [Machines -> Nat] /\ p_siz_ \in [Machines -> Nat]
    /\ cw_post_index_ \in [Machines -> 0..MaxOps]
    /\ io_ops_done_ \in [Machines -> 0..MaxOps]
    /\ ret_ \in [Machines -> Results]
    /\ io \in [Machines -> [Buffers -> {"none", "posted", "writeDoneCB",
                                        "release", "unlocked", "done"}]]
    /\ \A m \in Machines :
          Cardinality({i \in Buffers : io[m][i] = "release"}) =
             (IF slot_mutex_[m] THEN 1 ELSE 0)

Replying(m) == method[m] \in {"postReply", "waitReply", "deleted"}

Buffer(m, i) == state[<<m, i>>]

Used(m) == IF pipelined(m) THEN total_pipeline_ops_(m) ELSE 1

\* A machine replies only when the whole transfer is over: every buffer it
\* needed was filled with its part of the transfer and given back (the last
\* release may still be in progress on the machine's own thread), every
\* write has been counted, and the result is an error exactly when one of
\* the operations failed, whatever the order in which they completed.
ReplyComplete ==
    /\ TypeOK
    /\ \A m \in Machines : Replying(m) =>
          /\ \A i \in 0..(Used(m) - 1) : Buffer(m, i) \in {"dealloc", "freed"}
          /\ parallel(m) => \A i \in 0..(Used(m) - 1) : Buffer(m, i) = "freed"
          /\ pipelined(m) =>
                /\ bytes[m] = total_bytes_(m)
                /\ (ret_[m] = "error") <=>
                      (\E i \in Buffers : rbuffer_[m][i].ret = "error")

\* The buffers of a pipeline take the transfer in order and without gaps:
\* what is received into, or read into, buffer i begins at i times the size
\* of a buffer and fills exactly the memory that was allocated for it.
TransferInOrder ==
    \A m \in Machines : pipelined(m) =>
       \A i \in Buffers : rbuffer_[m][i].siz # 0 =>
          /\ rbuffer_[m][i].siz = bufferSize_[<<m, i>>]
          /\ rbuffer_[m][i].off = i * pipeline_size_(m)

\* The memory of a buffer exists while the network or the file system uses
\* it.
MemoryInUse ==
    \A m \in Machines :
       /\ waiting[m] \in {"net", "fs"} /\ ~Replying(m) =>
             Buffer(m, cw_post_index_[m]) = "allocated"
       /\ \A i \in Buffers : io[m][i] \in {"posted", "writeDoneCB"} =>
             Buffer(m, i) = "allocated"

\* The callback that the last write calls is the one of a slot that waits at
\* the barrier (SimpleSlots asserts it): never one that was not set yet, and
\* never twice.
BarrierArmed ==
    \A m \in Machines, i \in Buffers :
       io[m][i] = "unlocked" /\ count[m][i] = total_pipeline_ops_(m) =>
          waiting[m] = "barrier"

\* Every request is answered, also when there are fewer buffers than the
\* machines could use: they never wait for each other's buffers for ever.
EventuallyReplied ==
    \A m \in Machines : <>(method[m] = "waitReply")

=============================================================================
