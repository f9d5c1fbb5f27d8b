------------------------------ MODULE MCTaskSM ------------------------------
(* The two halves of serving a transfer, each on small instances: how it is  *)
(* cut into buffers (PipelineSegments) and how the machines move the buffers *)
(* (TaskSM).  A behaviour is one of the first or one of the second.          *)
(*                                                                           *)
(* The cut: all requests of up to MaxSegments segments with lengths from     *)
(* Sizes, that lie apart and in order.  The largest segment spans several    *)
(* buffers and the largest buffer holds several segments.  The machines:     *)
(* write and read machines with and without pipeline, on few buffers.        *)
EXTENDS PipelineSegments, FiniteSets, Folds, Functions

CONSTANTS MaxSegments, Sizes,
          Writers, Readers, MaxOps, max_buffer_size, Transfers,
          Allocs, NoAlloc, numTokens_, memAmount_

VARIABLES part, bufferSize_, tokens_, mem_, state, callback, p, method,
          waiting, bytes, p_siz_, cw_post_index_, io_ops_done_, ret_,
          rbuffer_, io, slot_mutex_, count

Task == INSTANCE TaskSM

ASSUME TasksAssumption == Task!ManagerAssumption /\ Task!TaskAssumption

taskvars == <<bufferSize_, tokens_, mem_, state, callback, p, method,
              waiting, bytes, p_siz_, cw_post_index_, io_ops_done_, ret_,
              rbuffer_, io, slot_mutex_, count>>
allvars == <<part, vars, taskvars>>

Request(sizes) ==
    LET n == Len(sizes)
        before == [k \in 0..n |->
                     FoldFunctionOnSet(LAMBDA x, y : x + y, 0, sizes, 1..k)]
    IN [count |-> n, before |-> before,
        starts |-> [k \in 1..n |-> before[k - 1] + 10 * k]]

MCRequests ==
    {Request(sizes) : sizes \in UNION {[1..n -> Sizes] : n \in 1..MaxSegments}}

MCAllocs == (Writers \cup Readers) \X (0..(MaxOps - 1))

\* Two buffers, the last one partial, or no pipeline.
MixedTransfers == {[total |-> 3, pipeline |-> 8], [total |-> 3, pipeline |-> 0]}

\* The part that does not run has one initial state.
MCInit ==
    /\ part \in {"cut", "machines"}
    /\ Init /\ Task!Init
    /\ part = "cut" =>
          p = [m \in Task!Machines |-> CHOOSE t \in Transfers : TRUE]
    /\ part = "machines" =>
          /\ request = Request(<<1>>)
          /\ pipeline_size_ = CHOOSE s \in PipelineSizes : TRUE

MCNext ==
    \/ part = "cut" /\ Next /\ UNCHANGED <<part, taskvars>>
    \/ part = "machines" /\ Task!Next /\ UNCHANGED <<part, vars>>

\* The fairness of each specification, for the part that runs.
MCFairness ==
    /\ WF_vars(part = "cut" /\ Next)
    /\ \A m \in Task!Machines :
          /\ WF_taskvars(part = "machines" /\ Task!Method(m))
          /\ WF_taskvars(part = "machines" /\ Task!Callback(m))
          /\ \A i \in Task!Buffers :
                WF_taskvars(part = "machines" /\ Task!WriteCallback(m, i))

MCSpec == MCInit /\ [][MCNext]_allvars /\ MCFairness

\* computePipelineFileSegments: its loops end.
CutTerminates == part = "cut" => Terminates

\* TaskSM: a machine replies only when its whole transfer is over, with an
\* error exactly when one of the operations failed.
ReplyComplete == Task!ReplyComplete

\* TaskSM: the buffers of a pipeline take the transfer in order, without gaps.
TransferInOrder == Task!TransferInOrder

\* TaskSM: the memory of a buffer exists while it is used.
MemoryInUse == Task!MemoryInUse

\* TaskSM: the last write calls the callback of a slot that waits for it.
BarrierArmed == Task!BarrierArmed

\* BMIMemoryManager: what is in use and what is free add up to its limits.
LimitsKept == Task!LimitsKept

\* TaskSM: every request is answered.
EventuallyReplied == part = "machines" => Task!EventuallyReplied
=============================================================================
