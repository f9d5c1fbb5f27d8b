-------------------------- MODULE PipelineSegments --------------------------
(***************************************************************************)
(* computePipelineFileSegments of WriteTaskSM and ReadTaskSM               *)
(* (src/src/iofwd/tasksm/WriteTaskSM.cpp, ReadTaskSM.cpp; the two are the  *)
(* same): a transfer of several file segments is cut into pipeline buffers *)
(* of pipeline_size_ bytes.  Each piece says which part of the file goes   *)
(* to which part of a buffer.                                              *)
(*                                                                         *)
(* One pass through a loop body is one action.  The arrays p_file_sizes,   *)
(* p_file_starts and p_mem_offsets grow together and are one sequence of   *)
(* records; num_pipe_segments is its length.  C indices start at 0.        *)
(***************************************************************************)
EXTENDS Naturals, Sequences

CONSTANTS
    Requests,       \* the requests a client can send
    PipelineSizes   \* the sizes a pipeline buffer can have

\* A request of n segments.  before[k] is the number of bytes in its first k
\* segments, starts[k] is where segment k (from 1) begins in the file.
IsRequest(r, n) ==
    /\ r.before \in [0..n -> Nat]
    /\ r.before[0] = 0
    /\ \A j, k \in 0..n : j <= k => r.before[j] <= r.before[k]
    /\ r.starts \in [1..n -> Nat]

ASSUME RequestsAssumption ==
    \A r \in Requests : r.count \in Nat \ {0} /\ IsRequest(r, r.count)

ASSUME PipelineAssumption == PipelineSizes \subseteq Nat \ {0}

VARIABLES
    request,                \* the parameters of the request
    pipeline_size_,
    cur_pipe_ofs,           \* bytes of the transfer that are done
    cur_file_index,
    cur_file_size,          \* what is left of the current segment
    cur_file_start,
    cur_pipe_buffer_size,   \* room left in the current buffer
    cur_mem_offset,
    pieces,                 \* p_file_sizes, p_file_starts, p_mem_offsets
    p_segments,             \* how many pieces each buffer has
    p_segments_start,       \* and which of them is the first
    pc                      \* "outer", "inner" loop, or "done"

vars == <<request, pipeline_size_, cur_pipe_ofs, cur_file_index,
          cur_file_size, cur_file_start, cur_pipe_buffer_size,
          cur_mem_offset, pieces, p_segments, p_segments_start, pc>>

file_starts(i) == request.starts[i + 1]

file_sizes(i) == request.before[i + 1] - request.before[i]

\* decodeInputParams sums the sizes of the memory segments; the client
\* describes as many bytes of memory as of file.
total_bytes_ == request.before[request.count]

Init ==
    /\ request \in Requests
    /\ pipeline_size_ \in PipelineSizes
    /\ cur_pipe_ofs = 0
    /\ cur_file_index = 0
    /\ cur_file_size = file_sizes(0)
    /\ cur_file_start = file_starts(0)
    /\ cur_pipe_buffer_size = pipeline_size_
    /\ cur_mem_offset = 0
    /\ pieces = <<>>
    /\ p_segments = <<0>>
    /\ p_segments_start = <<0>>
    /\ pc = "outer"

-----------------------------------------------------------------------------

\* Mutant: the size of the segment is not loaded again for the next one.
NextSegment_stale ==
    /\ pc = "outer"
    /\ cur_pipe_ofs < total_bytes_
    /\ UNCHANGED cur_file_size
    /\ cur_file_start' = file_starts(cur_file_index)
    /\ pc' = "inner"
    /\ UNCHANGED <<request, pipeline_size_, cur_pipe_ofs, cur_file_index,
                   cur_pipe_buffer_size, cur_mem_offset, pieces, p_segments,
                   p_segments_start>>

\* while (cur_pipe_ofs < total_bytes_): take the next file segment.
NextSegment ==
    /\ pc = "outer" /\ cur_pipe_ofs < total_bytes_
    /\ cur_file_size' = file_sizes(cur_file_index)
    /\ cur_file_start' = file_starts(cur_file_index)
    /\ pc' = "inner"
    /\ UNCHANGED <<request, pipeline_size_, cur_pipe_ofs, cur_file_index,
                   cur_pipe_buffer_size, cur_mem_offset, pieces, p_segments,
                   p_segments_start>>

LastPipe == Len(p_segments)

Piece(size) ==
    /\ pieces' = Append(pieces, [size  |-> size,
                                 start |-> cur_file_start,
                                 mem   |-> cur_mem_offset])
    /\ cur_file_start' = cur_file_start + size
    /\ cur_file_size' = cur_file_size - size
    /\ cur_pipe_ofs' = cur_pipe_ofs + size

\* Mutant: the next buffer starts with the piece just added.
FillBuffer_start ==
    /\ pc = "inner" /\ cur_file_size > cur_pipe_buffer_size
    /\ Piece(cur_pipe_buffer_size)
    /\ p_segments' =
          Append([p_segments EXCEPT ![LastPipe] = @ + 1], 0)
    /\ p_segments_start' = Append(p_segments_start, Len(pieces))
    /\ cur_pipe_buffer_size' = pipeline_size_
    /\ cur_mem_offset' = 0
    /\ UNCHANGED <<request, pipeline_size_, cur_file_index, pc>>

\* The segment is larger than the room that is left: fill the buffer with
\* its first bytes and begin the next one.
FillBuffer ==
    /\ pc = "inner" /\ cur_file_size > cur_pipe_buffer_size
    /\ Piece(cur_pipe_buffer_size)
    /\ p_segments' =
          Append([p_segments EXCEPT ![LastPipe] = @ + 1], 0)
    /\ p_segments_start' = Append(p_segments_start, Len(pieces) + 1)
    /\ cur_pipe_buffer_size' = pipeline_size_
    /\ cur_mem_offset' = 0
    /\ UNCHANGED <<request, pipeline_size_, cur_file_index, pc>>

\* The rest of the segment fits into the buffer.
ConsumeSegment ==
    /\ pc = "inner" /\ 0 < cur_file_size
    /\ cur_file_size <= cur_pipe_buffer_size
    /\ Piece(cur_file_size)
    /\ p_segments' = [p_segments EXCEPT ![LastPipe] = @ + 1]
    /\ cur_pipe_buffer_size' = cur_pipe_buffer_size - cur_file_size
    /\ cur_mem_offset' = cur_mem_offset + cur_file_size
    /\ cur_file_index' = cur_file_index + 1
    /\ UNCHANGED <<request, pipeline_size_, p_segments_start, pc>>

\* The inner loop ends with its segment.
EndSegment ==
    /\ pc = "inner" /\ cur_file_size = 0
    /\ pc' = "outer"
    /\ UNCHANGED <<request, pipeline_size_, cur_pipe_ofs, cur_file_index,
                   cur_file_size, cur_file_start, cur_pipe_buffer_size,
                   cur_mem_offset, pieces, p_segments, p_segments_start>>

Return ==
    /\ pc = "outer" /\ cur_pipe_ofs >= total_bytes_
    /\ pc' = "done"
    /\ UNCHANGED <<request, pipeline_size_, cur_pipe_ofs, cur_file_index,
                   cur_file_size, cur_file_start, cur_pipe_buffer_size,
                   cur_mem_offset, pieces, p_segments, p_segments_start>>

\* The method has returned.
Terminated == pc = "done" /\ UNCHANGED vars

Next ==
    \/ NextSegment \/ FillBuffer \/ ConsumeSegment \/ EndSegment \/ Return
    \/ Terminated

\* The loops run on one thread, which the system schedules.
Spec == Init /\ [][Next]_vars /\ WF_vars(Next)

-----------------------------------------------------------------------------

PieceType == [size : Nat, start : Nat, mem : Nat]

\* Every variable has its type, the index of the current segment and the
\* lists of pieces stay inside the arrays of the request and of each other.
TypeOK ==
    /\ cur_pipe_ofs \in Nat /\ cur_file_index \in 0..request.count
    /\ cur_file_size \in Nat /\ cur_file_start \in Nat
    /\ cur_pipe_buffer_size \in Nat /\ cur_mem_offset \in Nat
    /\ pieces \in Seq(PieceType)
    /\ p_segments \in Seq(Nat) /\ p_segments # <<>>
    /\ p_segments_start \in Seq(Nat)
    /\ Len(p_segments_start) = Len(p_segments)
    /\ pc \in {"outer", "inner", "done"}

\* What execPipelineIO does with the arrays: the pieces of buffer i (from 0)
\* are p_segments[i] pieces from index p_segments_start[i] on.
PiecesOf(i) ==
    {pieces[p_segments_start[i + 1] + j] : j \in 1..p_segments[i + 1]}

total_pipeline_ops_ == (total_bytes_ + pipeline_size_ - 1) \div pipeline_size_

\* The bytes that recvPipelineBuffer puts into buffer i.
BufferBytes(i) ==
    LET rest == total_bytes_ - i * pipeline_size_ IN
    IF rest < pipeline_size_ THEN rest ELSE pipeline_size_

\* Byte b of the transfer belongs at offset f of the file.
FileOffset(b, f) ==
    \E k \in 1..request.count :
       /\ request.before[k - 1] <= b /\ b < request.before[k]
       /\ f = request.starts[k] + (b - request.before[k - 1])

\* The cut is exact.  There are as many buffers as decodeInputParams
\* allocates, and in each of them every byte that was received belongs to
\* exactly one piece, which writes it where the request wants that byte of
\* the transfer to be.  A piece never reaches past the data of its buffer, also
\* not while the loops run.
SegmentsExact ==
    /\ TypeOK
    /\ cur_mem_offset + cur_pipe_buffer_size = pipeline_size_
    /\ \A j \in DOMAIN pieces :
          pieces[j].mem + pieces[j].size <= pipeline_size_
    /\ pc = "done" /\ total_bytes_ > 0 =>
          /\ Len(p_segments) = total_pipeline_ops_
          /\ \A i \in 0..(total_pipeline_ops_ - 1) :
                /\ \A b \in 0..(BufferBytes(i) - 1) :
                      LET At == {p \in PiecesOf(i) :
                                   p.mem <= b /\ b < p.mem + p.size} IN
                      \E p \in At :
                         /\ At = {p}
                         /\ FileOffset(i * pipeline_size_ + b,
                                       p.start + (b - p.mem))
                /\ \A p \in PiecesOf(i) : p.mem + p.size <= BufferBytes(i)

\* "while there is still data to process in this op" (WriteTaskSM.cpp:182,
\* ReadTaskSM.cpp:102): the loops end when the data of the request is
\* processed.
Terminates == <>(pc = "done")

=============================================================================
