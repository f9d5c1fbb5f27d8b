----------------------------- MODULE Forwarding -----------------------------
(***************************************************************************)
(* A call from the application to the file system and back: the threads of *)
(* the client processes (zoidfs/client/zoidfsclient.c), BMI, the server's   *)
(* front end (BMIFrontEnd) and the tasks it starts.                        *)
(*                                                                         *)
(* Messages other than unexpected ones are matched by address and tag only: *)
(* one queue each way per process and tag.  A message of at most EagerLimit *)
(* bytes is sent when it was handed to BMI, a longer one when the receiver  *)
(* took it.  A task stands for the machine of iofwd/tasksm that serves the  *)
(* request (the moves of a WriteTaskSM or ReadTaskSM are in TaskSM).        *)
(*                                                                         *)
(* A value is symbolic, <<call, name>>, so that an argument of one call     *)
(* never passes for one of another.  BMI may fail a client's allocation,    *)
(* its request, a transfer of data and the receive of the reply; then the  *)
(* rest of the call's messages is lost.                                    *)
(***************************************************************************)
EXTENDS BMIFrontEnd, ZoidfsOps, ForwardedCalls

CONSTANTS Threads,     \* client threads
          Processes,   \* client processes
          Scenarios,   \* name -> [calls, max, proc, stray, stops]: the calls of each
                       \* thread, how many it makes, its process, messages of others,
                       \* and whether the server may shut down
          MaxCalls,    \* bound on the calls of a thread
          EagerLimit,
          GIVEN        \* stands for an argument in a template

VARIABLES scenario,
          tag,         \* thread -> its tag, 0 before its first call
          next_tag,    \* process -> last tag given out
          cl,          \* thread -> its call in progress
          toServer, toClient,   \* BMI: <<process, tag>> -> data and replies
          lost,        \* calls whose reply BMI drops
          tasks        \* call -> the task that serves it

clVars == <<scenario, tag, next_tag, cl, toServer, toClient, lost, tasks>>
vars == <<feVars, avars, clVars>>

proc == Scenarios[scenario].proc

Keys == Processes \X (0..ZOIDFS_BMI_MAXTAG)
Key(t) == <<proc[t], tag[t]>>
Id(t) == <<t, cl[t].n>>

NoCall == [pc |-> "idle", n |-> 0, op |-> "null", args |-> <<>>,
           f |-> Client(ZFS_OK, <<>>, <<>>),    \* what the function does with args
           at |-> [start |-> 0, mem |-> 1, ofs |-> 0], data |-> <<>>]

Init ==
  /\ FEInit /\ AInit
  /\ scenario \in DOMAIN Scenarios
  /\ arrived = Scenarios[scenario].stray
  /\ tag = [t \in Threads |-> 0] /\ next_tag = [p \in Processes |-> 1]
  /\ cl = [t \in Threads |-> NoCall]
  /\ toServer = [k \in Keys |-> <<>>] /\ toClient = [k \in Keys |-> <<>>]
  /\ lost = {} /\ tasks = <<>>

-----------------------------------------------------------------------------
(* Calls.                                                                   *)

Specs == {"spec", "from", "to"}
Value(v, id, x) == IF v = GIVEN THEN <<id, x>> ELSE v

Arguments(tpl, id) ==
  [x \in DOMAIN tpl |-> IF x \in Specs
                        THEN [y \in DOMAIN tpl[x] |-> Value(tpl[x][y], id, <<x, y>>)]
                        ELSE Value(tpl[x], id, x)]

\* What the caller of an operation gives and gets, by the documented API.
Inputs(op) ==
  CASE op = "null" -> {}
    [] op = "getattr" -> {"handle", "attr"}
    [] op = "setattr" -> {"handle", "sattr", "attr"}
    [] op = "readlink" -> {"handle", "buffer_length"}
    [] op = "commit" -> {"handle"}
    [] op \in {"lookup", "remove"} -> {"spec"}
    [] op \in {"create", "mkdir"} -> {"spec", "sattr"}
    [] op \in {"rename", "link"} -> {"from", "to"}
    [] op = "symlink" -> {"from", "to", "sattr"}
    [] op = "readdir" -> {"handle", "cookie", "entry_count", "flags"}
    [] op = "resize" -> {"handle", "size"}
    [] op \in {"write", "read"} -> {"handle", "file_starts", "file_sizes"}

Outputs(op, a) ==
  CASE op \in {"null", "commit", "resize"} -> {}
    [] op \in {"getattr", "setattr"} -> {"attr"}
    [] op = "readlink" -> {"buffer"}
    [] op = "lookup" -> {"handle"}
    [] op = "create" -> {"handle", "created"}
    [] op = "mkdir" -> {"parent_hint"}
    [] op = "remove" -> IF a.parent_hint = NULL THEN {} ELSE {"parent_hint"}
    [] op \in {"rename", "link", "symlink"} -> {"from_parent_hint", "to_parent_hint"}
    [] op = "readdir" -> {"entry_count", "entries", "parent_hint"}
    [] op \in {"write", "read"} -> {"file_sizes"}

\* A full path takes precedence over a parent handle and a name below it.
Named(s) == IF s.full_path # NULL
            THEN [s EXCEPT !.parent_handle = NULL, !.component_name = NULL] ELSE s

\* The link's text and its terminating zero, but no more than a path can have.
LinkLength(n) == IF n > ZOIDFS_PATH_MAX THEN ZOIDFS_PATH_MAX + 1 ELSE n + 1

Meant(op, a) ==
  [op |-> op,
   args |-> [x \in Inputs(op) |-> IF x \in Specs THEN Named(a[x])
                                  ELSE IF x = "buffer_length" THEN LinkLength(a[x])
                                  ELSE a[x]]]

EmptyTransfer(op, a) == op \in {"write", "read"} /\ (a.mem_sizes = <<>> \/ a.file_sizes = <<>>)
ValidCall(op, a) ==
  /\ \A x \in DOMAIN a \ {"parent_hint"} : a[x] # NULL
  /\ \A x \in DOMAIN a \cap Specs : a[x].full_path # NULL
                                    \/ (a[x].parent_handle # NULL /\ a[x].component_name # NULL)
  /\ op = "readdir" => a.entry_count > 0
  /\ op \in {"write", "read"} => \A i \in DOMAIN a.mem_starts : a.mem_starts[i] # NULL

Question(op, a) ==
  IF ~ValidCall(op, a)
  THEN [call |-> NULL, outputs |-> {}, executable |-> FALSE, local |-> {ZFSERR_OTHER, ZFSERR_MISC}]
  ELSE IF EmptyTransfer(op, a)
  THEN [call |-> NULL, outputs |-> {}, executable |-> FALSE, local |-> {ZFS_OK}]
  ELSE [call |-> Meant(op, a), outputs |-> Outputs(op, a), executable |-> TRUE,
        local |-> {ZFSERR_OTHER, ZFSERR_MISC, ZFSERR_XDR}]

-----------------------------------------------------------------------------
(* The client library.  Every call has the same steps; what it sends and    *)
(* decodes is in ZoidfsOps.                                                 *)

Transfers(op) == op \in {"write", "read"}

\* The call returns: both buffers are freed.
Returns(t, status, out) ==
  /\ cl' = [cl EXCEPT ![t] = [NoCall EXCEPT !.n = cl[t].n]]
  /\ returned' = Extend(returned, Id(t), [status |-> status, out |-> out])

\* The macros ZOIDFS_SEND_MSG_INIT and ZOIDFS_RECV_MSG_INIT: gen_tag gives a thread
\* its tag on its first call.
gen_tag(t) ==
  IF tag[t] # 0 THEN UNCHANGED <<tag, next_tag>>
  ELSE /\ next_tag[proc[t]] + 1 < ZOIDFS_BMI_MAXTAG
       /\ next_tag' = [next_tag EXCEPT ![proc[t]] = @ + 1]
       /\ tag' = [tag EXCEPT ![t] = next_tag[proc[t]] + 1]

Invoke(t) ==
  /\ cl[t].pc = "idle" /\ cl[t].n < Scenarios[scenario].max
  /\ gen_tag(t)
  /\ \E tpl \in Scenarios[scenario].calls[t] :
       LET id == <<t, cl[t].n + 1>>
           a == Arguments(tpl.args, id)
       IN /\ asked' = Extend(asked, id, Question(tpl.op, a))
          /\ cl' = [cl EXCEPT ![t] = [NoCall EXCEPT !.pc = "start", !.n = cl[t].n + 1,
                                                    !.op = tpl.op, !.args = a,
                                                    !.f = zoidfs(tpl.op, a)]]
  /\ UNCHANGED <<feVars, executed, returned, scenario, toServer, toClient, lost, tasks>>

\* What a call returns when a buffer cannot be allocated.
AllocErrors(op) == IF op = "null" THEN {ZFSERR_MISC, ZFSERR_XDR} ELSE {ZFSERR_MISC}

\* The checks of the arguments, the allocation of both buffers, and
\* ZOIDFS_BMI_COMM_SENDU of the encoded request.
Start(t) ==
  /\ cl[t].pc = "start"
  /\ LET f == cl[t].f
     IN \/ /\ f.error # ZFS_OK
           /\ Returns(t, f.error, <<>>) /\ UNCHANGED arrived
        \/ /\ f.error = ZFS_OK /\ f.send = <<>>
           /\ Returns(t, ZFS_OK, <<>>) /\ UNCHANGED arrived
        \/ /\ f.error = ZFS_OK /\ f.send # <<>>
           /\ \/ \E e \in AllocErrors(cl[t].op) \cup {ZFSERR_OTHER} :   \* or BMI fails
                   Returns(t, e, <<>>) /\ UNCHANGED arrived
              \/ /\ arrived' = Append(arrived, [addr |-> proc[t], tag |-> tag[t], id |-> Id(t),
                                                fields |-> f.send])
                 /\ cl' = [cl EXCEPT ![t].pc = IF Transfers(cl[t].op) THEN "data" ELSE "recv"]
                 /\ UNCHANGED returned
  /\ UNCHANGED <<ue_ready_, ue_clientlist_, ue_sequence_, ue_dequeue_lock_, info_,
                 stop_, unexpected_handle_, thr, requests, asked, executed, scenario, tag, next_tag,
                 toServer, toClient, lost, tasks>>

\* The bytes of the pieces of a chunk, in the order they travel.
Bytes(pieces) ==
  LET first[n \in 0..Len(pieces)] ==
        IF n = 0 THEN <<>>
        ELSE first[n - 1] \o [k \in 1..pieces[n].size |-> <<pieces[n].mem, pieces[n].ofs + k - 1>>]
  IN first[Len(pieces)]

Chunk(t) == ClientChunk(cl[t].args, cl[t].at)

\* bmi_comm_send, bmi_comm_send_list: the next chunk of a write.
SendData(t) ==
  /\ cl[t].pc = "data" /\ cl[t].op = "write"
  /\ \E chunk \in {Chunk(t)} : \E bytes \in {Bytes(chunk.pieces)} :
       /\ toServer' = [toServer EXCEPT ![Key(t)] =
                         Append(@, [i \in DOMAIN bytes |-> <<Id(t), bytes[i]>>])]
       /\ cl' = [cl EXCEPT ![t].pc = "sending", ![t].at = chunk.next]
  /\ UNCHANGED <<feVars, avars, scenario, tag, next_tag, toClient, lost, tasks>>

MoreOrReply(t) ==
  IF cl[t].at.start < Total(cl[t].args.mem_sizes) THEN "data" ELSE "recv"

DataSent(t) ==
  /\ cl[t].pc = "sending"
  /\ \A i \in DOMAIN toServer[Key(t)] : Len(toServer[Key(t)][i]) <= EagerLimit
  /\ cl' = [cl EXCEPT ![t].pc = MoreOrReply(t)]
  /\ UNCHANGED <<feVars, avars, scenario, tag, next_tag, toServer, toClient, lost, tasks>>

\* bmi_comm_recv, bmi_comm_recv_list: the next chunk of a read.  data is what was
\* received: for each byte, where in memory it went.
ReceiveData(t) ==
  /\ cl[t].pc = "data" /\ cl[t].op = "read"
  /\ toClient[Key(t)] # <<>>
  /\ \E chunk \in {Chunk(t)}, m \in {Head(toClient[Key(t)])} :
       \E bytes \in {Bytes(chunk.pieces)} :
         cl' = [cl EXCEPT ![t].at = chunk.next,
                          ![t].data = @ \o [i \in 1..AtMost(Len(m), Len(bytes)) |-> <<m[i], bytes[i]>>],
                          ![t].pc = IF chunk.next.start < Total(cl[t].args.mem_sizes)
                                    THEN "data" ELSE "recv"]
  /\ toClient' = [toClient EXCEPT ![Key(t)] = Tail(@)]
  /\ UNCHANGED <<feVars, avars, scenario, tag, next_tag, toServer, lost, tasks>>

\* A send or a receive of data fails: the call returns and does not wait for the
\* reply.  A send that had begun may have reached the server.  Only a thread's last
\* call fails so, see ReceiveFails.
DataFails(t) ==
  /\ cl[t].pc \in {"data", "sending"} /\ cl[t].n = Scenarios[scenario].max
  /\ Returns(t, ZFSERR_OTHER, <<>>)
  /\ \/ UNCHANGED toServer
     \/ /\ cl[t].pc = "sending" /\ toServer[Key(t)] # <<>>
        /\ toServer' = [toServer EXCEPT ![Key(t)] = Front(@)]
  /\ UNCHANGED <<feVars, asked, executed, scenario, tag, next_tag, toClient, lost, tasks>>

\* ZOIDFS_BMI_COMM_RECV and the decoding of the reply: the status, then the outputs
\* if it is ZFS_OK.
ReceiveReply(t) ==
  /\ cl[t].pc = "recv"
  /\ toClient[Key(t)] # <<>>
  /\ \E fields \in {Head(toClient[Key(t)])} :
       \E status \in {ReplyReader(fields, << <<"ZFS_OP_STATUS_T", "op_status">> >>)},
          out \in {ReplyReader(Tail(fields), cl[t].f.recv)} :
         IF ~status.ok THEN Returns(t, ZFSERR_XDR, <<>>)
         ELSE IF status.vals.op_status # ZFS_OK THEN Returns(t, status.vals.op_status, <<>>)
         ELSE IF out.ok THEN Returns(t, ZFS_OK, out.vals)
         ELSE Returns(t, ZFSERR_XDR, <<>>)
  /\ toClient' = [toClient EXCEPT ![Key(t)] = Tail(@)]
  /\ UNCHANGED <<feVars, asked, executed, scenario, tag, next_tag, toServer, lost, tasks>>

\* The receive fails and the reply, sent already or not, is lost with it.  Only a
\* thread's last call fails so: the next one would use the same tag while the server
\* still works on this one, which BMI may or may not keep apart.
ReceiveFails(t) ==
  /\ cl[t].pc = "recv" /\ cl[t].n = Scenarios[scenario].max
  /\ Returns(t, ZFSERR_OTHER, <<>>)
  /\ IF toClient[Key(t)] = <<>>
     THEN lost' = lost \cup {Id(t)} /\ UNCHANGED toClient
     ELSE toClient' = [toClient EXCEPT ![Key(t)] = <<>>] /\ UNCHANGED lost
  /\ UNCHANGED <<feVars, asked, executed, scenario, tag, next_tag, toServer, tasks>>

ClientStep(t) == Start(t) \/ SendData(t) \/ DataSent(t) \/ ReceiveData(t)
                 \/ ReceiveReply(t)

-----------------------------------------------------------------------------
(* The tasks.                                                               *)

\* DefRequestHandler::handleRequest starts the task, whose first step decodes the
\* parameters.
HandleRequest(m) ==
  /\ requests' = requests \ {m}
  /\ \E opid \in {Head(m.fields).v} :
       \E param \in {XDRReader(Tail(m.fields), map_(opid).params)} :
         tasks' = Extend(tasks, m.id,
           [pc |-> IF ~param.ok THEN "misread" ELSE IF opid = 13 THEN "recv" ELSE "run",
            addr |-> m.addr, tag |-> m.tag, opid |-> opid,
            p |-> param.vals, reply |-> map_(opid).reply,
            done |-> 0, data |-> <<>>, status |-> ZFS_OK])
  /\ UNCHANGED <<arrived, ue_ready_, ue_clientlist_, ue_sequence_, ue_dequeue_lock_,
                 info_, stop_, unexpected_handle_, thr, avars, scenario, tag, next_tag, cl,
                 toServer, toClient, lost>>

PeerKey(id) == <<tasks[id].addr, tasks[id].tag>>

\* recvBuffers, recvPipelineBufferCB: the next buffer of a write.
TaskReceives(id) ==
  /\ tasks[id].pc = "recv" /\ toServer[PeerKey(id)] # <<>>
  /\ LET n == ServerChunk(tasks[id].p, tasks[id].done)
         m == Head(toServer[PeerKey(id)])
         done == tasks[id].done + n
     IN tasks' = [tasks EXCEPT ![id].data = @ \o SubSeq(m, 1, AtMost(n, Len(m))),
                               ![id].done = done,
                               ![id].pc = IF done < Total(tasks[id].p.mem_sizes)
                                          THEN "recv" ELSE "run"]
  /\ toServer' = [toServer EXCEPT ![PeerKey(id)] = Tail(@)]
  /\ UNCHANGED <<feVars, avars, scenario, tag, next_tag, cl, toClient, lost>>

\* The call of the back end and its status.
TaskRuns(id) ==
  /\ tasks[id].pc = "run"
  /\ \E status \in {ZFS_OK, "ZFSERR_NOENT"} :
       /\ executed' = Extend(executed, id, [call |-> TaskSMFactory(tasks[id].opid, tasks[id].p),
                                            status |-> status])
       /\ tasks' = [tasks EXCEPT ![id].status = status,
                                 ![id].pc = IF tasks[id].opid = 14 THEN "data" ELSE "reply"]
  /\ UNCHANGED <<feVars, asked, returned, scenario, tag, next_tag, cl, toServer, toClient, lost>>

\* sendBuffers, sendPipelineBufferCB: the next buffer of a read, whatever the status.
TaskSends(id) ==
  /\ tasks[id].pc = "data"
  /\ LET n == ServerChunk(tasks[id].p, tasks[id].done)
     IN /\ toClient' = [toClient EXCEPT ![PeerKey(id)] =
                           Append(@, [i \in 1..n |-> <<id, tasks[id].done + i>>])]
        /\ tasks' = [tasks EXCEPT ![id].done = @ + n, ![id].pc = "sending"]
  /\ UNCHANGED <<feVars, avars, scenario, tag, next_tag, cl, toServer, lost>>

TaskSent(id) ==
  /\ tasks[id].pc = "sending"
  /\ \A i \in DOMAIN toClient[PeerKey(id)] : Len(toClient[PeerKey(id)][i]) <= EagerLimit
  /\ tasks' = [tasks EXCEPT ![id].pc = IF tasks[id].done < Total(tasks[id].p.mem_sizes)
                                       THEN "data" ELSE "reply"]
  /\ UNCHANGED <<feVars, avars, scenario, tag, next_tag, cl, toServer, toClient, lost>>

\* simpleReply and simpleOptReply: the status, and the outputs if it is ZFS_OK.
ReplyFields(id) ==
  << Field("int32_t", tasks[id].status) >> \o
  IF tasks[id].status # ZFS_OK THEN <<>>
  ELSE [i \in DOMAIN tasks[id].reply |->
          Field(tasks[id].reply[i][1], Output(id, tasks[id].reply[i][2]))]

\* The task replies to the address and tag the request came from and is deleted
\* with its request.
TaskReplies(id) ==
  /\ tasks[id].pc = "reply"
  /\ IF id \in lost THEN lost' = lost \ {id} /\ UNCHANGED toClient
     ELSE toClient' = [toClient EXCEPT ![PeerKey(id)] = Append(@, ReplyFields(id))]
          /\ UNCHANGED lost
  /\ tasks' = [i \in DOMAIN tasks \ {id} |-> tasks[i]]
  /\ UNCHANGED <<feVars, avars, scenario, tag, next_tag, cl, toServer>>

TaskStep(id) == TaskReceives(id) \/ TaskRuns(id) \/ TaskSends(id) \/ TaskSent(id)
                \/ TaskReplies(id)

-----------------------------------------------------------------------------
FrontEnd(h) == FEStep(h) /\ UNCHANGED <<avars, clVars>>

\* IOFWDMain::shutdown.
Shutdown(h) == Scenarios[scenario].stops /\ FEShutdown(h) /\ UNCHANGED <<avars, clVars>>

Ids == Threads \X (1..MaxCalls)

Next ==
  \/ \E t \in Threads : Invoke(t) \/ ClientStep(t) \/ DataFails(t) \/ ReceiveFails(t)
  \/ \E h \in FEThreads : FrontEnd(h) \/ Shutdown(h)
  \/ \E m \in requests : HandleRequest(m)
  \/ \E id \in DOMAIN tasks : TaskStep(id)
  \/ thr["main"].pc = "destroyed" /\ UNCHANGED vars

Spec == Init /\ [][Next]_vars

\* Client threads and the server's threads keep running; BMI completes what it can.
\* Nothing makes a thread call, and nothing makes a transfer or a receive fail.
Fairness ==
  /\ \A t \in Threads : WF_vars(ClientStep(t))
  /\ \A h \in FEThreads : WF_vars(FrontEnd(h))
  /\ WF_vars(\E m \in requests : HandleRequest(m))
  /\ \A id \in Ids : WF_vars(id \in DOMAIN tasks /\ TaskStep(id))

FairSpec == Spec /\ Fairness

-----------------------------------------------------------------------------
(* Properties.                                                              *)

\* A forwarded call is executed at most once, with the arguments the caller gave,
\* and the caller gets the outcome of its own call: the client's encoding, the
\* server's decoding, the task's call, the reply's encoding and its decoding
\* compose to what ForwardedCalls says, for every operation, however the messages
\* of threads and processes that share tags interleave.
ImplementsCalls == Calls

\* All the bytes of a segment list, in order.
AllBytes(sizes) == Bytes(WholeTransfer(sizes, NoCall.at).pieces)

\* A write reaches the file system with every byte of the caller's memory in place,
\* and a read fills every byte of it with the right byte of the file: the chunks
\* that the client cuts (zoidfs_write_pipeline, zoidfs_read_pipeline) are those that
\* the server's machines post, and no chunk is taken for one of another call.
TransfersExact ==
  /\ \A id \in DOMAIN tasks :
       tasks[id].opid = 13 /\ tasks[id].pc \in {"run", "reply"} =>
          tasks[id].data = LET all == AllBytes(tasks[id].p.mem_sizes)
                           IN [i \in DOMAIN all |-> <<id, all[i]>>]
  /\ \A t \in Threads :
       cl[t].pc = "recv" /\ cl[t].op = "read" =>
          cl[t].data = LET all == AllBytes(cl[t].args.mem_sizes)
                       IN [i \in DOMAIN all |-> << <<Id(t), i>>, all[i]>>]

\* Every call returns, unless the server shuts down: no order of rendezvous sends,
\* data chunks, replies and front end callbacks leaves a client thread and the
\* server waiting for each other.
EventuallyReturned ==
  (\E t \in Threads : cl[t].pc # "idle") ~> (stop_ \/ \A t \in Threads : cl[t].pc = "idle")
=============================================================================
