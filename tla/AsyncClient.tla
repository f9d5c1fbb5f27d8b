---------------------------- MODULE AsyncClient ----------------------------
(***************************************************************************)
(* The asynchronous client (iofwdclient) over the RPC client (rpc) and the *)
(* BMI streams (net/bmi): ASClient and SyncClient start a call, CBClient   *)
(* builds its two state machines, the machine of the operation (...ClientSM)*)
(* and the machine of its transport (RPCServerSM), and RequestTracker lets *)
(* the application wait for the result.                                    *)
(*                                                                         *)
(* Three kinds of threads run the machines: the application's thread while *)
(* it is in cb... (), the BMI thread that calls the callbacks of sends and *)
(* receives, and, unless poll_ is set, the threads of the pool.  A slot's  *)
(* wait and its callback are one step each; the module SimpleSM shows that *)
(* they may be.  A call is named by its thread and number, <<t, i>>.       *)
(*                                                                         *)
(* A reference count is the set of those who hold a reference: the object  *)
(* is deleted by the step that empties the set.                            *)
(***************************************************************************)
EXTENDS Integers, Sequences, FiniteSets

CONSTANTS
    Threads,
    Programs,        \* the calls of the threads, each with its operation, whether it
                     \* blocks, a bound on its request_tests and the packets of its reply
    RPC_TAG_COUNT

ASSUME TagAssumption == RPC_TAG_COUNT \in Nat \ {0}

VARIABLES
    program,
    poll_,               \* CBClient::poll_: a callback runs its machine itself
    thr,                 \* the threads of the application
    status_list_lock_,   \* the thread that holds it, or "none"
    req,                 \* the IOFWDRequest of a call
    csm,                 \* its ...ClientSM, with CBSMWrapper and RPCComm...SM
    ssm,                 \* its RPCServerSM
    rpc,                 \* its rpc::RPCClient and the two streams
    next_outgoing_tag    \* of the one server, from RPC_TAG_OUTGOING_START; -1: no record

vars == <<program, poll_, thr, status_list_lock_, req, csm, ssm, rpc, next_outgoing_tag>>

Calls == UNION {{<<t, i>> : i \in 1..Len(program[t])} : t \in Threads}
Current(t) == <<t, thr[t].i>>
Kind(c) == program[c[1]][c[2]]
None == "none"
NoCall == <<>>
NoReply == [ret |-> None, at |-> None]

\* What is left of an object that does not exist yet or was deleted.
NoMachine == [at |-> "off", next |-> None, slot |-> "FREE", exec |-> None, refs |-> {},
              out_ |-> NoCall]
NoRPC == [tag |-> -1, send |-> "no", in_ready_ |-> FALSE, in_ready_cb_ |-> FALSE,
          body |-> "no", got |-> NoCall, reply |-> NoReply]

----------------------------------------------------------------------------
(* The outputs that waitRPCServerSM of each machine copies to the caller.   *)
(* ReadLinkClientSM assigns the text to its own member buffer_ and          *)
(* ReadDirClientSM does not return the number of entries; the entries are   *)
(* in the caller's array when the reply is decoded, one step earlier.       *)

CommitClientSM == {}
LookupClientSM == {"handle"}
CreateClientSM == {"handle", "created"}
GetAttrClientSM == {"attr"}
SetAttrClientSM == {"attr"}
ReadLinkClientSM == {}
RemoveClientSM == {"parent_hint"}
MkdirClientSM == {"parent_hint"}
RenameClientSM == {"from_parent_hint", "to_parent_hint"}
LinkClientSM == {"from_parent_hint", "to_parent_hint"}
SymLinkClientSM == {"from_parent_hint", "to_parent_hint"}
ReadDirClientSM == {"entries", "parent_hint"}

ClientSM ==
  [commit |-> CommitClientSM, lookup |-> LookupClientSM, create |-> CreateClientSM,
   getattr |-> GetAttrClientSM, setattr |-> SetAttrClientSM, readlink |-> ReadLinkClientSM,
   remove |-> RemoveClientSM, mkdir |-> MkdirClientSM, rename |-> RenameClientSM,
   link |-> LinkClientSM, symlink |-> SymLinkClientSM, readdir |-> ReadDirClientSM]

ASSUME ProgramsAssumption ==
  Programs \subseteq [Threads -> Seq([op : DOMAIN ClientSM, sync : BOOLEAN,
                                      packets : {1, 2}, tests : Nat])]

----------------------------------------------------------------------------
(* Slots and references of a machine m.                                     *)

\* slots_[BASE_SLOT]: the slot waits and keeps the machine alive.
Arm(m) == [m EXCEPT !.slot = "WAITING", !.refs = @ \cup {"slot"}]

\* Mutant: callbackhelper drops the reference before it resumes the machine.
Callback_released(m, ex) ==
  IF m.slot = "WAITING"
  THEN [m EXCEPT !.slot = "COMPLETED", !.refs = @ \ {"slot"}]
  ELSE [m EXCEPT !.slot = "FREE", !.exec = IF poll_ THEN ex ELSE "pool",
                 !.at = IF poll_ THEN "run" ELSE "queued",
                 !.refs = (@ \ {"slot"}) \cup (IF poll_ THEN {} ELSE {"pool"})]

\* The callback of the slot, called by thread ex.  Before the machine waits
\* the callback is only noted.  After, the machine is resumed: at once by ex,
\* which holds a reference until callbackhelper returns, or by the pool.
Callback(m, ex) ==
  IF m.slot = "WAITING"
  THEN [m EXCEPT !.slot = "COMPLETED", !.refs = @ \ {"slot"}]
  ELSE LET runner == IF poll_ THEN ex ELSE "pool"
       IN [m EXCEPT !.slot = "FREE", !.exec = runner,
                    !.at = IF poll_ THEN "run" ELSE "queued",
                    !.refs = (@ \ {"slot"}) \cup {runner}]

\* execute () returns and its caller drops its reference.
Leave(m) == [m EXCEPT !.at = "off", !.exec = None, !.refs = @ \ {m.exec}]

\* slots_.wait: the machine goes on if the callback already came, else it sleeps.
Wait(m) ==
  IF m.slot = "COMPLETED" THEN [m EXCEPT !.slot = "FREE", !.at = "run"]
  ELSE [Leave(m) EXCEPT !.slot = "WAITNEXT"]

\* The deletion of the ...ClientSM deletes its comm_, which drops server_sm_.
SetMachines(c, cm, sm) ==
  /\ csm' = [csm EXCEPT ![c] = cm]
  /\ ssm' = [ssm EXCEPT ![c] = IF cm.refs = {} THEN [sm EXCEPT !.refs = @ \ {"comm"}] ELSE sm]

\* The one thread of BMI is inside a callback.
BMIBusy == \E c \in Calls : "bmi" \in {csm[c].exec, ssm[c].exec}

----------------------------------------------------------------------------
Init ==
  /\ program \in Programs
  /\ poll_ \in BOOLEAN
  /\ thr = [t \in Threads |-> [pc |-> "idle", i |-> 1, tests |-> 0, timeout |-> None, ok |-> {},
                             returned |-> {}]]
  /\ status_list_lock_ = None
  /\ req = [c \in Calls |-> [status |-> "DONE", ret |-> "ZFS_OK", outs |-> {}, by |-> NoCall]]
  /\ csm = [c \in Calls |-> NoMachine]
  /\ ssm = [c \in Calls |-> NoMachine]
  /\ rpc = [c \in Calls |-> NoRPC]
  /\ next_outgoing_tag = -1

----------------------------------------------------------------------------
(* The application's thread starts a call.                                  *)

\* Mutant: every connection to a server gets the first tag.
getTag_first == [tag |-> 0, next |-> 1]

\* BMIConnector::getTag.  The first tag is not compared with the end of the range.
getTag ==
  IF next_outgoing_tag = -1 THEN [tag |-> 0, next |-> 1]
  ELSE [tag |-> next_outgoing_tag,
        next |-> IF next_outgoing_tag + 1 >= RPC_TAG_COUNT - 1 THEN 0 ELSE next_outgoing_tag + 1]

\* A new request is complete until i... () says otherwise.
newRequest == [status |-> "NONE", ret |-> "ZFS_OK", outs |-> {}, by |-> NoCall]

\* rpcConnect: the streams give and take back their first buffer at once, so
\* the header is written, the receive of the reply posted and the output ready
\* before the constructor returns.
RPCClient == [NoRPC EXCEPT !.tag = getTag.tag]

\* RPCServerSM until it has posted its flush, and is about to wait for it.
server_sm == [Arm([NoMachine EXCEPT !.refs = {"comm"}]) EXCEPT
                !.at = "wait", !.next = "waitFlush", !.exec = "app"]

\* The ...ClientSM, in connect: cb... () and the wrapper hold it.
client_sm == [Arm([NoMachine EXCEPT !.refs = {"local", "wrapper"}]) EXCEPT
                !.at = "wait", !.next = "waitRPCServerSM", !.exec = "app"]

\* i... () and cb... () of the current call of t, until the flush is posted.
call(t) ==
  /\ thr[t].pc = "idle" /\ thr[t].i <= Len(program[t])
  /\ LET c == Current(t) IN
     /\ req' = [req EXCEPT ![c] = newRequest]
     /\ rpc' = [rpc EXCEPT ![c] = [RPCClient EXCEPT !.send = "posted"]]
     /\ csm' = [csm EXCEPT ![c] = client_sm]
     /\ ssm' = [ssm EXCEPT ![c] = server_sm]
  /\ next_outgoing_tag' = getTag.next
  /\ thr' = [thr EXCEPT ![t].pc = "calling"]
  /\ UNCHANGED <<program, poll_, status_list_lock_>>

\* cb... () and i... () return when the thread no longer runs a machine.
callReturns(t) ==
  /\ thr[t].pc = "calling"
  /\ LET c == Current(t) IN
     /\ "app" \notin {csm[c].exec, ssm[c].exec}
     /\ SetMachines(c, [csm[c] EXCEPT !.refs = @ \ {"local"}], ssm[c])
     /\ thr' = IF Kind(c).sync
               THEN [thr EXCEPT ![t].pc = "lock", ![t].timeout = "INF"]
               ELSE [thr EXCEPT ![t].pc = "issued"]
  /\ UNCHANGED <<program, poll_, status_list_lock_, req, rpc, next_outgoing_tag>>

----------------------------------------------------------------------------
(* RPCServerSM, run by ssm[c].exec.                                         *)

\* A thread of the pool takes a machine that was scheduled.
submitWorkUnit(c) ==
  /\ \/ ssm[c].at = "queued" /\ ssm' = [ssm EXCEPT ![c].at = "run"] /\ UNCHANGED csm
     \/ csm[c].at = "queued" /\ csm' = [csm EXCEPT ![c].at = "run"] /\ UNCHANGED ssm
  /\ UNCHANGED <<program, poll_, thr, status_list_lock_, req, rpc, next_outgoing_tag>>

serverWaits(c) ==
  /\ ssm[c].at = "wait"
  /\ ssm' = [ssm EXCEPT ![c] = Wait(ssm[c])]
  /\ UNCHANGED <<program, poll_, thr, status_list_lock_, req, csm, rpc, next_outgoing_tag>>

\* RPCClient::waitInReady: the callback is called at once or stored.
waitInReady(c) ==
  IF rpc[c].in_ready_
  THEN /\ ssm' = [ssm EXCEPT ![c] = [Callback(Arm(@), @.exec) EXCEPT !.at = "wait", !.next = "postDecodeData"]]
       /\ UNCHANGED rpc
  ELSE /\ ssm' = [ssm EXCEPT ![c] = [Arm(@) EXCEPT !.at = "wait", !.next = "postDecodeData"]]
       /\ rpc' = [rpc EXCEPT ![c].in_ready_cb_ = TRUE]

waitFlush(c) ==
  /\ ssm[c].at = "run" /\ ssm[c].next = "waitFlush"
  /\ waitInReady(c)
  /\ UNCHANGED <<program, poll_, thr, status_list_lock_, req, csm, next_outgoing_tag>>

\* BMIInputStream::read: what rewindInput left of the packet is read at once,
\* otherwise a receive is posted.
postDecodeData(c) ==
  /\ ssm[c].at = "run" /\ ssm[c].next = "postDecodeData"
  /\ IF rpc[c].body = "here"
     THEN /\ ssm' = [ssm EXCEPT ![c] = [Callback(Arm(@), @.exec) EXCEPT !.at = "wait", !.next = "waitDecodeData"]]
          /\ UNCHANGED rpc
     ELSE /\ ssm' = [ssm EXCEPT ![c] = [Arm(@) EXCEPT !.at = "wait", !.next = "waitDecodeData"]]
          /\ rpc' = [rpc EXCEPT ![c].body = "posted"]
  /\ UNCHANGED <<program, poll_, thr, status_list_lock_, req, csm, next_outgoing_tag>>

\* The reply is decoded into out_ of the ...ClientSM, whose slot is called back.
waitDecodeData(c) ==
  /\ ssm[c].at = "run" /\ ssm[c].next = "waitDecodeData"
  /\ ssm' = [ssm EXCEPT ![c].at = "end"]
  /\ csm' = [csm EXCEPT ![c] = Callback([@ EXCEPT !.out_ = rpc[c].got], ssm[c].exec)]
  /\ UNCHANGED <<program, poll_, thr, status_list_lock_, req, rpc, next_outgoing_tag>>

\* The callback has returned, and execute () with it.
serverEnds(c) ==
  /\ ssm[c].at = "end"
  /\ ssm[c].exec = "bmi" => csm[c].exec # "bmi"
  /\ ssm' = [ssm EXCEPT ![c] = Leave(@)]
  /\ UNCHANGED <<program, poll_, thr, status_list_lock_, req, csm, rpc, next_outgoing_tag>>

----------------------------------------------------------------------------
(* The ...ClientSM, run by csm[c].exec, and the callback of the request.    *)

\* connect has returned.
clientWaits(c) ==
  /\ csm[c].at = "wait" /\ ssm[c].exec # "app"
  /\ SetMachines(c, Wait(csm[c]), ssm[c])
  /\ UNCHANGED <<program, poll_, thr, status_list_lock_, req, rpc, next_outgoing_tag>>

\* The return code and the outputs, before the callback.
waitRPCServerSM(c) ==
  /\ csm[c].at = "run" /\ csm[c].next = "waitRPCServerSM"
  /\ req' = [req EXCEPT ![c].ret = rpc[csm[c].out_].reply.ret, ![c].by = csm[c].out_,
                        ![c].outs = ClientSM[Kind(c).op]]
  /\ csm' = [csm EXCEPT ![c].next = "updateStatus"]
  /\ UNCHANGED <<program, poll_, thr, status_list_lock_, ssm, rpc, next_outgoing_tag>>

\* The status is set without the lock.  The branch for an exception is not
\* reached: e.check () of waitRPCServerSM throws it before the callback.
updateStatus(c) ==
  /\ csm[c].at = "run" /\ csm[c].next = "updateStatus"
  /\ req' = [req EXCEPT ![c].status = "DONE"]
  /\ csm' = [csm EXCEPT ![c].next = "requestStatusChanged"]
  /\ UNCHANGED <<program, poll_, thr, status_list_lock_, ssm, rpc, next_outgoing_tag>>

notify_all == [t \in Threads |-> IF thr[t].pc = "asleep" THEN [thr[t] EXCEPT !.pc = "lock"] ELSE thr[t]]

\* Mutant: notify_all is called without the lock.
requestStatusChanged_unlocked(c) ==
  /\ csm[c].at = "run" /\ csm[c].next = "requestStatusChanged"
  /\ thr' = notify_all
  /\ csm' = [csm EXCEPT ![c].at = "end", ![c].refs = @ \ {"wrapper"}]
  /\ UNCHANGED <<program, poll_, status_list_lock_, req, ssm, rpc, next_outgoing_tag>>

\* The waiters are told under the lock, and cbWrapper deletes the wrapper.
requestStatusChanged(c) ==
  /\ csm[c].at = "run" /\ csm[c].next = "requestStatusChanged"
  /\ status_list_lock_ = None
  /\ thr' = notify_all
  /\ csm' = [csm EXCEPT ![c].at = "end", ![c].refs = @ \ {"wrapper"}]
  /\ UNCHANGED <<program, poll_, status_list_lock_, req, ssm, rpc, next_outgoing_tag>>

clientEnds(c) ==
  /\ csm[c].at = "end"
  /\ SetMachines(c, Leave(csm[c]), ssm[c])
  /\ UNCHANGED <<program, poll_, thr, status_list_lock_, req, rpc, next_outgoing_tag>>

----------------------------------------------------------------------------
(* The application waits for a request or frees it.                         *)

\* The timeout NOWAIT makes smartWait wait without a limit.
request_test(t) ==
  /\ thr[t].pc = "issued" /\ thr[t].tests < Kind(Current(t)).tests
  /\ \E timeout \in {"NOWAIT", "ms"} :
       thr' = [thr EXCEPT ![t].pc = "lock", ![t].timeout = timeout, ![t].tests = @ + 1]
  /\ UNCHANGED <<program, poll_, status_list_lock_, req, csm, ssm, rpc, next_outgoing_tag>>

\* RequestTracker::wait takes the lock, first and whenever it is woken.
lock(t) ==
  /\ thr[t].pc = "lock" /\ status_list_lock_ = None
  /\ status_list_lock_' = t
  /\ thr' = [thr EXCEPT ![t].pc = "check"]
  /\ UNCHANGED <<program, poll_, req, csm, ssm, rpc, next_outgoing_tag>>

\* The end of waitOp: the return code of the operation is not looked at, and
\* the ScopedRequest releases nothing.
waitOp(t) == [thr EXCEPT ![t].pc = "idle", ![t].i = @ + 1, ![t].timeout = None, ![t].ok = @ \cup {Current(t)},
                         ![t].returned = @ \cup {<<Current(t), "ZFS_OK">>}]

\* The status is read; the thread returns, or it is about to sleep.
check(t) ==
  /\ thr[t].pc = "check"
  /\ IF req[Current(t)].status = "NONE"
     THEN thr' = [thr EXCEPT ![t].pc = "sleep"] /\ UNCHANGED status_list_lock_
     ELSE /\ status_list_lock_' = None
          /\ thr' = IF Kind(Current(t)).sync THEN waitOp(t)
                    ELSE [thr EXCEPT ![t].pc = "issued", ![t].timeout = None, ![t].ok = @ \cup {Current(t)}]
  /\ UNCHANGED <<program, poll_, req, csm, ssm, rpc, next_outgoing_tag>>

\* The condition variable releases the lock and sleeps in one step.
smartWait(t) ==
  /\ thr[t].pc = "sleep"
  /\ status_list_lock_' = None
  /\ thr' = [thr EXCEPT ![t].pc = "asleep"]
  /\ UNCHANGED <<program, poll_, req, csm, ssm, rpc, next_outgoing_tag>>

\* The condition variable may wake a thread for no reason.
spuriousWakeup(t) ==
  /\ thr[t].pc = "asleep"
  /\ thr' = [thr EXCEPT ![t].pc = "lock"]
  /\ UNCHANGED <<program, poll_, status_list_lock_, req, csm, ssm, rpc, next_outgoing_tag>>

\* A timed wait ends, whatever the status is by then.  UINT_MAX milliseconds,
\* the timeout INF, are taken not to pass.
timedOut(t) ==
  /\ thr[t].pc = "asleep" /\ thr[t].timeout = "ms" /\ status_list_lock_ = None
  /\ thr' = [thr EXCEPT ![t].pc = "issued", ![t].timeout = None]
  /\ UNCHANGED <<program, poll_, status_list_lock_, req, csm, ssm, rpc, next_outgoing_tag>>

\* request_free takes the handle variable for the request: it decrements the
\* variable, then sets it to null.  The request keeps its reference.
request_free(t) ==
  /\ thr[t].pc = "issued"
  /\ thr' = [thr EXCEPT ![t].pc = "idle", ![t].i = @ + 1, ![t].tests = 0]
  /\ UNCHANGED <<program, poll_, status_list_lock_, req, csm, ssm, rpc, next_outgoing_tag>>

----------------------------------------------------------------------------
(* BMI and the server.                                                      *)

\* The server answers; the response header and the body are one packet or two.
\* No code of the client looks at the return code.
Serve(c) ==
  /\ rpc[c].send # "no" /\ rpc[c].reply = NoReply
  /\ rpc' = [rpc EXCEPT ![c].reply = [ret |-> "ZFSERR", at |-> "header"]]
  /\ UNCHANGED <<program, poll_, thr, status_list_lock_, req, csm, ssm, next_outgoing_tag>>

\* An operation that BMI completes when it is posted calls back the thread that
\* posts it, before that thread waits; any other one is the BMI thread's.
CanComplete(c) == ~BMIBusy \/ ssm[c].at = "wait"

\* writeDone of the flush.
writeDone(c) ==
  /\ rpc[c].send = "posted" /\ CanComplete(c)
  /\ rpc' = [rpc EXCEPT ![c].send = "done"]
  /\ ssm' = [ssm EXCEPT ![c] = Callback(@, "bmi")]
  /\ UNCHANGED <<program, poll_, thr, status_list_lock_, req, csm, next_outgoing_tag>>

\* A receive takes a packet with its tag: of its own call, or of another with
\* the same tag, which the random cookie in it gives away (CookiesMatch).
Packet(c, d, at) == rpc[d].tag = rpc[c].tag /\ rpc[d].reply.at = at

\* readComplete, readReady, readRewindReady: the input is ready.
readRewindReady(c) ==
  /\ rpc[c].tag # -1 /\ rpc[c].got = NoCall /\ ~BMIBusy
  /\ \E d \in Calls :
     /\ Packet(c, d, "header")
     /\ rpc' = [rpc EXCEPT ![d].reply.at = IF Kind(d).packets = 2 THEN "body" ELSE "read",
                           ![c].got = d, ![c].in_ready_ = TRUE, ![c].in_ready_cb_ = FALSE,
                           ![c].body = IF Kind(d).packets = 1 THEN "here" ELSE @]
  /\ ssm' = IF rpc[c].in_ready_cb_ THEN [ssm EXCEPT ![c] = Callback(@, "bmi")] ELSE ssm
  /\ UNCHANGED <<program, poll_, thr, status_list_lock_, req, csm, next_outgoing_tag>>

\* readComplete of the receive posted by postDecodeData.
readCompleted(c) ==
  /\ rpc[c].body = "posted" /\ CanComplete(c)
  /\ \E d \in Calls :
     /\ Packet(c, d, "body")
     /\ rpc' = [rpc EXCEPT ![d].reply.at = "read", ![c].body = "here", ![c].got = d]
  /\ ssm' = [ssm EXCEPT ![c] = Callback(@, "bmi")]
  /\ UNCHANGED <<program, poll_, thr, status_list_lock_, req, csm, next_outgoing_tag>>

----------------------------------------------------------------------------
Thread(t) ==
  \/ call(t) \/ callReturns(t) \/ request_test(t) \/ lock(t) \/ check(t)
  \/ smartWait(t) \/ timedOut(t) \/ request_free(t)

Machines(c) ==
  \/ submitWorkUnit(c) \/ serverWaits(c) \/ waitFlush(c) \/ postDecodeData(c)
  \/ waitDecodeData(c) \/ serverEnds(c) \/ clientWaits(c) \/ waitRPCServerSM(c)
  \/ updateStatus(c) \/ requestStatusChanged(c) \/ clientEnds(c)

Network(c) == Serve(c) \/ writeDone(c) \/ readRewindReady(c) \/ readCompleted(c)

Next ==
  \/ \E t \in Threads : Thread(t) \/ spuriousWakeup(t)
  \/ \E c \in Calls : Machines(c) \/ Network(c)

Spec == Init /\ [][Next]_vars

\* Every thread runs, the application goes on with its program, BMI calls back,
\* and the server answers what it receives.  The lock is given in turn to a
\* machine that waits for it, however often the threads take it.
Fairness ==
  /\ \A t \in Threads : WF_vars(Thread(t))
  /\ WF_vars(\E c \in Calls : Machines(c) \/ Network(c))
  /\ SF_vars(\E c \in Calls : requestStatusChanged(c))

FairSpec == Spec /\ Fairness

----------------------------------------------------------------------------
(* Properties.                                                              *)

\* What zoidfs.h declares as outputs of a call.
Outputs ==
  [commit |-> {}, lookup |-> {"handle"}, create |-> {"handle", "created"},
   getattr |-> {"attr"}, setattr |-> {"attr"}, readlink |-> {"buffer"},
   remove |-> {"parent_hint"}, mkdir |-> {"parent_hint"},
   rename |-> {"from_parent_hint", "to_parent_hint"},
   link |-> {"from_parent_hint", "to_parent_hint"},
   symlink |-> {"from_parent_hint", "to_parent_hint"},
   readdir |-> {"entry_count", "entries", "parent_hint"}]

\* The outputs no code copies: the text of a link and the number of entries.
NotCopied == {"buffer", "entry_count"}

\* The assertion of BMIInput::readComplete on the cookie of a packet.
CookiesMatch == \A c \in Calls : rpc[c].got \in {NoCall, c}

\* When request_test, or a blocking call, has returned ZFS_OK, the caller's
\* variables hold the outputs of this very call (but the text of readlink and the
\* count of readdir), and the request of a call that does not block holds the
\* return code the server gave for it: the status changes after they are written,
\* and not before, whichever thread completes the call and however the send, the
\* reply and the wait interleave.  No stream receives a packet of another call,
\* which would end the program, as long as fewer calls are made than there are
\* tags.
ResultsDelivered ==
  /\ CookiesMatch
  /\ \A t \in Threads : \A c \in thr[t].ok :
       /\ req[c].by = c
       /\ ~Kind(c).sync => req[c].ret = rpc[c].reply.ret
       /\ Outputs[Kind(c).op] \ NotCopied \subseteq req[c].outs

\* `Wait until r completes and return the operation's return code': a blocking
\* call returns what the server gave as the return code of the operation.
ReturnsTheCode ==
  \A t \in Threads : \A r \in thr[t].returned : r[2] = rpc[r[1]].reply.ret

\* A machine runs, is queued, or will be called back.
InUse(m) == m.at # "off" \/ m.slot \in {"WAITING", "WAITNEXT"}

\* Nothing is deleted while it is used, although the last callback deletes the
\* wrapper whose function it runs in, and with it the machines and the streams of
\* the threads below it on the stack: a machine in use exists; RPCServerSM, which
\* reads in_ and writes out_ of the ...ClientSM, has not outlived it; the wrapper
\* exists until its callback ran; BMI operations are pending only on streams that
\* exist; and a machine is deleted at rest, with its slot free.
UsedAlive ==
  \A c \in Calls :
    /\ InUse(ssm[c]) => ssm[c].refs # {}
    /\ InUse(csm[c]) => csm[c].refs # {}
    /\ ssm[c].at \in {"wait", "run", "queued"} \/ ssm[c].slot # "FREE" => csm[c].refs # {}
    /\ InUse(csm[c]) /\ csm[c].at # "end" => "wrapper" \in csm[c].refs
    /\ rpc[c].send = "posted" \/ rpc[c].in_ready_cb_ \/ rpc[c].body = "posted" => ssm[c].refs # {}
    /\ \A m \in {csm[c], ssm[c]} : m.refs = {} => m.slot = "FREE"

Settled ==
  /\ \A t \in Threads : thr[t].pc = "idle" /\ thr[t].i > Len(program[t])
  /\ \A c \in Calls : csm[c].refs = {} /\ ssm[c].refs = {}

\* Every call completes, no thread stays in a wait, and all the objects of every
\* call but its request are deleted, when the server answers: no callback of the
\* send, of the reply or of the status is lost, in either order and in either mode.
EventuallySettled == <>Settled

============================================================================
