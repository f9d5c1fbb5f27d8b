---------------------------- MODULE BMIFrontEnd -----------------------------
(***************************************************************************)
(* How unexpected BMI messages become requests: BMIResource's unexpected    *)
(* receives (iofwdevent/BMIResource.cpp) and the front end that keeps one   *)
(* of them posted (iofwd/frontend/bmi/IOFWDFrontend.cpp).                   *)
(*                                                                          *)
(* Two threads run this code: "main" posts the first receive (run) and      *)
(* shuts the front end down (destroy); "poll" is BMIResource's polling      *)
(* thread.  Either may be the one that delivers messages, because posting a *)
(* receive also looks for messages.  The callback runs with ue_lock_        *)
(* released and ue_dequeue_lock_ held, and posts the next receive itself.   *)
(*                                                                          *)
(* The steps are the stretches under ue_lock_, and the reads and writes of  *)
(* stop_ and unexpected_handle_, which no lock protects.                    *)
(***************************************************************************)
EXTENDS Naturals, Sequences, FiniteSets, SequencesExt

CONSTANTS UNEXPECTED_SIZE,   \* messages taken from BMI at once
          BATCH_SIZE,        \* messages a receive of the front end can hold
          ZOIDFS_BMI_MINTAG, ZOIDFS_BMI_MAXTAG,
          ZOIDFS_PROTO_MAX,  \* number of operations of the protocol
          MaxReceives        \* bound on the receives posted

ASSUME SizesAssumption == UNEXPECTED_SIZE \in Nat \ {0} /\ BATCH_SIZE \in Nat \ {0}

VARIABLES
  arrived,             \* unexpected messages inside BMI
  ue_ready_,           \* taken from BMI, not yet delivered
  ue_clientlist_,      \* sequence numbers of the posted receives
  ue_sequence_,
  ue_dequeue_lock_,    \* the thread that holds it, or "none"
  info_,               \* the messages of the receive being handled
  stop_, unexpected_handle_,
  thr,                 \* per thread: where it is
  requests             \* handed to the request handler

feVars == <<arrived, ue_ready_, ue_clientlist_, ue_sequence_,
            ue_dequeue_lock_, info_, stop_, unexpected_handle_, thr, requests>>

FEThreads == {"main", "poll"}

\* A thread: its place; the receives it has posted and not yet returned from, in
\* run() (own) and inside the callback (nested), 0 for none; whether it is in the
\* callback.
Idle == [pc |-> "idle", own |-> 0, nested |-> 0, in_cb |-> FALSE]

\* The handle that reading a freed receive may give.
Garbage == MaxReceives + 1

\* checkTagRange; a message is a record with a tag and the fields of its body.
InRange(m) == m.tag >= ZOIDFS_BMI_MINTAG /\ m.tag <= ZOIDFS_BMI_MAXTAG

\* handleIncoming: a message too short to hold an op id, or whose op id is negative
\* or larger than the size of map_, is freed and ignored.  (An op id equal to the size, which
\* has no entry in map_, is accepted; the client library sends none.)
Accepted(m) == m.fields # <<>> /\ Head(m.fields).v \in 0..ZOIDFS_PROTO_MAX

\* The composition says what has arrived before the server is up.
FEInit ==
  /\ ue_ready_ = <<>> /\ ue_clientlist_ = <<>>
  /\ ue_sequence_ = 1
  /\ ue_dequeue_lock_ = "none"
  /\ info_ = <<>> /\ stop_ = FALSE /\ unexpected_handle_ = 0
  /\ thr = [h \in FEThreads |-> IF h = "main" THEN [Idle EXCEPT !.pc = "post"] ELSE Idle]
  /\ requests = {}

AtMostOf(n, m) == IF n < m THEN n ELSE m

Goto(h, pc) == thr' = [thr EXCEPT ![h].pc = pc]

-----------------------------------------------------------------------------
\* IOFWDFrontend::post_testunexpected: `if (stop_) return;'.  Called by run() and by
\* the callback.
CheckStop(h) ==
  /\ thr[h].pc = "post"
  /\ Goto(h, IF ~stop_ THEN "register" ELSE IF thr[h].in_cb THEN "relock" ELSE "idle")
  /\ UNCHANGED <<arrived, ue_ready_, ue_clientlist_, ue_sequence_,
                 ue_dequeue_lock_, info_, stop_, unexpected_handle_, requests>>

\* checkUnexpected by thread h with ue_dequeue_lock_ free and the receives `clients`
\* posted: take what BMI has (checkNewUEMessages), and give the first receive the
\* messages of its tag range.  The front end is the only client here, so the list
\* has one receive, and the iterator is past its end once that one is served even
\* if the callback posts another.  The callback runs with ue_lock_ released.
checkUnexpected(h, clients) ==
  LET n == AtMostOf(Len(arrived), UNEXPECTED_SIZE)
      ready == ue_ready_ \o SubSeq(arrived, 1, n)
      mine == SelectSeq(ready, InRange)
      delivered == SubSeq(mine, 1, AtMostOf(Len(mine), BATCH_SIZE))
  IN /\ arrived' = SubSeq(arrived, n + 1, Len(arrived))
     /\ ue_ready_' = SelectSeq(ready, LAMBDA m : ~Contains(delivered, m))
     /\ info_' = delivered
     /\ IF delivered # <<>>
        THEN ue_clientlist_' = Tail(clients) /\ ue_dequeue_lock_' = h
        ELSE ue_clientlist_' = clients /\ UNCHANGED ue_dequeue_lock_

\* BMIResource::post_testunexpected, under ue_lock_.  In the callback this thread
\* holds ue_dequeue_lock_ itself: the try-lock of checkUnexpected fails and the
\* receive is only queued.
Register(h) ==
  /\ thr[h].pc = "register"
  /\ ue_sequence_ <= MaxReceives
  /\ ue_sequence_' = ue_sequence_ + 1
  /\ LET clients == Append(ue_clientlist_, ue_sequence_)
         posted == IF thr[h].in_cb THEN [thr[h] EXCEPT !.nested = ue_sequence_]
                   ELSE [thr[h] EXCEPT !.own = ue_sequence_]
     IN IF ue_dequeue_lock_ = "none"
        THEN /\ checkUnexpected(h, clients)
             /\ thr' = [thr EXCEPT ![h] = IF info_' = <<>> THEN [posted EXCEPT !.pc = "assign"]
                           ELSE [posted EXCEPT !.pc = "callback", !.in_cb = TRUE]]
        ELSE /\ ue_clientlist_' = clients
             /\ thr' = [thr EXCEPT ![h] = [posted EXCEPT !.pc = "assign"]]
             /\ UNCHANGED <<arrived, ue_ready_, info_, ue_dequeue_lock_>>
  /\ UNCHANGED <<stop_, unexpected_handle_, requests>>

\* `unexpected_handle_ = rbmi_.post_testunexpected (...)' with the number returned.
Assign(h) ==
  /\ thr[h].pc = "assign"
  /\ IF thr[h].in_cb
     THEN /\ unexpected_handle_' = thr[h].nested
          /\ thr' = [thr EXCEPT ![h].pc = "relock", ![h].nested = 0]
     ELSE /\ unexpected_handle_' = thr[h].own
          /\ thr' = [thr EXCEPT ![h].pc = "idle", ![h].own = 0]
  /\ UNCHANGED <<arrived, ue_ready_, ue_clientlist_, ue_sequence_,
                 ue_dequeue_lock_, info_, stop_, requests>>

\* poll_unprotected: if a receive is posted, checkUnexpected, under ue_lock_.
Poll(h) ==
  /\ h = "poll" /\ thr[h].pc = "idle"
  /\ ue_clientlist_ # <<>> /\ ue_dequeue_lock_ = "none"
  /\ checkUnexpected(h, ue_clientlist_)
  /\ thr' = [thr EXCEPT ![h] = IF info_' = <<>> THEN @
                               ELSE [@ EXCEPT !.pc = "callback", !.in_cb = TRUE]]
  /\ UNCHANGED <<ue_sequence_, stop_, unexpected_handle_, requests>>

\* newUnexpected and handleIncoming.
NewUnexpected(h) ==
  /\ thr[h].pc = "callback"
  /\ requests' = requests \cup {m \in Range(info_) : Accepted(m)}
  /\ info_' = <<>>
  /\ Goto(h, IF stop_ THEN "relock" ELSE "post")
  /\ UNCHANGED <<arrived, ue_ready_, ue_clientlist_, ue_sequence_,
                 ue_dequeue_lock_, stop_, unexpected_handle_>>

\* Mutant: ue_dequeue_lock_ is not given back.
Relock_keeps(h) ==
  /\ thr[h].pc = "relock"
  /\ \E seq \in (IF thr[h].own = 0 THEN {0} ELSE {thr[h].own, Garbage}) :
       thr' = [thr EXCEPT ![h].pc = IF seq = 0 THEN "idle" ELSE "assign",
                          ![h].own = seq, ![h].in_cb = FALSE]
  /\ UNCHANGED <<arrived, ue_ready_, ue_clientlist_, ue_sequence_, ue_dequeue_lock_,
                 info_, stop_, unexpected_handle_, requests>>

\* After the callback: the served receive is freed under ue_lock_ and the loop ends.
\* If this thread came from post_testunexpected, the number that returns is read from
\* the receive just freed: still the old one, or anything.
Relock(h) ==
  /\ thr[h].pc = "relock"
  /\ ue_dequeue_lock_' = "none"
  /\ \E seq \in (IF thr[h].own = 0 THEN {0} ELSE {thr[h].own, Garbage}) :
       thr' = [thr EXCEPT ![h].pc = IF seq = 0 THEN "idle" ELSE "assign",
                          ![h].own = seq, ![h].in_cb = FALSE]
  /\ UNCHANGED <<arrived, ue_ready_, ue_clientlist_, ue_sequence_,
                 info_, stop_, unexpected_handle_, requests>>

\* IOFWDFrontend::destroy: set stop_, then cancel the receive.
Destroy(h) ==
  /\ h = "main" /\ thr[h].pc = "idle" /\ ~stop_
  /\ stop_' = TRUE
  /\ Goto(h, "cancel")
  /\ UNCHANGED <<arrived, ue_ready_, ue_clientlist_, ue_sequence_,
                 ue_dequeue_lock_, info_, unexpected_handle_, requests>>

\* BMIResource::cancel, under ue_lock_, and the callback with the cancelled
\* exception: stop_ is set, so it does not post again.
Cancel(h) ==
  /\ thr[h].pc = "cancel"
  /\ ue_clientlist_' = SelectSeq(ue_clientlist_, LAMBDA s : s # unexpected_handle_)
  /\ Goto(h, "destroyed")
  /\ UNCHANGED <<arrived, ue_ready_, ue_sequence_, ue_dequeue_lock_,
                 info_, stop_, unexpected_handle_, requests>>

FEStep(h) == CheckStop(h) \/ Register(h) \/ Assign(h) \/ Poll(h) \/ NewUnexpected(h) \/ Relock(h)

FEShutdown(h) == Destroy(h) \/ Cancel(h)
=============================================================================
