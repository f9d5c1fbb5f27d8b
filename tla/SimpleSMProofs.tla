--------------------------- MODULE SimpleSMProofs ---------------------------
(***************************************************************************)
(* A state machine is executed by one thread at a time, its assertions     *)
(* hold, it is deleted only when nobody uses it, and exceptions reach the  *)
(* method that waits for them: for any number of slots, pool threads and   *)
(* callbacks, in both modes.                                               *)
(*                                                                         *)
(* The argument is that of a baton, the right to make the machine's next   *)
(* step.  One party has it: the queued work unit, the thread that executes *)
(* or resumes the machine, or the slot the machine waits for.              *)
(***************************************************************************)
EXTENDS SimpleSM, FiniteSetTheorems, TLAPS

HasBaton(t) ==
    \/ pc[t] \in {"enter", "fetch", "body", "resume", "schedule"}
    \/ pc[t] = "check" /\ next_ # NoCall

Awaited(s) == slot[s].next_ # NoMethod

\* Nobody holds the baton together with anybody else, and next_ is set just
\* while its holder is about to run it.
Baton ==
    /\ scheduled \in {0, 1}
    /\ \A t, u \in Threads : HasBaton(t) /\ HasBaton(u) => t = u
    /\ \A t \in Threads : HasBaton(t) => scheduled = 0
    /\ \A s \in Slots : Awaited(s) =>
          /\ scheduled = 0
          /\ next_ = NoCall
          /\ \A t \in Threads : ~HasBaton(t)
          /\ \A r \in Slots : Awaited(r) => r = s
    /\ \A t \in Threads :
          /\ pc[t] \in {"enter", "fetch", "schedule"} => next_ # NoCall
          /\ pc[t] \in {"body", "resume"} => next_ = NoCall
          /\ pc[t] \in {"enter", "schedule"} => ~running_
    /\ scheduled = 1 => next_ # NoCall /\ ~running_

\* Pool threads do not call callbacks.
ThreadRoles ==
    \A t \in Workers : pc[t] \in {"idle", "enter", "fetch", "body", "check",
                                  "leave"}

\* A slot that waits for its callback has one caller, which has not called it.
SlotsInv ==
    /\ \A s \in Slots : Awaited(s) =>
          slot[s].next_ = s /\ slot[s].status_ = "WAITING"
    /\ \A c \in Callers : pc[c] = "op" =>
          cb[c].to \in Slots /\ slot[cb[c].to].status_ = "WAITING"
    /\ \A c, d \in Callers :
          pc[c] = "op" /\ pc[d] = "op" /\ cb[c].to = cb[d].to => c = d
    /\ \A s \in Slots : slot[s].status_ = "WAITING" =>
          \E c \in Callers : pc[c] = "op" /\ cb[c].to = s

\* Slots are in use only while somebody has the baton.
SlotsInUse ==
    \/ \A s \in Slots : slot[s].status_ = "FREE"
    \/ scheduled = 1
    \/ \E t \in Threads : HasBaton(t)
    \/ \E s \in Slots : Awaited(s)

\* The exception of an operation, on its way to the method.
StatusInv ==
    /\ \A s \in Slots :
          slot[s].status_ = "COMPLETED" => slot[s].exception_ = outcome[s]
    /\ \A c \in Callers : pc[c] \in {"resume", "schedule"} =>
          /\ cb[c].to \in Slots
          /\ slot[cb[c].to].status_ = "FREE"
          /\ cb[c].status = outcome[cb[c].to]
    /\ next_.to \in Slots =>
          slot[next_.to].status_ = "FREE" /\ next_.status = outcome[next_.to]

Active == {t \in Threads : pc[t] # "idle"}

\* Every work unit and every thread in the machine's code has a reference.
RefInv ==
    /\ refcount_ = scheduled + Cardinality(Active)
    /\ deleted <=> refcount_ = 0

IInv ==
    /\ TypeOK /\ Baton /\ ThreadRoles /\ OneExecutor /\ SlotsInv /\ SlotsInUse
    /\ StatusInv /\ RefInv

-----------------------------------------------------------------------------
(* References *)

LEMMA ActiveFinite == IsFiniteSet(Active) /\ Cardinality(Active) \in Nat
  <1>1. IsFiniteSet(Threads)
    BY SMAssumption, FS_Union, Zenon DEF Threads
  <1>2. Active \subseteq Threads
    BY DEF Active
  <1> QED BY <1>1, <1>2, FS_Subset, FS_CardinalityType

\* A step that moves one thread changes the number of active threads by one,
\* if the thread was or becomes idle.
LEMMA Moved ==
    ASSUME TypeOK, NEW t \in Threads, NEW l, Goto(t, l)
    PROVE  /\ pc[t] = "idle" /\ l # "idle" =>
                 Cardinality(Active') = Cardinality(Active) + 1
           /\ pc[t] # "idle" /\ l = "idle" =>
                 Cardinality(Active') = Cardinality(Active) - 1
           /\ pc[t] # "idle" /\ l # "idle" =>
                 Cardinality(Active') = Cardinality(Active)
  <1>1. /\ pc' = [pc EXCEPT ![t] = l]
        /\ DOMAIN pc = Threads
    BY DEF Goto, TypeOK
  <1>2. CASE pc[t] = "idle" /\ l # "idle"
    <2>1. Active' = Active \cup {t} /\ t \notin Active
      BY <1>1, <1>2 DEF Active
    <2> QED BY <1>2, <2>1, ActiveFinite, FS_AddElement
  <1>3. CASE pc[t] # "idle" /\ l = "idle"
    <2>1. Active' = Active \ {t} /\ t \in Active
      BY <1>1, <1>3 DEF Active
    <2> QED BY <1>3, <2>1, ActiveFinite, FS_RemoveElement
  <1>4. CASE pc[t] # "idle" /\ l # "idle"
    <2>1. Active' = Active
      BY <1>1, <1>4 DEF Active
    <2> QED BY <1>4, <2>1
  <1> QED BY <1>2, <1>3, <1>4

\* A thread in the machine's code has a reference.
LEMMA Referenced ==
    ASSUME TypeOK, RefInv, NEW t \in Threads, pc[t] # "idle"
    PROVE  refcount_ > 0 /\ ~deleted
  <1>1. t \in Active
    BY DEF Active
  <1>2. Cardinality(Active) # 0
    BY <1>1, ActiveFinite, FS_EmptySet
  <1> QED BY <1>2, ActiveFinite DEF RefInv, TypeOK

-----------------------------------------------------------------------------
(* The steps *)

LEMMA InitIInv == Init => IInv
  <1> SUFFICES ASSUME Init PROVE IInv
    OBVIOUS
  <1> USE DEF Init
  <1>1. TypeOK
    BY Zenon DEF TypeOK, Call, NoCall, Slot, FreeSlot, Methods, CBException
  <1>2. NoMethod \notin Methods /\ "init" \notin Slots /\ next_ # NoCall
    BY SMAssumption DEF Methods, NoCall
  <1>3. Baton
    BY <1>2 DEF Baton, HasBaton, Awaited, FreeSlot
  <1>4. ThreadRoles /\ OneExecutor /\ SlotsInv /\ SlotsInUse
    BY DEF ThreadRoles, Threads, OneExecutor, Executing, SlotsInv, SlotsInUse,
           Awaited, FreeSlot
  <1>5. StatusInv
    BY <1>2 DEF StatusInv, Threads, FreeSlot
  <1>6. RefInv
    <2>1. Active = {}
      BY DEF Active
    <2> QED BY <2>1, FS_EmptySet DEF RefInv
  <1> QED BY <1>1, <1>3, <1>4, <1>5, <1>6 DEF IInv

LEMMA BeginKeepsIInv ==
    ASSUME IInv, NEW t \in Threads, Begin(t)
    PROVE  IInv'
  <1>1. TypeOK'
    BY DEF IInv, TypeOK, Begin, Goto
  <1>2. Baton'
    BY DEF IInv, TypeOK, Baton, HasBaton, Awaited, Begin, Goto
  <1>3. ThreadRoles' /\ OneExecutor'
    BY DEF IInv, TypeOK, ThreadRoles, Threads, OneExecutor, Executing,
           Begin, Goto
  <1>4. SlotsInv' /\ SlotsInUse'
    BY DEF IInv, TypeOK, SlotsInv, SlotsInUse, Awaited, HasBaton,
           Threads, Begin, Goto
  <1>5. StatusInv'
    BY DEF IInv, TypeOK, StatusInv, Threads, Begin, Goto
  <1>6. RefInv'
    <2>1. Cardinality(Active') = Cardinality(Active) + 1
      BY Moved DEF IInv, Begin
    <2> QED BY <2>1, ActiveFinite DEF IInv, TypeOK, RefInv, Begin
  <1> QED BY <1>1, <1>2, <1>3, <1>4, <1>5, <1>6 DEF IInv

LEMMA EnterKeepsIInv ==
    ASSUME IInv, NEW t \in Threads, Enter(t)
    PROVE  IInv'
  <1>1. TypeOK'
    BY DEF IInv, TypeOK, Enter, Goto
  <1>2. Baton'
    BY DEF IInv, TypeOK, Baton, HasBaton, Awaited, Enter, Goto
  <1>3. ThreadRoles' /\ OneExecutor'
    <2>1. \A u \in Threads : ~Executing(u)
      BY DEF IInv, Baton, OneExecutor, Enter
    <2> QED BY <2>1 DEF IInv, TypeOK, ThreadRoles, Threads, OneExecutor,
                        Executing, Enter, Goto
  <1>4. SlotsInv' /\ SlotsInUse'
    BY DEF IInv, TypeOK, SlotsInv, SlotsInUse, Awaited, HasBaton,
           Threads, Enter, Goto
  <1>5. StatusInv'
    BY DEF IInv, TypeOK, StatusInv, Threads, Enter, Goto
  <1>6. RefInv'
    <2>1. Cardinality(Active') = Cardinality(Active)
      BY Moved DEF IInv, Enter
    <2> QED BY <2>1, ActiveFinite DEF IInv, TypeOK, RefInv, Enter
  <1> QED BY <1>1, <1>2, <1>3, <1>4, <1>5, <1>6 DEF IInv

LEMMA FetchKeepsIInv ==
    ASSUME IInv, NEW t \in Threads, Fetch(t)
    PROVE  IInv'
  <1>1. TypeOK'
    BY DEF IInv, TypeOK, Fetch, Goto
  <1>2. Baton'
    BY DEF IInv, TypeOK, Baton, HasBaton, Awaited, Fetch, Goto
  <1>3. ThreadRoles' /\ OneExecutor'
    BY DEF IInv, TypeOK, ThreadRoles, Threads, OneExecutor, Executing,
           Fetch, Goto
  <1>4. SlotsInv' /\ SlotsInUse'
    BY DEF IInv, TypeOK, SlotsInv, SlotsInUse, Awaited, HasBaton,
           Threads, Fetch, Goto
  <1>5. StatusInv'
    BY SMAssumption
       DEF IInv, TypeOK, StatusInv, Threads, Fetch, Goto, NoCall
  <1>6. RefInv'
    <2>1. Cardinality(Active') = Cardinality(Active)
      BY Moved DEF IInv, Fetch
    <2> QED BY <2>1, ActiveFinite DEF IInv, TypeOK, RefInv, Fetch
  <1> QED BY <1>1, <1>2, <1>3, <1>4, <1>5, <1>6 DEF IInv

LEMMA WaitKeepsIInv ==
    ASSUME IInv, NEW t \in Threads, NEW s \in Slots, Wait(t, s)
    PROVE  IInv'
  <1> DEFINE S == slot[s]
  <1>a. /\ slot \in [Slots -> Slot]
        /\ S \in Slot
        /\ S.exception_ \in CBException
        /\ s \in Methods
        /\ NoMethod \notin Methods
        /\ FreeSlot \in Slot
    BY SMAssumption DEF IInv, TypeOK, Slot, Methods, FreeSlot, CBException
  <1>b. /\ next_ = NoCall
        /\ \A r \in Slots : ~Awaited(r)
        /\ scheduled = 0
        /\ \A u \in Threads : u # t => ~HasBaton(u)
    BY DEF IInv, Baton, HasBaton, Wait
  <1>c. /\ pc' = [pc EXCEPT ![t] = "check"]
        /\ pc \in [Threads -> {"idle", "enter", "fetch", "body", "check",
                 "leave", "op", "resume", "schedule", "release"}]
        /\ pc[t] = "body"
        /\ UNCHANGED <<running_, refcount_, deleted, scheduled, cb, outcome, poll_>>
    BY DEF IInv, TypeOK, Wait, Goto
  <1>d. ASSUME S.status_ = "WAITING",
               slot' = [slot EXCEPT ![s] = [S EXCEPT !.next_ = s]],
               next_' = next_
        PROVE  TypeOK' /\ Baton' /\ SlotsInv' /\ SlotsInUse' /\ StatusInv'
    <2>1. TypeOK'
      BY <1>a, <1>c, <1>d DEF IInv, TypeOK, Slot
    <2>2. /\ \A r \in Slots : r # s => slot'[r] = slot[r]
          /\ slot'[s].next_ = s
          /\ slot'[s].status_ = "WAITING"
          /\ slot'[s].exception_ = S.exception_
      BY <1>a, <1>d DEF Slot
    <2>3. Baton'
      BY <1>a, <1>b, <1>c, <1>d, <2>2
         DEF IInv, Baton, HasBaton, Awaited
    <2>4. SlotsInv' /\ SlotsInUse' /\ StatusInv'
      BY <1>a, <1>b, <1>c, <1>d, <2>2, SMAssumption
         DEF IInv, SlotsInv, SlotsInUse, StatusInv, Awaited, Threads, NoCall
    <2> QED BY <2>1, <2>3, <2>4
  <1>e. ASSUME S.status_ = "COMPLETED",
               slot' = [slot EXCEPT ![s] = FreeSlot],
               next_' = [to |-> s, status |-> S.exception_]
        PROVE  TypeOK' /\ Baton' /\ SlotsInv' /\ SlotsInUse' /\ StatusInv'
    <2>1. TypeOK'
      BY <1>a, <1>c, <1>e DEF IInv, TypeOK, Call
    <2>2. /\ \A r \in Slots : r # s => slot'[r] = slot[r]
          /\ slot'[s] = FreeSlot
          /\ next_' # NoCall
      BY <1>a, <1>e DEF NoCall
    <2>3. \A r \in Slots : ~Awaited(r)'
      BY <1>b, <2>2 DEF Awaited, FreeSlot
    <2>5. Baton'
      BY <1>b, <1>c, <2>2, <2>3, SMTT(30)
         DEF IInv, Baton, HasBaton, OneExecutor, Executing
    <2>4. SlotsInv' /\ SlotsInUse' /\ StatusInv'
      BY <1>a, <1>b, <1>c, <1>e, <2>2
         DEF IInv, SlotsInv, SlotsInUse, StatusInv, Awaited, HasBaton,
             Threads, FreeSlot
    <2> QED BY <2>1, <2>4, <2>5
  <1>f. TypeOK' /\ Baton' /\ SlotsInv' /\ SlotsInUse' /\ StatusInv'
    BY <1>d, <1>e DEF Wait
  <1>1. TypeOK'
    BY <1>f
  <1>2. Baton'
    BY <1>f
  <1>3. ThreadRoles' /\ OneExecutor'
    BY DEF IInv, TypeOK, ThreadRoles, Threads, OneExecutor, Executing,
           Wait, Goto
  <1>4. SlotsInv' /\ SlotsInUse'
    BY <1>f
  <1>5. StatusInv'
    BY <1>f
  <1>6. RefInv'
    <2>1. Cardinality(Active') = Cardinality(Active)
      BY Moved DEF IInv, Wait
    <2> QED BY <2>1, ActiveFinite DEF IInv, TypeOK, RefInv, Wait
  <1> QED BY <1>1, <1>2, <1>3, <1>4, <1>5, <1>6 DEF IInv

LEMMA NextMethodKeepsIInv ==
    ASSUME IInv, NEW t \in Threads, setNextMethod(t)
    PROVE  IInv'
  <1>a. next_' # NoCall
    BY SMAssumption DEF setNextMethod, NoCall
  <1>1. TypeOK'
    BY DEF IInv, TypeOK, setNextMethod, Goto, Call, Methods, CBException
  <1>2. Baton'
    BY <1>a
       DEF IInv, TypeOK, Baton, HasBaton, Awaited, OneExecutor, Executing,
           setNextMethod, Goto
  <1>3. ThreadRoles' /\ OneExecutor'
    BY DEF IInv, TypeOK, ThreadRoles, Threads, OneExecutor, Executing,
           setNextMethod, Goto
  <1>4. SlotsInv' /\ SlotsInUse'
    BY <1>a DEF IInv, TypeOK, SlotsInv, SlotsInUse, Awaited, HasBaton,
                        Threads, setNextMethod, Goto
  <1>5. StatusInv'
    BY SMAssumption
       DEF IInv, TypeOK, StatusInv, Threads, setNextMethod, Goto
  <1>6. RefInv'
    <2>1. Cardinality(Active') = Cardinality(Active)
      BY Moved DEF IInv, setNextMethod
    <2> QED BY <2>1, ActiveFinite DEF IInv, TypeOK, RefInv, setNextMethod
  <1> QED BY <1>1, <1>2, <1>3, <1>4, <1>5, <1>6 DEF IInv

LEMMA FinishKeepsIInv ==
    ASSUME IInv, NEW t \in Threads, Finish(t)
    PROVE  IInv'
  <1>1. TypeOK'
    BY DEF IInv, TypeOK, Finish, Goto
  <1>2. Baton'
    BY DEF IInv, TypeOK, Baton, HasBaton, Awaited, Finish, Goto
  <1>3. ThreadRoles' /\ OneExecutor'
    BY DEF IInv, TypeOK, ThreadRoles, Threads, OneExecutor, Executing,
           Finish, Goto
  <1>4. SlotsInv' /\ SlotsInUse'
    BY DEF IInv, TypeOK, SlotsInv, SlotsInUse, Awaited, HasBaton,
           Threads, Finish, Goto
  <1>5. StatusInv'
    BY DEF IInv, TypeOK, StatusInv, Threads, Finish, Goto
  <1>6. RefInv'
    <2>1. Cardinality(Active') = Cardinality(Active)
      BY Moved DEF IInv, Finish
    <2> QED BY <2>1, ActiveFinite DEF IInv, TypeOK, RefInv, Finish
  <1> QED BY <1>1, <1>2, <1>3, <1>4, <1>5, <1>6 DEF IInv

LEMMA CheckKeepsIInv ==
    ASSUME IInv, NEW t \in Threads, Check(t)
    PROVE  IInv'
  <1>1. TypeOK'
    BY Zenon DEF IInv, TypeOK, Check, Goto
  <1>2. Baton'
    BY DEF IInv, TypeOK, Baton, HasBaton, Awaited, Check, Goto
  <1>3. ThreadRoles' /\ OneExecutor'
    BY DEF IInv, TypeOK, ThreadRoles, Threads, OneExecutor, Executing,
           Check, Goto
  <1>4. SlotsInv' /\ SlotsInUse'
    BY DEF IInv, TypeOK, SlotsInv, SlotsInUse, Awaited, HasBaton,
           Threads, Check, Goto
  <1>5. StatusInv'
    BY DEF IInv, TypeOK, StatusInv, Threads, Check, Goto
  <1>6. RefInv'
    <2>1. \E l \in {"fetch", "leave"} : Goto(t, l)
      BY DEF Check
    <2>2. Cardinality(Active') = Cardinality(Active)
      BY <2>1, Moved DEF IInv, Check
    <2> QED BY <2>2 DEF IInv, RefInv, Check
  <1> QED BY <1>1, <1>2, <1>3, <1>4, <1>5, <1>6 DEF IInv

LEMMA ResumeKeepsIInv ==
    ASSUME IInv, NEW c \in Callers, Resume(c)
    PROVE  IInv'
  <1>0. c \in Threads
    BY DEF Threads
  <1>a. /\ cb[c] # NoCall
        /\ cb[c].to \in Slots
        /\ \A u \in Threads : ~Executing(u)
    BY SMAssumption DEF IInv, StatusInv, OneExecutor, Resume, NoCall
  <1>1. TypeOK'
    BY <1>0
       DEF IInv, TypeOK, Resume, Goto
  <1>2. Baton'
    BY <1>0, <1>a
       DEF IInv, TypeOK, Baton, HasBaton, Awaited, Executing, Resume, Goto
  <1>3. ThreadRoles' /\ OneExecutor'
    BY <1>0
       DEF IInv, TypeOK, ThreadRoles, Threads, OneExecutor, Executing,
           Resume, Goto
  <1>4. SlotsInv' /\ SlotsInUse'
    BY <1>0
       DEF IInv, TypeOK, SlotsInv, SlotsInUse, Awaited, HasBaton,
           Threads, Resume, Goto
  <1>5. StatusInv'
    BY <1>0
       DEF IInv, TypeOK, StatusInv, Threads, Resume, Goto
  <1>6. RefInv'
    <2>1. Cardinality(Active') = Cardinality(Active)
      BY <1>0, Moved DEF IInv, Resume
    <2> QED BY <2>1, ActiveFinite, SMTT(30) DEF IInv, TypeOK, RefInv, Resume
  <1> QED BY <1>1, <1>2, <1>3, <1>4, <1>5, <1>6 DEF IInv

LEMMA ScheduleKeepsIInv ==
    ASSUME IInv, NEW c \in Callers, Schedule(c)
    PROVE  IInv'
  <1>0. c \in Threads
    BY DEF Threads
  <1>1. TypeOK'
    BY <1>0
       DEF IInv, TypeOK, Schedule, Goto
  <1>2. Baton'
    BY <1>0
       DEF IInv, TypeOK, Baton, HasBaton, Awaited, Schedule, Goto
  <1>3. ThreadRoles' /\ OneExecutor'
    BY <1>0
       DEF IInv, TypeOK, ThreadRoles, Threads, OneExecutor, Executing,
           Schedule, Goto
  <1>4. SlotsInv' /\ SlotsInUse'
    <2>1. SlotsInv'
      BY <1>0 DEF IInv, TypeOK, SlotsInv, Awaited, Threads, Schedule, Goto
    <2>2. CASE poll_
      <3>1. HasBaton(c)'
        BY <1>0, <2>2 DEF IInv, TypeOK, HasBaton, Schedule, Goto
      <3> QED BY <1>0, <2>1, <3>1 DEF SlotsInUse
    <2>3. CASE ~poll_
      <3>1. scheduled' = 1
        BY <1>0, <2>3 DEF IInv, Baton, HasBaton, Schedule
      <3> QED BY <2>1, <3>1 DEF SlotsInUse
    <2> QED BY <2>2, <2>3
  <1>5. StatusInv'
    BY <1>0
       DEF IInv, TypeOK, StatusInv, Threads, Schedule, Goto
  <1>6. RefInv'
    <2>1. \E l \in {"enter", "release"} : Goto(c, l)
      BY DEF Schedule
    <2>2. Cardinality(Active') = Cardinality(Active)
      BY <1>0, <2>1, Moved DEF IInv, Schedule
    <2>3. refcount_ > 0 /\ ~deleted
      BY <1>0, Referenced DEF IInv, Schedule
    <2> QED BY <2>2, <2>3, ActiveFinite DEF IInv, TypeOK, RefInv, Schedule
  <1> QED BY <1>1, <1>2, <1>3, <1>4, <1>5, <1>6 DEF IInv

LEMMA CallerReleaseKeepsIInv ==
    ASSUME IInv, NEW c \in Callers, CallerRelease(c)
    PROVE  IInv'
  <1>0. c \in Threads
    BY DEF Threads
  <1>a. refcount_ > 0 /\ ~deleted
    BY <1>0, Referenced DEF IInv, CallerRelease
  <1>1. TypeOK'
    BY <1>0, <1>a DEF IInv, TypeOK, CallerRelease, Release, Goto
  <1>2. Baton'
    BY <1>0
       DEF IInv, TypeOK, Baton, HasBaton, Awaited, CallerRelease, Release, Goto
  <1>3. ThreadRoles' /\ OneExecutor'
    BY <1>0
       DEF IInv, TypeOK, ThreadRoles, Threads, OneExecutor, Executing,
           CallerRelease, Release, Goto
  <1>4. SlotsInv' /\ SlotsInUse'
    BY <1>0
       DEF IInv, TypeOK, SlotsInv, SlotsInUse, Awaited, HasBaton,
           Threads, CallerRelease, Release, Goto
  <1>5. StatusInv'
    BY <1>0
       DEF IInv, TypeOK, StatusInv, Threads, CallerRelease, Release, Goto
  <1>6. RefInv'
    <2>1. Cardinality(Active') = Cardinality(Active) - 1
      BY <1>0, Moved DEF IInv, CallerRelease
    <2>2. refcount_' = scheduled' + Cardinality(Active')
      BY <2>1, ActiveFinite DEF IInv, TypeOK, RefInv, CallerRelease, Release
    <2>3. deleted' <=> refcount_' = 0
      BY Zenon DEF CallerRelease, Release
    <2> QED BY <2>2, <2>3 DEF RefInv
  <1> QED BY <1>1, <1>2, <1>3, <1>4, <1>5, <1>6 DEF IInv

LEMMA LeaveKeepsIInv ==
    ASSUME IInv, NEW t \in Threads, Leave(t)
    PROVE  IInv'
  <1>a. refcount_ > 0 /\ ~deleted
    BY Referenced DEF IInv, Leave
  <1>1. TypeOK'
    <2>0. Release \/ UNCHANGED <<refcount_, deleted>>
      BY DEF Leave
    <2>1. refcount_' \in Nat /\ deleted' \in BOOLEAN
      <3>1. CASE Release
        BY <1>a, <3>1 DEF IInv, TypeOK, Release
      <3>2. CASE UNCHANGED <<refcount_, deleted>>
        BY <3>2 DEF IInv, TypeOK
      <3> QED BY <2>0, <3>1, <3>2
    <2>2. \/ pc' = [pc EXCEPT ![t] = "idle"]
          \/ pc' = [pc EXCEPT ![t] = "release"]
      BY DEF Leave, Goto
    <2> QED BY <2>1, <2>2 DEF IInv, TypeOK, Leave
  <1>2. Baton'
    BY DEF IInv, TypeOK, Baton, HasBaton, Awaited, Leave, Release, Goto
  <1>3. ThreadRoles' /\ OneExecutor'
    BY SMAssumption
       DEF IInv, TypeOK, ThreadRoles, Threads, OneExecutor, Executing,
           Leave, Release, Goto
  <1>4. SlotsInv' /\ SlotsInUse'
    BY DEF IInv, TypeOK, SlotsInv, SlotsInUse, Awaited, HasBaton,
           Threads, Leave, Release, Goto
  <1>5. StatusInv'
    BY DEF IInv, TypeOK, StatusInv, Threads, Leave, Release, Goto
  <1>6. RefInv'
    <2>1. CASE t \in Workers /\ Release /\ Goto(t, "idle")
      <3>1. Cardinality(Active') = Cardinality(Active) - 1
        BY <2>1, Moved DEF IInv, Leave
      <3>2. refcount_' = scheduled' + Cardinality(Active')
        BY <2>1, <3>1, ActiveFinite
           DEF IInv, TypeOK, RefInv, Leave, Release
      <3>3. deleted' <=> refcount_' = 0
        BY <2>1, Zenon DEF Release
      <3> QED BY <3>2, <3>3 DEF RefInv
    <2>2. CASE Goto(t, "release") /\ UNCHANGED <<refcount_, deleted>>
      <3>1. Cardinality(Active') = Cardinality(Active)
        BY <2>2, Moved DEF IInv, Leave
      <3> QED BY <2>2, <3>1 DEF IInv, RefInv, Leave
    <2> QED BY <2>1, <2>2 DEF Leave
  <1> QED BY <1>1, <1>2, <1>3, <1>4, <1>5, <1>6 DEF IInv

LEMMA CallbackKeepsIInv ==
    ASSUME IInv, NEW c \in Callers, NEW e \in CBException, Callback(c, e)
    PROVE  IInv'
  <1>0. c \in Threads
    BY DEF Threads
  <1> DEFINE s == cb[c].to
             S == slot[s]
  <1>a. /\ s \in Slots
        /\ slot \in [Slots -> Slot]
        /\ S \in Slot
        /\ S.status_ = "WAITING"
        /\ NoMethod \notin Slots
        /\ cb \in [Callers -> Call \cup {NoCall}]
        /\ outcome \in [Slots -> CBException]
        /\ outcome' = [outcome EXCEPT ![s] = e]
    BY SMAssumption DEF IInv, TypeOK, SlotsInv, Callback
  <1>b. /\ pc \in [Threads -> {"idle", "enter", "fetch", "body", "check",
                 "leave", "op", "resume", "schedule", "release"}]
        /\ pc[c] = "op"
        /\ UNCHANGED <<running_, next_, refcount_, deleted, scheduled, poll_>>
    BY DEF IInv, TypeOK, Callback
  <1> HIDE DEF s
  <1>c. \A d \in Callers : d # c /\ pc[d] = "op" => cb[d].to # s
    BY <1>b DEF IInv, SlotsInv, s
  <1>d. ASSUME Awaited(s),
               slot' = [slot EXCEPT ![s] =
                           [S EXCEPT !.status_ = "FREE", !.next_ = NoMethod]],
               cb' = [cb EXCEPT ![c] = [to |-> S.next_, status |-> e]],
               Goto(c, "resume")
        PROVE  TypeOK' /\ Baton' /\ SlotsInv' /\ SlotsInUse' /\ StatusInv'
    <2>1. /\ S.next_ = s
          /\ next_ = NoCall
          /\ scheduled = 0
          /\ \A t \in Threads : ~HasBaton(t)
          /\ \A r \in Slots : Awaited(r) => r = s
      BY <1>a, <1>d DEF IInv, SlotsInv, Baton
    <2>2. /\ \A r \in Slots : r # s => slot'[r] = slot[r]
          /\ slot'[s] \in Slot
          /\ slot'[s].next_ = NoMethod
          /\ slot'[s].status_ = "FREE"
          /\ \A r \in Slots : r # s => outcome'[r] = outcome[r]
          /\ outcome'[s] = e
          /\ \A d \in Callers : d # c => cb'[d] = cb[d]
          /\ cb'[c] = [to |-> s, status |-> e]
          /\ \A t \in Threads : t # c => pc'[t] = pc[t]
          /\ pc'[c] = "resume"
      BY <1>0, <1>a, <1>b, <1>d, <2>1, ZenonT(30) DEF Slot, Goto
    <2>3. TypeOK'
      <3>1. slot' \in [Slots -> Slot]
        BY <1>a, <1>d, <2>2
      <3>2. cb' \in [Callers -> Call \cup {NoCall}]
        BY <1>a, <1>d, <2>1 DEF Call, Methods
      <3>3. outcome' \in [Slots -> CBException]
        BY <1>a
      <3> QED BY <1>0, <1>b, <1>d, <3>1, <3>2, <3>3 DEF IInv, TypeOK, Goto
    <2>4. \A r \in Slots : ~Awaited(r)'
      BY <2>1, <2>2 DEF Awaited
    <2>5. Baton'
      BY <1>0, <1>b, <2>1, <2>2, <2>4, SMTT(30) DEF IInv, Baton, HasBaton
    <2>6. SlotsInv'
      BY <1>a, <1>b, <1>c, <2>2, <2>4, SMTT(30) DEF IInv, SlotsInv, Threads
    <2>7. SlotsInUse'
      BY <1>0, <2>2, SMTT(30) DEF SlotsInUse, HasBaton
    <2>8. StatusInv'
      BY <1>a, <1>b, <2>1, <2>2, SMAssumption
         DEF IInv, StatusInv, Threads, HasBaton, NoCall
    <2> QED BY <2>3, <2>5, <2>6, <2>7, <2>8
  <1>e. ASSUME ~Awaited(s),
               slot' = [slot EXCEPT ![s] =
                  [S EXCEPT !.status_ = "COMPLETED", !.exception_ = e]],
               UNCHANGED cb,
               Goto(c, "release")
        PROVE  TypeOK' /\ Baton' /\ SlotsInv' /\ SlotsInUse' /\ StatusInv'
    <2>1. /\ \A r \in Slots : r # s => slot'[r] = slot[r]
          /\ slot'[s] \in Slot
          /\ slot'[s].next_ = S.next_
          /\ slot'[s].status_ = "COMPLETED"
          /\ slot'[s].exception_ = e
          /\ \A r \in Slots : r # s => outcome'[r] = outcome[r]
          /\ outcome'[s] = e
          /\ \A t \in Threads : t # c => pc'[t] = pc[t]
          /\ pc'[c] = "release"
      BY <1>0, <1>a, <1>b, <1>e, ZenonT(30) DEF Slot, Goto
    <2>2. \A r \in Slots : Awaited(r)' <=> Awaited(r)
      BY <1>a, <2>1 DEF Awaited
    <2>3. TypeOK'
      <3>1. slot' \in [Slots -> Slot]
        BY <1>a, <1>e, <2>1
      <3>2. outcome' \in [Slots -> CBException]
        BY <1>a
      <3> QED BY <1>0, <1>b, <1>e, <3>1, <3>2 DEF IInv, TypeOK, Goto
    <2>4. \A t \in Threads : HasBaton(t)' <=> HasBaton(t)
      BY <1>0, <1>b, <2>1 DEF HasBaton
    <2>5. Baton'
      BY <1>0, <1>b, <2>1, <2>2, <2>4 DEF IInv, Baton
    <2>6. SlotsInv'
      BY <1>a, <1>b, <1>c, <1>e, <2>1, <2>2, SMTT(30) DEF IInv, SlotsInv, Threads
    <2>7. SlotsInUse'
      BY <1>a, <1>b, <2>2, <2>4 DEF IInv, SlotsInUse
    <2>8. StatusInv'
      BY <1>a, <1>b, <1>e, <2>1, SMTT(30) DEF IInv, StatusInv, Threads
    <2> QED BY <2>3, <2>5, <2>6, <2>7, <2>8
  <1>f. TypeOK' /\ Baton' /\ SlotsInv' /\ SlotsInUse' /\ StatusInv'
    BY <1>d, <1>e, Zenon DEF Callback, Awaited, s
  <1>1. TypeOK'
    BY <1>f
  <1>2. Baton'
    BY <1>f
  <1>3. ThreadRoles' /\ OneExecutor'
    BY <1>0
       DEF IInv, TypeOK, ThreadRoles, Threads, OneExecutor, Executing,
           Callback, Goto
  <1>4. SlotsInv' /\ SlotsInUse'
    BY <1>f
  <1>5. StatusInv'
    BY <1>f
  <1>6. RefInv'
    <2>1. \E l \in {"resume", "release"} : Goto(c, l)
      BY DEF Callback
    <2>2. Cardinality(Active') = Cardinality(Active)
      BY <1>0, <2>1, Moved DEF IInv, Callback
    <2> QED BY <2>2 DEF IInv, RefInv, Callback
  <1> QED BY <1>1, <1>2, <1>3, <1>4, <1>5, <1>6 DEF IInv

LEMMA ArmKeepsIInv ==
    ASSUME IInv, NEW t \in Threads, NEW s \in Slots, Arm(t, s)
    PROVE  IInv'
  <1> DEFINE S == slot[s]
  <1>0. PICK c \in Callers :
          /\ pc[c] = "idle"
          /\ Goto(c, "op")
          /\ cb' = [cb EXCEPT ![c] = [to |-> s, status |-> "ok"]]
    BY Zenon DEF Arm
  <1>a. /\ c \in Threads
        /\ slot \in [Slots -> Slot]
        /\ S.status_ = "FREE"
        /\ slot' = [slot EXCEPT ![s] =
                       [S EXCEPT !.status_ = "WAITING", !.next_ = NoMethod]]
        /\ cb \in [Callers -> Call \cup {NoCall}]
        /\ pc \in [Threads -> {"idle", "enter", "fetch", "body", "check",
                 "leave", "op", "resume", "schedule", "release"}]
        /\ pc[t] = "body"
        /\ UNCHANGED <<running_, next_, deleted, scheduled, outcome>>
    BY Zenon DEF IInv, TypeOK, Arm, Threads
  <1>b. /\ \A r \in Slots : r # s => slot'[r] = slot[r]
        /\ slot'[s] \in Slot
        /\ slot'[s].next_ = NoMethod
        /\ slot'[s].status_ = "WAITING"
        /\ \A d \in Callers : d # c => cb'[d] = cb[d]
        /\ cb'[c] = [to |-> s, status |-> "ok"]
        /\ \A u \in Threads : u # c => pc'[u] = pc[u]
        /\ pc'[c] = "op"
    BY <1>0, <1>a, SMAssumption, Zenon DEF Slot, Goto
  <1>c. \A r \in Slots : ~Awaited(r) /\ ~Awaited(r)'
    BY <1>a, <1>b DEF IInv, Baton, HasBaton, Awaited
  <1>d. \A u \in Threads : HasBaton(u)' <=> HasBaton(u)
    BY <1>0, <1>a, <1>b DEF HasBaton
  <1>1. TypeOK'
    <2>1. slot' \in [Slots -> Slot]
      BY <1>a, <1>b
    <2>2. cb' \in [Callers -> Call \cup {NoCall}]
      BY <1>0, <1>a DEF Call, Methods, CBException
    <2> QED BY <1>0, <1>a, <2>1, <2>2 DEF IInv, TypeOK, Arm, Goto
  <1>2. Baton'
    BY <1>a, <1>b, <1>c, <1>d DEF IInv, Baton
  <1>3. ThreadRoles' /\ OneExecutor'
    BY <1>0, <1>a, <1>b, SMAssumption
       DEF IInv, ThreadRoles, Threads, OneExecutor, Executing
  <1>4. SlotsInv' /\ SlotsInUse'
    <2>1. \A d \in Callers : pc[d] = "op" => d # c /\ cb[d].to # s
      BY <1>0, <1>a DEF IInv, SlotsInv
    <2>2. SlotsInv'
      BY <1>a, <1>b, <1>c, <2>1 DEF IInv, SlotsInv, Threads
    <2>3. HasBaton(t)'
      BY <1>a, <1>d DEF HasBaton
    <2> QED BY <2>2, <2>3 DEF SlotsInUse
  <1>5. StatusInv'
    <2>1. next_ = NoCall
      BY <1>a DEF IInv, Baton
    <2>2. \A d \in Callers : pc[d] \notin {"resume", "schedule"}
      BY <1>a DEF IInv, Baton, HasBaton, Threads
    <2> QED BY <1>a, <1>b, <2>1, <2>2, SMAssumption
            DEF IInv, StatusInv, Threads, NoCall
  <1>6. RefInv'
    <2>1. Cardinality(Active') = Cardinality(Active) + 1
      BY <1>0, <1>a, Moved DEF IInv
    <2>2. refcount_ > 0 /\ ~deleted
      BY <1>a, Referenced DEF IInv
    <2> QED BY <1>a, <2>1, <2>2, ActiveFinite DEF IInv, TypeOK, RefInv, Arm
  <1> QED BY <1>1, <1>2, <1>3, <1>4, <1>5, <1>6 DEF IInv

LEMMA NextKeepsIInv ==
    ASSUME IInv, [Next]_vars
    PROVE  IInv'
  <1>1. CASE UNCHANGED vars
    <2>1. TypeOK' /\ Baton' /\ ThreadRoles'
      BY <1>1, SMTT(30) DEF vars, IInv, TypeOK, Baton, HasBaton, Awaited, ThreadRoles
    <2>2. OneExecutor' /\ SlotsInv' /\ SlotsInUse'
      BY <1>1 DEF vars, IInv, OneExecutor, Executing, SlotsInv, SlotsInUse,
                  HasBaton, Awaited
    <2>3. StatusInv' /\ RefInv'
      BY <1>1 DEF vars, IInv, StatusInv, RefInv, Active
    <2> QED BY <2>1, <2>2, <2>3 DEF IInv
  <1>2. CASE Next
    <2>1. ASSUME NEW t \in Threads, Begin(t) \/ Enter(t) \/ Fetch(t)
          PROVE  IInv'
      BY <2>1, BeginKeepsIInv, EnterKeepsIInv, FetchKeepsIInv
    <2>2. ASSUME NEW t \in Threads, Check(t) \/ Leave(t)
          PROVE  IInv'
      BY <2>2, CheckKeepsIInv, LeaveKeepsIInv
    <2>3. ASSUME NEW t \in Threads, NEW s \in Slots, Arm(t, s) \/ Wait(t, s)
          PROVE  IInv'
      BY <2>3, ArmKeepsIInv, WaitKeepsIInv
    <2>4. ASSUME NEW t \in Threads, setNextMethod(t) \/ Finish(t)
          PROVE  IInv'
      BY <2>4, NextMethodKeepsIInv, FinishKeepsIInv
    <2>5. ASSUME NEW c \in Callers, NEW e \in CBException, Callback(c, e)
          PROVE  IInv'
      BY <2>5, CallbackKeepsIInv
    <2>6. ASSUME NEW c \in Callers, Resume(c) \/ Schedule(c) \/ CallerRelease(c)
          PROVE  IInv'
      BY <2>6, ResumeKeepsIInv, ScheduleKeepsIInv, CallerReleaseKeepsIInv
    <2>7. CASE Terminated
      BY <2>7, <1>1 DEF Terminated
    <2> QED BY <1>2, <2>1, <2>2, <2>3, <2>4, <2>5, <2>6, <2>7 DEF Next
  <1> QED BY <1>1, <1>2

-----------------------------------------------------------------------------
(* The theorems *)

\* The baton invariant holds of every state machine, whatever its slots, the
\* threads of the pool and the callbacks.
THEOREM Invariance == Spec => []IInv
  <1>1. Init => IInv
    BY InitIInv
  <1>2. IInv /\ [Next]_vars => IInv'
    BY NextKeepsIInv
  <1> QED BY <1>1, <1>2, PTL DEF Spec

\* The members of SimpleSM and SimpleSlots keep their types.
THEOREM TypeCorrect == Spec => []TypeOK
  <1>1. IInv => TypeOK
    BY DEF IInv
  <1> QED BY <1>1, Invariance, PTL

\* SimpleSM::execute runs in one thread at a time, and running_ says so.
THEOREM ExecutedByOne == Spec => []OneExecutor
  <1>1. IInv => OneExecutor
    BY DEF IInv
  <1> QED BY <1>1, Invariance, PTL

\* The assertions of SimpleSM::execute and SimpleSM::resumeSM do not fail.
THEOREM NoAssertFails == Spec => []AssertsHold
  <1>1. IInv => AssertsHold
    BY DEF IInv, Baton, AssertsHold, Threads
  <1> QED BY <1>1, Invariance, PTL

\* intrusive_ptr_release deletes a machine only when nobody uses it any more,
\* and ~SimpleSM and ~SimpleSlots find it at rest.
THEOREM DeletedAtRest == Spec => []DeletedUnused
  <1>1. ASSUME IInv, deleted
        PROVE  /\ \A t \in Threads : pc[t] = "idle"
               /\ scheduled = 0
    <2>1. scheduled = 0 /\ Cardinality(Active) = 0
      BY <1>1, ActiveFinite DEF IInv, TypeOK, RefInv
    <2>2. Active = {}
      BY <2>1, ActiveFinite, FS_EmptySet
    <2> QED BY <2>1, <2>2 DEF Active
  <1>2. ASSUME IInv, deleted
        PROVE  \A s \in Slots : slot[s].status_ = "FREE"
    <2>1. \A t \in Threads : pc[t] = "idle"
      BY <1>1, <1>2
    <2>2. \A s \in Slots : slot[s].status_ # "WAITING"
      BY <1>2, <2>1 DEF IInv, SlotsInv, Threads
    <2>3. \A s \in Slots : ~Awaited(s)
      BY <1>2, <2>2 DEF IInv, SlotsInv
    <2> QED BY <1>1, <1>2, <2>1, <2>3 DEF IInv, SlotsInUse, HasBaton
  <1>3. IInv => DeletedUnused
    BY <1>1, <1>2 DEF DeletedUnused, IInv, OneExecutor, Executing
  <1> QED BY <1>3, Invariance, PTL

\* A method that waited for a slot is called with the exception of that slot's
\* operation.
THEOREM ExceptionDelivered == Spec => []StatusDelivered
  <1>1. IInv => StatusDelivered
    BY DEF IInv, StatusInv, StatusDelivered
  <1> QED BY <1>1, Invariance, PTL
=============================================================================
