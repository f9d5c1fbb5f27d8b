------------------------ MODULE TokenResourceProofs ------------------------
(***************************************************************************)
(* Proofs about TokenResource for any number of clients, tokens and limits *)
(* (TokenResource.cpp): tokens are conserved, and the single wake-up of    *)
(* release strands nobody.                                                 *)
(***************************************************************************)
EXTENDS TokenResource, FiniteSetTheorems, SequenceTheorems, TLAPS

Holdings == [Clients -> 0..MaxTokens]

LEMMA MaxTokensNat == MaxTokens \in Nat
  BY BoundsAssumption

\* The pairs of one client.
LEMMA OwnTokens ==
    ASSUME NEW c, NEW n \in 0..MaxTokens
    PROVE  IsFiniteSet({c} \X (1..n)) /\ Cardinality({c} \X (1..n)) = n
  <1>1. n \in Nat
    BY MaxTokensNat
  <1>2. IsFiniteSet(1..n) /\ Cardinality(1..n) = n
    BY <1>1, FS_Interval
  <1>3. IsFiniteSet({c}) /\ Cardinality({c}) = 1
    BY FS_Singleton, Zenon
  <1>4. /\ IsFiniteSet({c} \X (1..n))
        /\ Cardinality({c} \X (1..n)) = Cardinality({c}) * Cardinality(1..n)
    BY <1>2, <1>3, FS_Product
  <1> QED BY <1>1, <1>2, <1>3, <1>4

LEMMA HeldTokensFinite ==
    ASSUME NEW hold \in Holdings
    PROVE  /\ IsFiniteSet(HeldTokens(hold))
           /\ Cardinality(HeldTokens(hold)) \in Nat
  <1>1. IsFiniteSet(1..MaxTokens)
    BY MaxTokensNat, FS_Interval
  <1>2. IsFiniteSet(Clients \X (1..MaxTokens))
    BY <1>1, ClientsAssumption, FS_Product, Zenon
  <1>3. HeldTokens(hold) \in SUBSET (Clients \X (1..MaxTokens))
    BY DEF HeldTokens
  <1> QED BY <1>2, <1>3, FS_Subset, FS_CardinalityType

\* With the holding of one client split off, the number of the pairs is the
\* sum of that holding and of the others.
LEMMA SplitHolding ==
    ASSUME NEW hold \in Holdings, NEW c \in Clients
    PROVE  Cardinality(HeldTokens(hold)) =
             Cardinality(HeldTokens([hold EXCEPT ![c] = 0])) + hold[c]
  <1> DEFINE others == HeldTokens([hold EXCEPT ![c] = 0])
             own == {c} \X (1..hold[c])
  <1>1. hold[c] \in 0..MaxTokens /\ [hold EXCEPT ![c] = 0] \in Holdings
    BY MaxTokensNat DEF Holdings
  <1>2. IsFiniteSet(own) /\ Cardinality(own) = hold[c]
    BY <1>1, OwnTokens, Zenon
  <1>3. IsFiniteSet(others) /\ Cardinality(others) \in Nat
    BY <1>1, HeldTokensFinite
  <1>4. HeldTokens(hold) = others \cup own
    BY MaxTokensNat, <1>1 DEF HeldTokens, Holdings
  <1>5. others \cap own = {}
    BY MaxTokensNat, <1>1 DEF HeldTokens, Holdings
  <1>6. Cardinality(others \cap own) = 0
    BY <1>5, FS_EmptySet, Zenon
  <1>7. Cardinality(others \cup own) =
          Cardinality(others) + Cardinality(own) - Cardinality(others \cap own)
    BY <1>2, <1>3, FS_Union, Zenon
  <1> QED BY <1>1, <1>2, <1>3, <1>4, <1>6, <1>7, MaxTokensNat

\* What a change of one holding does to the sum.
LEMMA ChangeHolding ==
    ASSUME NEW hold \in Holdings, NEW c \in Clients, NEW n \in 0..MaxTokens
    PROVE  /\ [hold EXCEPT ![c] = n] \in Holdings
           /\ Cardinality(HeldTokens([hold EXCEPT ![c] = n])) + hold[c] =
                Cardinality(HeldTokens(hold)) + n
  <1> DEFINE new == [hold EXCEPT ![c] = n]
             rest == [hold EXCEPT ![c] = 0]
  <1>0. 0 \in 0..MaxTokens /\ hold[c] \in 0..MaxTokens /\ 0..MaxTokens \subseteq Nat
    BY MaxTokensNat DEF Holdings
  <1>1. /\ new \in Holdings
        /\ rest \in Holdings
        /\ new[c] = n
        /\ [new EXCEPT ![c] = 0] = rest
    <2>1. new \in Holdings /\ rest \in Holdings
      BY <1>0 DEF Holdings
    <2>2. new[c] = n
      BY DEF Holdings
    <2>3. [new EXCEPT ![c] = 0] = rest
      BY Zenon DEF Holdings
    <2> QED BY <2>1, <2>2, <2>3
  <1>2. Cardinality(HeldTokens(hold)) = Cardinality(HeldTokens(rest)) + hold[c]
    BY SplitHolding
  <1>3. Cardinality(HeldTokens(new)) = Cardinality(HeldTokens(rest)) + n
    <2> HIDE DEF new, rest
    <2> QED BY <1>1, SplitHolding
  <1>4. /\ Cardinality(HeldTokens(rest)) \in Nat
        /\ hold[c] \in Nat
        /\ n \in Nat
    <2> HIDE DEF new, rest
    <2> QED BY <1>0, <1>1, HeldTokensFinite
  <1> QED BY <1>1, <1>2, <1>3, <1>4

\* Nobody holds a token exactly when the sum is zero.
LEMMA NothingHeld ==
    ASSUME NEW hold \in Holdings
    PROVE  Cardinality(HeldTokens(hold)) > 0 <=> \E c \in Clients : hold[c] > 0
  <1>1. IsFiniteSet(HeldTokens(hold)) /\ Cardinality(HeldTokens(hold)) \in Nat
    BY HeldTokensFinite
  <1>2. HeldTokens(hold) = {} <=> ~ \E c \in Clients : hold[c] > 0
    <2>1. ASSUME NEW c \in Clients, hold[c] > 0
          PROVE  HeldTokens(hold) # {}
      <3>1. <<c, 1>> \in HeldTokens(hold)
        BY <2>1, MaxTokensNat DEF HeldTokens, Holdings
      <3> QED BY <3>1
    <2>2. ASSUME HeldTokens(hold) # {}
          PROVE  \E c \in Clients : hold[c] > 0
      <3>1. PICK u \in Clients \X (1..MaxTokens) : u[2] =< hold[u[1]]
        BY <2>2 DEF HeldTokens
      <3>2. u[1] \in Clients /\ u[2] \in 1..MaxTokens /\ hold[u[1]] \in Nat
        BY MaxTokensNat DEF Holdings
      <3> QED BY <3>1, <3>2, MaxTokensNat
    <2> QED BY <2>1, <2>2
  <1>3. Cardinality(HeldTokens(hold)) = 0 <=> HeldTokens(hold) = {}
    BY <1>1, FS_EmptySet
  <1> QED BY <1>1, <1>2, <1>3

-----------------------------------------------------------------------------
(* The inductive invariant *)

IInv == TypeOK /\ Conservation /\ QueuedOnce /\ NoStranding

LEMMA InitIInv == Init => IInv
  <1> SUFFICES ASSUME Init PROVE IInv
    OBVIOUS
  <1> USE BoundsAssumption DEF Init
  <1>1. held \in Holdings
    BY DEF Holdings
  <1>2. TypeOK
    <2>1. waitlist_ \in Seq(TokenRequest)
      BY EmptySeq
    <2>2. due \in [Clients -> {"none", "ok", "cancelled"}]
      OBVIOUS
    <2>3. handle \in [Clients -> Addrs \cup {NoHandle}]
      OBVIOUS
    <2> QED BY <1>1, <2>1, <2>2, <2>3, Zenon DEF TypeOK, Holdings
  <1>3. Conservation
    <2>1. Cardinality(HeldTokens(held)) = 0
      BY <1>1, NothingHeld, HeldTokensFinite
    <2> QED BY <2>1 DEF Conservation
  <1>4. QueuedOnce /\ NoStranding
    BY DEF QueuedOnce, NoStranding
  <1> QED BY <1>2, <1>3, <1>4 DEF IInv

\* The part that release and add_tokens_limit share: avail tokens are free,
\* the clients keep hold, and check serves the head if it can.
LEMMA CheckKeepsIInv ==
    ASSUME IInv, NEW avail \in Nat, NEW hold \in Holdings,
           avail + Cardinality(HeldTokens(hold)) = supply',
           supply' \in Nat,
           \A i \in DOMAIN waitlist_ : hold[waitlist_[i].cb] = 0,
           check(avail, hold),
           UNCHANGED <<started_, handle, looping>>
    PROVE  IInv'
  <1> USE MaxTokensNat
  <1>0. /\ waitlist_ \in Seq(TokenRequest)
        /\ DOMAIN waitlist_ = 1..Len(waitlist_)
        /\ \A i \in DOMAIN waitlist_ : waitlist_[i] \in TokenRequest
    BY LenProperties, ElementOfSeq DEF IInv, TypeOK
  <1>1. CASE waitlist_ # <<>> /\ Head(waitlist_).tokens =< avail
    <2> DEFINE f == Head(waitlist_)
    <2>1. /\ tokens_available_' = avail - f.tokens
          /\ held' = [hold EXCEPT ![f.cb] = f.tokens]
          /\ due' = [due EXCEPT ![f.cb] = "ok"]
          /\ waitlist_' = Tail(waitlist_)
      BY <1>1 DEF check, notify_next
    <2>2. /\ f = waitlist_[1]
          /\ 1 \in DOMAIN waitlist_
          /\ f.cb \in Clients
          /\ f.tokens \in 1..MaxTokens
          /\ f.tokens =< avail
      BY <1>0, <1>1, SMTT(30) DEF TokenRequest
    <2>3. /\ waitlist_' \in Seq(TokenRequest)
          /\ DOMAIN waitlist_' = 1..(Len(waitlist_) - 1)
          /\ \A i \in DOMAIN waitlist_' :
                i + 1 \in DOMAIN waitlist_ /\ waitlist_'[i] = waitlist_[i + 1]
      BY <1>0, <1>1, <2>1, HeadTailProperties, LenProperties
    <2>4. hold[f.cb] = 0
      BY <2>2
    <2> HIDE DEF f
    <2>5. /\ held' \in Holdings
          /\ Cardinality(HeldTokens(held')) =
               Cardinality(HeldTokens(hold)) + f.tokens
          /\ held'[f.cb] = f.tokens
      <3>1. f.tokens \in 0..MaxTokens /\ f.tokens \in Nat
        BY <2>2
      <3>2. Cardinality(HeldTokens(held')) \in Nat
        BY <2>1, <2>2, <3>1, ChangeHolding, HeldTokensFinite, Zenon
      <3>3. held'[f.cb] = f.tokens
        BY <2>1, <2>2 DEF Holdings
      <3>4. /\ held' \in Holdings
            /\ Cardinality(HeldTokens(held')) + 0 =
                 Cardinality(HeldTokens(hold)) + f.tokens
        <4>1. /\ [hold EXCEPT ![f.cb] = f.tokens] \in Holdings
              /\ Cardinality(HeldTokens([hold EXCEPT ![f.cb] = f.tokens]))
                   + hold[f.cb] = Cardinality(HeldTokens(hold)) + f.tokens
          BY <2>2, <3>1, ChangeHolding
        <4> QED BY <2>1, <2>4, <4>1
      <3> QED BY <3>2, <3>3, <3>4
    <2>6. TypeOK'
      BY <2>1, <2>2, <2>3, <2>5 DEF IInv, TypeOK, Holdings
    <2>7. Conservation'
      BY <2>1, <2>2, <2>5, HeldTokensFinite DEF Conservation
    <2>8. QueuedOnce'
      <3>1. \A i \in DOMAIN waitlist_ :
              /\ due[waitlist_[i].cb] = "none"
              /\ waitlist_[i].cb \in Clients
              /\ \A j \in DOMAIN waitlist_ :
                    i # j => /\ waitlist_[i].cb # waitlist_[j].cb
                             /\ waitlist_[i].at # waitlist_[j].at
        BY <1>0 DEF IInv, QueuedOnce, TokenRequest
      <3>2. \A i \in DOMAIN waitlist_' :
              /\ i + 1 \in DOMAIN waitlist_
              /\ waitlist_'[i] = waitlist_[i + 1]
              /\ waitlist_[i + 1].cb # f.cb
        BY <2>2, <2>3, <3>1
      <3>3. \A i \in DOMAIN waitlist_' : held'[waitlist_'[i].cb] = 0
        BY <2>1, <3>1, <3>2 DEF Holdings
      <3>4. \A i \in DOMAIN waitlist_' : due'[waitlist_'[i].cb] = "none"
        BY <2>1, <3>1, <3>2 DEF IInv, TypeOK
      <3>5. \A i, j \in DOMAIN waitlist_' :
              i # j => /\ waitlist_'[i].cb # waitlist_'[j].cb
                       /\ waitlist_'[i].at # waitlist_'[j].at
        BY <2>3, <3>1, <3>2
      <3> QED BY <3>3, <3>4, <3>5 DEF QueuedOnce
    <2>9. NoStranding'
      BY <2>2, <2>5 DEF NoStranding
    <2> QED BY <2>6, <2>7, <2>8, <2>9 DEF IInv
  <1>2. CASE ~(waitlist_ # <<>> /\ Head(waitlist_).tokens =< avail)
    <2>1. /\ tokens_available_' = avail
          /\ held' = hold
          /\ waitlist_' = waitlist_
          /\ due' = due
      BY <1>2 DEF check
    <2>2. TypeOK'
      BY <2>1 DEF IInv, TypeOK, Holdings
    <2>3. Conservation'
      BY <2>1 DEF Conservation
    <2>4. QueuedOnce'
      BY <2>1 DEF IInv, QueuedOnce
    <2>5. NoStranding'
      <3> SUFFICES ASSUME waitlist_ # <<>>, MaxTokens =< supply'
                   PROVE  \E c \in Clients : hold[c] > 0
        BY <2>1 DEF NoStranding
      <3>1. Head(waitlist_).tokens \in 1..MaxTokens
        BY <1>0, SMTT(30) DEF TokenRequest
      <3>2. avail < supply'
        BY <1>2, <3>1
      <3>3. Cardinality(HeldTokens(hold)) > 0
        BY <3>2, HeldTokensFinite
      <3> QED BY <3>3, NothingHeld
    <2> QED BY <2>2, <2>3, <2>4, <2>5 DEF IInv
  <1> QED BY <1>1, <1>2

\* Taking n tokens that are there for an idle client.
LEMMA TakeKeepsSum ==
    ASSUME IInv, NEW c \in Clients, NEW n \in 0..MaxTokens,
           held[c] = 0, try_request_unlocked(n), Take(c, n)
    PROVE  /\ tokens_available_' \in Nat
           /\ held' \in Holdings
           /\ held'[c] = n
           /\ \A d \in Clients : d # c => held'[d] = held[d]
           /\ tokens_available_' + Cardinality(HeldTokens(held')) = supply
  <1>1. /\ n \in Nat
        /\ n =< tokens_available_
        /\ tokens_available_ \in Nat
        /\ held \in Holdings
    BY MaxTokensNat DEF IInv, TypeOK, Holdings, try_request_unlocked
  <1>2. /\ held' \in Holdings
        /\ Cardinality(HeldTokens(held')) + 0 = Cardinality(HeldTokens(held)) + n
    BY <1>1, ChangeHolding, Zenon DEF Take
  <1>3. held'[c] = n /\ \A d \in Clients : d # c => held'[d] = held[d]
    BY <1>1 DEF Take, Holdings
  <1>4. tokens_available_ + Cardinality(HeldTokens(held)) = supply
    BY DEF IInv, Conservation
  <1>5. /\ Cardinality(HeldTokens(held)) \in Nat
        /\ Cardinality(HeldTokens(held')) \in Nat
    BY <1>1, <1>2, HeldTokensFinite
  <1> QED BY <1>1, <1>2, <1>3, <1>4, <1>5 DEF Take

LEMMA RequestKeepsIInv ==
    ASSUME IInv, NEW c \in Clients, NEW n \in 0..MaxTokens,
           request(c, n) \/ try_request(c, n)
    PROVE  IInv'
  <1> USE MaxTokensNat
  <1>0. /\ held[c] = 0
        /\ due[c] = "none"
        /\ c \notin Waiting
        /\ UNCHANGED <<started_, looping, supply>>
    BY DEF request, try_request, Idle
  <1>1. /\ waitlist_ \in Seq(TokenRequest)
        /\ DOMAIN waitlist_ = 1..Len(waitlist_)
        /\ Len(waitlist_) \in Nat
        /\ \A i \in DOMAIN waitlist_ :
              waitlist_[i] \in TokenRequest /\ waitlist_[i].cb # c
    BY <1>0, LenProperties, ElementOfSeq DEF IInv, TypeOK, Waiting
  <1>2. CASE try_request_unlocked(n) /\ Take(c, n)
    <2>1. /\ tokens_available_' \in Nat
          /\ held' \in Holdings
          /\ held'[c] = n
          /\ \A d \in Clients : d # c => held'[d] = held[d]
          /\ tokens_available_' + Cardinality(HeldTokens(held')) = supply
      BY <1>0, <1>2, TakeKeepsSum
    <2>2. /\ waitlist_' = waitlist_
          /\ due' = due \/ due' = [due EXCEPT ![c] = "ok"]
          /\ handle' = handle \/ handle' = [handle EXCEPT ![c] = NoHandle]
      BY <1>2 DEF request, try_request
    <2>3. /\ due' \in [Clients -> {"none", "ok", "cancelled"}]
          /\ \A d \in Clients : d # c => due'[d] = due[d]
          /\ handle' \in [Clients -> Addrs \cup {NoHandle}]
      BY <2>2 DEF IInv, TypeOK
    <2>4. TypeOK'
      BY <1>0, <2>1, <2>2, <2>3 DEF IInv, TypeOK, Holdings
    <2>5. Conservation'
      BY <1>0, <2>1 DEF Conservation
    <2>6. QueuedOnce'
      BY <1>1, <2>1, <2>2, <2>3, SMTT(30) DEF IInv, QueuedOnce, TokenRequest
    <2>7. NoStranding'
      <3> SUFFICES ASSUME waitlist_ # <<>>, MaxTokens =< supply
                   PROVE  \E d \in Clients : held'[d] > 0
        BY <1>0, <2>2 DEF NoStranding
      <3>1. PICK d \in Clients : held[d] > 0
        BY DEF IInv, NoStranding
      <3> QED BY <1>0, <2>1, <3>1
    <2> QED BY <2>4, <2>5, <2>6, <2>7 DEF IInv
  <1>3. CASE ~try_request_unlocked(n) /\ try_request(c, n)
    BY <1>3 DEF try_request, IInv, TypeOK, Conservation, QueuedOnce, NoStranding
  <1>4. CASE ~try_request_unlocked(n) /\ request(c, n)
    <2>1. PICK a \in Addrs \ UsedAddrs :
            /\ waitlist_' =
                  Append(waitlist_, [cb |-> c, tokens |-> n, at |-> a])
            /\ handle' = [handle EXCEPT ![c] = a]
            /\ UNCHANGED <<tokens_available_, held, due>>
      BY <1>4, Zenon DEF request
    <2> DEFINE r == [cb |-> c, tokens |-> n, at |-> a]
    <2>2. r \in TokenRequest
      BY <1>4 DEF TokenRequest, try_request_unlocked
    <2>3. /\ waitlist_' \in Seq(TokenRequest)
          /\ DOMAIN waitlist_' = 1..(Len(waitlist_) + 1)
          /\ \A i \in DOMAIN waitlist_ : waitlist_'[i] = waitlist_[i]
          /\ waitlist_'[Len(waitlist_) + 1] = r
      BY <1>1, <2>1, <2>2, AppendProperties, LenProperties
    <2>4. TypeOK'
      BY <1>0, <2>1, <2>3 DEF IInv, TypeOK
    <2>5. Conservation'
      BY <1>0, <2>1, SMTT(30) DEF IInv, Conservation
    <2>6. QueuedOnce'
      <3>1. \A i \in DOMAIN waitlist_ :
              waitlist_[i].cb # c /\ waitlist_[i].at # a
        BY <1>1, <2>1 DEF UsedAddrs
      <3> QED BY <1>0, <1>1, <2>1, <2>3, <3>1, SMTT(30) DEF IInv, QueuedOnce
    <2>7. NoStranding'
      <3>1. CASE waitlist_ # <<>>
        BY <1>0, <2>1, <3>1 DEF IInv, NoStranding
      <3>2. CASE waitlist_ = <<>>
        <4> SUFFICES ASSUME MaxTokens =< supply
                     PROVE  \E d \in Clients : held[d] > 0
          BY <1>0, <2>1 DEF NoStranding
        <4>1. tokens_available_ < n
          BY <1>4, <3>2 DEF try_request_unlocked, IInv, TypeOK
        <4>2. Cardinality(HeldTokens(held)) > 0
          BY <4>1, HeldTokensFinite DEF IInv, TypeOK, Conservation, Holdings
        <4> QED BY <4>2, NothingHeld DEF IInv, TypeOK, Holdings
      <3> QED BY <3>1, <3>2
    <2> QED BY <2>4, <2>5, <2>6, <2>7 DEF IInv
  <1> QED BY <1>2, <1>3, <1>4, Zenon DEF request, try_request

LEMMA ReleaseKeepsIInv ==
    ASSUME IInv, NEW c \in Clients, NEW n \in 0..MaxTokens, release(c, n)
    PROVE  IInv'
  <1> DEFINE hold == [held EXCEPT ![c] = held[c] - n]
             avail == tokens_available_ + n
  <1>1. /\ n \in Nat /\ n =< held[c]
        /\ held[c] \in Nat /\ held[c] - n \in 0..MaxTokens
        /\ tokens_available_ \in Nat /\ supply \in Nat
        /\ held \in Holdings
    BY MaxTokensNat DEF IInv, TypeOK, Holdings, release
  <1>2. /\ hold \in Holdings
        /\ Cardinality(HeldTokens(hold)) + held[c] =
             Cardinality(HeldTokens(held)) + (held[c] - n)
    BY <1>1, ChangeHolding
  <1>3. \A i \in DOMAIN waitlist_ : hold[waitlist_[i].cb] = 0
    <2>1. \A i \in DOMAIN waitlist_ :
            waitlist_[i].cb \in Clients /\ held[waitlist_[i].cb] = 0
      <3>1. \A i \in DOMAIN waitlist_ : waitlist_[i] \in TokenRequest
        BY LenProperties, ElementOfSeq DEF IInv, TypeOK
      <3> QED BY <3>1 DEF IInv, QueuedOnce, TokenRequest
    <2> QED BY <1>1, <2>1 DEF Holdings
  <1>4. /\ check(avail, hold)
        /\ UNCHANGED <<started_, handle, looping>>
        /\ supply' = supply
    BY DEF release
  <1> HIDE DEF hold
  <1>5. avail + Cardinality(HeldTokens(hold)) = supply'
    <2>1. /\ Cardinality(HeldTokens(hold)) \in Nat
          /\ Cardinality(HeldTokens(held)) \in Nat
      BY <1>1, <1>2, HeldTokensFinite
    <2>2. tokens_available_ + Cardinality(HeldTokens(held)) = supply
      BY DEF IInv, Conservation
    <2> QED BY <1>1, <1>2, <1>4, <2>1, <2>2
  <1>6. avail \in Nat /\ supply' \in Nat
    BY <1>1, <1>4
  <1> HIDE DEF avail
  <1> QED BY <1>2, <1>3, <1>4, <1>5, <1>6, CheckKeepsIInv

LEMMA AddTokensKeepsIInv ==
    ASSUME IInv, NEW n \in 0..MaxTokens, NEW limit \in Limits,
           add_tokens_limit(n, limit)
    PROVE  IInv'
  <1>1. /\ n \in Nat /\ limit \in Nat
        /\ tokens_available_ \in Nat /\ supply \in Nat
        /\ held \in Holdings
        /\ Cardinality(HeldTokens(held)) \in Nat
        /\ tokens_available_ + Cardinality(HeldTokens(held)) = supply
    BY BoundsAssumption, HeldTokensFinite
       DEF IInv, TypeOK, Conservation, Holdings
  <1>2. CASE UNCHANGED <<tokens_available_, waitlist_, due, held, supply>>
    BY <1>2 DEF add_tokens_limit, IInv, TypeOK, Conservation, QueuedOnce,
                NoStranding
  <1>3. ASSUME NEW added \in Nat,
               check(tokens_available_ + added, held),
               supply' = supply + added
        PROVE  IInv'
    <2>1. \A i \in DOMAIN waitlist_ : held[waitlist_[i].cb] = 0
      BY DEF IInv, QueuedOnce
    <2>2. UNCHANGED <<started_, handle, looping>>
      BY DEF add_tokens_limit
    <2> DEFINE avail == tokens_available_ + added
    <2>3. /\ avail \in Nat
          /\ supply' \in Nat
          /\ avail + Cardinality(HeldTokens(held)) = supply'
          /\ check(avail, held)
      BY <1>1, <1>3
    <2> HIDE DEF avail
    <2> QED BY <1>1, <2>1, <2>2, <2>3, CheckKeepsIInv
  <1>4. CASE ~UNCHANGED <<tokens_available_, waitlist_, due, held, supply>>
    <2> DEFINE added == IF limit # 0 /\ limit - tokens_available_ < n
                        THEN limit - tokens_available_
                        ELSE n
    <2>1. /\ limit = 0 \/ tokens_available_ < limit
          /\ check(tokens_available_ + added, held)
          /\ supply' = supply + added
      BY <1>4 DEF add_tokens_limit
    <2>2. added \in Nat
      BY <1>1, <2>1
    <2> HIDE DEF added
    <2> QED BY <1>3, <2>1, <2>2
  <1> QED BY <1>2, <1>4

LEMMA CancelKeepsIInv ==
    ASSUME IInv, NEW c \in Clients, cancel(c)
    PROVE  IInv'
  <1>0. UNCHANGED <<tokens_available_, started_, handle, held, supply>>
    BY DEF cancel
  <1>1. CASE UNCHANGED <<waitlist_, due>>
    <2>1. looping' \in BOOLEAN
      BY Zenon DEF cancel, IInv, TypeOK
    <2> QED BY <1>0, <1>1, <2>1 DEF IInv, TypeOK, Conservation, QueuedOnce,
                                    NoStranding
  <1>2. CASE /\ waitlist_ # <<>>
             /\ waitlist_' = Tail(waitlist_)
             /\ due' = [due EXCEPT ![Head(waitlist_).cb] = "cancelled"]
             /\ UNCHANGED looping
    <2> DEFINE f == Head(waitlist_)
    <2>1. /\ waitlist_ \in Seq(TokenRequest)
          /\ DOMAIN waitlist_ = 1..Len(waitlist_)
          /\ \A i \in DOMAIN waitlist_ : waitlist_[i] \in TokenRequest
      BY LenProperties, ElementOfSeq DEF IInv, TypeOK
    <2>2. 1 \in DOMAIN waitlist_ /\ f = waitlist_[1]
      BY <1>2, <2>1
    <2>3. /\ waitlist_' \in Seq(TokenRequest)
          /\ \A i \in DOMAIN waitlist_' :
                /\ i \in Nat \ {0}
                /\ i + 1 \in DOMAIN waitlist_
                /\ waitlist_'[i] = waitlist_[i + 1]
      BY <1>2, <2>1, HeadTailProperties, LenProperties
    <2> HIDE DEF f
    <2>4. TypeOK'
      BY <1>0, <1>2, <2>3, Zenon DEF IInv, TypeOK
    <2>5. QueuedOnce'
      <3>1. \A i \in DOMAIN waitlist_' :
              waitlist_[i + 1].cb # f.cb /\ waitlist_[i + 1].cb \in Clients
        <4>1. \A i \in DOMAIN waitlist_ : waitlist_[i].cb \in Clients
          BY <2>1 DEF TokenRequest
        <4>2. \A i, j \in DOMAIN waitlist_ :
                i # j => waitlist_[i].cb # waitlist_[j].cb
          BY DEF IInv, QueuedOnce
        <4> QED BY <2>2, <2>3, <4>1, <4>2
      <3>2. due' = [due EXCEPT ![f.cb] = "cancelled"]
        BY <1>2 DEF f
      <3>3. \A i \in DOMAIN waitlist_' :
              /\ due'[waitlist_'[i].cb] = "none"
              /\ held'[waitlist_'[i].cb] = 0
        BY <1>0, <2>3, <3>1, <3>2 DEF IInv, TypeOK, QueuedOnce
      <3>4. \A i, j \in DOMAIN waitlist_' :
              i # j => /\ waitlist_'[i].cb # waitlist_'[j].cb
                       /\ waitlist_'[i].at # waitlist_'[j].at
        BY <2>3 DEF IInv, QueuedOnce
      <3> QED BY <3>3, <3>4 DEF QueuedOnce
    <2>6. Conservation' /\ NoStranding'
      BY <1>0, <1>2 DEF IInv, Conservation, NoStranding
    <2> QED BY <2>4, <2>5, <2>6 DEF IInv
  <1> QED BY <1>1, <1>2 DEF cancel

LEMMA NextKeepsIInv == IInv /\ [Next]_vars => IInv'
  <1> SUFFICES ASSUME IInv, [Next]_vars
               PROVE  IInv'
    OBVIOUS
  <1> USE DEF IInv, TypeOK, Conservation, QueuedOnce, NoStranding
  <1>1. CASE Start \/ Stop
    BY <1>1, ZenonT(30) DEF Start, Stop
  <1>2. ASSUME NEW c \in Clients, NEW n \in 0..MaxTokens,
               request(c, n) \/ try_request(c, n)
        PROVE  IInv'
    <2> HIDE DEF IInv
    <2> QED BY <1>2, RequestKeepsIInv
  <1>3. ASSUME NEW c \in Clients, NEW n \in 0..MaxTokens, release(c, n)
        PROVE  IInv'
    <2> HIDE DEF IInv
    <2> QED BY <1>3, ReleaseKeepsIInv
  <1>4. ASSUME NEW n \in 0..MaxTokens, NEW limit \in Limits,
               add_tokens_limit(n, limit)
        PROVE  IInv'
    <2> HIDE DEF IInv
    <2> QED BY <1>4, AddTokensKeepsIInv
  <1>5. ASSUME NEW c \in Clients, cancel(c)
        PROVE  IInv'
    <2> HIDE DEF IInv
    <2> QED BY <1>5, CancelKeepsIInv
  <1>6. ASSUME NEW c \in Clients, callback(c)
        PROVE  IInv'
    BY <1>6 DEF callback
  <1>7. CASE cancel_loop \/ UNCHANGED vars
    BY <1>7 DEF cancel_loop, vars
  <1> HIDE DEF IInv
  <1> QED BY <1>1, <1>2, <1>3, <1>4, <1>5, <1>6, <1>7 DEF Next

\* Every reachable state of TokenResource satisfies the type invariant, the
\* account of the tokens, and the promise that a waiting request has somebody
\* holding tokens to wait for (release, add_tokens_limit and check, which
\* serve a single request).
THEOREM Invariance == Spec => []IInv
  <1> QED BY InitIInv, NextKeepsIInv, PTL DEF Spec

THEOREM TypeCorrect == Spec => []TypeOK
  <1>1. IInv => TypeOK
    BY DEF IInv
  <1> QED BY <1>1, Invariance, PTL

\* No interleaving of request, release, add_tokens_limit and cancel makes or
\* loses a token.
THEOREM TokensConserved == Spec => []Conservation
  <1>1. IInv => Conservation
    BY DEF IInv
  <1> QED BY <1>1, Invariance, PTL

\* check serves one request, and still nobody waits without a holder whose
\* release will call check again.
THEOREM NobodyStranded == Spec => []NoStranding
  <1>1. IInv => NoStranding
    BY DEF IInv
  <1> QED BY <1>1, Invariance, PTL

\* A request is in the list once, and neither granted nor cancelled while it
\* is: notify_next and cancel remove what they complete.
THEOREM RequestQueuedOnce == Spec => []QueuedOnce
  <1>1. IInv => QueuedOnce
    BY DEF IInv
  <1> QED BY <1>1, Invariance, PTL

\* Whatever the interleaving, tokens go to the oldest waiting request.
THEOREM GrantsAreFIFO == Spec => FIFOGrants
  <1>1. ASSUME IInv, [Next]_vars
        PROVE  [GrantsOldest]_vars
    <2>0. /\ held \in [Clients -> 0..MaxTokens]
          /\ waitlist_ \in Seq(TokenRequest)
      BY <1>1 DEF IInv, TypeOK
    <2>1. ASSUME UNCHANGED <<held, waitlist_>>
          PROVE  GrantsOldest
      BY <2>0, <2>1, MaxTokensNat DEF GrantsOldest
    <2>2. ASSUME NEW avail \in Nat, NEW hold \in Holdings,
                 \A c \in Clients : hold[c] =< held[c],
                 check(avail, hold)
          PROVE  GrantsOldest
      <3>1. \A c \in Clients : hold[c] \in Nat /\ held[c] \in Nat
        BY <2>0, MaxTokensNat DEF Holdings
      <3>2. CASE waitlist_ # <<>> /\ Head(waitlist_).tokens =< avail
        <4>1. /\ held' = [hold EXCEPT ![Head(waitlist_).cb] =
                                Head(waitlist_).tokens]
              /\ waitlist_' = Tail(waitlist_)
          BY <2>2, <3>2 DEF check, notify_next
        <4>2. \A c \in Clients :
                c # Head(waitlist_).cb => held'[c] = hold[c]
          BY <4>1 DEF Holdings
        <4> QED BY <2>2, <3>1, <3>2, <4>1, <4>2 DEF GrantsOldest
      <3>3. CASE ~(waitlist_ # <<>> /\ Head(waitlist_).tokens =< avail)
        <4>1. held' = hold /\ waitlist_' = waitlist_
          BY <2>2, <3>3 DEF check
        <4> QED BY <2>2, <3>1, <4>1 DEF GrantsOldest
      <3> QED BY <3>2, <3>3
    <2>3. ASSUME NEW c \in Clients, NEW n \in 0..MaxTokens,
                 request(c, n) \/ try_request(c, n)
          PROVE  GrantsOldest
      <3>1. CASE try_request_unlocked(n) /\ Take(c, n) /\ UNCHANGED waitlist_
        <4>1. \A d \in Clients : held'[d] > held[d] => d = c /\ n > 0
          BY <2>0, <3>1, MaxTokensNat DEF Take
        <4> QED BY <3>1, <4>1, MaxTokensNat
                DEF GrantsOldest, try_request_unlocked
      <3>2. CASE /\ UNCHANGED held
                 /\ \E r \in TokenRequest : waitlist_' = Append(waitlist_, r)
        <4>1. \A i \in DOMAIN waitlist_ :
                i \in DOMAIN waitlist_' /\ waitlist_'[i] = waitlist_[i]
          BY <2>0, <3>2, AppendProperties, LenProperties
        <4> QED BY <2>0, <3>2, <4>1, MaxTokensNat DEF GrantsOldest
      <3>3. CASE UNCHANGED <<held, waitlist_>>
        BY <2>1, <3>3
      <3>4. ASSUME ~try_request_unlocked(n), NEW a \in Addrs
            PROVE  [cb |-> c, tokens |-> n, at |-> a] \in TokenRequest
        BY <3>4, MaxTokensNat DEF TokenRequest, try_request_unlocked
      <3> QED BY <2>3, <3>1, <3>2, <3>3, <3>4, Zenon DEF request, try_request
    <2>4. ASSUME NEW c \in Clients, NEW n \in 0..MaxTokens, release(c, n)
          PROVE  GrantsOldest
      <3> DEFINE hold == [held EXCEPT ![c] = held[c] - n]
      <3>1. /\ n =< held[c] /\ held[c] - n \in 0..MaxTokens
            /\ held[c] - n =< held[c]
            /\ tokens_available_ + n \in Nat
            /\ check(tokens_available_ + n, hold)
        BY <1>1, <2>0, <2>4, MaxTokensNat DEF release, IInv, TypeOK
      <3>2. hold \in Holdings /\ \A d \in Clients : hold[d] =< held[d]
        BY <2>0, <3>1, MaxTokensNat DEF Holdings
      <3> HIDE DEF hold
      <3> QED BY <2>2, <3>1, <3>2
    <2>5. ASSUME NEW n \in 0..MaxTokens, NEW limit \in Limits,
                 add_tokens_limit(n, limit)
          PROVE  GrantsOldest
      <3>1. CASE UNCHANGED <<held, waitlist_>>
        BY <2>1, <3>1
      <3>2. ASSUME NEW added \in Nat, check(tokens_available_ + added, held)
            PROVE  GrantsOldest
        <4>1. tokens_available_ + added \in Nat
          BY <1>1 DEF IInv, TypeOK
        <4>2. held \in Holdings /\ \A d \in Clients : held[d] =< held[d]
          BY <2>0, MaxTokensNat DEF Holdings
        <4> QED BY <2>2, <3>2, <4>1, <4>2
      <3>3. CASE ~UNCHANGED <<held, waitlist_>>
        <4> DEFINE added == IF limit # 0 /\ limit - tokens_available_ < n
                            THEN limit - tokens_available_
                            ELSE n
        <4>1. /\ limit = 0 \/ tokens_available_ < limit
              /\ check(tokens_available_ + added, held)
          BY <2>5, <3>3 DEF add_tokens_limit
        <4>2. added \in Nat
          BY <1>1, <4>1, BoundsAssumption DEF IInv, TypeOK
        <4> HIDE DEF added
        <4> QED BY <3>2, <4>1, <4>2
      <3> QED BY <3>1, <3>3
    <2>6. ASSUME NEW c \in Clients, cancel(c)
          PROVE  GrantsOldest
      BY <2>0, <2>6, MaxTokensNat DEF cancel, GrantsOldest
    <2>7. CASE \/ Start \/ Stop \/ cancel_loop
               \/ \E c \in Clients : callback(c)
      BY <2>1, <2>7 DEF Start, Stop, cancel_loop, callback, vars
    <2> QED BY <1>1, <2>3, <2>4, <2>5, <2>6, <2>7 DEF Next
  <1> QED BY <1>1, Invariance, PTL DEF Spec, FIFOGrants
=============================================================================
