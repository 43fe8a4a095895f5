----------------------- MODULE LimitConcurrencyProofs -----------------------
(***************************************************************************)
(* Proofs about LimitConcurrency, for any calls, keys, pool size and       *)
(* delays.                                                                 *)
(***************************************************************************)
EXTENDS LimitConcurrency, FiniteSetTheorems, TLAPS

(* The pool is what it is meant to be, and not too large. *)
PoolExact ==
  /\ pool = {c \in Calls : state[c] \in {"paused", "running"}}
  /\ IsFiniteSet(pool)
  /\ Cardinality(pool) <= Max

(* Each call made has a ticket of its own, the latest one `arrivals`. *)
Tickets ==
  /\ \A c \in Calls : state[c] # "idle" => ticket[c] <= arrivals
  /\ \A c, d \in Calls :
       state[c] # "idle" /\ state[d] # "idle" /\ c # d => ticket[c] # ticket[d]

(* keyPromise[k] is the latest pending call with key k. *)
LatestPending ==
  \A k \in Keys :
    /\ keyPromise[k] # None =>
         /\ KeyOf[keyPromise[k]] = k
         /\ Pending(keyPromise[k])
    /\ \A c \in Calls :
         KeyOf[c] = k /\ Pending(c) =>
           keyPromise[k] # None /\ ticket[c] <= ticket[keyPromise[k]]

(* A queued call awaits the call with its key made just before it. *)
AwaitsPrevious ==
  \A d \in Calls : state[d] = "queued" =>
    /\ old[d] \in Calls
    /\ \A c \in Calls :
         KeyOf[c] = KeyOf[d] /\ Pending(c) /\ ticket[c] < ticket[d]
         => ticket[c] <= ticket[old[d]]
    /\ state[old[d]] # "idle"
    /\ KeyOf[old[d]] = KeyOf[d]

(* The inductive invariant of the order in which calls are served. *)
Order == Tickets /\ LatestPending /\ AwaitsPrevious /\ SameKeyInOrder

-----------------------------------------------------------------------------
LEMMA PauseType ==
  ASSUME TypeOK, NEW k \in Keys
  PROVE  Pause(k) \in 0..MaxDelay
<1> DEFINE elapsed == IF keyTime[k] = None THEN 0 ELSE keyTime[k]
<1>1. /\ MaxDelay \in Nat
      /\ DiffKeyDelay \in 0..MaxDelay
      /\ 0 \in 0..MaxDelay
  BY DelayAssumption DEF MaxDelay
<1>2. elapsed \in 0..MaxDelay
  BY <1>1 DEF TypeOK
<1>3. Rest(MaxDelay, elapsed) \in 0..MaxDelay
  BY <1>1, <1>2 DEF Rest
<1>4. lastTime # None => Rest(DiffKeyDelay, lastTime) \in 0..MaxDelay
  BY <1>1 DEF Rest, TypeOK
<1> QED
  BY <1>1, <1>3, <1>4 DEF Pause

LEMMA EnterPoolType ==
  ASSUME TypeOK, NEW c \in Calls, EnterPool(c)
  PROVE  /\ state' \in [Calls -> States]
         /\ pool' \in SUBSET Calls
         /\ raced' \in [Calls -> SUBSET Calls]
         /\ left' \in [Calls -> 0..MaxDelay]
<1>1. Pause(KeyOf[c]) \in 0..MaxDelay
  BY PauseType, KeyOfAssumption
<1> QED
  BY <1>1 DEF EnterPool, TypeOK, States

LEMMA InitType == Init => TypeOK
  BY DelayAssumption DEF Init, TypeOK, States, MaxDelay

LEMMA NextType == TypeOK /\ [Next]_vars => TypeOK'
<1> SUFFICES ASSUME TypeOK, [Next]_vars PROVE TypeOK'
  OBVIOUS
<1>0. 0 \in 0..MaxDelay /\ MaxDelay \in Nat
  BY DelayAssumption DEF MaxDelay
<1>1. ASSUME NEW c \in Calls, Call(c) PROVE TypeOK'
  <2>1. KeyOf[c] \in Keys
    BY KeyOfAssumption
  <2>2. /\ state' \in [Calls -> States]
        /\ pool' \in SUBSET Calls
        /\ raced' \in [Calls -> SUBSET Calls]
        /\ left' \in [Calls -> 0..MaxDelay]
    BY <1>1, EnterPoolType DEF Call, TypeOK, States
  <2>3. /\ keyPromise' = [keyPromise EXCEPT ![KeyOf[c]] = c]
        /\ old' = [old EXCEPT ![c] = keyPromise[KeyOf[c]]]
        /\ arrivals' = arrivals + 1
        /\ ticket' = [ticket EXCEPT ![c] = arrivals + 1]
        /\ lastKey' = lastKey /\ keyTime' = keyTime /\ lastTime' = lastTime
    BY <1>1 DEF Call
  <2> QED
    BY <2>1, <2>2, <2>3 DEF TypeOK
<1>2. ASSUME NEW c \in Calls, OldEnded(c) PROVE TypeOK'
  BY <1>2, EnterPoolType DEF OldEnded, TypeOK
<1>3. ASSUME NEW c \in Calls, RaceEnded(c) PROVE TypeOK'
  BY <1>3, EnterPoolType DEF RaceEnded, TypeOK
<1>4. ASSUME NEW c \in Calls, Start(c) PROVE TypeOK'
  BY <1>4, KeyOfAssumption DEF Start, TypeOK, States
<1>5. ASSUME NEW c \in Calls, End(c) PROVE TypeOK'
  BY <1>0, <1>5, KeyOfAssumption DEF End, TypeOK, States
<1>6. ASSUME Tick PROVE TypeOK'
  BY <1>0, <1>6 DEF Tick, TypeOK, Older
<1>7. ASSUME UNCHANGED vars PROVE TypeOK'
  BY <1>7 DEF vars, TypeOK
<1> QED
  BY <1>1, <1>2, <1>3, <1>4, <1>5, <1>6, <1>7 DEF Next

(* Every variable keeps its type, pauses stay within the longest delay. *)
THEOREM TypeCorrect == Spec => []TypeOK
  BY InitType, NextType, PTL DEF Spec

-----------------------------------------------------------------------------
(* A call enters the pool only past the loop's test. *)
LEMMA EnterPoolKeepsPool ==
  ASSUME TypeOK, PoolExact, NEW c \in Calls, EnterPool(c),
         state[c] \notin {"paused", "running"}
  PROVE  PoolExact'
<1>1. CASE Cardinality(pool) = Max
  BY <1>1 DEF EnterPool, PoolExact, TypeOK
<1>2. CASE Cardinality(pool) # Max
  <2>1. pool' = pool \cup {c} /\ state' = [state EXCEPT ![c] = "paused"]
    BY <1>2 DEF EnterPool
  <2>2. pool' = {d \in Calls : state'[d] \in {"paused", "running"}}
    BY <2>1 DEF PoolExact, TypeOK
  <2>3. Cardinality(pool) \in Nat
    BY FS_CardinalityType DEF PoolExact
  <2>4. Cardinality(pool) + 1 <= Max
    BY <1>2, <2>3, MaxAssumption DEF PoolExact
  <2>5. IsFiniteSet(pool') /\ Cardinality(pool') <= Max
    BY <2>1, <2>3, <2>4, FS_AddElement, MaxAssumption DEF PoolExact
  <2> QED
    BY <2>2, <2>5 DEF PoolExact
<1> QED
  BY <1>1, <1>2

LEMMA InitPool == Init => PoolExact
<1> SUFFICES ASSUME Init PROVE PoolExact
  OBVIOUS
<1>1. pool = {c \in Calls : state[c] \in {"paused", "running"}}
  BY DEF Init
<1>2. IsFiniteSet({}) /\ Cardinality({}) = 0
  BY FS_EmptySet
<1> QED
  BY <1>1, <1>2, MaxAssumption DEF Init, PoolExact

LEMMA NextPool == TypeOK /\ PoolExact /\ [Next]_vars => PoolExact'
<1> SUFFICES ASSUME TypeOK, PoolExact, [Next]_vars PROVE PoolExact'
  OBVIOUS
<1>1. ASSUME NEW c \in Calls, Call(c) PROVE PoolExact'
  <2>1. CASE keyPromise[KeyOf[c]] # None
    BY <1>1, <2>1 DEF Call, PoolExact, TypeOK
  <2>2. CASE keyPromise[KeyOf[c]] = None
    BY <1>1, <2>2, EnterPoolKeepsPool DEF Call
  <2> QED
    BY <2>1, <2>2
<1>2. ASSUME NEW c \in Calls, OldEnded(c) PROVE PoolExact'
  BY <1>2, EnterPoolKeepsPool DEF OldEnded
<1>3. ASSUME NEW c \in Calls, RaceEnded(c) PROVE PoolExact'
  BY <1>3, EnterPoolKeepsPool DEF RaceEnded
<1>4. ASSUME NEW c \in Calls, Start(c) PROVE PoolExact'
  BY <1>4 DEF Start, PoolExact, TypeOK
<1>5. ASSUME NEW c \in Calls, End(c) PROVE PoolExact'
  <2>1. pool' = pool \ {c} /\ state' = [state EXCEPT ![c] = "done"]
    BY <1>5 DEF End
  <2>2. pool' = {d \in Calls : state'[d] \in {"paused", "running"}}
    BY <2>1 DEF PoolExact, TypeOK
  <2>3. Cardinality(pool) \in Nat
    BY FS_CardinalityType DEF PoolExact
  <2>4. IsFiniteSet(pool') /\ Cardinality(pool') <= Max
    BY <2>1, <2>3, FS_RemoveElement, MaxAssumption DEF PoolExact
  <2> QED
    BY <2>2, <2>4 DEF PoolExact
<1>6. ASSUME Tick PROVE PoolExact'
  BY <1>6 DEF Tick, PoolExact
<1>7. ASSUME UNCHANGED vars PROVE PoolExact'
  BY <1>7 DEF vars, PoolExact
<1> QED
  BY <1>1, <1>2, <1>3, <1>4, <1>5, <1>6, <1>7 DEF Next

(* At most Max calls are past the pool's gate, for any number of calls and *)
(* of waiters woken by the same end of a call.                             *)
THEOREM PoolBounded == Spec => []PoolIsBounded
<1>1. PoolExact => PoolIsBounded
  BY DEF PoolExact, PoolIsBounded
<1> QED
  BY <1>1, InitType, NextType, InitPool, NextPool, PTL DEF Spec

-----------------------------------------------------------------------------
(* Where a step takes the state of c, and of no other call. *)
LEMMA EnterPoolState ==
  ASSUME TypeOK, NEW c \in Calls, EnterPool(c)
  PROVE  \E s \in {"racing", "paused"} : state' = [state EXCEPT ![c] = s]
  BY DEF EnterPool

(* Nothing with its key is before a call whose predecessor has ended. *)
LEMMA NoneBefore ==
  ASSUME TypeOK, Order, NEW c \in Calls, NEW e \in Calls,
         \/ state[c] = "queued" /\ state[old[c]] = "done"
         \/ Pending(c) /\ state[c] # "queued",
         KeyOf[e] = KeyOf[c], Pending(e), ticket[e] < ticket[c]
  PROVE  FALSE
<1>1. CASE state[c] = "queued" /\ state[old[c]] = "done"
  <2>1. /\ old[c] \in Calls
        /\ KeyOf[old[c]] = KeyOf[c]
        /\ ticket[e] <= ticket[old[c]]
    BY <1>1 DEF Order, AwaitsPrevious
  <2>2. e # old[c] /\ state[e] # "idle"
    BY <1>1 DEF Pending
  <2>3. ticket[e] # ticket[old[c]]
    BY <1>1, <2>1, <2>2 DEF Order, Tickets
  <2>4. ticket[e] < ticket[old[c]]
    BY <2>1, <2>3 DEF TypeOK
  <2> QED
    BY <1>1, <2>1, <2>4 DEF Order, SameKeyInOrder
<1>2. CASE Pending(c) /\ state[c] # "queued"
  BY <1>2 DEF Order, SameKeyInOrder, Pending
<1> QED
  BY <1>1, <1>2

(* A pending call that moves on without leaving the key's queue out of order. *)
LEMMA MoveKeepsOrder ==
  ASSUME TypeOK, Order, NEW c \in Calls, NEW s \in {"racing", "paused", "running"},
         state' = [state EXCEPT ![c] = s], Pending(c),
         \/ state[c] = "queued" /\ state[old[c]] = "done"
         \/ state[c] # "queued",
         UNCHANGED << old, keyPromise, ticket, arrivals >>
  PROVE  Order'
<1>1. \A d \in Calls : /\ Pending(d)' <=> Pending(d)
                       /\ state'[d] = "idle" <=> state[d] = "idle"
                       /\ state'[d] = "queued" <=> (d # c /\ state[d] = "queued")
  BY DEF Pending, TypeOK
<1>2. Tickets'
  BY <1>1 DEF Order, Tickets
<1>3. LatestPending'
  BY <1>1 DEF Order, LatestPending, TypeOK, Pending
<1>4. AwaitsPrevious'
  BY <1>1 DEF Order, AwaitsPrevious
<1>5. SameKeyInOrder'
  <2> SUFFICES ASSUME NEW b \in Calls, NEW d \in Calls, KeyOf[b] = KeyOf[d],
                      Pending(b)', state'[d] # "idle", ticket'[b] < ticket'[d]
               PROVE  state'[d] = "queued"
    BY DEF SameKeyInOrder
  <2>1. state[d] = "queued"
    BY <1>1 DEF Order, SameKeyInOrder
  <2>2. d # c
    BY <1>1, NoneBefore
  <2> QED
    BY <1>1, <2>1, <2>2
<1> QED
  BY <1>2, <1>3, <1>4, <1>5 DEF Order

(* A new call is the latest one; it queues behind the latest pending call  *)
(* of its key.                                                             *)
LEMMA CallKeepsOrder ==
  ASSUME TypeOK, Order, NEW c \in Calls, Call(c)
  PROVE  Order'
<1> DEFINE k == KeyOf[c]
<1>1. PICK s \in {"queued", "racing", "paused"} :
        /\ state' = [state EXCEPT ![c] = s]
        /\ s = "queued" <=> keyPromise[k] # None
  <2>1. CASE keyPromise[k] # None
    BY <2>1 DEF Call
  <2>2. CASE keyPromise[k] = None
    BY <2>2, EnterPoolState DEF Call
  <2> QED
    BY <2>1, <2>2
<1>2. /\ k \in Keys
      /\ state[c] = "idle"
      /\ keyPromise' = [keyPromise EXCEPT ![k] = c]
      /\ old' = [old EXCEPT ![c] = keyPromise[k]]
      /\ ticket' = [ticket EXCEPT ![c] = arrivals + 1]
      /\ arrivals' = arrivals + 1
  BY KeyOfAssumption DEF Call
<1>3. \A d \in Calls : /\ Pending(d)' <=> (d = c \/ Pending(d))
                       /\ d # c => state'[d] = state[d] /\ ticket'[d] = ticket[d]
                       /\ d # c => old'[d] = old[d]
                       /\ state[d] # "idle" => d # c /\ ticket[d] <= arrivals
  BY <1>1, <1>2 DEF Pending, TypeOK, Order, Tickets
<1>4. /\ ticket'[c] = arrivals + 1 /\ old'[c] = keyPromise[k]
      /\ state'[c] = s /\ arrivals \in Nat
  BY <1>1, <1>2 DEF TypeOK
<1>5. Tickets'
  <2>1. \A d \in Calls : state'[d] # "idle" => ticket'[d] <= arrivals'
    BY <1>2, <1>3, <1>4 DEF TypeOK
  <2>2. ASSUME NEW b \in Calls, NEW d \in Calls, b # d,
               state'[b] # "idle", state'[d] # "idle"
        PROVE  ticket'[b] # ticket'[d]
    BY <1>3, <1>4, <2>2 DEF Order, Tickets, TypeOK
  <2> QED
    BY <2>1, <2>2 DEF Tickets
<1>6. LatestPending'
  <2> SUFFICES ASSUME NEW m \in Keys
               PROVE  /\ keyPromise'[m] # None =>
                           /\ KeyOf[keyPromise'[m]] = m
                           /\ state'[keyPromise'[m]] \notin {"idle", "done"}
                      /\ \A d \in Calls : KeyOf[d] = m /\ Pending(d)' =>
                           /\ keyPromise'[m] # None
                           /\ ticket'[d] <= ticket'[keyPromise'[m]]
    BY DEF LatestPending, Pending
  <2>1. CASE m = k
    <3>1. keyPromise'[m] = c /\ c # None
      BY <1>2, <2>1, NoneAssumption DEF TypeOK
    <3>2. ASSUME NEW d \in Calls, Pending(d)' PROVE ticket'[d] <= ticket'[c]
      <4>1. d # c => ticket'[d] <= arrivals
        BY <1>3, <3>2 DEF Pending
      <4> QED
        BY <1>3, <1>4, <4>1 DEF TypeOK
    <3>3. state'[c] \notin {"idle", "done"}
      BY <1>4
    <3> QED
      BY <1>2, <2>1, <3>1, <3>2, <3>3
  <2>2. CASE m # k
    <3>1. keyPromise'[m] = keyPromise[m]
      BY <1>2, <2>2 DEF TypeOK
    <3>2. keyPromise[m] # None => keyPromise[m] \in Calls /\ keyPromise[m] # c
      BY <2>2 DEF TypeOK, Order, LatestPending
    <3>3. keyPromise[m] # None => /\ state'[keyPromise[m]] \notin {"idle", "done"}
                                  /\ KeyOf[keyPromise[m]] = m
      BY <1>3, <3>2 DEF Order, LatestPending, Pending
    <3>4. ASSUME NEW d \in Calls, KeyOf[d] = m, Pending(d)'
          PROVE  keyPromise[m] # None /\ ticket'[d] <= ticket'[keyPromise[m]]
      <4>1. d # c /\ Pending(d)
        BY <1>3, <2>2, <3>4
      <4> QED
        BY <1>3, <3>2, <3>4, <4>1 DEF Order, LatestPending
    <3> QED
      BY <3>1, <3>3, <3>4
  <2> QED
    BY <2>1, <2>2
<1>7. AwaitsPrevious'
  <2> SUFFICES ASSUME NEW d \in Calls, state'[d] = "queued"
               PROVE  /\ old'[d] \in Calls
                      /\ \A b \in Calls :
                           KeyOf[b] = KeyOf[d] /\ Pending(b)' /\ ticket'[b] < ticket'[d]
                           => ticket'[b] <= ticket'[old'[d]]
                      /\ state'[old'[d]] # "idle"
                      /\ KeyOf[old'[d]] = KeyOf[d]
    BY DEF AwaitsPrevious
  <2>1. CASE d = c
    <3>1. keyPromise[k] # None
      BY <1>1, <1>4, <2>1
    <3>2. keyPromise[k] \in Calls /\ Pending(keyPromise[k]) /\ KeyOf[keyPromise[k]] = k
      BY <1>2, <3>1 DEF TypeOK, Order, LatestPending
    <3>3. ASSUME NEW b \in Calls, KeyOf[b] = k, Pending(b)', ticket'[b] < ticket'[c]
          PROVE  ticket'[b] <= ticket'[keyPromise[k]]
      <4>1. b # c /\ Pending(b)
        BY <1>3, <1>4, <3>3 DEF TypeOK
      <4>2. ticket[b] <= ticket[keyPromise[k]]
        BY <1>2, <3>3, <4>1 DEF Order, LatestPending
      <4>3. keyPromise[k] # c
        BY <1>2, <3>2 DEF Pending
      <4> QED
        BY <1>3, <3>2, <4>1, <4>2, <4>3
    <3>4. state'[keyPromise[k]] # "idle"
      BY <1>3, <3>2 DEF Pending
    <3> QED
      BY <1>4, <2>1, <3>2, <3>3, <3>4
  <2>2. CASE d # c
    <3>1. /\ state[d] = "queued" /\ old'[d] = old[d]
          /\ old[d] \in Calls /\ state[old[d]] # "idle"
          /\ KeyOf[old[d]] = KeyOf[d]
      BY <1>3, <2>2 DEF Order, AwaitsPrevious
    <3>2. old[d] # c /\ state'[old[d]] # "idle" /\ ticket'[old[d]] = ticket[old[d]]
      BY <1>3, <3>1
    <3>3. ASSUME NEW b \in Calls, KeyOf[b] = KeyOf[d], Pending(b)',
                 ticket'[b] < ticket'[d]
          PROVE  ticket'[b] <= ticket'[old[d]]
      <4>1. ticket'[d] <= arrivals
        BY <1>3, <2>2, <3>1
      <4>2. b # c /\ Pending(b)
        BY <1>3, <1>4, <3>3, <4>1, <2>2 DEF TypeOK
      <4> QED
        BY <1>3, <2>2, <3>1, <3>2, <3>3, <4>2 DEF Order, AwaitsPrevious
    <3> QED
      BY <3>1, <3>2, <3>3
  <2> QED
    BY <2>1, <2>2
<1>8. SameKeyInOrder'
  <2> SUFFICES ASSUME NEW b \in Calls, NEW d \in Calls, KeyOf[b] = KeyOf[d],
                      Pending(b)', state'[d] # "idle", ticket'[b] < ticket'[d]
               PROVE  state'[d] = "queued"
    BY DEF SameKeyInOrder
  <2>1. CASE d = c
    <3>1. b # c /\ Pending(b)
      BY <1>3, <1>4, <2>1 DEF TypeOK
    <3>2. keyPromise[k] # None
      BY <1>2, <2>1, <3>1 DEF Order, LatestPending
    <3> QED
      BY <1>1, <1>4, <2>1, <3>2
  <2>2. CASE d # c
    <3>1. ticket'[d] <= arrivals /\ state[d] # "idle" /\ ticket'[d] = ticket[d]
      BY <1>3, <2>2
    <3>2. b # c /\ Pending(b) /\ ticket'[b] = ticket[b]
      BY <1>3, <1>4, <3>1 DEF TypeOK
    <3> QED
      BY <1>3, <2>2, <3>1, <3>2 DEF Order, SameKeyInOrder
  <2> QED
    BY <2>1, <2>2
<1> QED
  BY <1>5, <1>6, <1>7, <1>8 DEF Order

(* A call that ends was the first of its key: if keyPromise names it,      *)
(* nothing else with the key is pending.                                   *)
LEMMA EndKeepsOrder ==
  ASSUME TypeOK, Order, NEW c \in Calls, End(c)
  PROVE  Order'
<1>1. /\ state[c] = "running"
      /\ state' = [state EXCEPT ![c] = "done"]
      /\ keyPromise' = [keyPromise EXCEPT ![KeyOf[c]] = IF @ = c THEN None ELSE @]
      /\ KeyOf[c] \in Keys
      /\ UNCHANGED << old, ticket, arrivals >>
  BY KeyOfAssumption DEF End
<1>2. ASSUME NEW d \in Calls
      PROVE  /\ Pending(d)' <=> (d # c /\ Pending(d))
             /\ state'[d] = "idle" <=> state[d] = "idle"
             /\ state'[d] = "queued" <=> state[d] = "queued"
  BY <1>1 DEF Pending, TypeOK
<1>3. Tickets'
  BY <1>1, <1>2 DEF Order, Tickets
<1>4. LatestPending'
  <2> SUFFICES ASSUME NEW m \in Keys
               PROVE  /\ keyPromise'[m] # None =>
                           /\ KeyOf[keyPromise'[m]] = m
                           /\ state'[keyPromise'[m]] \notin {"idle", "done"}
                      /\ \A d \in Calls : KeyOf[d] = m /\ Pending(d)' =>
                           /\ keyPromise'[m] # None
                           /\ ticket[d] <= ticket[keyPromise'[m]]
    BY <1>1 DEF LatestPending, Pending
  <2>1. CASE keyPromise[m] = c
    <3>1. KeyOf[c] = m /\ keyPromise'[m] = None
      BY <1>1, <2>1, NoneAssumption DEF TypeOK, Order, LatestPending
    <3>2. ASSUME NEW d \in Calls, KeyOf[d] = m, Pending(d)' PROVE FALSE
      <4>1. d # c /\ Pending(d) /\ ticket[d] <= ticket[c]
        BY <1>2, <2>1, <3>2 DEF Order, LatestPending
      <4>2. ticket[d] < ticket[c]
        BY <1>1, <4>1 DEF Order, Tickets, TypeOK, Pending
      <4> QED
        BY <1>1, <3>1, <3>2, <4>1, <4>2, NoneBefore DEF Pending
    <3> QED
      BY <3>1, <3>2
  <2>2. CASE keyPromise[m] # c
    <3>1. keyPromise'[m] = keyPromise[m]
      BY <1>1, <2>2 DEF TypeOK
    <3>2. keyPromise[m] # None => /\ keyPromise[m] \in Calls
                                  /\ KeyOf[keyPromise[m]] = m
                                  /\ Pending(keyPromise[m])
      BY DEF TypeOK, Order, LatestPending
    <3>3. keyPromise[m] # None => state'[keyPromise[m]] \notin {"idle", "done"}
      BY <1>2, <2>2, <3>2 DEF Pending
    <3>4. ASSUME NEW d \in Calls, KeyOf[d] = m, Pending(d)'
          PROVE  keyPromise[m] # None /\ ticket[d] <= ticket[keyPromise[m]]
      BY <1>2, <3>4 DEF Order, LatestPending
    <3> QED
      BY <3>1, <3>2, <3>3, <3>4
  <2> QED
    BY <2>1, <2>2
<1>5. AwaitsPrevious'
  BY <1>1, <1>2 DEF Order, AwaitsPrevious
<1>6. SameKeyInOrder'
  BY <1>1, <1>2 DEF Order, SameKeyInOrder
<1> QED
  BY <1>3, <1>4, <1>5, <1>6 DEF Order

LEMMA InitOrder == Init => Order
  BY DEF Init, Order, Tickets, LatestPending, AwaitsPrevious, SameKeyInOrder, Pending

LEMMA NextOrder == TypeOK /\ Order /\ [Next]_vars => Order'
<1> SUFFICES ASSUME TypeOK, Order, [Next]_vars PROVE Order'
  OBVIOUS
<1>1. ASSUME NEW c \in Calls, Call(c) PROVE Order'
  BY <1>1, CallKeepsOrder
<1>2. ASSUME NEW c \in Calls, OldEnded(c) PROVE Order'
  <2>1. PICK s \in {"racing", "paused"} : state' = [state EXCEPT ![c] = s]
    BY <1>2, EnterPoolState DEF OldEnded
  <2> QED
    BY <1>2, <2>1, MoveKeepsOrder DEF OldEnded, Pending
<1>3. ASSUME NEW c \in Calls, RaceEnded(c) PROVE Order'
  <2>1. PICK s \in {"racing", "paused"} : state' = [state EXCEPT ![c] = s]
    BY <1>3, EnterPoolState DEF RaceEnded
  <2> QED
    BY <1>3, <2>1, MoveKeepsOrder DEF RaceEnded, Pending
<1>4. ASSUME NEW c \in Calls, Start(c) PROVE Order'
  BY <1>4, MoveKeepsOrder DEF Start, Pending
<1>5. ASSUME NEW c \in Calls, End(c) PROVE Order'
  BY <1>5, EndKeepsOrder
<1>6. CASE UNCHANGED << state, old, keyPromise, ticket, arrivals >>
  BY <1>6 DEF Order, Tickets, LatestPending, AwaitsPrevious, SameKeyInOrder, Pending
<1> QED
  BY <1>1, <1>2, <1>3, <1>4, <1>5, <1>6 DEF Next, Tick, vars

(* Calls with one key are served in the order they were made, although a   *)
(* call deletes the entry of its key only if no later call took it over.   *)
THEOREM ServedInOrder == Spec => []SameKeyInOrder
<1>1. Order => SameKeyInOrder
  BY DEF Order
<1> QED
  BY <1>1, InitType, NextType, InitOrder, NextOrder, PTL DEF Spec

(* keyPromise holds the latest pending call of each key, and no entry for  *)
(* a key all of whose calls have ended.                                    *)
THEOREM KeyPromiseLatest == Spec => []KeyPromiseIsLatest
<1>1. TypeOK /\ Order => KeyPromiseIsLatest
  <2> SUFFICES ASSUME TypeOK, Order, NEW k \in Keys
               PROVE  LET pending == {c \in Calls : KeyOf[c] = k /\ Pending(c)}
                      IN IF keyPromise[k] = None THEN pending = {}
                         ELSE /\ keyPromise[k] \in pending
                              /\ \A c \in pending : ticket[c] <= ticket[keyPromise[k]]
    BY DEF KeyPromiseIsLatest
  <2>1. keyPromise[k] # None => /\ keyPromise[k] \in Calls
                                /\ KeyOf[keyPromise[k]] = k
                                /\ Pending(keyPromise[k])
    BY DEF TypeOK, Order, LatestPending
  <2>2. ASSUME NEW c \in Calls, KeyOf[c] = k, Pending(c)
        PROVE  keyPromise[k] # None /\ ticket[c] <= ticket[keyPromise[k]]
    BY <2>2 DEF Order, LatestPending
  <2> QED
    BY <2>1, <2>2
<1> QED
  BY <1>1, InitType, NextType, InitOrder, NextOrder, PTL DEF Spec

-----------------------------------------------------------------------------
(* The rest of a pause makes up for the time since the key's last call     *)
(* ended, and that time is known once a call with the key has started.     *)
Spaced ==
  \A c \in Calls :
    /\ state[c] = "paused" /\ lastKey = KeyOf[c] =>
         keyTime[KeyOf[c]] # None /\ left[c] + keyTime[KeyOf[c]] >= MaxDelay
    /\ lastKey = KeyOf[c] /\ keyTime[KeyOf[c]] = None =>
         \E d \in Calls : KeyOf[d] = KeyOf[c] /\ state[d] = "running"

(* At most one call of a key is past its queue. *)
OneServed ==
  \A c, d \in Calls :
    /\ c # d /\ KeyOf[c] = KeyOf[d]
    /\ state[c] \in {"racing", "paused", "running"}
    => state[d] \notin {"racing", "paused", "running"}

LEMMA OnePerKey == TypeOK /\ Order => OneServed
<1> SUFFICES ASSUME TypeOK, Order, NEW c \in Calls, NEW d \in Calls,
                    c # d, KeyOf[c] = KeyOf[d],
                    state[c] \in {"racing", "paused", "running"},
                    state[d] \in {"racing", "paused", "running"}
             PROVE  FALSE
  BY DEF OneServed
<1>1. ticket[c] < ticket[d] \/ ticket[d] < ticket[c]
  BY DEF Order, Tickets, TypeOK
<1>2. Pending(c) /\ Pending(d)
  BY DEF Pending
<1> QED
  BY <1>1, <1>2 DEF Order, SameKeyInOrder

(* Entering the pool sets the pause right. *)
LEMMA EnterPoolSpaced ==
  ASSUME TypeOK, Spaced, OneServed', NEW c \in Calls, EnterPool(c),
         state[c] \in {"idle", "queued", "racing"},
         UNCHANGED << lastKey, keyTime >>
  PROVE  Spaced'
<1> SUFFICES ASSUME NEW e \in Calls
             PROVE  /\ state'[e] = "paused" /\ lastKey = KeyOf[e] =>
                         /\ keyTime[KeyOf[e]] # None
                         /\ left'[e] + keyTime[KeyOf[e]] >= MaxDelay
                    /\ lastKey = KeyOf[e] /\ keyTime[KeyOf[e]] = None =>
                         \E d \in Calls : KeyOf[d] = KeyOf[e] /\ state'[d] = "running"
  BY DEF Spaced
<1>1. \A d \in Calls : d # c => state'[d] = state[d] /\ left'[d] = left[d]
  BY DEF EnterPool, TypeOK
<1>2. lastKey = KeyOf[e] /\ keyTime[KeyOf[e]] = None =>
        \E d \in Calls : KeyOf[d] = KeyOf[e] /\ state'[d] = "running"
  BY <1>1 DEF Spaced
<1>3. CASE e # c
  BY <1>1, <1>2, <1>3 DEF Spaced
<1>4. CASE e = c
  <2> SUFFICES ASSUME state'[c] = "paused", lastKey = KeyOf[c]
               PROVE  keyTime[KeyOf[c]] # None /\ left'[c] + keyTime[KeyOf[c]] >= MaxDelay
    BY <1>2, <1>4
  <2>1. keyTime[KeyOf[c]] # None
    BY <1>2, <1>4 DEF OneServed
  <2>2. left'[c] = Pause(KeyOf[c])
    BY DEF EnterPool, TypeOK
  <2>3. Pause(KeyOf[c]) = Rest(MaxDelay, keyTime[KeyOf[c]])
    BY <2>1 DEF Pause
  <2>4. keyTime[KeyOf[c]] \in 0..MaxDelay /\ MaxDelay \in Nat
    BY <2>1, KeyOfAssumption, DelayAssumption DEF TypeOK, MaxDelay
  <2> QED
    BY <2>1, <2>2, <2>3, <2>4 DEF Rest
<1> QED
  BY <1>3, <1>4

LEMMA InitSpaced == Init => Spaced
<1> SUFFICES ASSUME Init, NEW c \in Calls PROVE lastKey # KeyOf[c] /\ state[c] = "idle"
  BY DEF Spaced
<1> QED
  BY KeyOfAssumption, NoneAssumption DEF Init

LEMMA NextSpaced ==
  TypeOK /\ OneServed /\ OneServed' /\ Spaced /\ [Next]_vars => Spaced'
<1> SUFFICES ASSUME TypeOK, OneServed, OneServed', Spaced, [Next]_vars PROVE Spaced'
  OBVIOUS
<1>1. ASSUME NEW c \in Calls, Call(c) PROVE Spaced'
  <2>1. CASE keyPromise[KeyOf[c]] # None
    BY <1>1, <2>1 DEF Call, Spaced, TypeOK
  <2>2. CASE keyPromise[KeyOf[c]] = None
    BY <1>1, <2>2, EnterPoolSpaced DEF Call
  <2> QED
    BY <2>1, <2>2
<1>2. ASSUME NEW c \in Calls, OldEnded(c) PROVE Spaced'
  BY <1>2, EnterPoolSpaced DEF OldEnded
<1>3. ASSUME NEW c \in Calls, RaceEnded(c) PROVE Spaced'
  BY <1>3, EnterPoolSpaced DEF RaceEnded
<1>4. ASSUME NEW c \in Calls, Start(c) PROVE Spaced'
  <2>1. /\ state' = [state EXCEPT ![c] = "running"] /\ state[c] = "paused"
        /\ lastKey' = KeyOf[c] /\ keyTime' = keyTime /\ left' = left
    BY <1>4 DEF Start
  <2>2. state'[c] = "running"
    BY <2>1 DEF TypeOK
  <2>3. ASSUME NEW e \in Calls, KeyOf[e] = KeyOf[c] PROVE state'[e] # "paused"
    BY <2>1, <2>2, <2>3 DEF OneServed, TypeOK
  <2> QED
    BY <2>1, <2>2, <2>3 DEF Spaced
<1>5. ASSUME NEW c \in Calls, End(c) PROVE Spaced'
  <2>1. /\ state' = [state EXCEPT ![c] = "done"] /\ state[c] = "running"
        /\ lastKey' = lastKey /\ left' = left
        /\ keyTime' = [keyTime EXCEPT ![KeyOf[c]] = 0] /\ KeyOf[c] \in Keys
    BY <1>5, KeyOfAssumption DEF End
  <2>2. ASSUME NEW e \in Calls, KeyOf[e] = KeyOf[c]
        PROVE  state'[e] # "paused" /\ keyTime'[KeyOf[e]] # None
    BY <2>1, <2>2, NoneAssumption DEF OneServed, TypeOK
  <2>3. ASSUME NEW e \in Calls, KeyOf[e] # KeyOf[c]
        PROVE  state'[e] = state[e] /\ keyTime'[KeyOf[e]] = keyTime[KeyOf[e]]
    BY <2>1, <2>3, KeyOfAssumption DEF TypeOK
  <2> QED
    BY <2>1, <2>2, <2>3 DEF Spaced
<1>6. ASSUME Tick PROVE Spaced'
  <2> SUFFICES ASSUME NEW c \in Calls, lastKey = KeyOf[c]
               PROVE  /\ state[c] = "paused" =>
                           /\ keyTime'[KeyOf[c]] # None
                           /\ left'[c] + keyTime'[KeyOf[c]] >= MaxDelay
                      /\ keyTime'[KeyOf[c]] = None =>
                           \E d \in Calls : KeyOf[d] = KeyOf[c] /\ state[d] = "running"
    BY <1>6 DEF Tick, Spaced
  <2>1. /\ KeyOf[c] \in Keys /\ MaxDelay \in Nat
        /\ keyTime[KeyOf[c]] \in 0..MaxDelay \cup {None}
        /\ left[c] \in 0..MaxDelay
    BY KeyOfAssumption, DelayAssumption DEF TypeOK, MaxDelay
  <2>2. /\ keyTime'[KeyOf[c]] = Older(keyTime[KeyOf[c]])
        /\ left'[c] = IF left[c] = 0 THEN 0 ELSE left[c] - 1
    BY <1>6, <2>1 DEF Tick
  <2>3. keyTime'[KeyOf[c]] = None <=> keyTime[KeyOf[c]] = None
    BY <2>1, <2>2, NoneAssumption DEF Older
  <2>4. ASSUME state[c] = "paused"
        PROVE  left'[c] + keyTime'[KeyOf[c]] >= MaxDelay
    <3>1. /\ keyTime[KeyOf[c]] \in 0..MaxDelay
          /\ left[c] + keyTime[KeyOf[c]] >= MaxDelay
      BY <2>1, <2>4 DEF Spaced
    <3> QED
      BY <2>1, <2>2, <3>1, NoneAssumption DEF Older
  <2> QED
    BY <2>3, <2>4 DEF Spaced
<1>7. ASSUME UNCHANGED vars PROVE Spaced'
  BY <1>7 DEF vars, Spaced
<1> QED
  BY <1>1, <1>2, <1>3, <1>4, <1>5, <1>6, <1>7 DEF Next

(* fn starts no sooner than SameKeyDelay after the previous call with its  *)
(* key ended, although a pause is computed once and never revised.         *)
THEOREM CallsSpaced == Spec => SameKeyIsSpaced
<1>1. TypeOK /\ Spaced /\ [Next]_vars =>
        [\A c \in Calls :
           /\ state[c] = "paused" /\ state'[c] = "running"
           /\ lastKey = KeyOf[c]
           => keyTime[KeyOf[c]] >= SameKeyDelay]_vars
  <2> SUFFICES ASSUME TypeOK, Spaced, Next, NEW c \in Calls,
                      state[c] = "paused", state'[c] = "running", lastKey = KeyOf[c]
               PROVE  keyTime[KeyOf[c]] >= SameKeyDelay
    OBVIOUS
  <2>1. PICK d \in Calls : Start(d) /\ state' = [state EXCEPT ![d] = "running"]
    BY DEF Next, Call, OldEnded, RaceEnded, EnterPool, Start, End, Tick, TypeOK
  <2>2. c = d /\ left[c] = 0
    BY <2>1 DEF Start, TypeOK
  <2>3. /\ keyTime[KeyOf[c]] \in 0..MaxDelay
        /\ keyTime[KeyOf[c]] >= MaxDelay
    BY <2>2, KeyOfAssumption DEF Spaced, TypeOK
  <2>4. MaxDelay >= SameKeyDelay /\ MaxDelay \in Nat
    BY DelayAssumption DEF MaxDelay
  <2> QED
    BY <2>3, <2>4, DelayAssumption
<1> QED
  BY <1>1, InitType, NextType, InitOrder, NextOrder, OnePerKey, InitSpaced, NextSpaced, PTL
     DEF Spec, SameKeyIsSpaced

-----------------------------------------------------------------------------
(* Refinement of the keyed service. *)

LEMMA StageOf ==
  ASSUME TypeOK, NEW c \in Calls
  PROVE  /\ Stage[c] = "new" <=> state[c] = "idle"
         /\ Stage[c] = "waiting" <=> state[c] \in {"queued", "racing", "paused"}
         /\ Stage[c] = "served" <=> state[c] = "running"
         /\ Stage[c] = "done" <=> state[c] = "done"
  BY DEF TypeOK, States, Stage, Seen

(* What a step that moves one call does to the stages. *)
LEMMA StageMoves ==
  ASSUME TypeOK, NEW c \in Calls, NEW s \in States,
         state' = [state EXCEPT ![c] = s]
  PROVE  Stage' = [Stage EXCEPT ![c] = Seen[s]]
  BY DEF TypeOK, Stage

LEMMA EnterPoolWaits ==
  ASSUME TypeOK, NEW c \in Calls, EnterPool(c)
  PROVE  Stage' = [Stage EXCEPT ![c] = "waiting"]
<1>1. PICK s \in {"racing", "paused"} : state' = [state EXCEPT ![c] = s]
  BY EnterPoolState
<1>2. s \in States /\ Seen[s] = "waiting"
  BY DEF States, Seen
<1> QED
  BY <1>1, <1>2, StageMoves

(* The service counts as everyone does. *)
LEMMA SameCount ==
  ASSUME NEW S
  PROVE  Service!Cardinality(S) = Cardinality(S)
  BY DEF Service!Cardinality, Cardinality

LEMMA InitRefines == Init => Service!Init
  BY DEF Init, Service!Init, Stage, Seen

LEMMA CallRefines ==
  ASSUME TypeOK, NEW c \in Calls, Call(c)
  PROVE  Service!Arrive(c)
<1>1. Stage[c] = "new"
  BY StageOf DEF Call
<1>2. Stage' = [Stage EXCEPT ![c] = "waiting"]
  <2>1. CASE keyPromise[KeyOf[c]] # None
    <3>1. state' = [state EXCEPT ![c] = "queued"]
      BY <2>1 DEF Call
    <3>2. "queued" \in States /\ Seen["queued"] = "waiting"
      BY DEF States, Seen
    <3> QED
      BY <3>1, <3>2, StageMoves
  <2>2. CASE keyPromise[KeyOf[c]] = None
    BY <2>2, EnterPoolWaits DEF Call
  <2> QED
    BY <2>1, <2>2
<1> QED
  BY <1>1, <1>2 DEF Call, Service!Arrive

(* A paused call has a place in the pool, so that fewer than Max run, and  *)
(* nothing with its key is before it.                                      *)
LEMMA StartRefines ==
  ASSUME TypeOK, PoolExact, Order, NEW c \in Calls, Start(c)
  PROVE  Service!Serve(c)
<1>1. state[c] = "paused" /\ state' = [state EXCEPT ![c] = "running"]
  BY DEF Start
<1>2. Stage[c] = "waiting"
  BY <1>1, StageOf
<1>3. Stage' = [Stage EXCEPT ![c] = "served"]
  <2>1. "running" \in States /\ Seen["running"] = "served"
    BY DEF States, Seen
  <2> QED
    BY <1>1, <2>1, StageMoves
<1>4. Service!Before(c) = {}
  <2> SUFFICES ASSUME NEW d \in Service!Before(c) PROVE FALSE
    OBVIOUS
  <2>1. /\ d \in Calls /\ KeyOf[d] = KeyOf[c] /\ ticket[d] < ticket[c]
        /\ Stage[d] \in {"waiting", "served"}
    BY DEF Service!Before
  <2>2. Pending(d)
    BY <2>1, StageOf DEF Pending
  <2>3. Pending(c) /\ state[c] # "queued"
    BY <1>1 DEF Pending
  <2> QED
    BY <2>1, <2>2, <2>3, NoneBefore
<1>5. Cardinality(Service!Served) < Max
  <2>1. Service!Served \subseteq pool \ {c}
    <3>1. \A d \in Calls : Stage[d] = "served" => state[d] = "running"
      BY StageOf
    <3> QED
      BY <1>1, <3>1 DEF Service!Served, PoolExact
  <2>2. c \in pool /\ IsFiniteSet(pool)
    BY <1>1 DEF PoolExact
  <2>3. /\ IsFiniteSet(pool \ {c})
        /\ Cardinality(pool \ {c}) = Cardinality(pool) - 1
    BY <2>2, FS_RemoveElement
  <2>4. Cardinality(Service!Served) <= Cardinality(pool \ {c})
    BY <2>1, <2>3, FS_Subset
  <2>5. /\ Cardinality(pool) \in Nat
        /\ Cardinality(Service!Served) \in Nat
    BY <2>1, <2>2, <2>3, FS_Subset, FS_CardinalityType
  <2>6. Cardinality(pool) <= Max
    BY DEF PoolExact
  <2> QED
    BY <2>3, <2>4, <2>5, <2>6, MaxAssumption
<1>6. Service!Cardinality(Service!Served) < Max
  BY <1>5, SameCount
<1>7. UNCHANGED << ticket, arrivals >>
  BY DEF Start
<1> QED
  BY <1>2, <1>3, <1>4, <1>6, <1>7 DEF Service!Serve

LEMMA EndRefines ==
  ASSUME TypeOK, NEW c \in Calls, End(c)
  PROVE  Service!Finish(c)
<1>1. state[c] = "running" /\ state' = [state EXCEPT ![c] = "done"]
  BY DEF End
<1>2. "done" \in States /\ Seen["done"] = "done"
  BY DEF States, Seen
<1>3. Stage[c] = "served" /\ Stage' = [Stage EXCEPT ![c] = "done"]
  BY <1>1, <1>2, StageOf, StageMoves
<1>4. UNCHANGED << ticket, arrivals >>
  BY DEF End
<1> QED
  BY <1>3, <1>4 DEF Service!Finish

(* A waiting call that moves on still waits. *)
LEMMA WaitingStays ==
  ASSUME TypeOK, NEW c \in Calls, EnterPool(c), Stage[c] = "waiting"
  PROVE  Stage' = Stage
<1>1. Stage' = [Stage EXCEPT ![c] = "waiting"]
  BY EnterPoolWaits
<1> QED
  BY <1>1 DEF Stage

LEMMA NextRefines ==
  TypeOK /\ PoolExact /\ Order /\ [Next]_vars
    => [Service!Next]_<< Stage, ticket, arrivals >>
<1> SUFFICES ASSUME TypeOK, PoolExact, Order, [Next]_vars
             PROVE  [Service!Next]_<< Stage, ticket, arrivals >>
  OBVIOUS
<1>1. ASSUME NEW c \in Calls, Call(c) PROVE Service!Next
  BY <1>1, CallRefines DEF Service!Next
<1>2. ASSUME NEW c \in Calls, OldEnded(c) PROVE UNCHANGED << Stage, ticket, arrivals >>
  BY <1>2, StageOf, WaitingStays DEF OldEnded
<1>3. ASSUME NEW c \in Calls, RaceEnded(c) PROVE UNCHANGED << Stage, ticket, arrivals >>
  BY <1>3, StageOf, WaitingStays DEF RaceEnded
<1>4. ASSUME NEW c \in Calls, Start(c) PROVE Service!Next
  BY <1>4, StartRefines DEF Service!Next
<1>5. ASSUME NEW c \in Calls, End(c) PROVE Service!Next
  BY <1>5, EndRefines DEF Service!Next
<1>6. ASSUME Tick PROVE UNCHANGED << Stage, ticket, arrivals >>
  BY <1>6 DEF Tick, Stage
<1>7. ASSUME UNCHANGED vars PROVE UNCHANGED << Stage, ticket, arrivals >>
  BY <1>7 DEF vars, Stage
<1> QED
  BY <1>1, <1>2, <1>3, <1>4, <1>5, <1>6, <1>7 DEF Next

(* The limiter implements the keyed service, for any calls, keys, delays   *)
(* and number of places: see ServesInOrder.                                *)
THEOREM Implements == Spec => ServesInOrder
<1>1. Spec => [](TypeOK /\ PoolExact /\ Order)
  BY InitType, NextType, InitPool, NextPool, InitOrder, NextOrder, PTL DEF Spec
<1> QED
  BY <1>1, InitRefines, NextRefines, PTL DEF Spec, ServesInOrder, Service!Spec
=============================================================================
