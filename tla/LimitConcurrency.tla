-------------------------- MODULE LimitConcurrency --------------------------
(***************************************************************************)
(* The request limiter (common/limit-concurrency.js): calls with one key   *)
(* run one after another, at most Max calls run at a time, and a call may  *)
(* have to pause first.  background/utils/url.js limits its requests with  *)
(* it, the key being the host of the URL.                                  *)
(*                                                                         *)
(* A call goes through these states.                                       *)
(*   idle     not made yet                                                 *)
(*   queued   awaits `old`, the previous call with its key                 *)
(*   racing   the pool is full: awaits any call of the pool as it was then *)
(*   paused   in the pool, waiting for its delay to pass                   *)
(*   running  in the pool, fn is called                                    *)
(*   done     fn has returned or thrown, the promise of the call resolved  *)
(*                                                                         *)
(* Time is kept as the time elapsed since an event, up to MaxDelay, which  *)
(* is all the code asks of it.                                             *)
(***************************************************************************)
EXTENDS Naturals, FiniteSets

CONSTANTS
  Calls,         \* the calls made
  Keys,          \* what getKey returns
  KeyOf,         \* the key of each call
  None,          \* undefined
  Max,           \* calls that may run at a time
  DiffKeyDelay,  \* pause after a call with another key
  SameKeyDelay   \* pause after a call with the same key

ASSUME KeyOfAssumption == KeyOf \in [Calls -> Keys]
ASSUME NoneAssumption  == None \notin Calls /\ None \notin Keys /\ None \notin Nat
ASSUME MaxAssumption   == Max \in Nat \ {0}
ASSUME DelayAssumption == DiffKeyDelay \in Nat /\ SameKeyDelay \in Nat

VARIABLES
  state,       \* per call
  old,         \* per call, the call it found in keyPromise
  keyPromise,  \* per key, the latest call that has not ended
  pool,        \* the calls that count against Max
  raced,       \* per call, the pool it races
  lastKey,     \* the key of the call that started last
  keyTime,     \* per key, the time since a call with it ended
  lastTime,    \* the time since any call ended
  left,        \* per call, the rest of its pause
  ticket,      \* history: the order in which the calls were made
  arrivals     \* history: how many were made

vars == << state, old, keyPromise, pool, raced, lastKey, keyTime, lastTime,
           left, ticket, arrivals >>

MaxDelay == IF DiffKeyDelay > SameKeyDelay THEN DiffKeyDelay ELSE SameKeyDelay
States   == {"idle", "queued", "racing", "paused", "running", "done"}
Pending(c) == state[c] \notin {"idle", "done"}

Init ==
  /\ state = [c \in Calls |-> "idle"]
  /\ old = [c \in Calls |-> None]
  /\ keyPromise = [k \in Keys |-> None]
  /\ pool = {}
  /\ raced = [c \in Calls |-> {}]
  /\ lastKey = None
  /\ keyTime = [k \in Keys |-> None]
  /\ lastTime = None
  /\ left = [c \in Calls |-> 0]
  /\ ticket = [c \in Calls |-> 0]
  /\ arrivals = 0

Rest(delay, elapsed) == IF delay > elapsed THEN delay - elapsed ELSE 0

(* Mutant: the pause is not checked to be positive. *)
PauseUnchecked(k) ==
  CASE k = lastKey -> MaxDelay - (IF keyTime[k] = None THEN 0 ELSE keyTime[k])
    [] k # lastKey /\ lastTime # None -> DiffKeyDelay - lastTime
    [] OTHER -> 0

(* Mutant: the pause does not look at the key. *)
PauseAnyKey(k) ==
  IF lastTime # None THEN Rest(DiffKeyDelay, lastTime) ELSE 0

(* The pause before fn: MaxDelay after a call with the same key,           *)
(* DiffKeyDelay after a call with another one.                             *)
Pause(k) ==
  IF k = lastKey         THEN Rest(MaxDelay, IF keyTime[k] = None THEN 0 ELSE keyTime[k])
  ELSE IF lastTime # None THEN Rest(DiffKeyDelay, lastTime)
  ELSE 0

(* Past the wait for its key, a call enters the pool or races it. *)
EnterPool(c) ==
  \/ /\ Cardinality(pool) = Max
     /\ state' = [state EXCEPT ![c] = "racing"]
     /\ raced' = [raced EXCEPT ![c] = pool]
     /\ UNCHANGED << pool, left >>
  \/ /\ Cardinality(pool) # Max
     /\ pool' = pool \cup {c}
     /\ left' = [left EXCEPT ![c] = Pause(KeyOf[c])]
     /\ state' = [state EXCEPT ![c] = "paused"]
     /\ raced' = [raced EXCEPT ![c] = {}]

(* limiter(...args): up to its first await. *)
Call(c) ==
  /\ state[c] = "idle"
  /\ keyPromise' = [keyPromise EXCEPT ![KeyOf[c]] = c]
  /\ old' = [old EXCEPT ![c] = keyPromise[KeyOf[c]]]
  /\ arrivals' = arrivals + 1
  /\ ticket' = [ticket EXCEPT ![c] = arrivals + 1]
  /\ \/ /\ keyPromise[KeyOf[c]] # None
        /\ state' = [state EXCEPT ![c] = "queued"]
        /\ UNCHANGED << pool, raced, left >>
     \/ /\ keyPromise[KeyOf[c]] = None
        /\ EnterPool(c)
  /\ UNCHANGED << lastKey, keyTime, lastTime >>

(* `await old` is over. *)
OldEnded(c) ==
  /\ state[c] = "queued"
  /\ state[old[c]] = "done"
  /\ EnterPool(c)
  /\ UNCHANGED << old, keyPromise, lastKey, keyTime, lastTime, ticket, arrivals >>

(* `await Promise.race(pool)` is over: the loop looks at the pool again. *)
RaceEnded(c) ==
  /\ state[c] = "racing"
  /\ \E d \in raced[c] : state[d] = "done"
  /\ EnterPool(c)
  /\ UNCHANGED << old, keyPromise, lastKey, keyTime, lastTime, ticket, arrivals >>

(* The pause is over and fn is called. *)
Start(c) ==
  /\ state[c] = "paused"
  /\ left[c] = 0
  /\ state' = [state EXCEPT ![c] = "running"]
  /\ lastKey' = KeyOf[c]
  /\ UNCHANGED << old, keyPromise, pool, raced, keyTime, lastTime, left,
                  ticket, arrivals >>

(* Mutant: the entry of the key is deleted whoever owns it. *)
EndDeletesAny(c) ==
  /\ state[c] = "running"
  /\ state' = [state EXCEPT ![c] = "done"]
  /\ pool' = pool \ {c}
  /\ keyPromise' = [keyPromise EXCEPT ![KeyOf[c]] = None]
  /\ keyTime' = [keyTime EXCEPT ![KeyOf[c]] = 0]
  /\ lastTime' = 0
  /\ UNCHANGED << old, raced, lastKey, left, ticket, arrivals >>

(* Mutant: the call stays in the pool. *)
EndKeepsPool(c) ==
  /\ state[c] = "running"
  /\ state' = [state EXCEPT ![c] = "done"]
  /\ keyPromise' = [keyPromise EXCEPT ![KeyOf[c]] = IF @ = c THEN None ELSE @]
  /\ keyTime' = [keyTime EXCEPT ![KeyOf[c]] = 0]
  /\ lastTime' = 0
  /\ UNCHANGED << old, pool, raced, lastKey, left, ticket, arrivals >>

(* fn has returned or thrown: the finally block. *)
End(c) ==
  /\ state[c] = "running"
  /\ state' = [state EXCEPT ![c] = "done"]
  /\ pool' = pool \ {c}
  /\ keyPromise' = [keyPromise EXCEPT ![KeyOf[c]] = IF @ = c THEN None ELSE @]
  /\ keyTime' = [keyTime EXCEPT ![KeyOf[c]] = 0]
  /\ lastTime' = 0
  /\ UNCHANGED << old, raced, lastKey, left, ticket, arrivals >>

Older(t) == IF t = None \/ t = MaxDelay THEN t ELSE t + 1

(* Time passes. *)
Tick ==
  /\ keyTime' = [k \in Keys |-> Older(keyTime[k])]
  /\ lastTime' = Older(lastTime)
  /\ left' = [c \in Calls |-> IF left[c] = 0 THEN 0 ELSE left[c] - 1]
  /\ UNCHANGED << state, old, keyPromise, pool, raced, lastKey, ticket, arrivals >>

Next ==
  \/ \E c \in Calls : \/ Call(c) \/ OldEnded(c) \/ RaceEnded(c)
                      \/ Start(c) \/ End(c)
  \/ Tick

Spec == Init /\ [][Next]_vars

(* Promises that settled wake their waiters, timers fire, and a request    *)
(* comes to an end.                                                        *)
Fairness ==
  /\ WF_vars(Tick)
  /\ \A c \in Calls : WF_vars(OldEnded(c) \/ RaceEnded(c) \/ Start(c) \/ End(c))

FairSpec == Spec /\ Fairness

-----------------------------------------------------------------------------
(* Every variable has its type. *)
TypeOK ==
  /\ state \in [Calls -> States]
  /\ old \in [Calls -> Calls \cup {None}]
  /\ keyPromise \in [Keys -> Calls \cup {None}]
  /\ pool \in SUBSET Calls
  /\ raced \in [Calls -> SUBSET Calls]
  /\ lastKey \in Keys \cup {None}
  /\ keyTime \in [Keys -> 0..MaxDelay \cup {None}]
  /\ lastTime \in 0..MaxDelay \cup {None}
  /\ left \in [Calls -> 0..MaxDelay]
  /\ ticket \in [Calls -> Nat]
  /\ arrivals \in Nat

(* At most Max calls run or are about to, however the waiting calls and    *)
(* the fresh ones take turns.                                              *)
PoolIsBounded == Cardinality({c \in Calls : state[c] \in {"paused", "running"}}) <= Max

(* Calls with one key are served one at a time and in the order they were  *)
(* made: while one has not ended, the later ones are queued.               *)
SameKeyInOrder ==
  \A c, d \in Calls :
    /\ KeyOf[c] = KeyOf[d]
    /\ Pending(c)
    /\ state[d] # "idle"
    /\ ticket[c] < ticket[d]
    => state[d] = "queued"

(* What a caller sees of a call: until fn is called it waits. *)
Seen  == [idle |-> "new", queued |-> "waiting", racing |-> "waiting",
          paused |-> "waiting", running |-> "served", done |-> "done"]
Stage == [c \in Calls |-> Seen[state[c]]]

Service == INSTANCE KeyedService
             WITH stage <- Stage, number <- ticket, count <- arrivals

(* The limiter implements the keyed service: however calls queue for their *)
(* key, race for the pool and pause, fn is called for one call of a key at *)
(* a time, in the order the calls were made, and for at most Max in all.   *)
ServesInOrder == Service!Spec

(* keyPromise names the latest call with the key that has not ended, and   *)
(* nothing once all have: it does not grow.                                *)
KeyPromiseIsLatest ==
  \A k \in Keys :
    LET pending == {c \in Calls : KeyOf[c] = k /\ Pending(c)}
    IN IF keyPromise[k] = None THEN pending = {}
       ELSE /\ keyPromise[k] \in pending
            /\ \A c \in pending : ticket[c] <= ticket[keyPromise[k]]

(* fn starts at least SameKeyDelay after the previous call with its key    *)
(* ended, unless a call with another key started in between.               *)
SameKeyIsSpaced ==
  [][\A c \in Calls :
       /\ state[c] = "paused" /\ state'[c] = "running"
       /\ lastKey = KeyOf[c]
       => keyTime[KeyOf[c]] >= SameKeyDelay]_vars

(* Every call is served: neither the queue of a key nor the race for the   *)
(* pool forgets one.                                                       *)
EveryCallEnds == \A c \in Calls : state[c] # "idle" ~> state[c] = "done"
=============================================================================
