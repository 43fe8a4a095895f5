--------------------------- MODULE StorageProofs ----------------------------
(***************************************************************************)
(* Proofs about StorageCache, first by itself and then with an undo of an  *)
(* import at any time (StorageUndo), for every choice of keys, values,     *)
(* readers, flushes and bounds.                                            *)
(***************************************************************************)
EXTENDS StorageUndo, TLAPS

(* What is known of a queued key, of a key a flush is still to remove, and *)
(* of a key known to be absent: the cache agrees with it.                  *)
MemoryAgrees(k) ==
  /\ k \in Queued =>
       IF valuesToFlush[k] = Absent THEN dbKeys[k] = "absent"
                                    ELSE cache[k] = valuesToFlush[k]
  /\ (k \in ToBeRemoved /\ k \notin Queued) => dbKeys[k] = "absent"
  /\ dbKeys[k] = "absent" => cache[k] = Nothing

(* A read that was not overtaken holds the requested content, and nothing  *)
(* is under way for that key.                                              *)
SnapshotCurrent(r, k) ==
  k \in reads[r].keys /\ k \notin reads[r].overtaken =>
    reads[r].snap[k] = last[k] /\ k \notin Queued /\ k \notin ToBeRemoved

Coherent(k) ==
  /\ Visible(k) = last[k]
  /\ Settled(k) = last[k]
  /\ MemoryAgrees(k)
  /\ \A r \in Readers : SnapshotCurrent(r, k)

(* The inductive invariant behind ReadsAreCurrent and WritesSettle. *)
Coherence == \A k \in Keys \ raced : Coherent(k)

-----------------------------------------------------------------------------
(* The types of what the actions assign. *)
LEMMA OvertakeType ==
  ASSUME TypeOK, NEW S, Overtake(S)
  PROVE  reads' \in [Readers -> Read]
  BY DEF Overtake, TypeOK, Read

LEMMA FlushLaterType ==
  ASSUME TypeOK, FlushLater
  PROVE  flushTimer' \in BOOLEAN
  BY DEF FlushLater, TypeOK

(* The common end of set and remove. *)
LEMMA FinishType ==
  ASSUME TypeOK, NEW direct \in SUBSET Keys, NEW effect \in [Keys -> Content],
         NEW hit \in SUBSET Keys, Finish(direct, effect, hit)
  PROVE  /\ disk' \in [Keys -> Content]
         /\ flushTimer' \in BOOLEAN
         /\ awaiting' \in Nat
         /\ raced' \in SUBSET Keys
         /\ stranded' \in BOOLEAN
         /\ failures' \in Nat
<1>1. CASE direct = {}
  BY <1>1, FlushLaterType DEF Finish, TypeOK
<1>2. CASE direct # {}
  <2>1. flushTimer' = flushTimer /\ flushTimer \in BOOLEAN
    BY <1>2 DEF Finish, TypeOK
  <2>2. stranded' = stranded \/ stranded' = TRUE
    BY <1>2 DEF Finish
  <2>3. stranded \in BOOLEAN
    BY DEF TypeOK
  <2>4. awaiting' \in Nat /\ failures' \in Nat
    BY <1>2 DEF Finish, TypeOK, CountFailure
  <2>5. disk' \in [Keys -> Content] /\ raced' \in SUBSET Keys
    BY <1>2 DEF Finish, TypeOK
  <2>6. QED  BY <2>1, <2>2, <2>3, <2>4, <2>5
<1>3. QED  BY <1>1, <1>2

LEMMA QueuedType ==
  ASSUME TypeOK
  PROVE  Queued \in SUBSET Keys /\ ToBeRemoved \in SUBSET ValueKeys
  BY DEF Queued, ToBeRemoved, TypeOK, Keys

LEMMA SetType ==
  ASSUME TypeOK, NEW data \in Data, NEW flushNow \in BOOLEAN, Set(data, flushNow)
  PROVE  TypeOK'
<1> DEFINE changed == {k \in DOMAIN data : cache[k] # data[k]}
           queue   == IF flushNow THEN {} ELSE changed \cap ValueKeys
           toWrite == changed \ queue
<1>1. PICK S \in SUBSET Keys : data \in [S -> Vals]
  BY BatchesAssumption DEF Data
<1>2. /\ changed \in SUBSET S /\ queue \in SUBSET ValueKeys /\ toWrite \in SUBSET Keys
      /\ queue \in SUBSET changed
  BY <1>1
<1>3. cache' \in [Keys -> Vals \cup {Nothing}]
  BY <1>1, <1>2 DEF Set, Overlay, TypeOK
<1>4. dbKeys' \in [Keys -> Existence]
  BY DEF Set, Assign, TypeOK, Existence
<1>5. valuesToFlush' \in [ValueKeys -> Content \cup {Nothing}]
  BY <1>1, <1>2 DEF Set, Overlay, TypeOK, Content
<1>6. last' \in [Keys -> Content]
  BY <1>1 DEF Set, Overlay, TypeOK, Content
<1>7. reads' \in [Readers -> Read]
  BY OvertakeType DEF Set
<1>8. Overlay(disk, [k \in toWrite |-> data[k]]) \in [Keys -> Content]
  <2>1. [k \in toWrite |-> data[k]] \in [toWrite -> Content]
    BY <1>1, <1>2 DEF Content
  <2>2. QED  BY <2>1 DEF Overlay, TypeOK
<1>9. Finish(toWrite, Overlay(disk, [k \in toWrite |-> data[k]]),
             toWrite \cap (Queued \cup ToBeRemoved))
  BY DEF Set
<1>10. /\ disk' \in [Keys -> Content] /\ flushTimer' \in BOOLEAN /\ awaiting' \in Nat
       /\ raced' \in SUBSET Keys /\ stranded' \in BOOLEAN /\ failures' \in Nat
  <2> HIDE DEF toWrite
  <2>1. toWrite \cap (Queued \cup ToBeRemoved) \in SUBSET Keys
    BY <1>2
  <2>2. QED  BY <1>2, <1>8, <1>9, <2>1, FinishType
<1>11. lateRemoves' \in [Flushes -> SUBSET ValueKeys] /\ writes' \in Nat
  BY DEF Set, TypeOK, CountWrite
<1>12. QED
  BY <1>3, <1>4, <1>5, <1>6, <1>7, <1>10, <1>11 DEF TypeOK

LEMMA RemoveType ==
  ASSUME TypeOK, NEW keys \in Batches, Remove(keys)
  PROVE  TypeOK'
<1> DEFINE known    == {k \in keys : dbKeys[k] # "absent"}
           toDelete == known \cap PlainKeys
<1>1. keys \in SUBSET Keys /\ known \in SUBSET Keys /\ toDelete \in SUBSET Keys
  BY BatchesAssumption
<1>2. cache' \in [Keys -> Vals \cup {Nothing}]
  BY DEF Remove, Assign, TypeOK
<1>3. dbKeys' \in [Keys -> Existence]
  BY DEF Remove, Assign, TypeOK, Existence
<1>4. valuesToFlush' \in [ValueKeys -> Content \cup {Nothing}]
  BY DEF Remove, Assign, TypeOK, Content
<1>5. last' \in [Keys -> Content]
  BY DEF Remove, Assign, TypeOK, Content
<1>6. reads' \in [Readers -> Read]
  BY OvertakeType DEF Remove
<1>7. Assign(disk, toDelete, Absent) \in [Keys -> Content]
  BY DEF Assign, TypeOK, Content
<1>8. Finish(toDelete, Assign(disk, toDelete, Absent), {})
  BY DEF Remove
<1>9. /\ disk' \in [Keys -> Content] /\ flushTimer' \in BOOLEAN /\ awaiting' \in Nat
      /\ raced' \in SUBSET Keys /\ stranded' \in BOOLEAN /\ failures' \in Nat
  <2> HIDE DEF toDelete
  <2>1. QED  BY <1>1, <1>7, <1>8, FinishType
<1>10. lateRemoves' \in [Flushes -> SUBSET ValueKeys] /\ writes' \in Nat
  BY DEF Remove, TypeOK, CountWrite
<1>11. QED
  BY <1>2, <1>3, <1>4, <1>5, <1>6, <1>9, <1>10 DEF TypeOK

LEMMA AnswerType ==
  ASSUME TypeOK, NEW r \in Readers, Answer(r)
  PROVE  TypeOK'
<1> DEFINE found == {k \in reads[r].keys : reads[r].snap[k] \in Vals}
           gone  == IF reads[r].whole THEN {} ELSE reads[r].keys \ found
<1>1. /\ reads[r] \in Read /\ found \in SUBSET Keys /\ gone \in SUBSET Keys
      /\ \A k \in found : reads[r].snap[k] \in Vals
  BY DEF TypeOK, Read
<1>2. cache' \in [Keys -> Vals \cup {Nothing}]
  BY <1>1 DEF Answer, Overlay, TypeOK
<1>3. dbKeys' \in [Keys -> Existence]
  BY DEF Answer, Assign, TypeOK, Existence
<1>4. raced' \in SUBSET Keys
  BY <1>1 DEF Answer, TypeOK
<1>5. reads' \in [Readers -> Read]
  BY DEF Answer, TypeOK, Idle, Read, Content
<1>6. QED
  BY <1>2, <1>3, <1>4, <1>5 DEF Answer, TypeOK

LEMMA FlushType ==
  ASSUME TypeOK, NEW f \in Flushes, Flush(f)
  PROVE  TypeOK'
<1> DEFINE toFlush  == {k \in Queued : valuesToFlush[k] # Absent}
           toRemove == Queued \ toFlush
           now      == IF toFlush = {} THEN toRemove ELSE {}
<1>1. /\ Queued \in SUBSET ValueKeys /\ toFlush \in SUBSET ValueKeys
      /\ toRemove \in SUBSET ValueKeys /\ now \in SUBSET ValueKeys
      /\ \A k \in toFlush : valuesToFlush[k] \in Content
  BY DEF Queued, TypeOK
<1>2. disk' \in [Keys -> Content]
  <2>1. CASE disk' = Overlay(Assign(disk, now, Absent), [k \in toFlush |-> valuesToFlush[k]])
    <3> HIDE DEF toFlush, now
    <3>1. QED  BY <1>1, <2>1 DEF Overlay, Assign, TypeOK, Content
  <2>2. CASE UNCHANGED disk
    BY <2>2 DEF TypeOK
  <2>3. QED  BY <2>1, <2>2 DEF Flush
<1>3. lateRemoves' \in [Flushes -> SUBSET ValueKeys]
  BY <1>1 DEF Flush, TypeOK
<1>4. raced' \in SUBSET Keys
  BY <1>1, QueuedType DEF Flush, TypeOK
<1>5. valuesToFlush' \in [ValueKeys -> Content \cup {Nothing}]
  BY DEF Flush
<1>6. flushTimer' \in BOOLEAN
  BY DEF Flush
<1>7. failures' \in Nat
  BY DEF Flush, TypeOK, CountFailure
<1>8. QED
  BY <1>2, <1>3, <1>4, <1>5, <1>6, <1>7 DEF Flush, TypeOK

LEMMA FlushRemovesType ==
  ASSUME TypeOK, NEW f \in Flushes, FlushRemoves(f)
  PROVE  TypeOK'
<1>1. disk' \in [Keys -> Content]
  BY DEF FlushRemoves, TypeOK, Assign, Content
<1>2. lateRemoves' \in [Flushes -> SUBSET ValueKeys]
  BY DEF FlushRemoves, TypeOK
<1>3. raced' \in SUBSET Keys
  BY DEF FlushRemoves, TypeOK, Keys
<1>4. failures' \in Nat
  BY DEF FlushRemoves, TypeOK, CountFailure
<1>5. QED
  BY <1>1, <1>2, <1>3, <1>4 DEF FlushRemoves, TypeOK

(* Expiry, the daily sweep, clearing and restarting only forget. *)
LEMMA ForgetType ==
  ASSUME TypeOK, (\E k \in Keys : Expire(k)) \/ Sweep \/ Clear \/ Restart
  PROVE  TypeOK'
<1>1. CASE \E k \in Keys : Expire(k)
  BY <1>1, QueuedType DEF Expire, TypeOK
<1>2. CASE Sweep
  BY <1>2, QueuedType DEF Sweep, TypeOK, Existence, Keys
<1>3. CASE Clear
  BY <1>3, QueuedType DEF Clear, TypeOK, Existence, Keys
<1>4. CASE Restart
  <2>1. dbKeys' \in [Keys -> Existence]
    BY <1>4 DEF Restart, KnownAtStart, Existence
  <2>2. reads' \in [Readers -> Read]
    BY <1>4 DEF Restart, Idle, Read, Content
  <2>3. QED  BY <1>4, <2>1, <2>2 DEF Restart, TypeOK
<1>5. QED  BY <1>1, <1>2, <1>3, <1>4

LEMMA ReadType ==
  ASSUME TypeOK, NEW r \in Readers,
         (\E keys \in Batches : Get(r, keys)) \/ GetWhole(r) \/ AnswerFails(r)
  PROVE  TypeOK'
<1>1. CASE \E keys \in Batches : Get(r, keys)
  <2>1. reads' \in [Readers -> Read]
    BY <1>1, BatchesAssumption DEF Get, TypeOK, Read
  <2>2. QED  BY <1>1, <2>1 DEF Get, TypeOK
<1>2. CASE GetWhole(r)
  <2>1. reads' \in [Readers -> Read]
    BY <1>2, QueuedType DEF GetWhole, TypeOK, Read, Keys
  <2>2. QED  BY <1>2, <2>1 DEF GetWhole, TypeOK
<1>3. CASE AnswerFails(r)
  <2>1. reads' \in [Readers -> Read]
    BY <1>3 DEF AnswerFails, TypeOK, Read, Idle, Content
  <2>2. QED  BY <1>3, <2>1 DEF AnswerFails, TypeOK
<1>4. QED  BY <1>1, <1>2, <1>3

LEMMA AnsweredType ==
  ASSUME TypeOK, WriteAnswered
  PROVE  TypeOK'
<1>1. awaiting' \in Nat
  BY DEF WriteAnswered, TypeOK
<1>2. flushTimer' \in BOOLEAN
  BY DEF WriteAnswered, TypeOK
<1>3. QED  BY <1>1, <1>2 DEF WriteAnswered, TypeOK

LEMMA InitType == Init => TypeOK
<1> SUFFICES ASSUME Init PROVE TypeOK
  OBVIOUS
<1>1. dbKeys \in [Keys -> Existence]
  BY DEF Init, KnownAtStart, Existence
<1>2. reads \in [Readers -> Read]
  BY DEF Init, Idle, Read, Content
<1>3. QED  BY <1>1, <1>2 DEF Init, TypeOK

LEMMA NextType == TypeOK /\ [Next]_vars => TypeOK'
<1> SUFFICES ASSUME TypeOK, [Next]_vars PROVE TypeOK'
  OBVIOUS
<1>1. CASE Next
  BY <1>1, SetType, RemoveType, AnsweredType, ReadType, AnswerType, FlushType,
     FlushRemovesType, ForgetType DEF Next, Calls, Background
<1>2. CASE UNCHANGED vars
  BY <1>2 DEF vars, TypeOK
<1>3. QED  BY <1>1, <1>2

(* Every variable of the storage cache keeps its type, whatever the keys,  *)
(* the values and the bounds.                                              *)
THEOREM TypeCorrect == Spec => []TypeOK
  BY InitType, NextType, PTL DEF Spec

-----------------------------------------------------------------------------
(* set and remove leave nothing queued without a flush to come. *)
LEMMA FinishSchedules ==
  ASSUME TypeOK, NEW direct, NEW effect, NEW hit, Finish(direct, effect, hit)
  PROVE  FlushIsScheduled'
<1>1. CASE direct = {}
  BY <1>1 DEF Finish, FlushLater, FlushIsScheduled, Queued
<1>2. CASE direct # {}
  BY <1>2 DEF Finish, FlushIsScheduled, TypeOK
<1>3. QED  BY <1>1, <1>2

LEMMA ScheduledNext == TypeOK /\ FlushIsScheduled /\ [Next]_vars => FlushIsScheduled'
<1> SUFFICES ASSUME TypeOK, FlushIsScheduled, [Next]_vars PROVE FlushIsScheduled'
  OBVIOUS
<1>1. ASSUME NEW data \in Data, NEW flushNow \in BOOLEAN, Set(data, flushNow)
      PROVE  FlushIsScheduled'
  BY <1>1, FinishSchedules DEF Set
<1>2. ASSUME NEW keys \in Batches, Remove(keys)
      PROVE  FlushIsScheduled'
  BY <1>2, FinishSchedules DEF Remove
<1>3. CASE WriteAnswered
  BY <1>3 DEF WriteAnswered, FlushIsScheduled, Queued
<1>4. CASE \E r \in Readers, keys \in Batches : Get(r, keys)
  BY <1>4 DEF Get, FlushIsScheduled, Queued
<1>5. CASE \E r \in Readers : GetWhole(r) \/ Answer(r) \/ AnswerFails(r)
  BY <1>5 DEF GetWhole, Answer, AnswerFails, FlushIsScheduled, Queued
<1>6. CASE \E f \in Flushes : Flush(f)
  BY <1>6 DEF Flush, FlushIsScheduled, Queued
<1>7. CASE \E f \in Flushes : FlushRemoves(f)
  BY <1>7 DEF FlushRemoves, FlushIsScheduled, Queued
<1>8. CASE (\E k \in Keys : Expire(k)) \/ Sweep \/ Clear
  BY <1>8 DEF Expire, Sweep, Clear, FlushIsScheduled, Queued
<1>9. CASE Restart
  BY <1>9 DEF Restart, FlushIsScheduled, Queued
<1>10. CASE UNCHANGED vars
  BY <1>10 DEF vars, FlushIsScheduled, Queued
<1>11. QED
  BY <1>1, <1>2, <1>3, <1>4, <1>5, <1>6, <1>7, <1>8, <1>9, <1>10
  DEF Next, Calls, Background

(* Queued values are never forgotten by the flush timer. *)
THEOREM FlushScheduled == Spec => []FlushIsScheduled
<1>1. Init => FlushIsScheduled
  BY DEF Init, FlushIsScheduled, Queued
<1>2. QED  BY <1>1, ScheduledNext, TypeCorrect, PTL DEF Spec

-----------------------------------------------------------------------------
(* A step that leaves everything about k as it was keeps k coherent. *)
LEMMA Frame ==
  ASSUME TypeOK, NEW k \in Keys, Coherent(k),
         cache'[k] = cache[k], dbKeys'[k] = dbKeys[k], disk'[k] = disk[k],
         last'[k] = last[k], k \in ValueKeys => valuesToFlush'[k] = valuesToFlush[k],
         UNCHANGED lateRemoves,
         \A r \in Readers :
           \/ k \notin reads'[r].keys
           \/ reads'[r] = reads[r]
           \/ /\ reads'[r].keys = reads[r].keys
              /\ reads'[r].snap = reads[r].snap
              /\ reads[r].overtaken \subseteq reads'[r].overtaken
  PROVE  Coherent(k)'
<1>1. /\ k \in Queued' <=> k \in Queued
      /\ k \in ToBeRemoved' <=> k \in ToBeRemoved
      /\ k \in Queued => valuesToFlush'[k] = valuesToFlush[k]
  BY DEF Queued, ToBeRemoved
<1>2. Visible(k)' = last'[k] /\ Settled(k)' = last'[k] /\ MemoryAgrees(k)'
  BY <1>1 DEF Coherent, Visible, Settled, MemoryAgrees
<1>3. ASSUME NEW r \in Readers PROVE SnapshotCurrent(r, k)'
  BY <1>1 DEF Coherent, SnapshotCurrent
<1>4. QED  BY <1>2, <1>3 DEF Coherent

(* What the common end of set and remove does to raced, and to the disk of *)
(* a key that is not lost.                                                 *)
LEMMA FinishEffect ==
  ASSUME TypeOK, NEW direct \in SUBSET Keys, NEW effect, NEW hit,
         Finish(direct, effect, hit)
  PROVE  /\ raced \cup hit \subseteq raced'
         /\ \/ disk' = effect
            \/ disk' = disk /\ direct = {}
            \/ disk' = disk /\ direct \subseteq raced'
  BY DEF Finish

LEMMA OvertakeEffect ==
  ASSUME TypeOK, NEW S, Overtake(S)
  PROVE  \A r \in Readers :
           /\ reads'[r].keys = reads[r].keys
           /\ reads'[r].snap = reads[r].snap
           /\ reads'[r].overtaken = reads[r].overtaken \cup (S \cap reads[r].keys)
  BY DEF Overtake, TypeOK, Read

LEMMA SetCoherence ==
  ASSUME TypeOK, Coherence, NEW data \in Data, NEW flushNow \in BOOLEAN,
         Set(data, flushNow)
  PROVE  Coherence'
<1> DEFINE changed == {k \in DOMAIN data : cache[k] # data[k]}
           queue   == IF flushNow THEN {} ELSE changed \cap ValueKeys
           toWrite == changed \ queue
           effect  == Overlay(disk, [k \in toWrite |-> data[k]])
           hit     == toWrite \cap (Queued \cup ToBeRemoved)
<1>1. PICK S \in SUBSET Keys : data \in [S -> Vals]
  BY BatchesAssumption DEF Data
<1>2. changed \in SUBSET S /\ queue \in SUBSET changed /\ toWrite \in SUBSET Keys
  BY <1>1
<1>3. /\ raced \cup hit \subseteq raced'
      /\ \/ disk' = effect
         \/ disk' = disk /\ toWrite = {}
         \/ disk' = disk /\ toWrite \subseteq raced'
  <2>1. Finish(toWrite, effect, hit)
    BY DEF Set
  <2> HIDE DEF toWrite, effect, hit
  <2>2. QED  BY <1>2, <2>1, FinishEffect
<1>4. \A r \in Readers :
           /\ reads'[r].keys = reads[r].keys
           /\ reads'[r].snap = reads[r].snap
           /\ reads'[r].overtaken = reads[r].overtaken \cup (changed \cap reads[r].keys)
  BY OvertakeEffect DEF Set
<1> SUFFICES ASSUME NEW k \in Keys, k \notin raced' PROVE Coherent(k)'
  BY DEF Coherence
<1>5. Coherent(k)
  BY <1>3 DEF Coherence
<1>6. UNCHANGED lateRemoves /\ (k \in ToBeRemoved)' = (k \in ToBeRemoved)
  BY DEF Set, ToBeRemoved
<1>7. CASE k \in changed
  <2>1. cache'[k] = data[k] /\ dbKeys'[k] = "present" /\ last'[k] = data[k] /\ data[k] \in Vals
    BY <1>1, <1>2, <1>7 DEF Set, Overlay, Assign, TypeOK
  <2>2. \A r \in Readers : SnapshotCurrent(r, k)'
    BY <1>4, <1>7 DEF SnapshotCurrent
  <2>3. CASE k \in queue
    <3>1. k \in Queued' /\ valuesToFlush'[k] = data[k]
      BY <1>1, <2>1, <2>3, ValsAssumption DEF Set, Overlay, TypeOK, Queued
    <3>2. Visible(k)' = last'[k] /\ Settled(k)' = last'[k] /\ MemoryAgrees(k)'
      BY <2>1, <3>1, ValsAssumption DEF Visible, Settled, MemoryAgrees
    <3>3. QED  BY <2>2, <3>2 DEF Coherent
  <2>4. CASE k \in toWrite
    <3>1. disk'[k] = data[k]
      BY <1>1, <1>3, <2>4 DEF Overlay, TypeOK
    <3>2. k \notin Queued /\ k \notin ToBeRemoved
      BY <1>3, <2>4
    <3>3. k \notin Queued' /\ k \notin ToBeRemoved'
      <4>1. k \in ValueKeys => valuesToFlush'[k] = valuesToFlush[k]
        BY <2>4 DEF Set, Overlay, TypeOK
      <4>2. QED  BY <1>6, <3>2, <4>1 DEF Queued
    <3>4. Visible(k)' = last'[k] /\ Settled(k)' = last'[k] /\ MemoryAgrees(k)'
      BY <2>1, <3>1, <3>3, ValsAssumption DEF Visible, Settled, MemoryAgrees
    <3>5. QED  BY <2>2, <3>4 DEF Coherent
  <2>5. QED  BY <1>7, <2>3, <2>4
<1>8. CASE k \notin changed
  <2>1. cache'[k] = cache[k] /\ dbKeys'[k] = dbKeys[k]
    BY <1>1, <1>8 DEF Set, Overlay, Assign, TypeOK
  <2>2. last'[k] = last[k]
    <3>1. CASE k \in DOMAIN data
      <4>1. cache[k] = data[k] /\ data[k] \in Vals
        BY <1>1, <1>8, <3>1
      <4>2. last[k] = data[k]
        BY <1>5, <4>1, ValsAssumption DEF Coherent, Visible
      <4>3. QED  BY <3>1, <4>2 DEF Set, Overlay, TypeOK
    <3>2. CASE k \notin DOMAIN data
      BY <3>2 DEF Set, Overlay, TypeOK
    <3>3. QED  BY <3>1, <3>2
  <2>3. disk'[k] = disk[k]
    BY <1>3, <1>8 DEF Overlay, TypeOK
  <2>4. k \in ValueKeys => valuesToFlush'[k] = valuesToFlush[k]
    BY <1>8 DEF Set, Overlay, TypeOK
  <2>5. QED  BY <1>4, <1>5, <1>6, <2>1, <2>2, <2>3, <2>4, Frame
<1>9. QED  BY <1>7, <1>8

LEMMA RemoveCoherence ==
  ASSUME TypeOK, Coherence, NEW keys \in Batches, Remove(keys)
  PROVE  Coherence'
<1> DEFINE known    == {k \in keys : dbKeys[k] # "absent"}
           toDelete == known \cap PlainKeys
           effect   == Assign(disk, toDelete, Absent)
<1>1. keys \in SUBSET Keys /\ toDelete \in SUBSET Keys
  BY BatchesAssumption
<1>2. /\ raced \subseteq raced'
      /\ \/ disk' = effect
         \/ disk' = disk /\ toDelete = {}
         \/ disk' = disk /\ toDelete \subseteq raced'
  <2>1. Finish(toDelete, effect, {})
    BY DEF Remove
  <2> HIDE DEF toDelete, effect
  <2>2. QED  BY <1>1, <2>1, FinishEffect
<1>3. \A r \in Readers :
           /\ reads'[r].keys = reads[r].keys
           /\ reads'[r].snap = reads[r].snap
           /\ reads'[r].overtaken = reads[r].overtaken \cup (known \cap reads[r].keys)
  BY OvertakeEffect DEF Remove
<1> SUFFICES ASSUME NEW k \in Keys, k \notin raced' PROVE Coherent(k)'
  BY DEF Coherence
<1>4. Coherent(k)
  BY <1>2 DEF Coherence
<1>5. UNCHANGED lateRemoves /\ (k \in ToBeRemoved' <=> k \in ToBeRemoved)
  BY DEF Remove, ToBeRemoved
<1>6. CASE k \in known
  <2>1. cache'[k] = Nothing /\ dbKeys'[k] = "absent" /\ last'[k] = Absent
    BY <1>6 DEF Remove, Assign, TypeOK
  <2>2. \A r \in Readers : SnapshotCurrent(r, k)'
    BY <1>3, <1>6 DEF SnapshotCurrent
  <2>3. CASE k \in ValueKeys
    <3>1. valuesToFlush'[k] = Absent /\ k \in Queued'
      BY <1>6, <2>3, ValsAssumption DEF Remove, Assign, TypeOK, Queued
    <3>2. QED
      BY <2>1, <2>2, <3>1 DEF Coherent, Visible, Settled, MemoryAgrees
  <2>4. CASE k \notin ValueKeys
    <3>1. k \in toDelete /\ k \notin Queued' /\ k \notin ToBeRemoved'
      BY <1>5, <1>6, <2>4, QueuedType DEF Keys, Queued
    <3>2. disk'[k] = Absent
      BY <1>2, <3>1 DEF Assign, TypeOK
    <3>3. QED
      BY <2>1, <2>2, <3>1, <3>2 DEF Coherent, Visible, Settled, MemoryAgrees
  <2>5. QED  BY <2>3, <2>4
<1>7. CASE k \notin known
  <2>1. cache'[k] = cache[k] /\ dbKeys'[k] = dbKeys[k]
    BY <1>7 DEF Remove, Assign, TypeOK
  <2>2. last'[k] = last[k]
    <3>1. CASE k \in keys
      <4>1. dbKeys[k] = "absent"
        BY <1>7, <3>1
      <4>2. last[k] = Absent
        BY <1>4, <4>1 DEF Coherent, Visible, MemoryAgrees
      <4>3. QED  BY <3>1, <4>2 DEF Remove, Assign, TypeOK
    <3>2. CASE k \notin keys
      BY <3>2 DEF Remove, Assign, TypeOK
    <3>3. QED  BY <3>1, <3>2
  <2>3. disk'[k] = disk[k]
    BY <1>2, <1>7 DEF Assign, TypeOK
  <2>4. k \in ValueKeys => valuesToFlush'[k] = valuesToFlush[k]
    BY <1>7 DEF Remove, Assign, TypeOK
  <2>5. QED  BY <1>3, <1>4, <1>5, <2>1, <2>2, <2>3, <2>4, Frame
<1>8. QED  BY <1>6, <1>7

LEMMA ReadStartCoherence ==
  ASSUME TypeOK, Coherence, NEW r \in Readers,
         (\E keys \in Batches : Get(r, keys)) \/ GetWhole(r)
  PROVE  Coherence'
<1> SUFFICES ASSUME NEW k \in Keys, k \notin raced' PROVE Coherent(k)'
  BY DEF Coherence
<1>1. Coherent(k) /\ UNCHANGED << disk, cache, dbKeys, valuesToFlush, lateRemoves, last >>
  BY DEF Coherence, Get, GetWhole
<1>2. /\ k \in Queued' <=> k \in Queued
      /\ k \in ToBeRemoved' <=> k \in ToBeRemoved
  BY <1>1 DEF Queued, ToBeRemoved
<1>3. Visible(k)' = last'[k] /\ Settled(k)' = last'[k] /\ MemoryAgrees(k)'
  BY <1>1, <1>2 DEF Coherent, Visible, Settled, MemoryAgrees
<1>4. ASSUME NEW q \in Readers, q # r PROVE SnapshotCurrent(q, k)'
  <2>1. reads'[q] = reads[q]
    BY <1>4 DEF Get, GetWhole, TypeOK
  <2>2. QED  BY <1>1, <1>2, <2>1 DEF Coherent, SnapshotCurrent
<1>5. SnapshotCurrent(r, k)'
  <2>1. CASE \E keys \in Batches : Get(r, keys)
    <3>1. /\ reads'[r].snap = disk
          /\ k \in reads'[r].keys => cache[k] = Nothing /\ dbKeys[k] # "absent"
      BY <2>1 DEF Get, TypeOK
    <3>2. k \in reads'[r].keys => k \notin Queued /\ k \notin ToBeRemoved
      BY <1>1, <3>1, ValsAssumption DEF Coherent, MemoryAgrees, TypeOK, Queued, Content
    <3>3. QED
      BY <1>1, <1>2, <3>1, <3>2 DEF Coherent, SnapshotCurrent, Visible
  <2>2. CASE GetWhole(r)
    <3>1. reads'[r].snap = disk /\ reads'[r].overtaken = Queued \cup ToBeRemoved
      BY <2>2 DEF GetWhole, TypeOK
    <3>2. QED
      BY <1>1, <1>2, <3>1 DEF Coherent, SnapshotCurrent, Settled
  <2>3. QED  BY <2>1, <2>2
<1>6. QED  BY <1>3, <1>4, <1>5 DEF Coherent

LEMMA AnswerCoherence ==
  ASSUME TypeOK, Coherence, NEW r \in Readers, Answer(r)
  PROVE  Coherence'
<1> DEFINE found == {k \in reads[r].keys : reads[r].snap[k] \in Vals}
           gone  == IF reads[r].whole THEN {} ELSE reads[r].keys \ found
<1> SUFFICES ASSUME NEW k \in Keys, k \notin raced' PROVE Coherent(k)'
  BY DEF Coherence
<1>1. /\ Coherent(k)
      /\ UNCHANGED << disk, valuesToFlush, lateRemoves, last >>
      /\ k \in found \cup gone => k \notin reads[r].overtaken
  BY DEF Coherence, Answer
<1>2. \A q \in Readers : reads'[q] = IF q = r THEN Idle ELSE reads[q]
  BY DEF Answer, TypeOK
<1>3. k \in found \cup gone => reads[r].snap[k] = last[k] /\ k \notin Queued /\ k \notin ToBeRemoved
  BY <1>1 DEF Coherent, SnapshotCurrent
<1>4. /\ k \in Queued' <=> k \in Queued
      /\ k \in ToBeRemoved' <=> k \in ToBeRemoved
  BY <1>1 DEF Queued, ToBeRemoved
<1>5. \A q \in Readers : SnapshotCurrent(q, k)'
  BY <1>1, <1>2, <1>4 DEF Coherent, SnapshotCurrent, Idle
<1>6. CASE k \in found
  <2>1. cache'[k] = reads[r].snap[k] /\ dbKeys'[k] = "present" /\ reads[r].snap[k] \in Vals
    BY <1>6 DEF Answer, Overlay, Assign, TypeOK
  <2>2. QED
    BY <1>1, <1>3, <1>4, <1>5, <1>6, <2>1, ValsAssumption
    DEF Coherent, Visible, Settled, MemoryAgrees
<1>7. CASE k \in gone
  <2>1. reads[r].snap[k] = Absent
    BY <1>7 DEF TypeOK, Read, Content
  <2>2. cache'[k] = cache[k] /\ dbKeys'[k] = "absent"
    BY <1>7 DEF Answer, Overlay, Assign, TypeOK
  <2>3. cache[k] = Nothing
    BY <1>1, <1>3, <1>7, <2>1, ValsAssumption DEF Coherent, Visible, TypeOK
  <2>4. QED
    BY <1>1, <1>3, <1>4, <1>5, <1>7, <2>1, <2>2, <2>3
    DEF Coherent, Visible, Settled, MemoryAgrees
<1>8. CASE k \notin found \cup gone
  <2>1. cache'[k] = cache[k] /\ dbKeys'[k] = dbKeys[k]
    BY <1>8 DEF Answer, Overlay, Assign, TypeOK
  <2>2. QED
    BY <1>1, <1>4, <1>5, <2>1 DEF Coherent, Visible, Settled, MemoryAgrees
<1>9. QED  BY <1>6, <1>7, <1>8

LEMMA FlushCoherence ==
  ASSUME TypeOK, Coherence, NEW f \in Flushes, Flush(f)
  PROVE  Coherence'
<1> DEFINE toFlush  == {k \in Queued : valuesToFlush[k] # Absent}
           toRemove == Queued \ toFlush
           now      == IF toFlush = {} THEN toRemove ELSE {}
           effect   == Overlay(Assign(disk, now, Absent), [k \in toFlush |-> valuesToFlush[k]])
<1> SUFFICES ASSUME NEW k \in Keys, k \notin raced' PROVE Coherent(k)'
  BY DEF Coherence
<1>1. /\ Coherent(k)
      /\ UNCHANGED << cache, dbKeys, reads, last >>
  BY DEF Coherence, Flush
<1>2. \/ k \notin Queued /\ disk' = effect
      \/ k \notin Queued /\ disk' = disk
      \/ k \in Queued /\ disk' = effect
  BY DEF Flush
<1>3. k \notin Queued'
  BY DEF Flush, Queued
<1>4. \A r \in Readers : SnapshotCurrent(r, k)' <=>
        (k \in reads[r].keys /\ k \notin reads[r].overtaken =>
           reads[r].snap[k] = last[k] /\ k \notin ToBeRemoved')
  BY <1>1, <1>3 DEF SnapshotCurrent
<1>5. CASE k \notin Queued
  <2>1. disk'[k] = disk[k]
    BY <1>2, <1>5 DEF Overlay, Assign, TypeOK
  <2>2. k \in ToBeRemoved' <=> k \in ToBeRemoved
    BY <1>5 DEF Flush, ToBeRemoved, TypeOK
  <2>3. Visible(k)' = last'[k] /\ Settled(k)' = last'[k] /\ MemoryAgrees(k)'
    BY <1>1, <1>3, <1>5, <2>1, <2>2 DEF Coherent, Visible, Settled, MemoryAgrees
  <2>4. QED  BY <1>1, <1>4, <1>5, <2>2, <2>3 DEF Coherent, SnapshotCurrent
<1>6. CASE k \in Queued
  <2>1. disk' = effect /\ lateRemoves' = [lateRemoves EXCEPT ![f] = toRemove \ now]
        /\ k \notin toFlush \cap ToBeRemoved
    BY <1>6 DEF Flush
  <2>2. \A r \in Readers : k \notin reads[r].keys \/ k \in reads[r].overtaken
    BY <1>1, <1>6 DEF Coherent, SnapshotCurrent
  <2>3. last[k] = valuesToFlush[k] /\ valuesToFlush[k] \in Content
    BY <1>1, <1>6 DEF Coherent, Settled, TypeOK, Queued
  <2>4. CASE k \in toFlush
    <3>1. disk'[k] = valuesToFlush[k]
      BY <2>1, <2>4 DEF Overlay, Assign, TypeOK
    <3>2. k \notin ToBeRemoved'
      BY <2>1, <2>4 DEF ToBeRemoved, TypeOK
    <3>3. cache[k] = valuesToFlush[k] /\ cache[k] # Nothing
      BY <1>1, <1>6, <2>4 DEF Coherent, MemoryAgrees, Queued
    <3>4. dbKeys[k] # "absent"
      BY <1>1, <3>3 DEF Coherent, MemoryAgrees
    <3>5. Visible(k)' = last'[k] /\ Settled(k)' = last'[k] /\ MemoryAgrees(k)'
      BY <1>1, <1>3, <2>3, <3>1, <3>2, <3>3, <3>4 DEF Visible, Settled, MemoryAgrees
    <3>6. QED  BY <1>4, <2>2, <3>5 DEF Coherent
  <2>5. CASE k \notin toFlush
    <3>1. valuesToFlush[k] = Absent /\ dbKeys[k] = "absent" /\ cache[k] = Nothing
      BY <1>1, <1>6, <2>5 DEF Coherent, MemoryAgrees
    <3>2. k \notin ToBeRemoved' => disk'[k] = Absent
      <4>1. CASE toFlush = {}
        BY <1>6, <2>1, <2>5, <4>1 DEF Overlay, Assign, TypeOK
      <4>2. CASE toFlush # {}
        <5>1. k \in lateRemoves'[f]
          BY <1>6, <2>1, <2>5, <4>2 DEF TypeOK
        <5>2. QED  BY <5>1 DEF ToBeRemoved
      <4>3. QED  BY <4>1, <4>2
    <3>3. Visible(k)' = last'[k] /\ Settled(k)' = last'[k] /\ MemoryAgrees(k)'
      BY <1>1, <1>3, <2>3, <3>1, <3>2 DEF Visible, Settled, MemoryAgrees
    <3>4. QED  BY <1>4, <2>2, <3>3 DEF Coherent
  <2>6. QED  BY <2>4, <2>5
<1>7. QED  BY <1>5, <1>6

LEMMA FlushRemovesCoherence ==
  ASSUME TypeOK, Coherence, NEW f \in Flushes, FlushRemoves(f)
  PROVE  Coherence'
<1> SUFFICES ASSUME NEW k \in Keys, k \notin raced' PROVE Coherent(k)'
  BY DEF Coherence
<1>1. /\ Coherent(k)
      /\ UNCHANGED << cache, dbKeys, valuesToFlush, reads, last >>
      /\ k \in Queued' <=> k \in Queued
  BY DEF Coherence, FlushRemoves, Queued
<1>2. CASE k \in lateRemoves[f]
  <2>1. disk'[k] = Absent
    BY <1>2 DEF FlushRemoves, Assign, TypeOK
  <2>2. k \in ToBeRemoved
    BY <1>2 DEF ToBeRemoved
  <2>3. \A r \in Readers : SnapshotCurrent(r, k)'
    BY <1>1, <2>2 DEF Coherent, SnapshotCurrent
  <2>4. Visible(k)' = last'[k]
    BY <1>1, <2>1, <2>2, ValsAssumption DEF Coherent, Visible, Settled, MemoryAgrees, Queued, TypeOK
  <2>5. Settled(k)' = last'[k]
    BY <1>1, <2>1, <2>2 DEF Coherent, Settled
  <2>6. MemoryAgrees(k)'
    BY <1>1, <2>2 DEF Coherent, MemoryAgrees, FlushRemoves, ToBeRemoved
  <2>7. QED  BY <2>3, <2>4, <2>5, <2>6 DEF Coherent
<1>3. CASE k \notin lateRemoves[f]
  <2>1. disk'[k] = disk[k]
    BY <1>3 DEF FlushRemoves, Assign, TypeOK
  <2>2. k \in ToBeRemoved' <=> k \in ToBeRemoved
    BY <1>3 DEF FlushRemoves, ToBeRemoved, TypeOK
  <2>3. Visible(k)' = last'[k] /\ Settled(k)' = last'[k] /\ MemoryAgrees(k)'
    BY <1>1, <2>1, <2>2 DEF Coherent, Visible, Settled, MemoryAgrees
  <2>4. \A r \in Readers : SnapshotCurrent(r, k)'
    BY <1>1, <2>2 DEF Coherent, SnapshotCurrent
  <2>5. QED  BY <2>3, <2>4 DEF Coherent
<1>4. QED  BY <1>2, <1>3

LEMMA ForgetCoherence ==
  ASSUME TypeOK, Coherence, (\E k \in Keys : Expire(k)) \/ Sweep \/ Clear
  PROVE  Coherence'
<1> SUFFICES ASSUME NEW k \in Keys, k \notin raced' PROVE Coherent(k)'
  BY DEF Coherence
<1>1. /\ Coherent(k)
      /\ UNCHANGED << disk, valuesToFlush, lateRemoves, reads, last >>
      /\ k \in Queued' <=> k \in Queued
      /\ k \in ToBeRemoved' <=> k \in ToBeRemoved
  BY DEF Coherence, Expire, Sweep, Clear, Queued, ToBeRemoved
<1>2. \A r \in Readers : SnapshotCurrent(r, k)'
  BY <1>1 DEF Coherent, SnapshotCurrent
<1>3. CASE \E x \in Keys : Expire(x)
  <2>1. /\ dbKeys' = dbKeys
        /\ \/ cache'[k] = cache[k]
           \/ cache'[k] = Nothing /\ cache[k] # Nothing /\ k \notin Queued
    BY <1>3 DEF Expire, TypeOK
  <2>2. CASE cache'[k] = cache[k]
    BY <1>1, <1>2, <2>1, <2>2 DEF Coherent, Visible, Settled, MemoryAgrees
  <2>3. CASE cache'[k] = Nothing /\ cache[k] # Nothing /\ k \notin Queued
    <3>1. dbKeys[k] # "absent" /\ k \notin ToBeRemoved
      BY <1>1, <2>3 DEF Coherent, MemoryAgrees
    <3>2. QED
      BY <1>1, <1>2, <2>1, <2>3, <3>1 DEF Coherent, Visible, Settled, MemoryAgrees
  <2>4. QED  BY <2>1, <2>2, <2>3
<1>4. CASE Sweep
  <2>1. /\ k \notin Queued /\ k \notin ToBeRemoved /\ cache' = cache
        /\ dbKeys'[k] = IF dbKeys[k] = "absent" THEN "unknown" ELSE dbKeys[k]
    BY <1>4 DEF Sweep
  <2>2. QED
    BY <1>1, <1>2, <2>1 DEF Coherent, Visible, Settled, MemoryAgrees
<1>5. CASE Clear
  <2>1. /\ k \notin Queued /\ k \notin ToBeRemoved
        /\ cache'[k] = Nothing /\ dbKeys'[k] = "unknown"
    BY <1>5 DEF Clear
  <2>2. QED
    BY <1>1, <1>2, <2>1 DEF Coherent, Visible, Settled, MemoryAgrees
<1>6. QED  BY <1>3, <1>4, <1>5

(* In an empty memory every key reads and settles as the area holds it. *)
LEMMA FreshCoherence ==
  ASSUME cache = [k \in Keys |-> Nothing], dbKeys \in KnownAtStart,
         valuesToFlush = [k \in ValueKeys |-> Nothing],
         reads = [r \in Readers |-> Idle],
         lateRemoves = [f \in Flushes |-> {}], last = disk
  PROVE  Coherence
<1> SUFFICES ASSUME NEW k \in Keys PROVE Coherent(k)
  BY DEF Coherence
<1>1. k \notin Queued /\ k \notin ToBeRemoved /\ cache[k] = Nothing
  BY DEF Queued, ToBeRemoved
<1>2. dbKeys[k] # "absent"
  BY DEF KnownAtStart
<1>3. \A r \in Readers : SnapshotCurrent(r, k)
  BY DEF SnapshotCurrent, Idle
<1>4. QED
  BY <1>1, <1>2, <1>3 DEF Coherent, Visible, Settled, MemoryAgrees

LEMMA RestartCoherence ==
  ASSUME Restart
  PROVE  Coherence'
<1> SUFFICES ASSUME NEW k \in Keys PROVE Coherent(k)'
  BY DEF Coherence
<1>1. k \notin Queued' /\ k \notin ToBeRemoved' /\ cache'[k] = Nothing /\ last' = disk'
  BY DEF Restart, Queued, ToBeRemoved
<1>2. dbKeys'[k] # "absent"
  BY DEF Restart, KnownAtStart
<1>3. \A r \in Readers : SnapshotCurrent(r, k)'
  BY DEF Restart, SnapshotCurrent, Idle
<1>4. QED
  BY <1>1, <1>2, <1>3 DEF Coherent, Visible, Settled, MemoryAgrees

LEMMA IdleCoherence ==
  ASSUME TypeOK, Coherence,
         WriteAnswered \/ (\E r \in Readers : AnswerFails(r)) \/ UNCHANGED vars
  PROVE  Coherence'
<1> SUFFICES ASSUME NEW k \in Keys, k \notin raced' PROVE Coherent(k)'
  BY DEF Coherence
<1>1. /\ Coherent(k)
      /\ UNCHANGED << disk, cache, dbKeys, valuesToFlush, lateRemoves, last >>
  BY DEF Coherence, WriteAnswered, AnswerFails, vars
<1>2. \A r \in Readers : k \notin reads'[r].keys \/ reads'[r] = reads[r]
  BY DEF WriteAnswered, AnswerFails, vars, Idle, TypeOK
<1>3. QED  BY <1>1, <1>2, Frame

LEMMA NextCoherence == TypeOK /\ Coherence /\ [Next]_vars => Coherence'
<1> SUFFICES ASSUME TypeOK, Coherence, [Next]_vars PROVE Coherence'
  OBVIOUS
<1>1. CASE Next
  BY <1>1, SetCoherence, RemoveCoherence, ReadStartCoherence, AnswerCoherence,
     FlushCoherence, FlushRemovesCoherence, ForgetCoherence, RestartCoherence,
     IdleCoherence DEF Next, Calls, Background
<1>2. CASE UNCHANGED vars
  BY <1>2, IdleCoherence
<1>3. QED  BY <1>1, <1>2

LEMMA InitCoherence == Init => Coherence
  BY FreshCoherence DEF Init

(* Every key that met none of the races stays coherent: the inductive     *)
(* invariant from which the two results below follow.                      *)
THEOREM CoherenceInvariant == Spec => []Coherence
<1>1. TypeOK /\ Coherence /\ [Next]_vars => Coherence'
  BY NextCoherence
<1>2. QED  BY <1>1, InitCoherence, TypeCorrect, PTL DEF Spec

(* A key that met none of the races reads as the program last left it. *)
THEOREM ReadsCurrent == Spec => []ReadsAreCurrent
<1>1. Coherence => ReadsAreCurrent
  BY DEF Coherence, Coherent, ReadsAreCurrent
<1>2. QED  BY <1>1, CoherenceInvariant, PTL

(* A key that met none of the races settles as the program last left it. *)
THEOREM WritesSettled == Spec => []WritesSettle
<1>1. Coherence => WritesSettle
  BY DEF Coherence, Coherent, WritesSettle
<1>2. QED  BY <1>1, CoherenceInvariant, PTL

-----------------------------------------------------------------------------
(* StorageUndo *)

(* What the undo has done so far for a key that nobody else touches.       *)
Reading(k) ==
  /\ disk[k] = undo.cur[k]
  /\ disk[k] = Absent => cache[k] = Nothing

Removing(k) ==
  /\ cache[k] \in {Nothing, disk[k]}
  /\ undo.old[k] = Absent => disk[k] = Absent

Restored(k) == disk[k] = undo.old[k]

Progress(k) ==
  /\ k \notin Queued /\ k \notin ToBeRemoved
  /\ undo.pc = "reading" => Reading(k)
  /\ undo.pc = "removing" => Removing(k)
  /\ undo.pc \in {"writing", "done"} => Restored(k)

(* The inductive invariant behind UndoRestores. *)
Proceeds == UnderWay => \A k \in Keys \ undo.touched : Progress(k)

-----------------------------------------------------------------------------
(* Types *)

LEMMA UndoWritesType ==
  ASSUME TypeOK, undo \in UndoType, NEW keys \in SUBSET Keys, NEW effect \in [Keys -> Content],
         NEW pc \in {"removing", "writing", "done"}, NEW hit \in SUBSET Keys,
         UndoWrites(keys, effect, pc, hit)
  PROVE  /\ disk' \in [Keys -> Content]
         /\ raced' \in SUBSET Keys
         /\ failures' \in Nat
         /\ undo' \in UndoType
<1>1. disk' \in [Keys -> Content] /\ raced' \in SUBSET Keys
  BY DEF UndoWrites, TypeOK
<1>2. failures' \in Nat
  BY DEF UndoWrites, TypeOK, CountFailure
<1>3. undo' \in UndoType
  <2>1. Empty \in [Keys -> Content]
    BY DEF Empty, Content
  <2>2. CASE undo' = [undo EXCEPT !.pc = pc, !.cur = Empty]
    BY <2>1, <2>2 DEF UndoType
  <2>3. CASE undo' = [NoUndo EXCEPT !.pc = "broken"]
    BY <2>1, <2>3 DEF UndoType, NoUndo
  <2> QED
    BY <2>2, <2>3 DEF UndoWrites
<1> QED
  BY <1>1, <1>2, <1>3

LEMMA WriteOldType ==
  ASSUME TypeOK, undo \in UndoType, NEW held \in [Keys -> Vals \cup {Nothing}],
         NEW known \in [Keys -> Existence], NEW hit \in SUBSET Keys,
         WriteOld(held, known, hit)
  PROVE  TypeOK' /\ undo' \in UndoType
<1> DEFINE changed == {k \in Keys : undo.old[k] # Absent /\ held[k] # undo.old[k]}
           effect == Overlay(disk, [k \in changed |-> undo.old[k]])
           hits == hit \cup (changed \cap (Queued \cup ToBeRemoved))
           pc == IF changed = {} THEN "done" ELSE "writing"
<1>1. changed \in SUBSET Keys /\ undo.old \in [Keys -> Content]
  BY DEF UndoType
<1>2. \A k \in changed : undo.old[k] \in Vals
  BY <1>1 DEF Content
<1>3. cache' \in [Keys -> Vals \cup {Nothing}]
  <2> HIDE DEF changed
  <2> QED
    BY <1>1, <1>2 DEF WriteOld, Overlay, changed
<1>4. dbKeys' \in [Keys -> Existence]
  BY DEF WriteOld, Assign, Existence
<1>5. last' \in [Keys -> Content]
  BY <1>1 DEF WriteOld, TypeOK
<1>6. reads' \in [Readers -> Read]
  BY OvertakeType DEF WriteOld
<1>7. /\ disk' \in [Keys -> Content] /\ raced' \in SUBSET Keys
      /\ failures' \in Nat /\ undo' \in UndoType
  <2>1. effect \in [Keys -> Content]
    <3> HIDE DEF changed
    <3> QED
      BY <1>1, <1>2 DEF Overlay, TypeOK, Content
  <2>2. hits \in SUBSET Keys /\ pc \in {"removing", "writing", "done"}
    BY <1>1
  <2>3. UndoWrites(changed, effect, pc, hits)
    BY DEF WriteOld
  <2>4. changed \in SUBSET Keys
    BY <1>1
  <2> HIDE DEF changed, effect, hits, pc
  <2>5. undo' \in UndoType
    BY <2>1, <2>2, <2>3, <2>4, UndoWritesType
  <2> QED
    BY <2>1, <2>2, <2>3, <2>4, <2>5, UndoWritesType
<1> QED
  BY <1>3, <1>4, <1>5, <1>6, <1>7 DEF WriteOld, TypeOK

LEMMA SetUndoingType ==
  ASSUME TypeOK, NEW data \in Data, SetUndoing(data)
  PROVE  TypeOK'
<1> DEFINE changed == {k \in DOMAIN data : cache[k] # data[k]}
           effect == Overlay(disk, [k \in changed |-> data[k]])
<1>1. PICK S \in SUBSET Keys : data \in [S -> Vals]
  BY BatchesAssumption DEF Data
<1>2. changed \in SUBSET S /\ changed \in SUBSET Keys
  BY <1>1
<1>3. cache' \in [Keys -> Vals \cup {Nothing}]
  BY <1>1, <1>2 DEF SetUndoing, Overlay, TypeOK
<1>4. dbKeys' \in [Keys -> Existence]
  BY DEF SetUndoing, Assign, TypeOK, Existence
<1>5. last' \in [Keys -> Content]
  BY <1>1 DEF SetUndoing, Overlay, TypeOK, Content
<1>6. reads' \in [Readers -> Read]
  BY OvertakeType DEF SetUndoing
<1>7. effect \in [Keys -> Content]
  BY <1>1, <1>2 DEF Overlay, TypeOK, Content
<1>8. /\ disk' \in [Keys -> Content] /\ flushTimer' \in BOOLEAN /\ awaiting' \in Nat
      /\ raced' \in SUBSET Keys /\ stranded' \in BOOLEAN /\ failures' \in Nat
  <2>1. Finish(changed, effect, changed \cap (Queued \cup ToBeRemoved))
    BY DEF SetUndoing
  <2> HIDE DEF changed, effect
  <2>2. changed \cap (Queued \cup ToBeRemoved) \in SUBSET Keys
    BY <1>2
  <2> QED
    BY <1>2, <1>7, <2>1, <2>2, FinishType
<1>9. valuesToFlush' = valuesToFlush /\ lateRemoves' = lateRemoves /\ writes' \in Nat
  BY DEF SetUndoing, TypeOK, CountWrite
<1> QED
  BY <1>3, <1>4, <1>5, <1>6, <1>8, <1>9 DEF TypeOK

LEMMA RemoveUndoingType ==
  ASSUME TypeOK, NEW keys \in Batches, RemoveUndoing(keys)
  PROVE  TypeOK'
<1> DEFINE known == {k \in keys : dbKeys[k] # "absent"}
<1>1. keys \in SUBSET Keys /\ known \in SUBSET Keys
  BY BatchesAssumption
<1>2. cache' \in [Keys -> Vals \cup {Nothing}]
  BY DEF RemoveUndoing, Assign, TypeOK
<1>3. dbKeys' \in [Keys -> Existence]
  BY DEF RemoveUndoing, Assign, TypeOK, Existence
<1>4. last' \in [Keys -> Content]
  BY DEF RemoveUndoing, Assign, TypeOK, Content
<1>5. reads' \in [Readers -> Read]
  BY OvertakeType DEF RemoveUndoing
<1>6. Assign(disk, known, Absent) \in [Keys -> Content]
  BY DEF Assign, TypeOK, Content
<1>7. /\ disk' \in [Keys -> Content] /\ flushTimer' \in BOOLEAN /\ awaiting' \in Nat
      /\ raced' \in SUBSET Keys /\ stranded' \in BOOLEAN /\ failures' \in Nat
  <2>1. Finish(known, Assign(disk, known, Absent), known \cap Queued)
    BY DEF RemoveUndoing
  <2> HIDE DEF known
  <2>2. known \cap Queued \in SUBSET Keys
    BY <1>1
  <2> QED
    BY <1>1, <1>6, <2>1, <2>2, FinishType
<1>8. valuesToFlush' = valuesToFlush /\ lateRemoves' = lateRemoves /\ writes' \in Nat
  BY DEF RemoveUndoing, TypeOK, CountWrite
<1> QED
  BY <1>2, <1>3, <1>4, <1>5, <1>7, <1>8 DEF TypeOK

LEMMA UndoAnswerType ==
  ASSUME UndoTypeOK, UndoAnswer
  PROVE  UndoTypeOK'
<1> DEFINE found == {k \in Keys : undo.cur[k] # Absent}
           new   == {k \in found : undo.old[k] = Absent}
           held  == Overlay(cache, [k \in found |-> undo.cur[k]])
           known == Assign(dbKeys, found, "present")
           hit   == found \cap undo.touched
           effect == Assign(disk, new, Absent)
<1>1. /\ TypeOK /\ undo \in UndoType /\ undo.cur \in [Keys -> Content]
      /\ found \in SUBSET Keys /\ new \in SUBSET Keys /\ hit \in SUBSET Keys
  BY DEF UndoTypeOK, UndoType
<1>2. held \in [Keys -> Vals \cup {Nothing}]
  BY <1>1 DEF Overlay, TypeOK, Content
<1>3. known \in [Keys -> Existence]
  BY <1>1 DEF Assign, TypeOK, Existence
<1>4. CASE WriteOld(held, known, hit)
  <2> HIDE DEF held, known, hit
  <2> QED
    BY <1>1, <1>2, <1>3, <1>4, WriteOldType DEF UndoTypeOK
<1>5. CASE /\ cache' = Assign(held, new, Nothing)
           /\ dbKeys' = Assign(known, new, "absent")
           /\ last' = Assign(last, new, Absent)
           /\ Overtake(new)
           /\ UndoWrites(new, effect, "removing", hit)
           /\ UNCHANGED << valuesToFlush, flushTimer, awaiting, lateRemoves, stranded,
                           writes >>
  <2> HIDE DEF found, new, held, known, hit
  <2>1. cache' \in [Keys -> Vals \cup {Nothing}] /\ dbKeys' \in [Keys -> Existence]
    BY <1>2, <1>3, <1>5 DEF Assign, Existence
  <2>2. last' \in [Keys -> Content] /\ effect \in [Keys -> Content]
    BY <1>1, <1>5 DEF Assign, TypeOK, Content
  <2>3. reads' \in [Readers -> Read]
    BY <1>1, <1>5, OvertakeType
  <2>4. /\ disk' \in [Keys -> Content] /\ raced' \in SUBSET Keys
        /\ failures' \in Nat /\ undo' \in UndoType
    <3> HIDE DEF effect
    <3> QED
      BY <1>1, <1>5, <2>2, UndoWritesType
  <2> QED
    BY <1>1, <1>5, <2>1, <2>2, <2>3, <2>4 DEF UndoTypeOK, TypeOK
<1> QED
  BY <1>4, <1>5 DEF UndoAnswer

LEMMA MeddleType ==
  ASSUME undo \in UndoType, Meddle
  PROVE  undo' \in UndoType
<1>1. Touched \in SUBSET Keys
  BY DEF Touched
<1> QED
  BY <1>1 DEF Meddle, UndoType

LEMMA AskedType ==
  ASSUME TypeOK, Asked
  PROVE  TypeOK'
<1>1. CASE Calls
  BY <1>1, NextType DEF Next
<1>2. CASE AnsweredUndoing
  <2>1. awaiting' \in Nat
    BY <1>2 DEF AnsweredUndoing, TypeOK
  <2> QED
    BY <1>2, <2>1 DEF AnsweredUndoing, TypeOK
<1> QED
  BY <1>1, <1>2, SetUndoingType, RemoveUndoingType DEF Asked

LEMMA UndoInitType == UndoInit => UndoTypeOK
<1> SUFFICES ASSUME UndoInit PROVE UndoTypeOK
  OBVIOUS
<1>1. undo \in UndoType
  BY DEF UndoInit, UndoType, NoUndo, Empty, Content
<1> QED
  BY <1>1, InitType DEF UndoInit, UndoTypeOK

LEMMA UndoNextType == UndoTypeOK /\ [UndoNext]_allVars => UndoTypeOK'
<1> SUFFICES ASSUME UndoTypeOK, [UndoNext]_allVars PROVE UndoTypeOK'
  OBVIOUS
<1>1. TypeOK /\ undo \in UndoType /\ NoUndo \in UndoType
  BY DEF UndoTypeOK, UndoType, NoUndo, Empty, Content
<1>2. CASE (Asked \/ Background) /\ Meddle
  <2>1. TypeOK'
    BY <1>1, <1>2, AskedType, NextType DEF Next
  <2> QED
    BY <1>1, <1>2, <2>1, MeddleType DEF UndoTypeOK
<1>3. CASE Restart /\ undo' = NoUndo
  BY <1>1, <1>3, ForgetType DEF UndoTypeOK
<1>4. CASE Keep \/ Drop \/ UndoReadFails \/ UndoWritten
  <2>1. UNCHANGED vars
    BY <1>4 DEF Keep, Drop, UndoReadFails, UndoWritten
  <2>2. TypeOK'
    BY <1>1, <2>1, NextType
  <2>3. undo' \in UndoType
    BY <1>1, <1>4 DEF Keep, Drop, UndoReadFails, UndoWritten, UndoType, TypeOK
  <2> QED
    BY <2>2, <2>3 DEF UndoTypeOK
<1>5. CASE Undo
  <2>1. valuesToFlush' \in [ValueKeys -> Content \cup {Nothing}] /\ raced' \in SUBSET Keys
    BY <1>1, <1>5, QueuedType DEF Undo, TypeOK
  <2>2. TypeOK'
    BY <1>1, <1>5, <2>1 DEF Undo, TypeOK
  <2>3. undo' \in UndoType
    <3>1. ToBeRemoved \in SUBSET Keys
      BY <1>1, QueuedType DEF Keys
    <3> QED
      BY <1>1, <1>5, <3>1 DEF Undo, UndoType, TypeOK
  <2> QED
    BY <2>2, <2>3 DEF UndoTypeOK
<1>6. CASE UndoRemoved
  <2>1. cache \in [Keys -> Vals \cup {Nothing}] /\ dbKeys \in [Keys -> Existence]
    BY <1>1 DEF TypeOK
  <2> QED
    BY <1>1, <1>6, <2>1, WriteOldType DEF UndoRemoved, UndoTypeOK
<1>7. CASE UNCHANGED allVars
  <2>1. UNCHANGED vars /\ undo' = undo
    BY <1>7 DEF allVars
  <2> QED
    BY <1>1, <2>1, NextType DEF UndoTypeOK
<1> QED
  BY <1>2, <1>3, <1>4, <1>5, <1>6, <1>7, UndoAnswerType DEF UndoNext

(* Every variable has its type, with an undo as well. *)
THEOREM UndoTypeCorrect == UndoSpec => []UndoTypeOK
  BY UndoInitType, UndoNextType, PTL DEF UndoSpec

-----------------------------------------------------------------------------
(* A queued value has a flush to come also around an undo, unless a call   *)
(* that was rejected, or answered while `undoing` was set, skipped it.     *)
THEOREM UndoFlushScheduled == UndoSpec => []FlushIsScheduled
<1>1. UndoInit => FlushIsScheduled
  BY DEF UndoInit, Init, FlushIsScheduled, Queued
<1>2. UndoTypeOK /\ FlushIsScheduled /\ [UndoNext]_allVars => FlushIsScheduled'
  <2> SUFFICES ASSUME TypeOK, FlushIsScheduled, [UndoNext]_allVars PROVE FlushIsScheduled'
    BY DEF UndoTypeOK
  <2>1. CASE Calls \/ Background \/ Restart
    BY <2>1, ScheduledNext DEF Next
  <2>2. ASSUME NEW data \in Data, SetUndoing(data) PROVE FlushIsScheduled'
    BY <2>2, FinishSchedules DEF SetUndoing
  <2>3. ASSUME NEW keys \in Batches, RemoveUndoing(keys) PROVE FlushIsScheduled'
    BY <2>3, FinishSchedules DEF RemoveUndoing
  <2>4. CASE AnsweredUndoing
    BY <2>4 DEF AnsweredUndoing, FlushIsScheduled
  <2>5. CASE Undo
    BY <2>5 DEF Undo, FlushIsScheduled, Queued
  <2>6. CASE UndoAnswer \/ UndoRemoved
    BY <2>6 DEF UndoAnswer, UndoRemoved, WriteOld, FlushIsScheduled, Queued
  <2>7. CASE Keep \/ Drop \/ UndoReadFails \/ UndoWritten \/ UNCHANGED allVars
    BY <2>7 DEF Keep, Drop, UndoReadFails, UndoWritten, allVars, vars, FlushIsScheduled, Queued
  <2> QED
    BY <2>1, <2>2, <2>3, <2>4, <2>5, <2>6, <2>7 DEF UndoNext, Asked
<1> QED
  BY <1>1, <1>2, UndoTypeCorrect, PTL DEF UndoSpec

-----------------------------------------------------------------------------
(* Only a flush decides to remove a key later, and only one that is queued. *)
LEMMA OnlyQueuedIsRemoved ==
  ASSUME TypeOK, Asked \/ Background, NEW k \in Keys, k \notin Queued, k \notin ToBeRemoved
  PROVE  k \notin ToBeRemoved'
<1>1. CASE \E f \in Flushes : Flush(f)
  <2>1. PICK f \in Flushes : Flush(f)
    BY <1>1
  <2>2. lateRemoves' = lateRemoves
        \/ \E toFlush, now : lateRemoves' = [lateRemoves EXCEPT ![f] = (Queued \ toFlush) \ now]
    BY <2>1 DEF Flush
  <2> QED
    BY <2>1, <2>2 DEF ToBeRemoved, TypeOK
<1>2. CASE \E f \in Flushes : FlushRemoves(f)
  BY <1>2 DEF FlushRemoves, ToBeRemoved, TypeOK
<1>3. CASE UNCHANGED lateRemoves
  BY <1>3 DEF ToBeRemoved
<1>4. ASSUME Asked PROVE UNCHANGED lateRemoves
  BY <1>4 DEF Asked, Calls, Set, Remove, WriteAnswered, SetUndoing, RemoveUndoing,
              AnsweredUndoing
<1>5. ASSUME (\E r \in Readers, keys \in Batches : Get(r, keys))
             \/ (\E r \in Readers : GetWhole(r) \/ Answer(r) \/ AnswerFails(r))
             \/ (\E x \in Keys : Expire(x)) \/ Sweep \/ Clear
      PROVE  UNCHANGED lateRemoves
  BY <1>5 DEF Get, GetWhole, Answer, AnswerFails, Expire, Sweep, Clear
<1> QED
  BY <1>1, <1>2, <1>3, <1>4, <1>5 DEF Background

(* What others do leaves the progress of an untouched key alone. *)
LEMMA MeddleProceeds ==
  ASSUME UndoTypeOK, Proceeds, Asked \/ Background, Meddle
  PROVE  Proceeds'
<1> SUFFICES ASSUME UnderWay', NEW k \in Keys, k \notin undo'.touched PROVE Progress(k)'
  BY DEF Proceeds
<1>1. UnderWay /\ undo' = [undo EXCEPT !.touched = @ \cup Touched]
  BY DEF Meddle, UnderWay
<1>2. /\ undo'.pc = undo.pc /\ undo'.old = undo.old /\ undo'.cur = undo.cur
      /\ k \notin undo.touched /\ k \notin Touched
  BY <1>1 DEF UndoTypeOK, UndoType
<1>3. Progress(k)
  BY <1>1, <1>2 DEF Proceeds
<1>4. /\ disk'[k] = disk[k] /\ cache'[k] \in {cache[k], disk[k], Nothing}
      /\ k \in ValueKeys => valuesToFlush'[k] = Nothing
  BY <1>2 DEF Touched
<1>5. k \notin Queued' /\ k \notin ToBeRemoved'
  <2>1. k \notin Queued'
    BY <1>4 DEF Queued
  <2>2. k \notin ToBeRemoved'
    BY <1>3, OnlyQueuedIsRemoved DEF Progress, UndoTypeOK
  <2> QED
    BY <2>1, <2>2
<1>6. ASSUME undo.pc = "reading" PROVE Reading(k)'
  <2>1. Reading(k) /\ TypeOK' /\ TypeOK
    BY <1>3, <1>6, AskedType, NextType DEF Progress, UndoTypeOK, Next
  <2>2. ASSUME disk'[k] = Absent PROVE cache'[k] = Nothing
    <3>1. cache[k] = Nothing /\ cache'[k] \in Vals \cup {Nothing}
      BY <1>4, <2>1, <2>2 DEF Reading, TypeOK
    <3> QED
      BY <1>4, <2>2, <3>1, ValsAssumption
  <2> QED
    BY <1>2, <1>4, <2>1, <2>2 DEF Reading
<1>7. ASSUME undo.pc = "removing" PROVE Removing(k)'
  BY <1>2, <1>3, <1>4, <1>7 DEF Progress, Removing
<1>8. ASSUME undo.pc \in {"writing", "done"} PROVE Restored(k)'
  BY <1>2, <1>3, <1>4, <1>8 DEF Progress, Restored
<1> QED
  BY <1>2, <1>5, <1>6, <1>7, <1>8 DEF Progress

(* What set(old) leaves of a key: the old content, if the cache held that  *)
(* of the area or nothing.                                                 *)
LEMMA WriteOldRestores ==
  ASSUME UndoTypeOK, NEW held \in [Keys -> Vals \cup {Nothing}],
         NEW known \in [Keys -> Existence], NEW hit \in SUBSET Keys,
         WriteOld(held, known, hit), undo'.pc # "broken",
         NEW k \in Keys, held[k] \in {Nothing, disk[k]}, undo.old[k] = Absent => disk[k] = Absent
  PROVE  disk'[k] = undo.old[k]
<1> DEFINE changed == {x \in Keys : undo.old[x] # Absent /\ held[x] # undo.old[x]}
<1>1. disk' = Overlay(disk, [x \in changed |-> undo.old[x]])
  BY DEF WriteOld, UndoWrites, UndoTypeOK, UndoType, NoUndo
<1>2. undo.old[k] \in Content /\ disk \in [Keys -> Content]
  BY DEF UndoTypeOK, UndoType, TypeOK
<1>3. CASE k \in changed
  BY <1>1, <1>2, <1>3 DEF Overlay
<1>4. CASE k \notin changed
  <2>1. disk'[k] = disk[k]
    BY <1>1, <1>2, <1>4 DEF Overlay
  <2>2. CASE undo.old[k] = Absent
    BY <2>1, <2>2
  <2>3. CASE undo.old[k] # Absent
    <3>1. held[k] = undo.old[k] /\ held[k] # Nothing
      BY <1>2, <1>4, <2>3, ValsAssumption DEF Content
    <3> QED
      BY <2>1, <3>1
  <2> QED
    BY <2>2, <2>3
<1> QED
  BY <1>3, <1>4

(* The undo's own writes neither queue a key nor let a flush remove it. *)
LEMMA WriteOldProceeds ==
  ASSUME UndoTypeOK, NEW held \in [Keys -> Vals \cup {Nothing}],
         NEW known \in [Keys -> Existence], NEW hit \in SUBSET Keys,
         WriteOld(held, known, hit),
         \A k \in Keys \ undo.touched : /\ k \notin Queued /\ k \notin ToBeRemoved
                                        /\ held[k] \in {Nothing, disk[k]}
                                        /\ undo.old[k] = Absent => disk[k] = Absent
  PROVE  Proceeds'
<1> SUFFICES ASSUME UnderWay', NEW k \in Keys, k \notin undo'.touched PROVE Progress(k)'
  BY DEF Proceeds
<1>1. /\ undo'.pc \in {"writing", "done"} /\ undo'.old = undo.old
      /\ undo'.touched = undo.touched
  BY DEF WriteOld, UndoWrites, UndoTypeOK, UndoType, UnderWay, NoUndo
<1>2. disk'[k] = undo.old[k]
  BY <1>1, WriteOldRestores
<1>3. UNCHANGED << valuesToFlush, lateRemoves >>
  BY DEF WriteOld
<1>4. k \notin Queued' /\ k \notin ToBeRemoved'
  BY <1>1, <1>3 DEF Queued, ToBeRemoved
<1> QED
  BY <1>1, <1>2, <1>4 DEF Progress, Restored

LEMMA AnswerProceeds ==
  ASSUME UndoTypeOK, Proceeds, UndoAnswer
  PROVE  Proceeds'
<1> DEFINE found == {k \in Keys : undo.cur[k] # Absent}
           new   == {k \in found : undo.old[k] = Absent}
           held  == Overlay(cache, [k \in found |-> undo.cur[k]])
           known == Assign(dbKeys, found, "present")
           hit   == found \cap undo.touched
<1>1. /\ TypeOK /\ undo.cur \in [Keys -> Content]
      /\ undo.pc = "reading" /\ UnderWay
  BY DEF UndoTypeOK, UndoType, UndoAnswer, UnderWay
<1>2. held \in [Keys -> Vals \cup {Nothing}] /\ known \in [Keys -> Existence] /\ hit \in SUBSET Keys
  BY <1>1 DEF Overlay, Assign, TypeOK, Content, Existence
<1>3. ASSUME NEW k \in Keys \ undo.touched
      PROVE  /\ k \notin Queued /\ k \notin ToBeRemoved
             /\ disk[k] = undo.cur[k]
             /\ held[k] \in {Nothing, disk[k]}
  <2>1. Progress(k) /\ Reading(k)
    BY <1>1, <1>3 DEF Proceeds, Progress
  <2>2. held[k] = IF k \in found THEN undo.cur[k] ELSE cache[k]
    BY <1>1, <1>3 DEF Overlay, TypeOK
  <2> QED
    BY <2>1, <2>2 DEF Progress, Reading
<1>4. CASE new = {} /\ WriteOld(held, known, hit)
  <2>1. \A k \in Keys \ undo.touched : undo.old[k] = Absent => disk[k] = Absent
    BY <1>3, <1>4
  <2> HIDE DEF held, known, hit, found, new
  <2> QED
    BY <1>2, <1>3, <1>4, <2>1, WriteOldProceeds
<1>5. CASE /\ cache' = Assign(held, new, Nothing)
           /\ UndoWrites(new, Assign(disk, new, Absent), "removing", hit)
           /\ UNCHANGED << valuesToFlush, lateRemoves >>
  <2> SUFFICES ASSUME UnderWay', NEW k \in Keys, k \notin undo'.touched PROVE Progress(k)'
    BY DEF Proceeds
  <2>1. /\ undo'.pc = "removing" /\ undo'.old = undo.old /\ undo'.touched = undo.touched
        /\ disk' = Assign(disk, new, Absent)
    BY <1>5 DEF UndoWrites, UndoTypeOK, UndoType, UnderWay, NoUndo
  <2>2. k \notin Queued' /\ k \notin ToBeRemoved'
    BY <1>3, <1>5, <2>1 DEF Queued, ToBeRemoved
  <2>3. /\ disk'[k] = IF k \in new THEN Absent ELSE disk[k]
        /\ cache'[k] = IF k \in new THEN Nothing ELSE held[k]
    BY <1>1, <1>2, <1>5, <2>1 DEF Assign, TypeOK
  <2>4. Removing(k)'
    BY <1>3, <2>1, <2>3 DEF Removing
  <2> QED
    BY <2>1, <2>2, <2>4 DEF Progress
<1> QED
  BY <1>4, <1>5 DEF UndoAnswer

LEMMA UndoProceeds ==
  ASSUME UndoTypeOK, Proceeds, Undo
  PROVE  Proceeds'
<1> SUFFICES ASSUME NEW k \in Keys, k \notin undo'.touched PROVE Progress(k)'
  BY DEF Proceeds
<1>1. /\ undo'.pc = "reading" /\ undo'.cur = disk
      /\ k \notin ToBeRemoved
      /\ disk[k] = Absent => cache[k] = Nothing
      /\ UNCHANGED << disk, cache, lateRemoves >>
  BY DEF Undo, UndoTypeOK, UndoType
<1>2. k \notin Queued' /\ k \notin ToBeRemoved'
  BY <1>1 DEF Undo, Queued, ToBeRemoved
<1> QED
  BY <1>1, <1>2 DEF Progress, Reading

LEMMA ProceedsNext == UndoTypeOK /\ Proceeds /\ [UndoNext]_allVars => Proceeds'
<1> SUFFICES ASSUME UndoTypeOK, Proceeds, [UndoNext]_allVars PROVE Proceeds'
  OBVIOUS
<1>1. CASE Restart /\ undo' = NoUndo
  BY <1>1 DEF NoUndo, Proceeds, UnderWay
<1>2. CASE Keep \/ Drop \/ UndoReadFails
  <2>1. ASSUME Keep PROVE undo'.pc = "kept"
    BY <2>1 DEF Keep, NoUndo
  <2>2. ASSUME Drop \/ UndoReadFails PROVE undo'.pc = "off"
    BY <2>2 DEF Drop, UndoReadFails, NoUndo
  <2> QED
    BY <1>2, <2>1, <2>2 DEF Proceeds, UnderWay
<1>3. CASE UndoRemoved
  <2>1. undo.pc = "removing" /\ UnderWay /\ WriteOld(cache, dbKeys, {})
    BY <1>3 DEF UndoRemoved, UnderWay
  <2>2. cache \in [Keys -> Vals \cup {Nothing}] /\ dbKeys \in [Keys -> Existence]
    BY DEF UndoTypeOK, TypeOK
  <2> QED
    BY <2>1, <2>2, WriteOldProceeds DEF Proceeds, Progress, Removing
<1>4. CASE UndoWritten
  <2>1. /\ UNCHANGED vars /\ undo.pc = "writing" /\ undo'.pc = "done"
        /\ undo'.old = undo.old /\ undo'.touched = undo.touched
    BY <1>4 DEF UndoWritten, UndoTypeOK, UndoType
  <2> QED
    BY <2>1 DEF Proceeds, UnderWay, Progress, Restored, Queued, ToBeRemoved, vars
<1>5. CASE UNCHANGED allVars
  BY <1>5 DEF allVars, vars, Proceeds, UnderWay, Progress, Reading, Removing, Restored,
              Queued, ToBeRemoved
<1> QED
  BY <1>1, <1>2, <1>3, <1>4, <1>5, MeddleProceeds, AnswerProceeds, UndoProceeds DEF UndoNext

(* When an undo is done, the area holds again what it held as the import   *)
(* began, but for keys that others touched during the undo.                *)
THEOREM UndoRestored == UndoSpec => []UndoRestores
<1>1. UndoInit => Proceeds
  BY DEF UndoInit, NoUndo, Proceeds, UnderWay
<1>2. Proceeds => UndoRestores
  BY DEF Proceeds, UnderWay, Progress, Restored, UndoRestores
<1> QED
  BY <1>1, <1>2, ProceedsNext, UndoTypeCorrect, PTL DEF UndoSpec

-----------------------------------------------------------------------------
(* Coherent(k) with c cached for k and d known of it. *)
CoherentWith(c, d, k) ==
  /\ (IF c # Nothing THEN c ELSE IF d = "absent" THEN Absent ELSE disk[k]) = last[k]
  /\ Settled(k) = last[k]
  /\ k \in Queued => IF valuesToFlush[k] = Absent THEN d = "absent" ELSE c = valuesToFlush[k]
  /\ k \in ToBeRemoved /\ k \notin Queued => d = "absent"
  /\ d = "absent" => c = Nothing
  /\ \A r \in Readers : SnapshotCurrent(r, k)

LEMMA CoherentIs ==
  ASSUME NEW k \in Keys
  PROVE  Coherent(k) <=> CoherentWith(cache[k], dbKeys[k], k)
  BY DEF Coherent, CoherentWith, Visible, MemoryAgrees

(* A step that only changes what is cached and known of k, and requests    *)
(* that overtake reads.                                                    *)
LEMMA FrameWith ==
  ASSUME TypeOK, NEW k \in Keys, NEW c, NEW d, NEW S, CoherentWith(c, d, k),
         cache'[k] = c, dbKeys'[k] = d, disk'[k] = disk[k], last'[k] = last[k],
         UNCHANGED << valuesToFlush, lateRemoves >>, Overtake(S)
  PROVE  Coherent(k)'
<1>1. (k \in Queued' <=> k \in Queued) /\ (k \in ToBeRemoved' <=> k \in ToBeRemoved)
  BY DEF Queued, ToBeRemoved
<1>2. Visible(k)' = last'[k] /\ Settled(k)' = last'[k] /\ MemoryAgrees(k)'
  BY <1>1 DEF CoherentWith, Visible, Settled, MemoryAgrees
<1>3. \A r \in Readers : SnapshotCurrent(r, k)'
  BY <1>1, OvertakeEffect DEF CoherentWith, SnapshotCurrent
<1> QED
  BY <1>2, <1>3 DEF Coherent

(* A key written or removed at once, of which nothing is under way. *)
LEMMA WrittenAtOnce ==
  ASSUME TypeOK, NEW k \in Keys, NEW S, k \in S, Overtake(S),
         k \notin Queued, k \notin ToBeRemoved,
         UNCHANGED << valuesToFlush, lateRemoves >>, disk'[k] = last'[k],
         \/ cache'[k] = last'[k] /\ last'[k] # Nothing /\ dbKeys'[k] = "present"
         \/ cache'[k] = Nothing /\ last'[k] = Absent /\ dbKeys'[k] = "absent"
  PROVE  Coherent(k)'
<1>1. k \notin Queued' /\ k \notin ToBeRemoved'
  BY DEF Queued, ToBeRemoved
<1>2. Visible(k)' = last'[k] /\ Settled(k)' = last'[k] /\ MemoryAgrees(k)'
  BY <1>1 DEF Visible, Settled, MemoryAgrees
<1>3. \A r \in Readers : SnapshotCurrent(r, k)'
  BY OvertakeEffect DEF SnapshotCurrent
<1> QED
  BY <1>2, <1>3 DEF Coherent

LEMMA SetUndoingCoherence ==
  ASSUME TypeOK, Coherence, NEW data \in Data, SetUndoing(data)
  PROVE  Coherence'
<1> DEFINE changed == {k \in DOMAIN data : cache[k] # data[k]}
           effect  == Overlay(disk, [k \in changed |-> data[k]])
           hit     == changed \cap (Queued \cup ToBeRemoved)
<1>1. PICK S \in SUBSET Keys : data \in [S -> Vals]
  BY BatchesAssumption DEF Data
<1>2. changed \in SUBSET S /\ changed \in SUBSET Keys
  BY <1>1
<1>3. /\ raced \cup hit \subseteq raced'
      /\ \/ disk' = effect
         \/ disk' = disk /\ changed = {}
         \/ disk' = disk /\ changed \subseteq raced'
  <2>1. Finish(changed, effect, hit)
    BY DEF SetUndoing
  <2> HIDE DEF changed, effect, hit
  <2> QED
    BY <1>2, <2>1, FinishEffect
<1>4. Overtake(changed) /\ UNCHANGED << valuesToFlush, lateRemoves >>
  BY DEF SetUndoing
<1> SUFFICES ASSUME NEW k \in Keys, k \notin raced' PROVE Coherent(k)'
  BY DEF Coherence
<1>5. Coherent(k)
  BY <1>3 DEF Coherence
<1>6. CASE k \in changed
  <2>1. cache'[k] = data[k] /\ dbKeys'[k] = "present" /\ last'[k] = data[k] /\ data[k] \in Vals
    BY <1>1, <1>2, <1>6 DEF SetUndoing, Overlay, Assign, TypeOK
  <2>2. disk'[k] = data[k]
    BY <1>1, <1>2, <1>3, <1>6 DEF Overlay, TypeOK
  <2>3. k \notin Queued /\ k \notin ToBeRemoved
    BY <1>3, <1>6
  <2> HIDE DEF changed
  <2> QED
    BY <1>4, <1>6, <2>1, <2>2, <2>3, WrittenAtOnce, ValsAssumption
<1>7. CASE k \notin changed
  <2>1. cache'[k] = cache[k] /\ dbKeys'[k] = dbKeys[k]
    BY <1>1, <1>7 DEF SetUndoing, Overlay, Assign, TypeOK
  <2>2. last'[k] = last[k]
    <3>1. CASE k \in DOMAIN data
      <4>1. cache[k] = data[k] /\ data[k] \in Vals
        BY <1>1, <1>7, <3>1
      <4>2. last[k] = data[k]
        BY <1>5, <4>1, ValsAssumption DEF Coherent, Visible
      <4> QED
        BY <3>1, <4>2 DEF SetUndoing, Overlay, TypeOK
    <3>2. CASE k \notin DOMAIN data
      BY <3>2 DEF SetUndoing, Overlay, TypeOK
    <3> QED
      BY <3>1, <3>2
  <2>3. disk'[k] = disk[k]
    BY <1>3, <1>7 DEF Overlay, TypeOK
  <2> HIDE DEF changed
  <2> QED
    BY <1>4, <1>5, <2>1, <2>2, <2>3, CoherentIs, FrameWith
<1> QED
  BY <1>6, <1>7

LEMMA RemoveUndoingCoherence ==
  ASSUME TypeOK, Coherence, NEW keys \in Batches, RemoveUndoing(keys)
  PROVE  Coherence'
<1> DEFINE known  == {k \in keys : dbKeys[k] # "absent"}
           effect == Assign(disk, known, Absent)
           hit    == known \cap Queued
<1>1. keys \in SUBSET Keys /\ known \in SUBSET Keys
  BY BatchesAssumption
<1>2. /\ raced \cup hit \subseteq raced'
      /\ \/ disk' = effect
         \/ disk' = disk /\ known = {}
         \/ disk' = disk /\ known \subseteq raced'
  <2>1. Finish(known, effect, hit)
    BY DEF RemoveUndoing
  <2> HIDE DEF known, effect, hit
  <2> QED
    BY <1>1, <2>1, FinishEffect
<1>3. Overtake(known) /\ UNCHANGED << valuesToFlush, lateRemoves >>
  BY DEF RemoveUndoing
<1> SUFFICES ASSUME NEW k \in Keys, k \notin raced' PROVE Coherent(k)'
  BY DEF Coherence
<1>4. Coherent(k)
  BY <1>2 DEF Coherence
<1>5. CASE k \in known
  <2>1. cache'[k] = Nothing /\ dbKeys'[k] = "absent" /\ last'[k] = Absent
    BY <1>5 DEF RemoveUndoing, Assign, TypeOK
  <2>2. disk'[k] = Absent
    BY <1>1, <1>2, <1>5 DEF Assign, TypeOK
  <2>3. k \notin Queued /\ k \notin ToBeRemoved
    BY <1>2, <1>4, <1>5 DEF Coherent, MemoryAgrees
  <2> HIDE DEF known
  <2> QED
    BY <1>3, <1>5, <2>1, <2>2, <2>3, WrittenAtOnce
<1>6. CASE k \notin known
  <2>1. cache'[k] = cache[k] /\ dbKeys'[k] = dbKeys[k]
    BY <1>6 DEF RemoveUndoing, Assign, TypeOK
  <2>2. last'[k] = last[k]
    <3>1. CASE k \in keys
      <4>1. dbKeys[k] = "absent"
        BY <1>6, <3>1
      <4>2. last[k] = Absent
        BY <1>4, <4>1 DEF Coherent, Visible, MemoryAgrees
      <4> QED
        BY <3>1, <4>2 DEF RemoveUndoing, Assign, TypeOK
    <3>2. CASE k \notin keys
      BY <3>2 DEF RemoveUndoing, Assign, TypeOK
    <3> QED
      BY <3>1, <3>2
  <2>3. disk'[k] = disk[k]
    BY <1>2, <1>6 DEF Assign, TypeOK
  <2> HIDE DEF known
  <2> QED
    BY <1>3, <1>4, <2>1, <2>2, <2>3, CoherentIs, FrameWith
<1> QED
  BY <1>5, <1>6

(* What a write of the undo does to raced and to the area. *)
LEMMA UndoWritesEffect ==
  ASSUME NEW keys, NEW effect, NEW pc, NEW hit, UndoWrites(keys, effect, pc, hit)
  PROVE  /\ raced \cup hit \subseteq raced'
         /\ disk' = effect \/ (disk' = disk /\ keys \subseteq raced')
  BY DEF UndoWrites

LEMMA WriteOldCoherence ==
  ASSUME UndoTypeOK, NEW held \in [Keys -> Vals \cup {Nothing}],
         NEW known \in [Keys -> Existence], NEW hit, WriteOld(held, known, hit),
         \A k \in Keys \ (raced \cup hit) : CoherentWith(held[k], known[k], k)
  PROVE  Coherence'
<1> DEFINE changed == {k \in Keys : undo.old[k] # Absent /\ held[k] # undo.old[k]}
           effect  == Overlay(disk, [k \in changed |-> undo.old[k]])
           hits    == hit \cup (changed \cap (Queued \cup ToBeRemoved))
<1>1. /\ raced \cup hits \subseteq raced'
      /\ disk' = effect \/ (disk' = disk /\ changed \subseteq raced')
  <2>1. UndoWrites(changed, effect, IF changed = {} THEN "done" ELSE "writing", hits)
    BY DEF WriteOld
  <2> HIDE DEF changed, effect, hits
  <2> QED
    BY <2>1, UndoWritesEffect
<1>2. Overtake(changed) /\ UNCHANGED << valuesToFlush, lateRemoves >>
  BY DEF WriteOld
<1> SUFFICES ASSUME NEW k \in Keys, k \notin raced' PROVE Coherent(k)'
  BY DEF Coherence
<1>3. CoherentWith(held[k], known[k], k)
  BY <1>1
<1>4. TypeOK /\ disk \in [Keys -> Content] /\ undo.old[k] \in Content
  BY DEF UndoTypeOK, UndoType, TypeOK
<1>5. last'[k] = IF undo.old[k] # Absent THEN undo.old[k] ELSE last[k]
  BY DEF WriteOld
<1>6. CASE k \in changed
  <2>1. cache'[k] = undo.old[k] /\ dbKeys'[k] = "present" /\ last'[k] = undo.old[k]
    BY <1>5, <1>6 DEF WriteOld, Overlay, Assign
  <2>2. disk'[k] = undo.old[k]
    BY <1>1, <1>4, <1>6 DEF Overlay
  <2>3. k \notin Queued /\ k \notin ToBeRemoved
    BY <1>1, <1>6
  <2>4. undo.old[k] # Nothing
    BY <1>4, <1>6, ValsAssumption DEF Content
  <2> HIDE DEF changed
  <2> QED
    BY <1>2, <1>4, <1>6, <2>1, <2>2, <2>3, <2>4, WrittenAtOnce
<1>7. CASE k \notin changed
  <2>1. cache'[k] = held[k] /\ dbKeys'[k] = known[k]
    BY <1>7 DEF WriteOld, Overlay, Assign
  <2>2. disk'[k] = disk[k]
    BY <1>1, <1>4, <1>7 DEF Overlay
  <2>3. last'[k] = last[k]
    <3>1. CASE undo.old[k] = Absent
      BY <1>5, <3>1
    <3>2. CASE undo.old[k] # Absent
      <4>1. held[k] = undo.old[k] /\ held[k] # Nothing
        BY <1>4, <1>7, <3>2, ValsAssumption DEF Content
      <4> QED
        BY <1>3, <1>5, <3>2, <4>1 DEF CoherentWith
    <3> QED
      BY <3>1, <3>2
  <2> HIDE DEF changed
  <2> QED
    BY <1>2, <1>3, <1>4, <2>1, <2>2, <2>3, FrameWith
<1> QED
  BY <1>6, <1>7

LEMMA UndoAnswerCoherence ==
  ASSUME UndoTypeOK, Proceeds, Coherence, UndoAnswer
  PROVE  Coherence'
<1> DEFINE found == {k \in Keys : undo.cur[k] # Absent}
           new   == {k \in found : undo.old[k] = Absent}
           held  == Overlay(cache, [k \in found |-> undo.cur[k]])
           known == Assign(dbKeys, found, "present")
           hit   == found \cap undo.touched
           effect == Assign(disk, new, Absent)
<1>1. /\ TypeOK /\ undo.cur \in [Keys -> Content]
      /\ undo.pc = "reading" /\ UnderWay
  BY DEF UndoTypeOK, UndoType, UndoAnswer, UnderWay
<1>2. held \in [Keys -> Vals \cup {Nothing}] /\ known \in [Keys -> Existence]
  BY <1>1 DEF Overlay, Assign, TypeOK, Content, Existence
<1>3. ASSUME NEW k \in found, k \notin hit
      PROVE  k \notin Queued /\ k \notin ToBeRemoved /\ disk[k] = undo.cur[k]
  BY <1>1, <1>3 DEF Proceeds, Progress, Reading
<1>4. ASSUME NEW k \in Keys, k \notin raced \cup hit
      PROVE  CoherentWith(held[k], known[k], k)
  <2>1. Coherent(k)
    BY <1>4 DEF Coherence
  <2>2. CASE k \in found
    <3>1. held[k] = undo.cur[k] /\ known[k] = "present" /\ undo.cur[k] # Nothing
      BY <1>1, <2>2, ValsAssumption DEF Overlay, Assign, TypeOK, Content
    <3>2. k \notin Queued /\ k \notin ToBeRemoved /\ disk[k] = undo.cur[k]
      BY <1>3, <1>4, <2>2
    <3> HIDE DEF held, known, found, hit
    <3> QED
      BY <2>1, <3>1, <3>2 DEF Coherent, CoherentWith, Settled
  <2>3. CASE k \notin found
    <3>1. held[k] = cache[k] /\ known[k] = dbKeys[k]
      BY <1>1, <2>3 DEF Overlay, Assign, TypeOK
    <3> HIDE DEF held, known
    <3> QED
      BY <2>1, <3>1, CoherentIs
  <2> QED
    BY <2>2, <2>3
<1>5. CASE WriteOld(held, known, hit)
  <2> HIDE DEF held, known, hit
  <2> QED
    BY <1>2, <1>4, <1>5, WriteOldCoherence
<1>6. CASE /\ cache' = Assign(held, new, Nothing)
           /\ dbKeys' = Assign(known, new, "absent")
           /\ last' = Assign(last, new, Absent)
           /\ Overtake(new)
           /\ UndoWrites(new, effect, "removing", hit)
           /\ UNCHANGED << valuesToFlush, lateRemoves >>
  <2>1. /\ raced \cup hit \subseteq raced'
        /\ disk' = effect \/ (disk' = disk /\ new \subseteq raced')
    <3> HIDE DEF new, effect, hit
    <3> QED
      BY <1>6, UndoWritesEffect
  <2> SUFFICES ASSUME NEW k \in Keys, k \notin raced' PROVE Coherent(k)'
    BY DEF Coherence
  <2>2. /\ cache'[k] = IF k \in new THEN Nothing ELSE held[k]
        /\ dbKeys'[k] = IF k \in new THEN "absent" ELSE known[k]
        /\ last'[k] = IF k \in new THEN Absent ELSE last[k]
        /\ disk'[k] = IF k \in new THEN Absent ELSE disk[k]
    <3> HIDE DEF new, held, known
    <3> QED
      BY <1>1, <1>2, <1>6, <2>1 DEF Assign, TypeOK
  <2>3. CASE k \in new
    <3>1. k \notin Queued /\ k \notin ToBeRemoved
      BY <1>3, <2>1, <2>3
    <3> HIDE DEF new
    <3> QED
      BY <1>1, <1>6, <2>2, <2>3, <3>1, WrittenAtOnce
  <2>4. CASE k \notin new
    <3>1. CoherentWith(held[k], known[k], k)
      BY <1>4, <2>1
    <3> HIDE DEF new, held, known
    <3> QED
      BY <1>1, <1>6, <2>2, <2>4, <3>1, FrameWith
  <2> QED
    BY <2>3, <2>4
<1> QED
  BY <1>5, <1>6 DEF UndoAnswer

LEMMA UndoCoherenceNext ==
  UndoTypeOK /\ Proceeds /\ Coherence /\ [UndoNext]_allVars => Coherence'
<1> SUFFICES ASSUME UndoTypeOK, Proceeds, Coherence, [UndoNext]_allVars PROVE Coherence'
  OBVIOUS
<1>1. TypeOK
  BY DEF UndoTypeOK
<1>2. CASE Calls \/ Background \/ Restart
  BY <1>1, <1>2, NextCoherence DEF Next
<1>3. CASE AnsweredUndoing \/ Undo
  <2> SUFFICES ASSUME NEW k \in Keys, k \notin raced' PROVE Coherent(k)'
    BY DEF Coherence
  <2>1. /\ Coherent(k)
        /\ UNCHANGED << disk, cache, dbKeys, lateRemoves, last, reads >>
    BY <1>3 DEF Coherence, AnsweredUndoing, Undo
  <2>2. k \in ValueKeys => valuesToFlush'[k] = valuesToFlush[k]
    BY <1>3 DEF AnsweredUndoing, Undo, Queued
  <2> QED
    BY <1>1, <2>1, <2>2, Frame
<1>4. CASE UndoRemoved
  <2>1. WriteOld(cache, dbKeys, {})
    BY <1>4 DEF UndoRemoved
  <2>2. cache \in [Keys -> Vals \cup {Nothing}] /\ dbKeys \in [Keys -> Existence]
    BY <1>1 DEF TypeOK
  <2>3. \A k \in Keys \ (raced \cup {}) : CoherentWith(cache[k], dbKeys[k], k)
    BY CoherentIs DEF Coherence
  <2> QED
    BY <2>1, <2>2, <2>3, WriteOldCoherence
<1>5. CASE Keep \/ Drop \/ UndoReadFails \/ UndoWritten \/ UNCHANGED allVars
  <2>1. UNCHANGED vars
    BY <1>5 DEF Keep, Drop, UndoReadFails, UndoWritten, allVars
  <2> QED
    BY <1>1, <2>1, NextCoherence
<1> QED
  BY <1>1, <1>2, <1>3, <1>4, <1>5, SetUndoingCoherence, RemoveUndoingCoherence,
     UndoAnswerCoherence DEF UndoNext, Asked

(* Also around an undo every key that met no race stays coherent.          *)
THEOREM UndoCoherence == UndoSpec => []Coherence
<1>1. UndoInit => Proceeds /\ Coherence
  BY InitCoherence DEF UndoInit, NoUndo, Proceeds, UnderWay
<1> QED
  BY <1>1, ProceedsNext, UndoCoherenceNext, UndoTypeCorrect, PTL DEF UndoSpec

(* Around an undo, too, a key that met no race reads as last asked.        *)
THEOREM UndoReadsCurrent == UndoSpec => []ReadsAreCurrent
<1>1. Coherence => ReadsAreCurrent
  BY DEF Coherence, Coherent, ReadsAreCurrent
<1> QED
  BY <1>1, UndoCoherence, PTL

(* Around an undo, too, a key that met no race settles as last asked.      *)
THEOREM UndoWritesSettled == UndoSpec => []WritesSettle
<1>1. Coherence => WritesSettle
  BY DEF Coherence, Coherent, WritesSettle
<1> QED
  BY <1>1, UndoCoherence, PTL
=============================================================================
