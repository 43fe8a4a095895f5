---------------------------- MODULE StorageCache ----------------------------
(***************************************************************************)
(* The write-behind cache in front of the browser's storage area           *)
(* (background/utils/storage-cache.js over common/cache.js).               *)
(*                                                                         *)
(* Every part of the background page reads and writes the database through *)
(* `get`, `set` and `remove`.  Keys of script values ("val:<id>") are not  *)
(* written at once: they wait in valuesToFlush until a timer flushes them. *)
(* All other keys are written at once.  dbKeys remembers which keys are    *)
(* known to exist or known to be absent.                                   *)
(*                                                                         *)
(* The storage area executes the calls in the order they are made, so      *)
(* `disk` is its content after every call made so far, and a read takes    *)
(* its snapshot when it is issued.  Its answer arrives later: everything   *)
(* else may happen in between.                                             *)
(*                                                                         *)
(* Two history variables judge the code: last[k] is what the program last  *)
(* asked k to be, and raced is the set of keys that met one of the races   *)
(* the code leaves open.  Each place that adds to raced names the race.    *)
(***************************************************************************)
EXTENDS Naturals, FiniteSets

CONSTANTS
  ValueKeys,     \* keys with the prefix S_VALUE_PRE, written behind
  PlainKeys,     \* all other keys, written through
  Vals,          \* what a key may hold
  Absent,        \* no such key in the storage area; `null` in valuesToFlush
  Nothing,       \* no such entry in `cache` or in valuesToFlush
  Batches,       \* bound: the sets of keys one call may name
  Readers,       \* concurrent calls of get
  Flushes,       \* concurrent calls of flush
  MaxWrites,     \* bound: calls of set and remove
  MaxFailures    \* bound: writes the storage area rejects

Keys == ValueKeys \cup PlainKeys

ASSUME KeysAssumption == ValueKeys \cap PlainKeys = {}
ASSUME ValsAssumption ==
  /\ Absent \notin Vals
  /\ Nothing \notin Vals
  /\ Absent # Nothing
ASSUME BatchesAssumption == Batches \subseteq SUBSET Keys
ASSUME BoundsAssumption == MaxWrites \in Nat /\ MaxFailures \in Nat

VARIABLES
  disk,           \* the storage area behind `api`
  cache,          \* the values held in memory
  dbKeys,         \* what is known of each key's existence
  valuesToFlush,  \* value keys waiting to be written (Absent: to be removed)
  flushTimer,     \* whether a flush is scheduled
  awaiting,       \* how many calls of set and remove await the storage area
  reads,          \* the calls of get that await the storage area
  lateRemoves,    \* per flush, the keys it removes once its write is answered
  last,           \* history: the last requested content of each key
  raced,          \* history: the keys that met a race
  stranded,       \* history: a rejected call skipped flushLater
  writes,         \* bound
  failures        \* bound

vars == << disk, cache, dbKeys, valuesToFlush, flushTimer, awaiting, reads,
           lateRemoves, last, raced, stranded, writes, failures >>

Existence == {"unknown", "present", "absent"}
Content   == Vals \cup {Absent}

(* A read in progress: the keys it asked the storage area for, the         *)
(* snapshot, whether it is a read of the whole area, and (history) the     *)
(* keys whose content was requested to change since.  Idle: keys = {}.     *)
Read == [keys : SUBSET Keys, snap : [Keys -> Content],
         whole : BOOLEAN, overtaken : SUBSET Keys]

Queued      == {k \in ValueKeys : valuesToFlush[k] # Nothing}
ToBeRemoved == UNION {lateRemoves[f] : f \in Flushes}

(* `over` on the keys of `over`'s domain, `f` elsewhere *)
Overlay(f, over) ==
  [k \in DOMAIN f |-> IF k \in DOMAIN over THEN over[k] ELSE f[k]]
Assign(f, S, v) == [k \in DOMAIN f |-> IF k \in S THEN v ELSE f[k]]

Idle == [keys |-> {}, snap |-> [k \in Keys |-> Absent], whole |-> FALSE,
         overtaken |-> {}]

(* What the background page may know of the keys as it starts: where the   *)
(* storage area can list its keys, those of scripts and options are known. *)
KnownAtStart ==
  {[k \in Keys |-> "unknown"],
   [k \in Keys |-> IF k \in PlainKeys /\ disk[k] \in Vals THEN "present" ELSE "unknown"]}

Init ==
  /\ disk \in [Keys -> Content]
  /\ cache = [k \in Keys |-> Nothing]
  /\ dbKeys \in KnownAtStart
  /\ valuesToFlush = [k \in ValueKeys |-> Nothing]
  /\ flushTimer = FALSE
  /\ awaiting = 0
  /\ reads = [r \in Readers |-> Idle]
  /\ lateRemoves = [f \in Flushes |-> {}]
  /\ last = disk
  /\ raced = {}
  /\ stranded = FALSE
  /\ writes = 0
  /\ failures = 0

-----------------------------------------------------------------------------
(* Mutant: the timer starts only for the first entry of the queue. *)
FlushLaterOnce ==
  flushTimer' = (\/ flushTimer
                 \/ Queued = {} /\ \E k \in ValueKeys : valuesToFlush'[k] # Nothing)

(* flushLater: start the timer unless it runs or nothing waits. *)
FlushLater ==
  flushTimer' = (flushTimer \/ \E k \in ValueKeys : valuesToFlush'[k] # Nothing)

(* Requests for the keys in S overtake the reads in progress. *)
Overtake(S) ==
  reads' = [r \in Readers |->
              [reads[r] EXCEPT !.overtaken = @ \cup (S \cap reads[r].keys)]]

CountWrite == writes < MaxWrites /\ writes' = writes + 1
CountFailure == failures < MaxFailures /\ failures' = failures + 1

(* How a call of set or remove ends: at once when nothing needs the        *)
(* storage area, later when the area answers, or never reaching flushLater *)
(* when the area rejects it.  `effect` is the disk after success, and      *)
(* `direct` the keys the call writes or removes there.                     *)
Finish(direct, effect, hit) ==
  \/ /\ direct = {}
     /\ FlushLater
     /\ stranded' = FALSE
     /\ raced' = raced \cup hit
     /\ UNCHANGED << disk, awaiting, failures >>
  \/ /\ direct # {}
     /\ disk' = effect
     /\ awaiting' = awaiting + 1
     /\ raced' = raced \cup hit
     /\ UNCHANGED << flushTimer, stranded, failures >>
  \/ /\ direct # {}
     /\ CountFailure
     /\ stranded' = TRUE
     /\ raced' = raced \cup hit \cup direct  \* race: the write is lost
     /\ UNCHANGED << disk, awaiting, flushTimer >>

(* Mutant: set leaves dbKeys alone. *)
SetKeepsDbKeys(data, flushNow) ==
  LET changed == {k \in DOMAIN data : cache[k] # data[k]}
      queue   == IF flushNow THEN {} ELSE changed \cap ValueKeys
      toWrite == changed \ queue
  IN /\ CountWrite
     /\ cache' = Overlay(cache, [k \in changed |-> data[k]])
     /\ valuesToFlush' = Overlay(valuesToFlush, [k \in queue |-> data[k]])
     /\ last' = Overlay(last, data)
     /\ Overtake(changed)
     /\ Finish(toWrite, Overlay(disk, [k \in toWrite |-> data[k]]),
               toWrite \cap (Queued \cup ToBeRemoved))
     /\ UNCHANGED << dbKeys, lateRemoves >>

(* set(data, flushNow): entries equal to the cached value are skipped      *)
(* (deepCopyDiff).  flushNow writes value keys directly, and leaves an     *)
(* older value in the queue or an older removal in flight behind: a race.  *)
Set(data, flushNow) ==
  LET changed == {k \in DOMAIN data : cache[k] # data[k]}
      queue   == IF flushNow THEN {} ELSE changed \cap ValueKeys
      toWrite == changed \ queue
      diff    == [k \in changed |-> data[k]]
  IN /\ CountWrite
     /\ cache' = Overlay(cache, diff)
     /\ dbKeys' = Assign(dbKeys, changed, "present")
     /\ valuesToFlush' = Overlay(valuesToFlush, [k \in queue |-> data[k]])
     /\ last' = Overlay(last, data)
     /\ Overtake(changed)
     /\ Finish(toWrite, Overlay(disk, [k \in toWrite |-> data[k]]),
               toWrite \cap (Queued \cup ToBeRemoved))
     /\ UNCHANGED lateRemoves

(* Mutant: remove deletes value keys at once and leaves the queue alone. *)
RemoveAtOnce(keys) ==
  LET known == {k \in keys : dbKeys[k] # "absent"}
  IN /\ CountWrite
     /\ cache' = Assign(cache, known, Nothing)
     /\ dbKeys' = Assign(dbKeys, known, "absent")
     /\ last' = Assign(last, keys, Absent)
     /\ Overtake(known)
     /\ Finish(known, Assign(disk, known, Absent), {})
     /\ UNCHANGED << valuesToFlush, lateRemoves >>

(* remove(keys): keys known to be absent are skipped, value keys wait in   *)
(* the queue as removals.                                                  *)
Remove(keys) ==
  LET known    == {k \in keys : dbKeys[k] # "absent"}
      toDelete == known \cap PlainKeys
  IN /\ CountWrite
     /\ cache' = Assign(cache, known, Nothing)
     /\ dbKeys' = Assign(dbKeys, known, "absent")
     /\ valuesToFlush' = Assign(valuesToFlush, known, Absent)
     /\ last' = Assign(last, keys, Absent)
     /\ Overtake(known)
     /\ Finish(toDelete, Assign(disk, toDelete, Absent), {})
     /\ UNCHANGED lateRemoves

(* Mutant: flushLater runs before the answer is awaited, not after it. *)
WriteAnsweredOnly ==
  /\ awaiting > 0
  /\ awaiting' = awaiting - 1
  /\ stranded' = FALSE
  /\ UNCHANGED << disk, cache, dbKeys, valuesToFlush, flushTimer, reads,
                  lateRemoves, last, raced, writes, failures >>

(* The storage area answers a set or remove, which then schedules a flush. *)
WriteAnswered ==
  /\ awaiting > 0
  /\ awaiting' = awaiting - 1
  /\ flushTimer' = (flushTimer \/ Queued # {})
  /\ stranded' = FALSE
  /\ UNCHANGED << disk, cache, dbKeys, valuesToFlush, reads, lateRemoves, last,
                  raced, writes, failures >>

-----------------------------------------------------------------------------
(* get(keys): cached keys and keys known to be absent need no answer.      *)
Get(r, keys) ==
  LET misses == {k \in keys : cache[k] = Nothing /\ dbKeys[k] # "absent"}
  IN /\ reads[r].keys = {}
     /\ misses # {}
     /\ reads' = [reads EXCEPT ![r] =
                   [keys |-> misses, snap |-> disk, whole |-> FALSE,
                    overtaken |-> {}]]
     /\ UNCHANGED << disk, cache, dbKeys, valuesToFlush, flushTimer, awaiting,
                     lateRemoves, last, raced, stranded, writes, failures >>

(* get(): a read of the whole area asks for every key, also for those      *)
(* whose latest content has not reached the area yet.                      *)
GetWhole(r) ==
  /\ reads[r].keys = {}
  /\ reads' = [reads EXCEPT ![r] =
                [keys |-> Keys, snap |-> disk, whole |-> TRUE,
                 overtaken |-> Queued \cup ToBeRemoved]]
  /\ UNCHANGED << disk, cache, dbKeys, valuesToFlush, flushTimer, awaiting,
                  lateRemoves, last, raced, stranded, writes, failures >>

(* The answer enters the cache as it is, whatever happened since: a race   *)
(* for the keys that were overtaken.  Only a read of named keys learns     *)
(* that a key is absent.                                                   *)
Answer(r) ==
  LET read  == reads[r]
      found == {k \in read.keys : read.snap[k] \in Vals}
      gone  == IF read.whole THEN {} ELSE read.keys \ found
  IN /\ read.keys # {}
     /\ cache' = Overlay(cache, [k \in found |-> read.snap[k]])
     /\ dbKeys' = Assign(Assign(dbKeys, found, "present"), gone, "absent")
     /\ raced' = raced \cup ((found \cup gone) \cap read.overtaken)
     /\ reads' = [reads EXCEPT ![r] = Idle]
     /\ UNCHANGED << disk, valuesToFlush, flushTimer, awaiting, lateRemoves,
                     last, stranded, writes, failures >>

AnswerFails(r) ==
  /\ reads[r].keys # {}
  /\ reads' = [reads EXCEPT ![r] = Idle]
  /\ UNCHANGED << disk, cache, dbKeys, valuesToFlush, flushTimer, awaiting,
                  lateRemoves, last, raced, stranded, writes, failures >>

-----------------------------------------------------------------------------
(* flush: take the queue; write its values, and remove what is to be       *)
(* removed, but only after the write is answered.  A newer flush may write *)
(* a key that an older one is still to remove: a race.                     *)
Flush(f) ==
  LET toFlush  == {k \in Queued : valuesToFlush[k] # Absent}
      toRemove == Queued \ toFlush
      now      == IF toFlush = {} THEN toRemove ELSE {}
  IN /\ flushTimer
     /\ lateRemoves[f] = {}
     /\ flushTimer' = FALSE
     /\ valuesToFlush' = [k \in ValueKeys |-> Nothing]
     /\ \/ /\ disk' = Overlay(Assign(disk, now, Absent),
                              [k \in toFlush |-> valuesToFlush[k]])
           /\ lateRemoves' = [lateRemoves EXCEPT ![f] = toRemove \ now]
           /\ raced' = raced \cup (toFlush \cap ToBeRemoved)
           /\ UNCHANGED failures
        \/ /\ CountFailure
           /\ raced' = raced \cup Queued  \* race: the whole queue is lost
           /\ UNCHANGED << disk, lateRemoves >>
     /\ UNCHANGED << cache, dbKeys, awaiting, reads, last, stranded, writes >>

(* The write of a flush is answered and its removals follow. *)
FlushRemoves(f) ==
  /\ lateRemoves[f] # {}
  /\ lateRemoves' = [lateRemoves EXCEPT ![f] = {}]
  /\ \/ /\ disk' = Assign(disk, lateRemoves[f], Absent)
        /\ UNCHANGED << raced, failures >>
     \/ /\ CountFailure
        /\ raced' = raced \cup lateRemoves[f]
        /\ UNCHANGED disk
  /\ UNCHANGED << cache, dbKeys, valuesToFlush, flushTimer, awaiting, reads,
                  last, stranded, writes >>

-----------------------------------------------------------------------------
(* An entry of the cache expires.  Lifetimes are 5 seconds and more, and a *)
(* scheduled flush takes at most FLUSH_MAX_DELAY = 1 second, so a queued   *)
(* key expires only when no flush is on its way: a race.                   *)
Expire(k) ==
  /\ cache[k] # Nothing
  /\ k \in Queued => ~flushTimer /\ awaiting = 0
  /\ cache' = [cache EXCEPT ![k] = Nothing]
  /\ raced' = raced \cup ({k} \cap Queued)
  /\ UNCHANGED << disk, dbKeys, valuesToFlush, flushTimer, awaiting, reads,
                  lateRemoves, last, stranded, writes, failures >>

(* Once a day the knowledge of absent keys is dropped: a race for the keys *)
(* whose removal has not reached the area.                                 *)
Sweep ==
  /\ \E k \in Keys : dbKeys[k] = "absent"
  /\ dbKeys' = [k \in Keys |-> IF dbKeys[k] = "absent" THEN "unknown" ELSE dbKeys[k]]
  /\ raced' = raced \cup Queued \cup ToBeRemoved
  /\ UNCHANGED << disk, cache, valuesToFlush, flushTimer, awaiting, reads,
                  lateRemoves, last, stranded, writes, failures >>

(* clearStorageCache (scripts are switched off): a race for the keys whose *)
(* content has not reached the area.                                       *)
Clear ==
  /\ cache' = [k \in Keys |-> Nothing]
  /\ dbKeys' = [k \in Keys |-> "unknown"]
  /\ raced' = raced \cup Queued \cup ToBeRemoved
  /\ UNCHANGED << disk, valuesToFlush, flushTimer, awaiting, reads,
                  lateRemoves, last, stranded, writes, failures >>

(* The background page goes away and starts again with an empty memory. *)
Restart ==
  /\ cache' = [k \in Keys |-> Nothing]
  /\ dbKeys' \in KnownAtStart
  /\ valuesToFlush' = [k \in ValueKeys |-> Nothing]
  /\ flushTimer' = FALSE
  /\ awaiting' = 0
  /\ reads' = [r \in Readers |-> Idle]
  /\ lateRemoves' = [f \in Flushes |-> {}]
  /\ last' = disk
  /\ raced' = {}
  /\ stranded' = FALSE
  /\ UNCHANGED << disk, writes, failures >>

Data == UNION {[S -> Vals] : S \in Batches}

(* What other parts of the background page ask, and its answers to them. *)
Calls ==
  \/ \E data \in Data, flushNow \in BOOLEAN : Set(data, flushNow)
  \/ \E keys \in Batches : Remove(keys)
  \/ WriteAnswered

(* Reads, timers, and what drops knowledge. *)
Background ==
  \/ \E r \in Readers, keys \in Batches : Get(r, keys)
  \/ \E r \in Readers : GetWhole(r) \/ Answer(r) \/ AnswerFails(r)
  \/ \E f \in Flushes : Flush(f) \/ FlushRemoves(f)
  \/ \E k \in Keys : Expire(k)
  \/ Sweep
  \/ Clear

Next == Calls \/ Background \/ Restart

Spec == Init /\ [][Next]_vars

(* Timers fire and the storage area answers. *)
Fairness ==
  /\ WF_vars(WriteAnswered)
  /\ WF_vars(\E f \in Flushes : Flush(f))
  /\ \A f \in Flushes : WF_vars(FlushRemoves(f))

FairSpec == Spec /\ Fairness

-----------------------------------------------------------------------------
(* What storage.get(k) yields now: the cached value, nothing for a key     *)
(* known to be absent, otherwise what the area holds.                      *)
Visible(k) ==
  IF cache[k] # Nothing       THEN cache[k]
  ELSE IF dbKeys[k] = "absent" THEN Absent
  ELSE disk[k]

(* What the area will hold for k once everything under way is done. *)
Settled(k) ==
  IF k \in Queued           THEN valuesToFlush[k]
  ELSE IF k \in ToBeRemoved THEN Absent
  ELSE disk[k]

(* Every variable has its type. *)
TypeOK ==
  /\ disk \in [Keys -> Content]
  /\ cache \in [Keys -> Vals \cup {Nothing}]
  /\ dbKeys \in [Keys -> Existence]
  /\ valuesToFlush \in [ValueKeys -> Content \cup {Nothing}]
  /\ flushTimer \in BOOLEAN
  /\ awaiting \in Nat
  /\ reads \in [Readers -> Read]
  /\ lateRemoves \in [Flushes -> SUBSET ValueKeys]
  /\ last \in [Keys -> Content]
  /\ raced \in SUBSET Keys
  /\ stranded \in BOOLEAN
  /\ writes \in Nat
  /\ failures \in Nat

(* A key that met no race reads as the program last left it, whether its   *)
(* content is cached, known to be absent, or only in the storage area.     *)
ReadsAreCurrent == \A k \in Keys \ raced : Visible(k) = last[k]

(* A key that met no race ends up in the storage area as the program last  *)
(* left it: a queued value supersedes older ones, and what no flush will   *)
(* touch is already there, so a restart may lose only queued changes.      *)
WritesSettle == \A k \in Keys \ raced : Settled(k) = last[k]

(* Queued values are never forgotten: while something is queued, a flush   *)
(* is scheduled or a call that will schedule it awaits its answer, unless  *)
(* the storage area rejected the call that should have scheduled it.       *)
FlushIsScheduled == Queued # {} => flushTimer \/ awaiting > 0 \/ stranded

(* A queued value leaves the queue, unless it got stranded. *)
QueueDrains ==
  \A k \in ValueKeys : k \in Queued ~> (k \notin Queued \/ stranded)
=============================================================================
