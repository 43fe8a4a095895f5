----------------------------- MODULE StorageUndo -----------------------------
(***************************************************************************)
(* Undo of an import (`undoImport` in background/utils/storage-cache.js)   *)
(* on top of StorageCache.                                                 *)
(*                                                                         *)
(* As an import begins, the storage area is read (`old`).  To undo, the    *)
(* queue is emptied, the area is read again (`cur`), what is new in it is  *)
(* removed, and what differs from `old` is written; then the extension     *)
(* reloads.  From the removal on `undoing` is set: set and remove write    *)
(* everything at once and schedule nothing.  All other calls and timers    *)
(* go on as before.                                                        *)
(***************************************************************************)
EXTENDS StorageCache

CONSTANT Resting   \* bound: readers that have no read in flight while an import
                   \* can be undone

ASSUME RestingAssumption == Resting \subseteq Readers

VARIABLE undo

(* touched is history: the keys that others touched since the undo began.  *)
Empty == [k \in Keys |-> Absent]
NoUndo == [pc |-> "off", old |-> Empty, cur |-> Empty, touched |-> {}]

allVars == << vars, undo >>

Undoing == undo.pc \in {"removing", "writing", "done", "broken"}
UnderWay == undo.pc \in {"reading", "removing", "writing", "done"}

UndoInit == Init /\ undo = NoUndo

-----------------------------------------------------------------------------
(* The calls of others while `undoing` is set. *)

(* set(data): a newer value than one that waits in the queue, or whose     *)
(* removal is still to come: a race.                                       *)
SetUndoing(data) ==
  LET changed == {k \in DOMAIN data : cache[k] # data[k]}
  IN /\ CountWrite
     /\ changed # {}
     /\ cache' = Overlay(cache, [k \in changed |-> data[k]])
     /\ dbKeys' = Assign(dbKeys, changed, "present")
     /\ last' = Overlay(last, data)
     /\ Overtake(changed)
     /\ Finish(changed, Overlay(disk, [k \in changed |-> data[k]]),
               changed \cap (Queued \cup ToBeRemoved))
     /\ UNCHANGED << valuesToFlush, lateRemoves >>

(* remove(keys): a change that waits in the queue survives: a race.        *)
RemoveUndoing(keys) ==
  LET known == {k \in keys : dbKeys[k] # "absent"}
  IN /\ CountWrite
     /\ known # {}
     /\ cache' = Assign(cache, known, Nothing)
     /\ dbKeys' = Assign(dbKeys, known, "absent")
     /\ last' = Assign(last, keys, Absent)
     /\ Overtake(known)
     /\ Finish(known, Assign(disk, known, Absent), known \cap Queued)
     /\ UNCHANGED << valuesToFlush, lateRemoves >>

(* The answer to a set or remove, which now schedules nothing: what a call *)
(* has queued before `undoing` was set may stay in the queue.              *)
AnsweredUndoing ==
  /\ awaiting > 0
  /\ awaiting' = awaiting - 1
  /\ stranded' = TRUE
  /\ UNCHANGED << disk, cache, dbKeys, valuesToFlush, flushTimer, reads, lateRemoves, last,
                  raced, writes, failures >>

(* Keys that a step of someone else touches: their content in the area, in *)
(* the queue, or the cached one, unless it is what the area has.           *)
Touched ==
  {k \in Keys : \/ disk'[k] # disk[k]
                \/ cache'[k] \notin {cache[k], disk[k], Nothing}
                \/ k \in ValueKeys /\ valuesToFlush'[k] # Nothing}

Meddle == undo' = IF UnderWay THEN [undo EXCEPT !.touched = @ \cup Touched] ELSE undo

-----------------------------------------------------------------------------
(* The port opens: api.get(), before anything is imported. *)
Keep ==
  /\ undo.pc = "off"
  /\ undo' = [NoUndo EXCEPT !.pc = "kept", !.old = disk]
  /\ UNCHANGED vars

(* The port closes. *)
Drop ==
  /\ undo.pc = "kept"
  /\ undo' = NoUndo
  /\ UNCHANGED vars

(* The user asks to undo: the queue is emptied, a race, and the area is    *)
(* read.  A key that only the cache still has is not found there, and so   *)
(* neither removed nor, if it seems to be unchanged, written.              *)
Undo ==
  /\ undo.pc = "kept"
  /\ valuesToFlush' = [k \in ValueKeys |-> Nothing]
  /\ raced' = raced \cup Queued
  /\ undo' = [undo EXCEPT !.pc = "reading", !.cur = disk,
                          !.touched = ToBeRemoved \cup {k \in Keys : disk[k] = Absent
                                                                 /\ cache[k] # Nothing}]
  /\ UNCHANGED << disk, cache, dbKeys, flushTimer, awaiting, reads, lateRemoves, last,
                  stranded, writes, failures >>

UndoReadFails ==
  /\ undo.pc = "reading"
  /\ undo' = NoUndo
  /\ UNCHANGED vars

(* How a write of the undo ends.  After a rejected one `undoing` stays.    *)
UndoWrites(keys, effect, pc, hit) ==
  \/ /\ disk' = effect
     /\ raced' = raced \cup hit
     /\ undo' = [undo EXCEPT !.pc = pc, !.cur = Empty]
     /\ UNCHANGED failures
  \/ /\ keys # {}
     /\ CountFailure
     /\ raced' = raced \cup hit \cup keys
     /\ undo' = [NoUndo EXCEPT !.pc = "broken"]
     /\ UNCHANGED disk

(* Mutant: what was not cached is taken for unchanged. *)
WriteOldCached(held, known, hit) ==
  LET changed == {k \in Keys : /\ undo.old[k] # Absent
                               /\ held[k] \notin {undo.old[k], Nothing}}
  IN /\ cache' = Overlay(held, [k \in changed |-> undo.old[k]])
     /\ dbKeys' = Assign(known, changed, "present")
     /\ last' = [k \in Keys |-> IF undo.old[k] # Absent THEN undo.old[k] ELSE last[k]]
     /\ Overtake(changed)
     /\ UndoWrites(changed, Overlay(disk, [k \in changed |-> undo.old[k]]),
                   IF changed = {} THEN "done" ELSE "writing",
                   hit \cup (changed \cap (Queued \cup ToBeRemoved)))
     /\ UNCHANGED << valuesToFlush, flushTimer, awaiting, lateRemoves, stranded, writes >>

(* set(old), with what the cache holds and what is known of the keys: an   *)
(* entry equal to the cached one is skipped.                               *)
WriteOld(held, known, hit) ==
  LET changed == {k \in Keys : undo.old[k] # Absent /\ held[k] # undo.old[k]}
  IN /\ cache' = Overlay(held, [k \in changed |-> undo.old[k]])
     /\ dbKeys' = Assign(known, changed, "present")
     /\ last' = [k \in Keys |-> IF undo.old[k] # Absent THEN undo.old[k] ELSE last[k]]
     /\ Overtake(changed)
     /\ UndoWrites(changed, Overlay(disk, [k \in changed |-> undo.old[k]]),
                   IF changed = {} THEN "done" ELSE "writing",
                   hit \cup (changed \cap (Queued \cup ToBeRemoved)))
     /\ UNCHANGED << valuesToFlush, flushTimer, awaiting, lateRemoves, stranded, writes >>

(* The area was read: what it holds enters the cache, a race for what was  *)
(* touched since, and what was not in `old` is removed.                    *)
UndoAnswer ==
  LET found == {k \in Keys : undo.cur[k] # Absent}
      new   == {k \in found : undo.old[k] = Absent}
      held  == Overlay(cache, [k \in found |-> undo.cur[k]])
      known == Assign(dbKeys, found, "present")
      hit   == found \cap undo.touched
  IN /\ undo.pc = "reading"
     /\ \/ new = {} /\ WriteOld(held, known, hit)
        \/ /\ new # {}
           /\ cache' = Assign(held, new, Nothing)
           /\ dbKeys' = Assign(known, new, "absent")
           /\ last' = Assign(last, new, Absent)
           /\ Overtake(new)
           /\ UndoWrites(new, Assign(disk, new, Absent), "removing", hit)
           /\ UNCHANGED << valuesToFlush, flushTimer, awaiting, lateRemoves, stranded,
                           writes >>

(* The removal was answered. *)
UndoRemoved == undo.pc = "removing" /\ WriteOld(cache, dbKeys, {})

(* The write was answered: the options page is told, and the extension     *)
(* will reload (Restart).                                                  *)
UndoWritten ==
  /\ undo.pc = "writing"
  /\ undo' = [undo EXCEPT !.pc = "done"]
  /\ UNCHANGED vars

-----------------------------------------------------------------------------
Asked ==
  \/ ~Undoing /\ Calls
  \/ /\ Undoing
     /\ \/ \E data \in Data : SetUndoing(data)
        \/ \E keys \in Batches : RemoveUndoing(keys)
        \/ AnsweredUndoing

Rest == \A r \in Resting : reads'[r].keys = {}

UndoNext ==
  \/ (Asked \/ Background) /\ Meddle /\ (undo.pc # "off" => Rest)
  \/ Restart /\ undo' = NoUndo
  \/ Keep /\ Rest
  \/ Drop \/ Undo \/ UndoReadFails \/ UndoAnswer \/ UndoRemoved \/ UndoWritten

UndoSpec == UndoInit /\ [][UndoNext]_allVars

(* Timers fire and the storage area answers, as without an undo. *)
UndoFairness ==
  /\ WF_allVars((IF Undoing THEN AnsweredUndoing ELSE WriteAnswered) /\ Meddle)
  /\ WF_allVars((\E f \in Flushes : Flush(f)) /\ Meddle)
  /\ \A f \in Flushes : WF_allVars(FlushRemoves(f) /\ Meddle)

FairUndoSpec == UndoSpec /\ UndoFairness

-----------------------------------------------------------------------------
UndoType ==
  [pc : {"off", "kept", "reading", "removing", "writing", "done", "broken"},
   old : [Keys -> Content], cur : [Keys -> Content], touched : SUBSET Keys]

(* Every variable has its type. *)
UndoTypeOK == TypeOK /\ undo \in UndoType

(* When an undo is done, the storage area holds what it held as the import *)
(* began, whatever was imported, cached, queued or flushed meanwhile, and  *)
(* whatever met a race before, but for keys that others touched during the *)
(* undo.                                                                   *)
UndoRestores ==
  undo.pc = "done" => \A k \in Keys \ undo.touched : disk[k] = undo.old[k]
=============================================================================
