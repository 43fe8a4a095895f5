--------------------------- MODULE ScriptDBProofs ---------------------------
(* The invariants of ScriptDB, for any codes, names and numbers of calls,  *)
(* ids and commands.                                                       *)
EXTENDS ScriptDB, TLAPS

Listed == alive \cup trash

(* What TypeOK needs besides: a call saves a script that is there, and the *)
(* ids in the lists have been given out.                                   *)
Linked ==
  /\ \A p \in Calls : parsing[p] # Free => script[parsing[p].id] # Nothing
  /\ Listed \subseteq 1 .. maxId

-----------------------------------------------------------------------------
(* What a call of parseScript that begins does to the calls in progress. *)
LEMMA Begin ==
  ASSUME parsing \in [Calls -> {Free} \cup Saving], NEW p \in Calls, NEW i \in Ids,
         NEW c \in Codes, NEW job \in Ids \cup {Nothing}, parsing[p] = Free,
         parsing' = [parsing EXCEPT ![p] = [pc |-> "saving", id |-> i, code |-> c, job |-> job]]
  PROVE  /\ parsing' \in [Calls -> {Free} \cup Saving]
         /\ parsing'[p] # Free /\ parsing'[p].id = i /\ parsing'[p].code = c
         /\ \A q \in Calls \ {p} : parsing'[q] = parsing[q]
<1> DEFINE new == [pc |-> "saving", id |-> i, code |-> c, job |-> job]
<1>1. new \in Saving
  BY DEF Saving
<1>2. new # Free
  <2>1. new.pc = "saving" /\ Free.pc = "free"
    BY DEF Free
  <2> QED
    BY <2>1
<1>3. new.id = i /\ new.code = c
  OBVIOUS
<1> HIDE DEF new
<1>4. parsing' = [parsing EXCEPT ![p] = new]
  BY DEF new
<1> QED
  BY <1>1, <1>2, <1>3, <1>4

(* A call in progress has a script and a code. *)
LEMMA InProgress ==
  ASSUME parsing \in [Calls -> {Free} \cup Saving], NEW p \in Calls, parsing[p] # Free
  PROVE  parsing[p].id \in Ids /\ parsing[p].code \in Codes
  BY DEF Saving

(* The flag of a script is set. *)
LEMMA Flagged ==
  ASSUME script \in [Ids -> Record \cup {Nothing}], NEW i \in Ids, script[i] # Nothing,
         NEW removed \in BOOLEAN,
         script' = [script EXCEPT ![i] = [script[i] EXCEPT !.removed = removed]]
  PROVE  /\ script' \in [Ids -> Record \cup {Nothing}]
         /\ script'[i] \in Record /\ script'[i] # Nothing
         /\ script'[i].removed = removed /\ script'[i].meta = script[i].meta
         /\ \A j \in Ids \ {i} : script'[j] = script[j]
<1>1. script[i] \in Record
  OBVIOUS
<1>2. [script[i] EXCEPT !.removed = removed] \in Record
  BY <1>1 DEF Record
<1> QED
  BY <1>1, <1>2, ScriptDBAssumption DEF Record

(* Every variable has its type from the start. *)
LEMMA TypeInit == Init => TypeOK /\ Linked
  BY ScriptDBAssumption DEF Init, TypeOK, Linked, Ids, Listed

(* A new script. *)
LEMMA CreateType ==
  ASSUME TypeOK, Linked, NEW p \in Calls, NEW c \in Codes, NEW job \in Ids \cup {Nothing},
         parsing[p] = Free, Create(p, c, job), UNCHANGED << stored, code, marking >>,
         checking' = checking, ops' \in 0 .. MaxOps
  PROVE  TypeOK' /\ Linked'
<1>1. maxId' \in Ids /\ maxId' = maxId + 1
  BY ScriptDBAssumption DEF TypeOK, Create, Ids
<1>2. /\ parsing' \in [Calls -> {Free} \cup Saving]
      /\ parsing'[p] # Free /\ parsing'[p].id = maxId' /\ parsing'[p].code = c
      /\ \A q \in Calls \ {p} : parsing'[q] = parsing[q]
  BY <1>1, Begin DEF TypeOK, Create
<1>3. [meta |-> c, removed |-> FALSE] \in Record
  BY DEF Record
<1>4. /\ script' \in [Ids -> Record \cup {Nothing}]
      /\ script'[maxId'] # Nothing
      /\ \A j \in Ids \ {maxId'} : script'[j] = script[j]
  BY <1>1, <1>3, ScriptDBAssumption DEF TypeOK, Create
<1>5. maxId' \notin Listed
  BY <1>1 DEF Linked, TypeOK
<1>6. raced' \subseteq Ids
  <2>1. Named(NameOf[c], alive \cup Returning) \subseteq Ids
    BY DEF Named, Returning, TypeOK
  <2> QED
    BY <1>1, <2>1 DEF Create, TypeOK
<1>7. TypeOK'
  <2>1. known' = known /\ trash' = trash /\ alive' = alive \cup {maxId'}
    BY DEF Create
  <2>2. /\ known' \subseteq {j \in Ids : script'[j] # Nothing}
        /\ alive' \subseteq {j \in Ids : script'[j] # Nothing}
        /\ trash' \subseteq {j \in Ids : script'[j] # Nothing}
    BY <1>1, <1>4, <2>1 DEF TypeOK
  <2>3. alive' \cap trash' = {}
    BY <1>5, <2>1 DEF TypeOK, Listed
  <2>4. maxId' \in 0 .. MaxId
    BY <1>1, ScriptDBAssumption DEF Ids
  <2>5. /\ stored' \in [Ids -> Record \cup {Nothing}]
        /\ code' \in [Ids -> Codes \cup {Nothing}]
        /\ marking' \subseteq [id : Ids, removed : BOOLEAN]
        /\ checking' \subseteq Ids
    BY DEF TypeOK
  <2> QED
    BY <1>2, <1>4, <1>6, <2>2, <2>3, <2>4, <2>5 DEF TypeOK
<1>8. \A q \in Calls : parsing'[q] # Free => script'[parsing'[q].id] # Nothing
  BY <1>2, <1>4, InProgress DEF Linked, TypeOK
<1>9. Listed' \subseteq 1 .. maxId'
  BY <1>1 DEF Linked, Listed, Create, TypeOK
<1> QED
  BY <1>7, <1>8, <1>9 DEF Linked

(* An old one. *)
LEMMA OverwriteType ==
  ASSUME TypeOK, Linked, NEW p \in Calls, NEW i \in Ids, NEW c \in Codes,
         NEW job \in Ids \cup {Nothing}, parsing[p] = Free, Overwrite(p, i, c, job),
         UNCHANGED << stored, code, marking >>, checking' = checking, ops' \in 0 .. MaxOps
  PROVE  TypeOK' /\ Linked'
<1>2. /\ parsing' \in [Calls -> {Free} \cup Saving]
      /\ parsing'[p] # Free /\ parsing'[p].id = i /\ parsing'[p].code = c
      /\ \A q \in Calls \ {p} : parsing'[q] = parsing[q]
  BY Begin DEF TypeOK, Overwrite
<1>3. [meta |-> c, removed |-> FALSE] \in Record
  BY DEF Record
<1>4. /\ script' \in [Ids -> Record \cup {Nothing}]
      /\ script'[i] # Nothing
      /\ \A j \in Ids \ {i} : script'[j] = script[j]
  BY <1>3, ScriptDBAssumption DEF TypeOK, Overwrite
<1>6. raced' \subseteq Ids
  <2>1. Named(NameOf[c], Returning) \subseteq Ids
    BY DEF Named, Returning, TypeOK
  <2> QED
    BY <2>1 DEF Overwrite, TypeOK
<1>7. TypeOK'
  BY <1>2, <1>4, <1>6 DEF TypeOK, Overwrite, lists
<1>8. \A q \in Calls : parsing'[q] # Free => script'[parsing'[q].id] # Nothing
  BY <1>2, <1>4, InProgress DEF Linked, TypeOK
<1>9. Listed' \subseteq 1 .. maxId'
  BY DEF Linked, Listed, Overwrite, lists
<1> QED
  BY <1>7, <1>8, <1>9 DEF Linked

(* Every step of the specification keeps the types. *)
LEMMA TypeNext ==
  ASSUME TypeOK, Linked, Next
  PROVE  TypeOK' /\ Linked'
<1>0. Op => ops' \in 0 .. MaxOps
  BY ScriptDBAssumption DEF Op, TypeOK
<1>1. ASSUME NEW p \in Calls, NEW c \in Codes, Install(p, c) PROVE TypeOK' /\ Linked'
  <2>1. CASE Create(p, c, Nothing)
    BY <1>0, <1>1, <2>1, CreateType DEF Install
  <2>2. ASSUME NEW i \in Named(NameOf[c], alive), Overwrite(p, i, c, Nothing)
        PROVE  TypeOK' /\ Linked'
    <3>1. i \in Ids
      BY DEF Named, TypeOK
    <3> QED
      BY <1>0, <1>1, <2>2, <3>1, OverwriteType DEF Install
  <2> QED
    BY <1>1, <2>1, <2>2 DEF Install
<1>2. ASSUME NEW p \in Calls, NEW i \in Ids, NEW c \in Codes, Edit(p, i, c)
      PROVE  TypeOK' /\ Linked'
  BY <1>0, <1>2, OverwriteType DEF Edit
<1>3. ASSUME NEW p \in Calls, NEW i \in Ids, NEW c \in Codes, UpdateArrives(p, i, c)
      PROVE  TypeOK' /\ Linked'
  <2>1. ops' \in 0 .. MaxOps
    BY <1>3 DEF UpdateArrives, TypeOK
  <2>2. CASE Overwrite(p, i, c, i)
    BY <1>3, <2>1, <2>2, OverwriteType DEF UpdateArrives
  <2>3. CASE Create(p, c, i)
    BY <1>3, <2>1, <2>3, CreateType DEF UpdateArrives
  <2> QED
    BY <1>3, <2>2, <2>3 DEF UpdateArrives
<1>4. ASSUME NEW i \in Ids, CheckUpdate(i) \/ UpdateEnds(i) PROVE TypeOK' /\ Linked'
  <2>1. /\ UNCHANGED << script, known, alive, trash, maxId, stored, code, parsing, marking, raced >>
        /\ checking' \subseteq Ids /\ ops' \in 0 .. MaxOps
    BY <1>0, <1>4 DEF CheckUpdate, UpdateEnds, lists, TypeOK
  <2> QED
    BY <2>1 DEF TypeOK, Linked, Listed
<1>5. ASSUME NEW p \in Calls, Save(p) \/ SaveFails(p) PROVE TypeOK' /\ Linked'
  <2>1. parsing[p] # Free /\ parsing[p].id \in Ids /\ parsing[p].code \in Codes
    BY <1>5, InProgress DEF Save, SaveFails, TypeOK
  <2>2. /\ parsing' = [parsing EXCEPT ![p] = Free]
        /\ known' = known \cup {parsing[p].id}
        /\ UNCHANGED << script, alive, trash, maxId, marking, ops >>
        /\ checking' \subseteq checking
        /\ raced' \subseteq raced \cup {parsing[p].id}
    BY <1>5 DEF Save, SaveFails
  <2>3. /\ stored' \in [Ids -> Record \cup {Nothing}]
        /\ code' \in [Ids -> Codes \cup {Nothing}]
    BY <1>5, <2>1 DEF Save, SaveFails, TypeOK
  <2>4. script[parsing[p].id] # Nothing
    BY <2>1 DEF Linked
  <2>5. TypeOK'
    BY <2>1, <2>2, <2>3, <2>4 DEF TypeOK
  <2>6. Linked'
    BY <2>2 DEF Linked, Listed, TypeOK
  <2> QED
    BY <2>5, <2>6
<1>6. ASSUME NEW i \in Ids, NEW removed \in BOOLEAN, MarkRemoved(i, removed)
      PROVE  TypeOK' /\ Linked'
  <2>1. script[i] # Nothing
    BY <1>6 DEF MarkRemoved, TypeOK
  <2>2. /\ script' \in [Ids -> Record \cup {Nothing}]
        /\ script'[i] \in Record /\ script'[i] # Nothing
        /\ \A j \in Ids \ {i} : script'[j] = script[j]
    BY <1>6, <2>1, Flagged DEF MarkRemoved, TypeOK
  <2>3. /\ stored' = [stored EXCEPT ![i] = script'[i]]
        /\ marking' = marking \cup {[id |-> i, removed |-> removed]}
        /\ UNCHANGED << known, alive, trash, maxId, code, parsing, checking >>
    BY <1>6 DEF MarkRemoved, lists
  <2>4. Named(Name(i), Returning) \subseteq Ids
    BY DEF Named, Returning, TypeOK
  <2>5. raced' \subseteq Ids
    BY <1>6, <2>4 DEF MarkRemoved, TypeOK
  <2>6. ops' \in 0 .. MaxOps
    BY <1>0, <1>6 DEF MarkRemoved
  <2>7. stored' \in [Ids -> Record \cup {Nothing}]
    BY <2>2, <2>3 DEF TypeOK
  <2>8. marking' \subseteq [id : Ids, removed : BOOLEAN]
    BY <2>3 DEF TypeOK
  <2>9. TypeOK'
    BY <2>2, <2>3, <2>5, <2>6, <2>7, <2>8 DEF TypeOK
  <2>10. Linked'
    BY <2>2, <2>3, InProgress DEF Linked, Listed, TypeOK
  <2> QED
    BY <2>9, <2>10
<1>7. ASSUME NEW m \in marking, Move(m) PROVE TypeOK' /\ Linked'
  <2>1. /\ Listed' = Listed
        /\ alive' \subseteq Listed /\ trash' \subseteq Listed
        /\ alive' \cap trash' = {}
    BY <1>7 DEF Move, Listed, TypeOK
  <2>2. /\ UNCHANGED << script, known, maxId, stored, code, parsing, checking, ops, raced >>
        /\ marking' \subseteq marking
    BY <1>7 DEF Move
  <2> QED
    BY <2>1, <2>2 DEF TypeOK, Linked, Listed
<1>8. ASSUME NEW ids \in SUBSET trash, Purge(ids), ops' \in 0 .. MaxOps PROVE TypeOK' /\ Linked'
  <2>1. /\ known' \subseteq known /\ trash' \subseteq trash
        /\ UNCHANGED << script, alive, maxId, parsing, marking, checking >>
        /\ raced' \subseteq raced \cup ids
    BY <1>8 DEF Purge
  <2>2. /\ stored' \in [Ids -> Record \cup {Nothing}]
        /\ code' \in [Ids -> Codes \cup {Nothing}]
    BY <1>8 DEF Purge, TypeOK
  <2> QED
    BY <1>8, <2>1, <2>2 DEF TypeOK, Linked, Listed
<1>13. ASSUME NEW ids \in SUBSET trash, PurgeFails(ids), ops' \in 0 .. MaxOps
       PROVE  TypeOK' /\ Linked'
  <2>1. /\ known' \subseteq known /\ trash' \subseteq trash
        /\ UNCHANGED << script, alive, maxId, stored, code, parsing, marking, checking >>
        /\ raced' \subseteq raced \cup ids
    BY <1>13 DEF PurgeFails
  <2> QED
    BY <1>13, <2>1 DEF TypeOK, Linked, Listed
<1>9. ASSUME NEW i \in Ids, RemoveScripts(i) PROVE TypeOK' /\ Linked'
  <2>1. {i} \in SUBSET trash
    BY <1>9 DEF RemoveScripts, Purge, PurgeFails
  <2> QED
    BY <1>0, <1>8, <1>9, <1>13, <2>1 DEF RemoveScripts
<1>10. CASE CheckRemove
  BY <1>8, <1>10, <1>13 DEF CheckRemove, TypeOK
<1>14. ASSUME NEW i \in Ids, NEW removed \in BOOLEAN, MarkFails(i, removed)
       PROVE  TypeOK' /\ Linked'
  <2>1. script[i] # Nothing
    BY <1>14 DEF MarkFails, TypeOK
  <2>2. /\ script' \in [Ids -> Record \cup {Nothing}]
        /\ script'[i] # Nothing
        /\ \A j \in Ids \ {i} : script'[j] = script[j]
    BY <1>14, <2>1, Flagged DEF MarkFails, TypeOK
  <2>3. UNCHANGED << known, alive, trash, maxId, stored, code, parsing, marking, checking >>
    BY <1>14 DEF MarkFails, lists
  <2>4. Named(Name(i), Returning) \subseteq Ids
    BY DEF Named, Returning, TypeOK
  <2>5. raced' \subseteq Ids
    BY <1>14, <2>4 DEF MarkFails, TypeOK
  <2>6. ops' \in 0 .. MaxOps
    BY <1>0, <1>14 DEF MarkFails
  <2>7. TypeOK'
    BY <2>2, <2>3, <2>5, <2>6 DEF TypeOK
  <2>8. Linked'
    BY <2>2, <2>3, InProgress DEF Linked, Listed, TypeOK
  <2> QED
    BY <2>7, <2>8
<1>15. ASSUME NEW i \in Ids, UpdateScriptInfo(i) PROVE TypeOK' /\ Linked'
  <2>1. UNCHANGED << script, known, alive, trash, maxId, code, parsing, marking, checking, raced >>
    BY <1>15 DEF UpdateScriptInfo, lists
  <2>2. stored' \in [Ids -> Record \cup {Nothing}] /\ ops' \in 0 .. MaxOps
    BY <1>0, <1>15 DEF UpdateScriptInfo, TypeOK
  <2> QED
    BY <2>1, <2>2 DEF TypeOK, Linked, Listed
<1>11. CASE Vacuum
  <2>1. /\ UNCHANGED << script, known, alive, trash, maxId, stored, parsing, marking, checking,
                        ops, raced >>
        /\ code' \in [Ids -> Codes \cup {Nothing}]
    BY <1>11 DEF Vacuum, lists, TypeOK
  <2> QED
    BY <2>1 DEF TypeOK, Linked, Listed
<1>12. CASE Restart
  <2> DEFINE there == {i \in Ids : stored[i] # Nothing}
             used  == {i \in there : ~stored[i].removed}
  <2>1. PICK kept \in Choice(used) :
          /\ script' = stored
          /\ known' = there
          /\ alive' = kept
          /\ trash' = there \ used
          /\ maxId' \in {0} \cup kept \cup trash'
          /\ \A i \in kept \cup trash' : i <= maxId'
          /\ parsing' = [p \in Calls |-> Free]
          /\ marking' = {}
          /\ checking' = {}
          /\ raced' = (used \ kept) \cup {i \in there : code[i] # stored[i].meta}
          /\ UNCHANGED << stored, code, ops >>
    BY <1>12 DEF Restart
  <2>2. kept \subseteq used
    BY DEF Choice
  <2>3. maxId' \in 0 .. MaxId
    BY <2>1, <2>2, ScriptDBAssumption DEF Ids
  <2>4. Listed' \subseteq 1 .. maxId'
    <3> SUFFICES ASSUME NEW i \in Listed' PROVE i \in 1 .. maxId'
      OBVIOUS
    <3>1. i \in kept \cup trash' /\ i \in Ids
      BY <2>1, <2>2 DEF Listed
    <3>2. i <= maxId'
      BY <2>1, <3>1
    <3> QED
      BY <2>3, <3>1, <3>2 DEF Ids
  <2>5. TypeOK'
    BY <2>1, <2>2, <2>3 DEF TypeOK
  <2> QED
    BY <2>1, <2>4, <2>5 DEF Linked
<1> QED
  BY <1>1, <1>2, <1>3, <1>4, <1>5, <1>6, <1>7, <1>9, <1>10, <1>11, <1>12, <1>14, <1>15 DEF Next

-----------------------------------------------------------------------------
(* The calls that save a script, and the flags that moves of it carry. *)
Savers(i) == {p \in Calls : parsing[p] # Free /\ parsing[p].id = i}
Marks(i) == {removed \in BOOLEAN : [id |-> i, removed |-> removed] \in marking}

(* What is known of a script that met no race: one call at most saves it,  *)
(* and when none does, it is listed just if it is stored and known; the    *)
(* command that moves it, if any, is the one that set its flag.            *)
Kept(i) ==
  Savers(i) = {} =>
    /\ i \in Listed <=> stored[i] # Nothing
    /\ i \in Listed <=> i \in known
    /\ i \in Listed => stored[i] = script[i] /\ code[i] = script[i].meta

BeingSaved(i) ==
  \A p \in Savers(i) :
    /\ Savers(i) = {p}
    /\ i \in Listed
    /\ script[i].meta = parsing[p].code

Placed(i) ==
  /\ \A removed \in Marks(i) : removed = script[i].removed /\ i <= maxId
  /\ Marks(i) = {} =>
       /\ i \in alive => ~script[i].removed
       /\ i \in trash => script[i].removed

Settled(i) == Kept(i) /\ BeingSaved(i) /\ Placed(i)

AllSettled == \A i \in Ids \ raced : Settled(i)

(* A step that does not concern a script leaves it settled. *)
LEMMA Untouched ==
  ASSUME NEW i \in Ids, Settled(i), maxId \in Nat, maxId' \in Nat, maxId <= maxId',
         script'[i] = script[i], stored'[i] = stored[i],
         Savers(i)' = Savers(i), Marks(i)' = Marks(i),
         \A p \in Savers(i) : parsing'[p] = parsing[p],
         i \in known' <=> i \in known, i \in alive' <=> i \in alive, i \in trash' <=> i \in trash,
         i \in Listed => code'[i] = code[i]
  PROVE  Settled(i)'
<1>1. i \in Listed' <=> i \in Listed
  BY DEF Listed
<1>2. Kept(i)'
  BY <1>1 DEF Settled, Kept
<1>3. BeingSaved(i)'
  BY <1>1 DEF Settled, BeingSaved
<1>4. Placed(i)'
  BY ScriptDBAssumption DEF Settled, Placed, Ids
<1> QED
  BY <1>2, <1>3, <1>4 DEF Settled

(* A call of parseScript that begins for a script changes nothing for the  *)
(* other ones.                                                             *)
LEMMA BeginSavers ==
  ASSUME NEW p \in Calls, NEW i \in Ids, parsing[p] = Free,
         parsing'[p] # Free, parsing'[p].id = i, \A q \in Calls \ {p} : parsing'[q] = parsing[q]
  PROVE  /\ Savers(i)' = Savers(i) \cup {p}
         /\ \A j \in Ids \ {i} : Savers(j)' = Savers(j)
         /\ \A j \in Ids : \A q \in Savers(j) : parsing'[q] = parsing[q]
<1>1. Savers(i)' = Savers(i) \cup {p}
  BY DEF Savers
<1>2. ASSUME NEW j \in Ids \ {i} PROVE Savers(j)' = Savers(j)
  BY DEF Savers
<1>3. ASSUME NEW j \in Ids, NEW q \in Savers(j) PROVE parsing'[q] = parsing[q]
  BY DEF Savers
<1> QED
  BY <1>1, <1>2, <1>3

(* A new script is settled, and the other ones stay so. *)
LEMMA CreateSettled ==
  ASSUME TypeOK, Linked, AllSettled, NEW p \in Calls, NEW c \in Codes,
         NEW job \in Ids \cup {Nothing}, parsing[p] = Free, Create(p, c, job),
         UNCHANGED << stored, code, marking >>
  PROVE  AllSettled'
<1>1. PICK i \in Ids : maxId' = i /\ i = maxId + 1 /\ maxId \in Nat
  BY ScriptDBAssumption DEF TypeOK, Create, Ids
<1>2. /\ parsing'[p] # Free /\ parsing'[p].id = i /\ parsing'[p].code = c
      /\ \A q \in Calls \ {p} : parsing'[q] = parsing[q]
  BY <1>1, Begin DEF TypeOK, Create
<1>3. /\ Savers(i)' = Savers(i) \cup {p}
      /\ \A j \in Ids \ {i} : Savers(j)' = Savers(j)
      /\ \A j \in Ids : \A q \in Savers(j) : parsing'[q] = parsing[q]
  BY <1>2, BeginSavers
<1>4. [meta |-> c, removed |-> FALSE] \in Record
  BY DEF Record
<1>5. /\ script'[i].meta = c /\ ~script'[i].removed
      /\ \A j \in Ids \ {i} : script'[j] = script[j]
  BY <1>1, <1>4 DEF TypeOK, Create
<1>6. /\ known' = known /\ trash' = trash /\ alive' = alive \cup {i}
      /\ raced \subseteq raced'
      /\ stored' = stored /\ code' = code
      /\ \A j \in Ids : Marks(j)' = Marks(j)
  BY <1>1 DEF Create, Marks
<1>7. ASSUME NEW j \in Ids \ raced', j # i PROVE Settled(j)'
  <2>1. Settled(j)
    BY <1>6 DEF AllSettled
  <2>2. maxId' \in Nat /\ maxId <= maxId'
    BY <1>1
  <2>3. (j \in alive' <=> j \in alive) /\ (j \in trash' <=> j \in trash)
    BY <1>6, <1>7
  <2> QED
    BY <1>1, <1>3, <1>5, <1>6, <1>7, <2>1, <2>2, <2>3, Untouched
<1>8. ASSUME i \notin raced' PROVE Settled(i)'
  <2>1. Settled(i)
    BY <1>6, <1>8 DEF AllSettled
  <2>2. i \notin Listed
    BY <1>1 DEF Linked
  <2>3. Savers(i) = {}
    BY <2>1, <2>2 DEF Settled, BeingSaved
  <2>4. Marks(i) = {}
    BY <1>1, <2>1 DEF Settled, Placed
  <2>5. Kept(i)'
    BY <1>3 DEF Kept
  <2>6. BeingSaved(i)'
    BY <1>2, <1>3, <1>5, <1>6, <2>3 DEF BeingSaved, Listed
  <2>7. Placed(i)'
    BY <1>5, <1>6, <2>2, <2>4 DEF Placed, Listed
  <2> QED
    BY <2>5, <2>6, <2>7 DEF Settled
<1> QED
  BY <1>7, <1>8 DEF AllSettled

(* An old one is settled unless it met a race, and the other ones stay so. *)
LEMMA OverwriteSettled ==
  ASSUME TypeOK, Linked, AllSettled, NEW p \in Calls, NEW i \in known \cup alive,
         NEW c \in Codes, NEW job \in Ids \cup {Nothing}, parsing[p] = Free,
         Overwrite(p, i, c, job), UNCHANGED << stored, code, marking >>
  PROVE  AllSettled'
<1>1. i \in Ids /\ maxId \in Nat /\ maxId' = maxId
  BY ScriptDBAssumption DEF TypeOK, Overwrite, lists
<1>2. /\ parsing'[p] # Free /\ parsing'[p].id = i /\ parsing'[p].code = c
      /\ \A q \in Calls \ {p} : parsing'[q] = parsing[q]
  BY <1>1, Begin DEF TypeOK, Overwrite
<1>3. /\ Savers(i)' = Savers(i) \cup {p}
      /\ \A j \in Ids \ {i} : Savers(j)' = Savers(j)
      /\ \A j \in Ids : \A q \in Savers(j) : parsing'[q] = parsing[q]
  BY <1>1, <1>2, BeginSavers
<1>4. [meta |-> c, removed |-> FALSE] \in Record
  BY DEF Record
<1>5. /\ script'[i].meta = c /\ ~script'[i].removed
      /\ \A j \in Ids \ {i} : script'[j] = script[j]
  BY <1>1, <1>4 DEF TypeOK, Overwrite
<1>6. /\ known' = known /\ trash' = trash /\ alive' = alive
      /\ raced \subseteq raced'
      /\ stored' = stored /\ code' = code
      /\ \A j \in Ids : Marks(j)' = Marks(j)
  BY <1>1 DEF Overwrite, Marks, lists
<1>7. ASSUME NEW j \in Ids \ raced', j # i PROVE Settled(j)'
  <2>1. Settled(j)
    BY <1>6 DEF AllSettled
  <2> QED
    BY <1>1, <1>3, <1>5, <1>6, <1>7, <2>1, Untouched
<1>8. ASSUME i \notin raced' PROVE Settled(i)'
  <2>1. Settled(i)
    BY <1>1, <1>6, <1>8 DEF AllSettled
  <2>2. i \notin trash /\ ~Parsed(i) /\ ~Marked(i)
    BY <1>8 DEF Overwrite
  <2>3. Savers(i) = {}
    BY <2>2 DEF Savers, Parsed
  <2>4. Marks(i) = {}
    BY <2>2 DEF Marks, Marked
  <2>5. i \in alive
    BY <2>1, <2>2, <2>3 DEF Settled, Kept, Listed
  <2>6. Kept(i)'
    BY <1>3 DEF Kept
  <2>7. BeingSaved(i)'
    BY <1>2, <1>3, <1>5, <1>6, <2>3, <2>5 DEF BeingSaved, Listed
  <2>8. Placed(i)'
    BY <1>1, <1>5, <1>6, <2>2, <2>4 DEF Placed
  <2> QED
    BY <2>6, <2>7, <2>8 DEF Settled
<1> QED
  BY <1>7, <1>8 DEF AllSettled

(* A script that is stored is settled unless that failed. *)
LEMMA SaveSettled ==
  ASSUME TypeOK, Linked, AllSettled, NEW p \in Calls, Save(p) \/ SaveFails(p)
  PROVE  AllSettled'
<1>1. parsing[p] # Free /\ parsing[p].id \in Ids /\ maxId \in Nat
  BY ScriptDBAssumption, InProgress DEF Save, SaveFails, TypeOK
<1> DEFINE i == parsing[p].id
<1>2. /\ UNCHANGED << script, alive, trash, maxId, marking >>
      /\ known' = known \cup {i}
      /\ parsing' = [parsing EXCEPT ![p] = Free]
      /\ raced \subseteq raced'
      /\ \A j \in Ids : Marks(j)' = Marks(j)
  BY DEF Save, SaveFails, Marks
<1>3. \A j \in Ids \ {i} : stored'[j] = stored[j] /\ code'[j] = code[j]
  BY DEF Save, SaveFails, TypeOK
<1>4. i \notin raced' => stored'[i] = script[i] /\ code'[i] = parsing[p].code
  BY <1>1 DEF Save, SaveFails, TypeOK
<1>5. /\ parsing'[p] = Free
      /\ \A q \in Calls \ {p} : parsing'[q] = parsing[q]
  BY <1>2 DEF TypeOK
<1>6. ASSUME NEW j \in Ids \ raced', j # i PROVE Settled(j)'
  <2>1. Settled(j)
    BY <1>2 DEF AllSettled
  <2>2. Savers(j)' = Savers(j) /\ \A q \in Savers(j) : parsing'[q] = parsing[q]
    BY <1>5, <1>6 DEF Savers
  <2>3. j \in known' <=> j \in known
    BY <1>2, <1>6
  <2> QED
    BY <1>1, <1>2, <1>3, <1>6, <2>1, <2>2, <2>3, Untouched
<1>7. ASSUME NEW j \in Ids \ raced', j = i PROVE Settled(j)'
  <2>1. Settled(j)
    BY <1>2 DEF AllSettled
  <2>2. p \in Savers(j)
    BY <1>1, <1>7 DEF Savers
  <2>3. /\ Savers(j) = {p}
        /\ j \in Listed
        /\ script[j].meta = parsing[p].code
        /\ script[j] # Nothing
    BY <1>1, <1>7, <2>1, <2>2 DEF Settled, BeingSaved, Linked
  <2>4. Savers(j)' = {}
    BY <1>5, <2>3 DEF Savers
  <2>5. j \in Listed'
    BY <1>2, <2>3 DEF Listed
  <2>6. Kept(j)'
    BY <1>2, <1>4, <1>7, <2>3, <2>5 DEF Kept
  <2>7. BeingSaved(j)'
    BY <2>4 DEF BeingSaved
  <2>8. Placed(j)'
    BY <1>2, <2>1 DEF Settled, Placed
  <2> QED
    BY <2>6, <2>7, <2>8 DEF Settled
<1> QED
  BY <1>6, <1>7 DEF AllSettled

(* A script is settled while it is on its way to the other list, unless    *)
(* two commands move it.                                                   *)
LEMMA MarkSettled ==
  ASSUME TypeOK, Linked, AllSettled, NEW i \in Ids, NEW removed \in BOOLEAN,
         MarkRemoved(i, removed)
  PROVE  AllSettled'
<1>1. script[i] # Nothing /\ i \in known /\ maxId \in Nat
  BY ScriptDBAssumption DEF MarkRemoved, TypeOK
<1>2. /\ script'[i] # Nothing /\ script'[i].removed = removed
      /\ script'[i].meta = script[i].meta
      /\ \A j \in Ids \ {i} : script'[j] = script[j]
  BY <1>1, Flagged DEF MarkRemoved, TypeOK
<1>3. /\ stored'[i] = script'[i]
      /\ \A j \in Ids \ {i} : stored'[j] = stored[j]
      /\ UNCHANGED << known, alive, trash, maxId, code, parsing >>
      /\ raced \subseteq raced'
      /\ \A j \in Ids : Savers(j)' = Savers(j)
  BY DEF MarkRemoved, lists, TypeOK, Savers
<1>4. /\ Marks(i)' = Marks(i) \cup {removed}
      /\ \A j \in Ids \ {i} : Marks(j)' = Marks(j)
  <2>1. marking' = marking \cup {[id |-> i, removed |-> removed]}
    BY DEF MarkRemoved
  <2>2. \A j \in Ids, r \in BOOLEAN : [id |-> j, removed |-> r] = [id |-> i, removed |-> removed]
                                      <=> j = i /\ r = removed
    <3> SUFFICES ASSUME NEW j \in Ids, NEW r \in BOOLEAN,
                        [id |-> j, removed |-> r] = [id |-> i, removed |-> removed]
                 PROVE  j = i /\ r = removed
      OBVIOUS
    <3>1. [id |-> j, removed |-> r].id = [id |-> i, removed |-> removed].id
      OBVIOUS
    <3>2. [id |-> j, removed |-> r].removed = [id |-> i, removed |-> removed].removed
      OBVIOUS
    <3> QED
      BY <3>1, <3>2
  <2> QED
    BY <2>1, <2>2 DEF Marks
<1>5. ASSUME NEW j \in Ids \ raced', j # i PROVE Settled(j)'
  <2>1. Settled(j)
    BY <1>3 DEF AllSettled
  <2> QED
    BY <1>1, <1>2, <1>3, <1>4, <1>5, <2>1, Untouched
<1>6. ASSUME i \notin raced' PROVE Settled(i)'
  <2>1. Settled(i)
    BY <1>3, <1>6 DEF AllSettled
  <2>2. Marks(i) = {}
    <3>1. ~Marked(i)
      BY <1>6 DEF MarkRemoved
    <3> QED
      BY <3>1 DEF Marks, Marked
  <2>3. i \in Listed
    <3>1. CASE Savers(i) = {}
      BY <1>1, <2>1, <3>1 DEF Settled, Kept
    <3>2. CASE Savers(i) # {}
      BY <2>1, <3>2 DEF Settled, BeingSaved
    <3> QED
      BY <3>1, <3>2
  <2>4. i <= maxId
    <3>1. maxId \in Nat
      BY <1>1 DEF TypeOK
    <3>2. i \in 1 .. maxId
      BY <1>1, <2>3 DEF Linked
    <3> QED
      BY <3>1, <3>2
  <2>5. Kept(i)'
    BY <1>1, <1>2, <1>3, <2>1, <2>3 DEF Settled, Kept, Listed
  <2>6. BeingSaved(i)'
    BY <1>2, <1>3, <2>1 DEF Settled, BeingSaved, Listed
  <2>7. Placed(i)'
    BY <1>2, <1>3, <1>4, <2>2, <2>4 DEF Placed
  <2> QED
    BY <2>5, <2>6, <2>7 DEF Settled
<1> QED
  BY <1>5, <1>6 DEF AllSettled

(* A script that was moved is in the list that its flag says. *)
LEMMA MoveSettled ==
  ASSUME TypeOK, Linked, AllSettled, NEW m \in marking, Move(m)
  PROVE  AllSettled'
<1>1. m.id \in Ids /\ m.removed \in BOOLEAN /\ maxId \in Nat
  BY ScriptDBAssumption DEF TypeOK
<1>2. /\ UNCHANGED << script, known, maxId, stored, code, parsing, raced >>
      /\ \A j \in Ids : Savers(j)' = Savers(j)
      /\ marking' = marking \ {m}
  BY DEF Move, Savers
<1>3. Listed' = Listed
  BY DEF Move, Listed
<1>4. \A j \in Ids, r \in BOOLEAN : [id |-> j, removed |-> r] = m <=> j = m.id /\ r = m.removed
  BY DEF TypeOK
<1>5. /\ Marks(m.id)' = Marks(m.id) \ {m.removed} /\ m.removed \in Marks(m.id)
      /\ \A j \in Ids \ {m.id} : Marks(j)' = Marks(j)
  BY <1>1, <1>2, <1>4 DEF Marks
<1>6. ASSUME NEW j \in Ids \ raced', j # m.id PROVE Settled(j)'
  <2>1. Settled(j)
    BY <1>2 DEF AllSettled
  <2>2. (j \in alive' <=> j \in alive) /\ (j \in trash' <=> j \in trash)
    BY <1>6 DEF Move
  <2> QED
    BY <1>1, <1>2, <1>5, <1>6, <2>1, <2>2, Untouched
<1>7. ASSUME NEW j \in Ids \ raced', j = m.id PROVE Settled(j)'
  <2>1. Settled(j)
    BY <1>2 DEF AllSettled
  <2>2. m.removed \in Marks(j) /\ Marks(j)' = Marks(j) \ {m.removed}
    BY <1>5, <1>7
  <2>3. /\ m.removed = script[j].removed
        /\ Marks(j)' = {}
    BY <2>1, <2>2 DEF Settled, Placed
  <2>4. /\ j \in alive' => ~m.removed
        /\ j \in trash' => m.removed
    BY <1>1, <1>7 DEF Move, TypeOK
  <2>5. Kept(j)'
    BY <1>2, <1>3, <2>1 DEF Settled, Kept
  <2>6. BeingSaved(j)'
    BY <1>2, <1>3, <2>1 DEF Settled, BeingSaved
  <2>7. Placed(j)'
    BY <1>2, <2>3, <2>4 DEF Placed
  <2> QED
    BY <2>5, <2>6, <2>7 DEF Settled
<1> QED
  BY <1>6, <1>7 DEF AllSettled

(* Scripts that are removed for good are settled unless a call saves them. *)
LEMMA PurgeSettled ==
  ASSUME TypeOK, Linked, AllSettled, NEW ids \in SUBSET trash, Purge(ids)
  PROVE  AllSettled'
<1>1. maxId \in Nat /\ ids \subseteq Ids /\ ids \cap alive = {}
  BY ScriptDBAssumption DEF TypeOK
<1>2. /\ UNCHANGED << script, alive, maxId, parsing, marking >>
      /\ known' = known \ ids /\ trash' = trash \ ids
      /\ raced \subseteq raced'
      /\ \A j \in Ids : Savers(j)' = Savers(j) /\ Marks(j)' = Marks(j)
  BY DEF Purge, Savers, Marks
<1>3. \A j \in Ids : /\ stored'[j] = IF j \in ids THEN Nothing ELSE stored[j]
                     /\ code'[j] = IF j \in ids THEN Nothing ELSE code[j]
  BY DEF Purge
<1>4. ASSUME NEW j \in Ids \ raced', j \notin ids PROVE Settled(j)'
  <2>1. Settled(j)
    BY <1>2 DEF AllSettled
  <2>2. (j \in known' <=> j \in known) /\ (j \in trash' <=> j \in trash)
    BY <1>2, <1>4
  <2> QED
    BY <1>1, <1>2, <1>3, <1>4, <2>1, <2>2, Untouched
<1>5. ASSUME NEW j \in Ids \ raced', j \in ids PROVE Settled(j)'
  <2>1. Settled(j)
    BY <1>2 DEF AllSettled
  <2>2. Savers(j) = {}
    <3>1. ~Parsed(j)
      BY <1>5 DEF Purge
    <3> QED
      BY <3>1 DEF Savers, Parsed
  <2>3. j \notin Listed' /\ j \notin known' /\ stored'[j] = Nothing
    BY <1>1, <1>2, <1>3, <1>5 DEF Listed
  <2>4. Kept(j)'
    BY <2>3 DEF Kept
  <2>5. BeingSaved(j)'
    BY <1>2, <2>2 DEF BeingSaved
  <2>6. Placed(j)'
    BY <1>2, <2>1, <2>3 DEF Settled, Placed, Listed
  <2> QED
    BY <2>4, <2>5, <2>6 DEF Settled
<1> QED
  BY <1>4, <1>5 DEF AllSettled

(* A rejected write disturbs the scripts it was to mark or to remove only. *)
LEMMA RejectedSettled ==
  ASSUME TypeOK, AllSettled, NEW ids \in SUBSET Ids, ids \subseteq raced', raced \subseteq raced',
         UNCHANGED << maxId, stored, code, parsing, marking >>,
         \A j \in Ids \ ids :
           /\ script'[j] = script[j]
           /\ j \in known' <=> j \in known
           /\ j \in alive' <=> j \in alive
           /\ j \in trash' <=> j \in trash
  PROVE  AllSettled'
<1>1. maxId \in Nat
  BY ScriptDBAssumption DEF TypeOK
<1>2. ASSUME NEW j \in Ids \ raced' PROVE Settled(j)'
  <2>1. Settled(j) /\ j \notin ids
    BY DEF AllSettled
  <2>2. Savers(j)' = Savers(j) /\ Marks(j)' = Marks(j)
    BY DEF Savers, Marks
  <2> QED
    BY <1>1, <2>1, <2>2, Untouched
<1> QED
  BY <1>2 DEF AllSettled

(* The record of a script that no call saves is stored as it was; one that *)
(* a call saves may be stored early.                                       *)
LEMMA InfoSettled ==
  ASSUME TypeOK, Linked, AllSettled, NEW i \in Ids, UpdateScriptInfo(i)
  PROVE  AllSettled'
<1>1. maxId \in Nat
  BY ScriptDBAssumption DEF TypeOK
<1>2. /\ UNCHANGED << script, known, alive, trash, maxId, code, parsing, marking, raced >>
      /\ i \in known /\ stored'[i] = script[i]
      /\ \A j \in Ids \ {i} : stored'[j] = stored[j]
      /\ \A j \in Ids : Savers(j)' = Savers(j) /\ Marks(j)' = Marks(j)
  BY DEF UpdateScriptInfo, lists, TypeOK, Savers, Marks
<1>3. ASSUME NEW j \in Ids \ raced', j # i PROVE Settled(j)'
  <2>1. Settled(j)
    BY <1>2 DEF AllSettled
  <2> QED
    BY <1>1, <1>2, <1>3, <2>1, Untouched
<1>4. ASSUME i \notin raced' PROVE Settled(i)'
  <2>1. Settled(i)
    BY <1>2, <1>4 DEF AllSettled
  <2>2. CASE Savers(i) = {}
    <3>1. stored[i] = script[i]
      BY <1>2, <2>1, <2>2 DEF Settled, Kept
    <3> QED
      BY <1>1, <1>2, <2>1, <3>1, Untouched
  <2>3. CASE Savers(i) # {}
    <3>1. Kept(i)'
      BY <1>2, <2>3 DEF Kept
    <3>2. BeingSaved(i)'
      BY <1>2, <2>1 DEF Settled, BeingSaved, Listed
    <3>3. Placed(i)'
      BY <1>2, <2>1 DEF Settled, Placed
    <3> QED
      BY <3>1, <3>2, <3>3 DEF Settled
  <2> QED
    BY <2>2, <2>3
<1> QED
  BY <1>3, <1>4 DEF AllSettled

(* After a restart every script is settled that startup put into a list    *)
(* and whose code belongs to it.                                           *)
LEMMA RestartSettled ==
  ASSUME TypeOK, Restart
  PROVE  AllSettled'
<1> DEFINE there == {i \in Ids : stored[i] # Nothing}
           used  == {i \in there : ~stored[i].removed}
<1>1. PICK kept \in Choice(used) :
        /\ script' = stored
        /\ known' = there
        /\ alive' = kept
        /\ trash' = there \ used
        /\ parsing' = [p \in Calls |-> Free]
        /\ marking' = {}
        /\ raced' = (used \ kept) \cup {i \in there : code[i] # stored[i].meta}
        /\ UNCHANGED << stored, code, ops >>
  BY DEF Restart
<1>2. kept \subseteq used
  BY DEF Choice
<1>3. ASSUME NEW i \in Ids \ raced' PROVE Settled(i)'
  <2>1. Savers(i)' = {} /\ Marks(i)' = {}
    BY <1>1 DEF Savers, Marks
  <2>2. i \in Listed' <=> i \in there
    BY <1>1, <1>2, <1>3 DEF Listed
  <2>3. i \in there => code[i] = stored[i].meta
    BY <1>1, <1>3
  <2>4. Kept(i)'
    BY <1>1, <2>2, <2>3 DEF Kept
  <2>5. BeingSaved(i)'
    BY <2>1 DEF BeingSaved
  <2>6. Placed(i)'
    BY <1>1, <1>2, <2>1 DEF Placed
  <2> QED
    BY <2>4, <2>5, <2>6 DEF Settled
<1> QED
  BY <1>3 DEF AllSettled

(* Every step keeps settled what met no race. *)
LEMMA SettledNext ==
  ASSUME TypeOK, Linked, AllSettled, Next
  PROVE  AllSettled'
<1>0. maxId \in Nat
  BY ScriptDBAssumption DEF TypeOK
<1>1. ASSUME NEW p \in Calls, NEW c \in Codes, Install(p, c) PROVE AllSettled'
  <2>1. CASE Create(p, c, Nothing)
    BY <1>1, <2>1, CreateSettled DEF Install
  <2>2. ASSUME NEW i \in Named(NameOf[c], alive), Overwrite(p, i, c, Nothing)
        PROVE  AllSettled'
    <3>1. i \in known \cup alive
      BY DEF Named
    <3> QED
      BY <1>1, <2>2, <3>1, OverwriteSettled DEF Install
  <2> QED
    BY <1>1, <2>1, <2>2 DEF Install
<1>2. ASSUME NEW p \in Calls, NEW i \in Ids, NEW c \in Codes, Edit(p, i, c)
      PROVE  AllSettled'
  BY <1>2, OverwriteSettled DEF Edit
<1>3. ASSUME NEW p \in Calls, NEW i \in Ids, NEW c \in Codes, UpdateArrives(p, i, c)
      PROVE  AllSettled'
  <2>1. CASE i \in known
    BY <1>3, <2>1, OverwriteSettled DEF UpdateArrives
  <2>2. CASE i \notin known
    BY <1>3, <2>2, CreateSettled DEF UpdateArrives
  <2> QED
    BY <2>1, <2>2
<1>4. ASSUME UNCHANGED << script, known, alive, trash, maxId, stored, parsing, marking, raced >>,
             \A i \in Listed : code'[i] = code[i]
      PROVE  AllSettled'
  <2>1. \A i \in Ids : Savers(i)' = Savers(i) /\ Marks(i)' = Marks(i)
    BY <1>4 DEF Savers, Marks
  <2>2. ASSUME NEW i \in Ids \ raced' PROVE Settled(i)'
    <3>1. Settled(i)
      BY <1>4 DEF AllSettled
    <3> QED
      BY <1>0, <1>4, <2>1, <3>1, Untouched
  <2> QED
    BY <2>2 DEF AllSettled
<1>5. ASSUME NEW i \in Ids, CheckUpdate(i) \/ UpdateEnds(i) PROVE AllSettled'
  BY <1>4, <1>5 DEF CheckUpdate, UpdateEnds, lists
<1>6. CASE Vacuum
  BY <1>4, <1>6 DEF Vacuum, lists, Listed, TypeOK
<1>9. ASSUME NEW ids \in SUBSET trash, PurgeFails(ids) PROVE AllSettled'
  <2>1. ids \in SUBSET Ids /\ ids \cap alive = {}
    BY DEF TypeOK
  <2>2. /\ UNCHANGED << script, alive, maxId, stored, code, parsing, marking >>
        /\ known' = known \ ids /\ trash' = trash \ ids /\ raced' = raced \cup ids
    BY <1>9 DEF PurgeFails
  <2> QED
    BY <2>1, <2>2, RejectedSettled
<1>10. ASSUME NEW i \in Ids, NEW removed \in BOOLEAN, MarkFails(i, removed) PROVE AllSettled'
  <2>1. script[i] # Nothing
    BY <1>10 DEF MarkFails, TypeOK
  <2>2. \A j \in Ids \ {i} : script'[j] = script[j]
    BY <1>10, <2>1, Flagged DEF MarkFails, TypeOK
  <2>3. /\ UNCHANGED << known, alive, trash, maxId, stored, code, parsing, marking >>
        /\ i \in raced' /\ raced \subseteq raced'
    BY <1>10 DEF MarkFails, lists
  <2>4. {i} \in SUBSET Ids /\ {i} \subseteq raced'
    BY <2>3
  <2>5. \A j \in Ids \ {i} :
          /\ script'[j] = script[j]
          /\ j \in known' <=> j \in known
          /\ j \in alive' <=> j \in alive
          /\ j \in trash' <=> j \in trash
    BY <2>2, <2>3
  <2> QED
    BY <2>3, <2>4, <2>5, RejectedSettled
<1>7. ASSUME NEW i \in Ids, RemoveScripts(i) PROVE AllSettled'
  <2>1. {i} \in SUBSET trash
    BY <1>7 DEF RemoveScripts, Purge, PurgeFails
  <2> QED
    BY <1>7, <1>9, <2>1, PurgeSettled DEF RemoveScripts
<1>8. CASE CheckRemove
  BY <1>8, <1>9, PurgeSettled DEF CheckRemove
<1> QED
  BY <1>1, <1>2, <1>3, <1>5, <1>6, <1>7, <1>8, <1>10, InfoSettled, SaveSettled, MarkSettled,
     MoveSettled, RestartSettled DEF Next

-----------------------------------------------------------------------------
(* The scripts whose names must differ. *)
InUse == alive \cup Returning

(* Names stay unique as long as no script comes into use or changes. *)
LEMMA NamesRest ==
  ASSUME NamesAreUnique, \A i \in InUse' \ raced' : i \in InUse \ raced /\ script'[i] = script[i]
  PROVE  NamesAreUnique'
  BY DEF NamesAreUnique, InUse, Name

(* One script comes into use or changes, and no other one has its name     *)
(* that met no race.                                                       *)
LEMMA NamesWith ==
  ASSUME NamesAreUnique, NEW i \in Ids, NEW n, Name(i)' = n,
         \A j \in (InUse' \ raced') \ {i} :
           /\ j \in InUse \ raced /\ script'[j] = script[j]
           /\ i \notin raced' => Name(j) # n
  PROVE  NamesAreUnique'
<1>1. ASSUME NEW j \in InUse' \ raced', NEW k \in InUse' \ raced', j # k, j # i, k # i
      PROVE  Name(j)' # Name(k)'
  BY <1>1 DEF NamesAreUnique, InUse, Name
<1>2. ASSUME NEW j \in InUse' \ raced', j # i, i \notin raced'
      PROVE  Name(j)' # Name(i)'
  BY <1>2 DEF Name
<1> QED
  BY <1>1, <1>2 DEF NamesAreUnique, InUse

(* A script of a name in use met a race when a new one gets the name. *)
LEMMA CreateNames ==
  ASSUME TypeOK, Linked, NamesAreUnique, NEW p \in Calls, NEW c \in Codes, NEW job,
         Create(p, c, job)
  PROVE  NamesAreUnique'
<1>1. PICK i \in Ids : maxId' = i /\ i = maxId + 1
  BY ScriptDBAssumption DEF TypeOK, Create, Ids
<1>2. [meta |-> c, removed |-> FALSE] \in Record
  BY DEF Record
<1>3. /\ Name(i)' = NameOf[c]
      /\ \A j \in Ids \ {i} : script'[j] = script[j]
  BY <1>1, <1>2 DEF TypeOK, Create, Name
<1>4. i \notin trash
  BY <1>1 DEF Linked, Listed, TypeOK
<1>5. ASSUME NEW j \in (InUse' \ raced') \ {i}
      PROVE  j \in InUse \ raced /\ script'[j] = script[j] /\ Name(j) # NameOf[c]
  <2>1. j \in Ids
    BY <1>1 DEF InUse, Returning, Create, TypeOK
  <2>2. j \in InUse
    BY <1>1, <1>3, <2>1 DEF InUse, Returning, Create
  <2>3. j \notin raced /\ j \notin Named(NameOf[c], InUse)
    BY DEF Create, InUse
  <2> QED
    BY <1>3, <2>1, <2>2, <2>3 DEF Named
<1> QED
  BY <1>3, <1>5, NamesWith

(* No other script in use has the name that a script gets. *)
LEMMA OverwriteNames ==
  ASSUME TypeOK, NamesAreUnique, NEW p \in Calls, NEW i \in Ids, NEW c \in Codes, NEW job,
         Overwrite(p, i, c, job)
  PROVE  NamesAreUnique'
<1>1. [meta |-> c, removed |-> FALSE] \in Record
  BY DEF Record
<1>2. /\ Name(i)' = NameOf[c]
      /\ \A j \in Ids \ {i} : script'[j] = script[j]
  BY <1>1 DEF TypeOK, Overwrite, Name
<1>3. ASSUME NEW j \in (InUse' \ raced') \ {i}
      PROVE  /\ j \in InUse \ raced /\ script'[j] = script[j]
             /\ i \notin raced' => Name(j) # NameOf[c]
  <2>1. j \in Ids
    BY DEF InUse, Returning, Overwrite, lists, TypeOK
  <2>2. j \in InUse
    BY <1>2, <2>1 DEF InUse, Returning, Overwrite, lists
  <2>3. j \notin raced /\ j \notin Named(NameOf[c], Returning) \ {i}
    BY DEF Overwrite
  <2>4. j \notin Named(NameOf[c], alive)
    BY <1>3 DEF Overwrite
  <2> QED
    BY <1>2, <2>1, <2>2, <2>3, <2>4 DEF Named, InUse
<1> QED
  BY <1>2, <1>3, NamesWith

(* A script is not restored next to one of its name. *)
LEMMA MarkNames ==
  ASSUME TypeOK, NamesAreUnique, NEW i \in Ids, NEW removed \in BOOLEAN, MarkRemoved(i, removed)
  PROVE  NamesAreUnique'
<1>1. script[i] # Nothing
  BY DEF MarkRemoved, TypeOK
<1>2. /\ script'[i].removed = removed
      /\ script'[i].meta = script[i].meta
      /\ \A j \in Ids \ {i} : script'[j] = script[j]
  BY <1>1, Flagged DEF MarkRemoved, TypeOK
<1>3. Name(i)' = Name(i)
  BY <1>2 DEF Name
<1>4. alive' = alive /\ trash' = trash /\ raced \subseteq raced'
  BY DEF MarkRemoved, lists
<1>5. \A j \in Ids \ {i} : j \in InUse' <=> j \in InUse
  BY <1>2, <1>4 DEF InUse, Returning
<1>6. InUse' \subseteq Ids
  BY <1>4 DEF InUse, Returning, TypeOK
<1>7. CASE removed
  <2>1. i \in InUse' => i \in InUse
    BY <1>2, <1>4, <1>7 DEF InUse, Returning
  <2>2. \A j \in InUse \ raced : j # i /\ i \in InUse \ raced => Name(j) # Name(i)
    BY DEF NamesAreUnique, InUse
  <2>3. CASE i \in InUse'
    BY <1>2, <1>3, <1>4, <1>5, <1>6, <2>1, <2>2, <2>3, NamesWith
  <2>4. CASE i \notin InUse'
    BY <1>2, <1>4, <1>5, <1>6, <2>4, NamesRest
  <2> QED
    BY <2>3, <2>4
<1>8. CASE ~removed
  <2>1. ASSUME NEW j \in (InUse' \ raced') \ {i}
        PROVE  /\ j \in InUse \ raced /\ script'[j] = script[j] /\ Name(j) # Name(i)
    <3>1. j \in InUse \ raced /\ script'[j] = script[j]
      BY <1>2, <1>4, <1>5, <1>6
    <3>2. j \notin Named(Name(i), Returning) \ {i}
      BY <1>8 DEF MarkRemoved
    <3>3. j \notin Named(Name(i), alive)
      BY <1>8 DEF MarkRemoved
    <3> QED
      BY <3>1, <3>2, <3>3 DEF Named, InUse
  <2> QED
    BY <1>3, <2>1, NamesWith
<1> QED
  BY <1>7, <1>8

(* A script whose mark could not be stored met a race. *)
LEMMA MarkFailsNames ==
  ASSUME TypeOK, NamesAreUnique, NEW i \in Ids, NEW removed \in BOOLEAN, MarkFails(i, removed)
  PROVE  NamesAreUnique'
<1>1. script[i] # Nothing
  BY DEF MarkFails, TypeOK
<1>2. \A j \in Ids \ {i} : script'[j] = script[j]
  BY <1>1, Flagged DEF MarkFails, TypeOK
<1>3. alive' = alive /\ trash' = trash /\ raced \subseteq raced' /\ i \in raced'
  BY DEF MarkFails, lists
<1>4. InUse' \subseteq Ids
  BY <1>3 DEF InUse, Returning, TypeOK
<1>5. ASSUME NEW j \in InUse' \ raced' PROVE j \in InUse \ raced /\ script'[j] = script[j]
  <2>1. j \in Ids \ {i}
    BY <1>3, <1>4
  <2> QED
    BY <1>2, <1>3, <2>1 DEF InUse, Returning
<1> QED
  BY <1>5, NamesRest

(* A script that is moved was in use before, if it is after. *)
LEMMA MoveNames ==
  ASSUME TypeOK, AllSettled, NamesAreUnique, NEW m \in marking, Move(m)
  PROVE  NamesAreUnique'
<1>1. m.id \in Ids /\ m.removed \in BOOLEAN /\ m = [id |-> m.id, removed |-> m.removed]
  BY DEF TypeOK
<1>2. UNCHANGED << script, raced >>
  BY DEF Move
<1>3. ASSUME m.id \notin raced PROVE script[m.id].removed = m.removed
  <2>1. m.removed \in Marks(m.id)
    BY <1>1 DEF Marks
  <2> QED
    BY <1>1, <1>3, <2>1 DEF AllSettled, Settled, Placed
<1>4. ASSUME NEW j \in InUse' \ raced' PROVE j \in InUse \ raced
  <2>1. CASE j = m.id
    BY <1>1, <1>2, <1>3, <2>1 DEF Move, InUse, Returning
  <2>2. CASE j # m.id
    BY <1>2, <2>2 DEF Move, InUse, Returning
  <2> QED
    BY <2>1, <2>2
<1> QED
  BY <1>2, <1>4, NamesRest

(* Startup takes one script of each name. *)
LEMMA RestartNames ==
  ASSUME TypeOK, Restart
  PROVE  NamesAreUnique'
<1> DEFINE there == {i \in Ids : stored[i] # Nothing}
           used  == {i \in there : ~stored[i].removed}
<1>1. PICK kept \in Choice(used) :
        /\ script' = stored /\ alive' = kept /\ trash' = there \ used
  BY DEF Restart
<1>2. /\ kept \subseteq used
      /\ \A i, j \in kept : i # j => StoredName(i) # StoredName(j)
  BY DEF Choice
<1>3. Returning' = {}
  BY <1>1 DEF Returning
<1> QED
  BY <1>1, <1>2, <1>3 DEF NamesAreUnique, Name, StoredName

(* Every step keeps the names of scripts unique that met no race. *)
LEMMA NamesNext ==
  ASSUME TypeOK, Linked, AllSettled, NamesAreUnique, Next
  PROVE  NamesAreUnique'
<1>1. ASSUME NEW p \in Calls, NEW c \in Codes, Install(p, c) PROVE NamesAreUnique'
  <2>1. ASSUME NEW i \in Named(NameOf[c], alive), Overwrite(p, i, c, Nothing)
        PROVE  NamesAreUnique'
    <3>1. i \in Ids
      BY DEF Named, TypeOK
    <3> QED
      BY <2>1, <3>1, OverwriteNames
  <2> QED
    BY <1>1, <2>1, CreateNames DEF Install
<1>2. ASSUME NEW p \in Calls, NEW i \in Ids, NEW c \in Codes, Edit(p, i, c)
      PROVE  NamesAreUnique'
  BY <1>2, OverwriteNames DEF Edit
<1>3. ASSUME NEW p \in Calls, NEW i \in Ids, NEW c \in Codes, UpdateArrives(p, i, c)
      PROVE  NamesAreUnique'
  BY <1>3, OverwriteNames, CreateNames DEF UpdateArrives
<1>4. ASSUME UNCHANGED << script, alive >>, trash' \subseteq trash, raced \subseteq raced'
      PROVE  NamesAreUnique'
  BY <1>4, NamesRest DEF InUse, Returning
<1>5. ASSUME NEW i \in Ids, CheckUpdate(i) \/ UpdateEnds(i) PROVE NamesAreUnique'
  BY <1>4, <1>5 DEF CheckUpdate, UpdateEnds, lists
<1>6. ASSUME NEW p \in Calls, Save(p) \/ SaveFails(p) PROVE NamesAreUnique'
  BY <1>4, <1>6 DEF Save, SaveFails
<1>7. CASE Vacuum
  BY <1>4, <1>7 DEF Vacuum, lists
<1>8. ASSUME NEW i \in Ids, RemoveScripts(i) PROVE NamesAreUnique'
  BY <1>4, <1>8 DEF RemoveScripts, Purge, PurgeFails
<1>9. CASE CheckRemove
  BY <1>4, <1>9 DEF CheckRemove, Purge, PurgeFails
<1>10. ASSUME NEW i \in Ids, UpdateScriptInfo(i) PROVE NamesAreUnique'
  BY <1>4, <1>10 DEF UpdateScriptInfo, lists
<1> QED
  BY <1>1, <1>2, <1>3, <1>5, <1>6, <1>7, <1>8, <1>9, <1>10, MarkNames, MarkFailsNames, MoveNames,
     RestartNames DEF Next

-----------------------------------------------------------------------------
(* Nothing is there at the start. *)
LEMMA SettledInit == Init => AllSettled /\ NamesAreUnique
<1> SUFFICES ASSUME Init PROVE AllSettled /\ NamesAreUnique
  OBVIOUS
<1>1. Listed = {} /\ known = {} /\ alive = {} /\ trash = {}
  BY DEF Init, Listed
<1>2. ASSUME NEW i \in Ids PROVE Settled(i)
  <2>1. Savers(i) = {} /\ Marks(i) = {} /\ stored[i] = Nothing
    BY DEF Init, Savers, Marks
  <2> QED
    BY <1>1, <2>1 DEF Settled, Kept, BeingSaved, Placed
<1>3. NamesAreUnique
  BY <1>1 DEF NamesAreUnique, Returning
<1> QED
  BY <1>2, <1>3 DEF AllSettled

(* What is settled is found again by a restart. *)
LEMMA SettledIsFound == AllSettled => RestartFindsTheSame
<1> SUFFICES ASSUME AllSettled PROVE RestartFindsTheSame
  OBVIOUS
<1>1. ASSUME NEW i \in Ids \ raced, ~Parsed(i)
      PROVE  /\ i \in alive \cup trash <=> stored[i] # Nothing
             /\ i \in alive \cup trash => stored[i] = script[i] /\ code[i] = script[i].meta
  <2>1. Savers(i) = {}
    BY <1>1 DEF Parsed, Savers
  <2> QED
    BY <2>1 DEF AllSettled, Settled, Kept, Listed
<1>2. ASSUME NEW i \in Ids \ raced, ~Marked(i)
      PROVE  /\ i \in alive => ~script[i].removed
             /\ i \in trash => script[i].removed
  <2>1. Marks(i) = {}
    BY <1>2 DEF Marked, Marks
  <2> QED
    BY <2>1 DEF AllSettled, Settled, Placed
<1> QED
  BY <1>1, <1>2 DEF RestartFindsTheSame

(* All parts together are inductive. *)
Inv == TypeOK /\ Linked /\ AllSettled /\ NamesAreUnique

(* The invariant holds in every reachable state. *)
LEMMA Inductive == Spec => []Inv
<1>1. Init => Inv
  BY TypeInit, SettledInit DEF Inv
<1>2. Inv /\ [Next]_vars => Inv'
  <2>1. CASE Inv /\ Next
    BY <2>1, TypeNext, SettledNext, NamesNext DEF Inv
  <2>2. CASE Inv /\ UNCHANGED vars
    <3>1. UNCHANGED << script, known, alive, trash, maxId, stored, code, parsing, marking,
                       checking, ops, raced >>
      BY <2>2 DEF vars
    <3>2. TypeOK' /\ Linked'
      BY <2>2, <3>1 DEF Inv, TypeOK, Linked, Listed
    <3>3. NamesAreUnique'
      BY <2>2, <3>1 DEF Inv, NamesAreUnique, Returning, Name
    <3>4. AllSettled'
      BY <2>2, <3>1 DEF Inv, AllSettled, Settled, Kept, BeingSaved, Placed, Savers, Marks, Listed
    <3> QED
      BY <3>2, <3>3, <3>4 DEF Inv
  <2> QED
    BY <2>1, <2>2
<1> QED
  BY <1>1, <1>2, PTL DEF Spec

(* Every variable has its type in every reachable state. *)
THEOREM TypeCorrect == Spec => []TypeOK
<1>1. Inv => TypeOK
  BY DEF Inv
<1> QED
  BY <1>1, Inductive, PTL

(* No two scripts in use share a name, but for those that met a race which *)
(* parseScript, MarkRemoved, the update of a script that is gone or a      *)
(* rejected write leaves open.                                             *)
THEOREM NamesUnique == Spec => []NamesAreUnique
<1>1. Inv => NamesAreUnique
  BY DEF Inv
<1> QED
  BY <1>1, Inductive, PTL

(* What is in memory of a script that met none of these races is what a    *)
(* restart would rebuild from the storage area.  The set, the MarkRemoved  *)
(* or the purge that the storage area rejects is a race: the theorem says  *)
(* that it does no harm to any other script.                               *)
THEOREM RestartFinds == Spec => []RestartFindsTheSame
<1>1. Inv => RestartFindsTheSame
  BY SettledIsFound DEF Inv
<1> QED
  BY <1>1, Inductive, PTL
=============================================================================
