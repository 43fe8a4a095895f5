------------------------------ MODULE ScriptDB ------------------------------
(***************************************************************************)
(* The script database (background/utils/db.js, script.js) with the checks *)
(* for updates (update.js): scripts are installed, edited, updated, put    *)
(* into the recycle bin, restored and removed for good, by commands that   *)
(* overlap wherever the code awaits something, and a background page that  *)
(* stops at any time and rebuilds its lists from the storage area.         *)
(*                                                                         *)
(* A script is known by its id and, among those in use, by its name (name  *)
(* and namespace of its metadata, `props.uri`).  A code stands for its     *)
(* metadata too.  Writes take effect in the order they are made.           *)
(* Positions, sizes and the downloaded dependencies are left out.          *)
(***************************************************************************)
EXTENDS Naturals, FiniteSets

CONSTANTS
  MaxId,      \* bound: ids given out
  Codes,      \* the codes of scripts
  Names,      \* their names
  NameOf,     \* [Codes -> Names]
  Calls,      \* bound: calls of parseScript in progress at a time
  Nothing,    \* no script, no code
  MaxOps      \* bound: commands of the user and checks for updates

Record == [meta : Codes, removed : BOOLEAN]

ASSUME ScriptDBAssumption ==
  /\ MaxId \in Nat /\ MaxOps \in Nat
  /\ NameOf \in [Codes -> Names]
  /\ Nothing \notin Codes \cup Record

VARIABLES
  script,     \* the script objects in memory
  known,      \* keys of `scriptMap`
  alive,      \* `aliveScripts`
  trash,      \* `removedScripts`
  maxId,      \* `maxScriptId`
  stored,     \* the records of scripts in the storage area
  code,       \* the codes in the storage area
  parsing,    \* the calls of parseScript, between their two halves
  marking,    \* the calls of MarkRemoved that await updateScriptInfo
  checking,   \* update.js `processes`: ids being checked for an update
  ops,        \* commands so far
  raced       \* history: the scripts that met a race the code leaves open

vars == << script, known, alive, trash, maxId, stored, code, parsing, marking, checking,
           ops, raced >>
lists == << known, alive, trash, maxId >>

Ids == 1 .. MaxId
Free == [pc |-> "free"]
Name(i) == NameOf[script[i].meta]
StoredName(i) == NameOf[stored[i].meta]
Named(n, ids) == {i \in ids : Name(i) = n}
Parsed(i) == \E p \in Calls : parsing[p] # Free /\ parsing[p].id = i
Marked(i) == \E removed \in BOOLEAN : [id |-> i, removed |-> removed] \in marking

(* A restored script that its command has not moved to the list yet. *)
Returning == {i \in trash : ~script[i].removed}

Init ==
  /\ script = [i \in Ids |-> Nothing]
  /\ known = {}
  /\ alive = {}
  /\ trash = {}
  /\ maxId = 0
  /\ stored = [i \in Ids |-> Nothing]
  /\ code = [i \in Ids |-> Nothing]
  /\ parsing = [p \in Calls |-> Free]
  /\ marking = {}
  /\ checking = {}
  /\ ops = 0
  /\ raced = {}

Op == ops < MaxOps /\ ops' = ops + 1

-----------------------------------------------------------------------------
(* parseScript() up to its first await, of a new script.  Races: a script  *)
(* of the name is being restored; or the name is not looked for at all, as *)
(* the update of a script that is gone gives an id.                        *)
Create(p, c, job) ==
  /\ maxId < MaxId
  /\ maxId' = maxId + 1
  /\ script' = [script EXCEPT ![maxId'] = [meta |-> c, removed |-> FALSE]]
  /\ alive' = alive \cup {maxId'}
  /\ parsing' = [parsing EXCEPT ![p] = [pc |-> "saving", id |-> maxId', code |-> c, job |-> job]]
  /\ LET others == Named(NameOf[c], alive \cup Returning)
     IN raced' = raced \cup others \cup (IF others = {} THEN {} ELSE {maxId'})
  /\ UNCHANGED << known, trash >>

(* The same of an old one, unless another one has the new name.  Races: it *)
(* is in the recycle bin, and stays there as a script in use; it is on its *)
(* way into or out of it; another call is saving it.                       *)
Overwrite(p, i, c, job) ==
  /\ Named(NameOf[c], alive) \subseteq {i}
  /\ script' = [script EXCEPT ![i] = [meta |-> c, removed |-> FALSE]]
  /\ parsing' = [parsing EXCEPT ![p] = [pc |-> "saving", id |-> i, code |-> c, job |-> job]]
  /\ LET others == Named(NameOf[c], Returning) \ {i}
     IN raced' = raced \cup others
          \cup (IF i \in trash \/ Parsed(i) \/ Marked(i) \/ others # {} THEN {i} ELSE {})
  /\ UNCHANGED lists

(* Installation of a code: a script of the name is overwritten. *)
Install(p, c) ==
  /\ Op
  /\ parsing[p] = Free
  /\ IF Named(NameOf[c], alive) = {}
     THEN Create(p, c, Nothing)
     ELSE \E i \in Named(NameOf[c], alive) : Overwrite(p, i, c, Nothing)
  /\ UNCHANGED << stored, code, marking, checking >>

(* The editor saves a script. *)
Edit(p, i, c) ==
  /\ Op
  /\ parsing[p] = Free
  /\ i \in known
  /\ Overwrite(p, i, c, Nothing)
  /\ UNCHANGED << stored, code, marking, checking >>

(* CheckUpdate(): a check in progress is not repeated. *)
CheckUpdate(i) ==
  /\ Op
  /\ i \in known \ checking
  /\ checking' = checking \cup {i}
  /\ UNCHANGED << script, lists, stored, code, parsing, marking, raced >>

(* doCheckUpdate(): the new code is there, whatever became of the script. *)
UpdateArrives(p, i, c) ==
  /\ i \in checking
  /\ parsing[p] = Free
  /\ ~\E q \in Calls : parsing[q] # Free /\ parsing[q].job = i
  /\ IF i \in known THEN Overwrite(p, i, c, i) ELSE Create(p, c, i)
  /\ UNCHANGED << stored, code, marking, checking, ops >>

(* There is none, or it is refused. *)
UpdateEnds(i) ==
  /\ i \in checking
  /\ ~\E q \in Calls : parsing[q] # Free /\ parsing[q].job = i
  /\ checking' = checking \ {i}
  /\ UNCHANGED << script, lists, stored, code, parsing, marking, ops, raced >>

(* Mutant: the record is saved, the code only if there was none. *)
SaveRecord(p) ==
  LET i == parsing[p].id
  IN /\ parsing[p] # Free
     /\ parsing' = [parsing EXCEPT ![p] = Free]
     /\ known' = known \cup {i}
     /\ stored' = [stored EXCEPT ![i] = script[i]]
     /\ code' = IF code[i] = Nothing THEN [code EXCEPT ![i] = parsing[p].code] ELSE code
     /\ checking' = checking \ {parsing[p].job}
     /\ UNCHANGED << script, alive, trash, maxId, marking, ops, raced >>

(* The rest of parseScript(): record and code are stored by one call. *)
Save(p) ==
  LET i == parsing[p].id
  IN /\ parsing[p] # Free
     /\ parsing' = [parsing EXCEPT ![p] = Free]
     /\ known' = known \cup {i}
     /\ stored' = [stored EXCEPT ![i] = script[i]]
     /\ code' = [code EXCEPT ![i] = parsing[p].code]
     /\ checking' = checking \ {parsing[p].job}
     /\ UNCHANGED << script, alive, trash, maxId, marking, ops, raced >>

(* The storage area rejects it: a race of memory and storage area. *)
SaveFails(p) ==
  /\ parsing[p] # Free
  /\ parsing' = [parsing EXCEPT ![p] = Free]
  /\ known' = known \cup {parsing[p].id}
  /\ checking' = checking \ {parsing[p].job}
  /\ raced' = raced \cup {parsing[p].id}
  /\ UNCHANGED << script, alive, trash, maxId, stored, code, marking, ops >>

-----------------------------------------------------------------------------
(* Mutant: a script is restored next to one of its name. *)
MarkAny(i, removed) ==
  /\ Op
  /\ i \in known
  /\ script' = [script EXCEPT ![i] = [script[i] EXCEPT !.removed = removed]]
  /\ stored' = [stored EXCEPT ![i] = script'[i]]
  /\ marking' = marking \cup {[id |-> i, removed |-> removed]}
  /\ raced' = raced \cup (IF Marked(i) THEN {i} ELSE {})
       \cup (IF removed THEN {} ELSE
             LET others == Named(Name(i), Returning) \ {i}
             IN others \cup IF others = {} THEN {} ELSE {i})
  /\ UNCHANGED << lists, code, parsing, checking >>

(* MarkRemoved() with updateScriptInfo(), up to the await.  A script is    *)
(* not restored next to one of its name.  Races: another move of it is     *)
(* under way; another script of the name is being restored.                *)
MarkRemoved(i, removed) ==
  /\ Op
  /\ i \in known
  /\ removed \/ Named(Name(i), alive) = {}
  /\ script' = [script EXCEPT ![i] = [script[i] EXCEPT !.removed = removed]]
  /\ stored' = [stored EXCEPT ![i] = script'[i]]
  /\ marking' = marking \cup {[id |-> i, removed |-> removed]}
  /\ raced' = raced \cup (IF Marked(i) THEN {i} ELSE {})
       \cup (IF removed THEN {} ELSE
             LET others == Named(Name(i), Returning) \ {i}
             IN others \cup IF others = {} THEN {} ELSE {i})
  /\ UNCHANGED << lists, code, parsing, checking >>

(* Mutant: a script that is pushed to a list stays in the other one. *)
MoveCopies(m) ==
  LET from == IF m.removed THEN alive ELSE trash
      here == from \cap {m.id}
  IN /\ m \in marking
     /\ marking' = marking \ {m}
     /\ alive' = IF m.removed THEN alive ELSE alive \cup here
     /\ trash' = IF m.removed THEN trash \cup here ELSE trash
     /\ UNCHANGED << script, known, maxId, stored, code, parsing, checking, ops, raced >>

(* The same up to an await that ends with a rejected write: the flag is    *)
(* set in memory only, and the script is not moved.  That is a race too.   *)
MarkFails(i, removed) ==
  /\ Op
  /\ i \in known
  /\ removed \/ Named(Name(i), alive) = {}
  /\ script' = [script EXCEPT ![i] = [script[i] EXCEPT !.removed = removed]]
  /\ raced' = raced \cup {i} \cup IF removed THEN {} ELSE Named(Name(i), Returning)
  /\ UNCHANGED << lists, stored, code, parsing, marking, checking >>

(* The command UpdateScriptInfo: the record is stored as it is in memory. *)
UpdateScriptInfo(i) ==
  /\ Op
  /\ i \in known
  /\ stored' = [stored EXCEPT ![i] = script[i]]
  /\ UNCHANGED << script, lists, code, parsing, marking, checking, raced >>

(* The rest of MarkRemoved(): from one list to the other *)
Move(m) ==
  LET from == IF m.removed THEN alive ELSE trash
      here == from \cap {m.id}
  IN /\ m \in marking
     /\ marking' = marking \ {m}
     /\ alive' = IF m.removed THEN alive \ here ELSE alive \cup here
     /\ trash' = IF m.removed THEN trash \cup here ELSE trash \ here
     /\ UNCHANGED << script, known, maxId, stored, code, parsing, checking, ops, raced >>

(* removeScripts().  Race: a script that is being saved comes back.        *)
Purge(ids) ==
  /\ ids # {}
  /\ ids \subseteq trash
  /\ known' = known \ ids
  /\ trash' = trash \ ids
  /\ stored' = [i \in Ids |-> IF i \in ids THEN Nothing ELSE stored[i]]
  /\ code' = [i \in Ids |-> IF i \in ids THEN Nothing ELSE code[i]]
  /\ raced' = raced \cup {i \in ids : Parsed(i)}
  /\ UNCHANGED << script, alive, maxId, parsing, marking, checking >>

(* The same with a rejected write: the scripts are gone from memory only. *)
PurgeFails(ids) ==
  /\ ids # {}
  /\ ids \subseteq trash
  /\ known' = known \ ids
  /\ trash' = trash \ ids
  /\ raced' = raced \cup ids
  /\ UNCHANGED << script, alive, maxId, stored, code, parsing, marking, checking >>

(* RemoveScripts, whatever the flag says *)
RemoveScripts(i) == Op /\ (Purge({i}) \/ PurgeFails({i}))

(* checkRemove(): those long enough in the recycle bin, or all *)
CheckRemove ==
  \E ids \in SUBSET {i \in trash : script[i].removed} :
    (Purge(ids) \/ PurgeFails(ids)) /\ UNCHANGED ops

(* vacuum(): what belongs to no script goes.  A missing code is downloaded *)
(* and stored by storage.code.fetch() under its URL, not under the id, so  *)
(* that it stays missing; the vacuum after startup only warns.             *)
Vacuum ==
  LET listed == alive \cup trash
  IN /\ code' = [i \in Ids |-> IF i \in listed THEN code[i] ELSE Nothing]
     /\ UNCHANGED << script, lists, stored, parsing, marking, checking, ops, raced >>

-----------------------------------------------------------------------------
(* Of the scripts in use with one name, startup takes the first it meets.  *)
(* The others stay in the storage area and in scriptMap but in no list.    *)
Choice(ids) ==
  {kept \in SUBSET ids :
     /\ \A i, j \in kept : i # j => StoredName(i) # StoredName(j)
     /\ \A i \in ids : \E j \in kept : StoredName(i) = StoredName(j)}

(* The background page stops, and starts anew.  Races: a name is taken     *)
(* twice; or the storage area holds a record without its code, because the *)
(* record was written while the code was waited for.                       *)
Restart ==
  LET there == {i \in Ids : stored[i] # Nothing}
      used  == {i \in there : ~stored[i].removed}
  IN \E kept \in Choice(used) :
       /\ script' = stored
       /\ known' = there
       /\ alive' = kept
       /\ trash' = there \ used
       /\ maxId' \in {0} \cup kept \cup trash'
       /\ \A i \in kept \cup trash' : i <= maxId'
       /\ parsing' = [p \in Calls |-> Free]
       /\ marking' = {}
       /\ checking' = {}
       /\ raced' = (used \ kept) \cup {i \in there : code[i] # stored[i].meta}
       /\ UNCHANGED << stored, code, ops >>

Next ==
  \/ \E p \in Calls, c \in Codes :
       Install(p, c) \/ \E i \in Ids : Edit(p, i, c) \/ UpdateArrives(p, i, c)
  \/ \E i \in Ids : CheckUpdate(i) \/ UpdateEnds(i) \/ RemoveScripts(i) \/ UpdateScriptInfo(i)
  \/ \E p \in Calls : Save(p) \/ SaveFails(p)
  \/ \E i \in Ids, removed \in BOOLEAN : MarkRemoved(i, removed) \/ MarkFails(i, removed)
  \/ \E m \in marking : Move(m)
  \/ CheckRemove
  \/ Vacuum
  \/ Restart

Spec == Init /\ [][Next]_vars

-----------------------------------------------------------------------------
Saving == [pc : {"saving"}, id : Ids, code : Codes, job : Ids \cup {Nothing}]

(* Every variable has its type, and no script is in both lists. *)
TypeOK ==
  /\ script \in [Ids -> Record \cup {Nothing}]
  /\ known \subseteq {i \in Ids : script[i] # Nothing}
  /\ alive \subseteq {i \in Ids : script[i] # Nothing}
  /\ trash \subseteq {i \in Ids : script[i] # Nothing}
  /\ alive \cap trash = {}
  /\ maxId \in 0 .. MaxId
  /\ stored \in [Ids -> Record \cup {Nothing}]
  /\ code \in [Ids -> Codes \cup {Nothing}]
  /\ parsing \in [Calls -> {Free} \cup Saving]
  /\ marking \subseteq [id : Ids, removed : BOOLEAN]
  /\ checking \subseteq Ids
  /\ ops \in 0 .. MaxOps
  /\ raced \subseteq Ids

(* No two scripts in use have one name, those being restored included,     *)
(* though the name is compared before an await and the lists change after: *)
(* startup would drop one of them.  Scripts that met a race are excepted.  *)
NamesAreUnique ==
  \A i, j \in (alive \cup Returning) \ raced : i # j => Name(i) # Name(j)

(* What is in memory is what a restart would find: each script with its    *)
(* record and the code that its metadata comes from, in the list that its  *)
(* flag says, and no other ones; but for what a call in progress is about  *)
(* to change, and for scripts that met a race.  A write that the storage   *)
(* area rejects, in parseScript, MarkRemoved or removeScripts, is one.     *)
RestartFindsTheSame ==
  \A i \in Ids \ raced :
    /\ ~Parsed(i) =>
         /\ i \in alive \cup trash <=> stored[i] # Nothing
         /\ i \in alive \cup trash => stored[i] = script[i] /\ code[i] = script[i].meta
    /\ ~Marked(i) =>
         /\ i \in alive => ~script[i].removed
         /\ i \in trash => script[i].removed
=============================================================================
