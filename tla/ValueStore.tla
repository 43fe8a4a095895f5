----------------------------- MODULE ValueStore -----------------------------
(***************************************************************************)
(* The values of scripts (background/utils/values.js): each value lives in *)
(* several copies that the background page keeps in step.                  *)
(*   stored    what the storage holds, behind StorageCache                 *)
(*   injected  what a page gets when it opens: a copy kept by preinject.js *)
(*   record    openers[id][tab][frame], what a page is believed to hold    *)
(*   local     in the page: what GM_getValue reads                         *)
(*                                                                         *)
(* A page that changes a value posts UpdateValue; the background commits   *)
(* the whole record of that page a moment later and broadcasts the change  *)
(* to the other pages.  The options page replaces whole stores.            *)
(*                                                                         *)
(* A cell is one key of one script's store, << id, key >>.  latest holds   *)
(* the last value given to a cell, in the order the background handled     *)
(* the requests, and raced the cells that met one of the races the code    *)
(* leaves open; each place that adds to raced names the race.              *)
(***************************************************************************)
EXTENDS Naturals, Sequences

CONSTANTS
  Ids,         \* scripts that may use values
  Cells,       \* bound: << id, key >> pairs
  Vals,        \* raw values
  None,        \* no value, no entry, no page
  Frames,      \* frames of all tabs
  TabOf,       \* the tab of each frame
  TopFrames,   \* the frames with frameId 0
  PageIds,     \* bound: the scripts that a page may run
  Imports,     \* bound: what the options page may set, stores of some scripts
  MaxChanges,  \* bound: changes made by pages and by the options page
  MaxPages     \* bound: pages opened and restored

ASSUME CellsAssumption == \A c \in Cells : c[1] \in Ids
ASSUME NoneAssumption  == None \notin Vals \cup Frames
ASSUME TopAssumption   ==
  /\ TopFrames \subseteq Frames
  /\ \A f, g \in TopFrames : TabOf[f] = TabOf[g] => f = g
ASSUME BoundAssumption ==
  /\ PageIds \subseteq SUBSET Ids
  /\ \A stores \in Imports : DOMAIN stores = {c \in Cells : \E d \in DOMAIN stores : d[1] = c[1]}
  /\ \A stores \in Imports : stores \in [DOMAIN stores -> Vals \cup {None}]
  /\ MaxChanges \in Nat /\ MaxPages \in Nat

VARIABLES
  stored, exists,    \* the storage, and the scripts that have an entry there
  injected,          \* what a page that opens gets
  writing,           \* stores set with flushNow that await the storage area
  tracked, record,   \* openers: per frame, the scripts and their values
  toCommit,          \* per script, the frame whose record will be committed,
                     \* or the record itself once its frame dropped it
  toCommitPending,   \* whether a commit is due
  timers,            \* timeouts that will call commit
  toSend,            \* the changes to broadcast
  chain,             \* broadcasts to come
  page,              \* per frame, its page
  frozen,            \* per frame, a page in the back/forward cache
  outbox,            \* per frame, its messages UpdateValue
  inbox,             \* per frame, the messages UpdatedValues sent to it
  latest, raced,     \* history
  untracked,         \* history: scripts whose openers were dropped for all pages
  changes, pages     \* bounds

background == << stored, exists, injected, writing, tracked, record, toCommit,
                 toCommitPending, timers, toSend, chain, latest, untracked >>
vars == << background, page, frozen, outbox, inbox, raced, changes, pages >>

Content    == Vals \cup {None}
Store      == [Cells -> Content]
Blank      == [c \in Cells |-> None]
CellsOf(I) == {c \in Cells : c[1] \in I}
Part       == UNION {[S -> Content] : S \in SUBSET Cells}

ASSUME RecordAssumption == \A i \in Ids : ({None} \cup Frames) \cap [CellsOf({i}) -> Content] = {}

(* `over` on its own domain, `f` elsewhere *)
Overlay(f, over) == [x \in DOMAIN f \cup DOMAIN over |-> IF x \in DOMAIN over THEN over[x] ELSE f[x]]
Only(f, S)       == [x \in DOMAIN f \cap S |-> f[x]]
Nothing          == Only(Blank, {})

(* A page: the scripts that run in it and their values.  A page restored   *)
(* from the back/forward cache reports that first (`reports`).             *)
NoPage   == [live |-> FALSE, reports |-> FALSE, ids |-> {}, local |-> Blank]
Under(f) == IF f \in TopFrames THEN {g \in Frames : TabOf[g] = TabOf[f]} ELSE {f}
Standing(f) == f \in TopFrames \/ \E g \in TopFrames : TabOf[g] = TabOf[f] /\ page[g].live
Runs(f, c)  == page[f].live /\ c[1] \in page[f].ids

(* The cells of the messages on their way to a frame and from it. *)
Arriving(f) == UNION {DOMAIN inbox[f][n] : n \in DOMAIN inbox[f]}
Posted(f)   == {outbox[f][n].cell : n \in DOMAIN outbox[f]}

(* Mutant: the record of the frame is not reduced to the script. *)
PendingOfFrame(i) == IF toCommit[i] \in Frames THEN record[toCommit[i]] ELSE toCommit[i]

(* What will be committed for the script i. *)
Pending(i) == IF toCommit[i] \in Frames THEN Only(record[toCommit[i]], CellsOf({i})) ELSE toCommit[i]

Init ==
  /\ \E val \in Content : stored = [c \in Cells |-> val]
  /\ exists = {c[1] : c \in {d \in Cells : stored[d] # None}}
  /\ injected = stored
  /\ writing = << >>
  /\ tracked = [f \in Frames |-> {}]
  /\ record = [f \in Frames |-> Blank]
  /\ toCommit = [i \in Ids |-> None]
  /\ toCommitPending = FALSE
  /\ timers = 0
  /\ toSend = Nothing
  /\ chain = 0
  /\ page = [f \in Frames |-> NoPage]
  /\ frozen = [f \in Frames |-> NoPage]
  /\ outbox = [f \in Frames |-> << >>]
  /\ inbox = [f \in Frames |-> << >>]
  /\ latest = stored
  /\ raced = {}
  /\ untracked = {}
  /\ changes = 0
  /\ pages = 0

-----------------------------------------------------------------------------
(* Mutant: what a frame left to commit goes with its record. *)
DetachDrops(F, I) ==
  toCommit' = [i \in Ids |-> IF i \in I /\ toCommit[i] \in F THEN None ELSE toCommit[i]]

(* The scripts in I lose the record of the frames in F, or get a new one:  *)
(* a record about to be committed lives on.                                *)
Detach(F, I) ==
  toCommit' = [i \in Ids |-> IF i \in I /\ toCommit[i] \in F THEN Pending(i) ELSE toCommit[i]]

(* Mutant: a frame clears the openers of its whole tab. *)
TrackOnlyOfTab(f, ids) ==
  LET tab == {g \in Frames : TabOf[g] = TabOf[f]}
  IN /\ tracked' = [g \in Frames |-> IF g = f THEN ids ELSE IF g \in tab THEN {} ELSE tracked[g]]
     /\ record' = [g \in Frames |-> IF g = f THEN Overlay(Blank, Only(injected, CellsOf(ids)))
                                    ELSE IF g \in tab THEN Blank ELSE record[g]]
     /\ Detach(tab, Ids)

(* clearValueOpener(tabId, frameId), followed by addValueOpener for the    *)
(* scripts `ids` of the frame f.                                           *)
TrackOnly(f, ids) ==
  /\ tracked' = [g \in Frames |-> IF g = f THEN ids
                                  ELSE IF g \in Under(f) THEN {} ELSE tracked[g]]
  /\ record' = [g \in Frames |-> IF g = f THEN Overlay(Blank, Only(injected, CellsOf(ids)))
                                 ELSE IF g \in Under(f) THEN Blank ELSE record[g]]
  /\ Detach(Under(f), Ids)

(* The page of the frame f goes away, with the frames under it, perhaps    *)
(* into the back/forward cache.  What it posted is on its way.  Bound: a   *)
(* restored page stays until its report is handled.                        *)
Leave(f) ==
  /\ page[f].live /\ \A g \in Under(f) : ~page[g].reports
  /\ page' = [g \in Frames |-> IF g \in Under(f) THEN NoPage ELSE page[g]]
  /\ \/ UNCHANGED frozen
     \/ frozen' = [g \in Frames |-> IF g \in Under(f) THEN page[g] ELSE frozen[g]]
  /\ UNCHANGED << background, outbox, inbox, raced, changes, pages >>

(* What the page before posted is late once the frame f has another page. *)
TurnsLate(f) == outbox' = [outbox EXCEPT ![f] = [n \in DOMAIN @ |-> [@[n] EXCEPT !.late = TRUE]]]

(* GetInjected: a page opens in the frame f and runs the scripts `ids`.    *)
(* What was sent to the frame is lost or reaches the new page: a race.  So *)
(* is a change of its scripts that was broadcast but did not reach         *)
(* `injected` yet.                                                         *)
Open(f, ids) ==
  LET behind == {c \in CellsOf(ids) \ DOMAIN toSend :
                   \/ toCommit[c[1]] # None /\ Pending(c[1])[c] # injected[c]
                   \/ \E n \in DOMAIN writing : c \in DOMAIN writing[n]}
  IN /\ ~page[f].live /\ Standing(f)
     /\ pages < MaxPages /\ pages' = pages + 1
     /\ TrackOnly(f, ids)
     /\ page' = [page EXCEPT ![f] = [live |-> TRUE, reports |-> FALSE, ids |-> ids,
                                     local |-> Overlay(Blank, Only(injected, CellsOf(ids)))]]
     /\ \/ /\ inbox' = [inbox EXCEPT ![f] = << >>]
           /\ raced' = raced \cup behind
        \/ /\ inbox[f] # << >>
           /\ raced' = raced \cup behind \cup Arriving(f)
           /\ UNCHANGED inbox
     /\ TurnsLate(f)
     /\ UNCHANGED << stored, exists, injected, writing, toCommitPending, timers, toSend,
                     chain, frozen, latest, untracked, changes >>

(* The page in the back/forward cache is shown again. *)
Restore(f) ==
  /\ ~page[f].live /\ Standing(f) /\ frozen[f].live
  /\ pages < MaxPages /\ pages' = pages + 1
  /\ page' = [page EXCEPT ![f] = [frozen[f] EXCEPT !.reports = TRUE]]
  /\ frozen' = [frozen EXCEPT ![f] = NoPage]
  /\ TurnsLate(f)
  /\ UNCHANGED << background, inbox, raced, changes >>

(* Run with reset = 'bfcache': the stored values become the record of the  *)
(* frame, but the page keeps its own: a race, and so is another value that *)
(* was sent to it before.  A script without an entry in the storage loses  *)
(* the openers of all pages.                                               *)
Restored(f) ==
  LET ids  == page[f].ids
      kept == ids \cap exists
      sent == {c \in Arriving(f) : \E n \in DOMAIN inbox[f] : c \in DOMAIN inbox[f][n]
                                                             /\ inbox[f][n][c] # stored[c]}
  IN /\ page[f].live /\ page[f].reports
     /\ page' = [page EXCEPT ![f].reports = FALSE]
     /\ tracked' = [g \in Frames |-> (tracked[g] \ (ids \ exists)) \cup (IF g = f THEN kept ELSE {})]
     /\ record' = [g \in Frames |->
          Overlay(Overlay(record[g], Only(Blank, CellsOf(ids \ exists))),
                  IF g = f THEN Only(stored, CellsOf(kept)) ELSE Nothing)]
     /\ toCommit' = [i \in Ids |->
          IF i \in ids /\ (toCommit[i] = f \/ i \notin exists) THEN Pending(i) ELSE toCommit[i]]
     /\ untracked' = untracked \cup (ids \ exists)
     /\ raced' = raced \cup {c \in CellsOf(kept) : \/ page[f].local[c] # stored[c]
                                                   \/ latest[c] # stored[c]
                                                   \/ c \in sent}
     /\ UNCHANGED << stored, exists, injected, writing, toCommitPending, timers, toSend, chain,
                     frozen, outbox, inbox, latest, changes, pages >>

(* Scripts are switched off: clearValueOpener with no tab. *)
SwitchOff ==
  /\ \E f \in Frames : tracked[f] # {}
  /\ tracked' = [f \in Frames |-> {}]
  /\ record' = [f \in Frames |-> Blank]
  /\ Detach(Frames, Ids)
  /\ toSend' = Nothing
  /\ untracked' = untracked \cup UNION {tracked[f] : f \in Frames}
  /\ UNCHANGED << stored, exists, injected, writing, toCommitPending, timers, chain, page,
                  frozen, outbox, inbox, latest, raced, changes, pages >>

-----------------------------------------------------------------------------
(* dumpValue: the page changes a value and posts the change. *)
FrameSets(f, c, val) ==
  /\ Runs(f, c)
  /\ page[f].local[c] # val
  /\ changes < MaxChanges /\ changes' = changes + 1
  /\ page' = [page EXCEPT ![f].local[c] = val]
  /\ outbox' = [outbox EXCEPT ![f] = Append(@, [cell |-> c, val |-> val, late |-> FALSE])]
  /\ UNCHANGED << background, frozen, inbox, raced, pages >>

(* UpdateValue: the change enters the record of the frame, which will be   *)
(* committed in place of any other record of the script.  A message for a  *)
(* script that is not tracked in the frame is ignored.  Races: the record  *)
(* is behind the changes that were not broadcast yet; the change crosses   *)
(* another one on its way to the page; the page is not the one that posted *)
(* the change.                                                             *)
UpdateValue(f) ==
  LET msg     == Head(outbox[f])
      c       == msg.cell
      behind  == {d \in (DOMAIN toSend \cap CellsOf({c[1]})) \ {c} : toSend[d] # record[f][d]}
      crossed == {d \in {c} : msg.late \/ c \in Arriving(f)}
  IN /\ outbox[f] # << >> /\ (page[f].reports => msg.late)
     /\ outbox' = [outbox EXCEPT ![f] = Tail(@)]
     /\ \/ /\ c[1] \notin tracked[f]
           /\ UNCHANGED << record, toCommit, toCommitPending, timers, toSend, latest, raced >>
        \/ /\ c[1] \in tracked[f]
           /\ record' = [record EXCEPT ![f][c] = msg.val]
           /\ toCommit' = [toCommit EXCEPT ![c[1]] = f]
           /\ timers' = IF toCommitPending THEN timers ELSE timers + 1
           /\ toCommitPending' = TRUE
           /\ toSend' = Overlay(toSend, [d \in {c} |-> msg.val])
           /\ latest' = [latest EXCEPT ![c] = msg.val]
           /\ raced' = raced \cup behind \cup crossed
     /\ UNCHANGED << stored, exists, injected, writing, tracked, chain, page, frozen, inbox,
                     untracked, changes, pages >>

(* SetValueStores: whole stores from the options page, written at once     *)
(* unless they equal what is stored.  Races: pending commits are dropped,  *)
(* and nobody is told of a value that a new store does not have.           *)
SetValueStores(stores) ==
  LET ids     == {c[1] : c \in DOMAIN stores}
      dropped == {c \in Cells : toCommit[c[1]] # None /\ Pending(c[1])[c] # stored[c]}
      untold  == {c \in DOMAIN stores : stores[c] = None}
      given   == DOMAIN stores \ untold
      written == Only(stores, CellsOf({i \in ids : \/ i \notin exists
                                                   \/ \E c \in CellsOf({i}) : stores[c] # stored[c]}))
  IN /\ changes < MaxChanges /\ changes' = changes + 1
     /\ toCommit' = [i \in Ids |-> None]
     /\ toCommitPending' = FALSE
     /\ stored' = Overlay(stored, stores)
     /\ exists' = exists \cup ids
     /\ writing' = IF written = Nothing THEN writing ELSE Append(writing, written)
     /\ toSend' = Overlay(Only(toSend, Cells \ CellsOf(ids)), Only(stores, given))
     /\ chain' = chain + 1
     /\ latest' = Overlay(latest, stores)
     /\ raced' = raced \cup dropped \cup
          {c \in untold : \/ c \in DOMAIN toSend
                          \/ \E f \in Frames : record[f][c] # None \/ c \in Arriving(f)}
     /\ UNCHANGED << injected, tracked, record, timers, page, frozen, outbox, inbox, untracked, pages >>

(* commit, called by a timeout.  Entries equal to what is stored are       *)
(* skipped; the others reach the cached values of future pages at once.    *)
Commit ==
  LET ids   == {i \in Ids : toCommit[i] # None}
      value == [c \in CellsOf(ids) |-> Pending(c[1])[c]]
      news  == {i \in ids : i \notin exists \/ \E c \in CellsOf({i}) : value[c] # stored[c]}
  IN /\ timers > 0
     /\ timers' = timers - 1
     /\ stored' = Overlay(stored, value)
     /\ exists' = exists \cup ids
     /\ injected' = Overlay(injected, Only(value, CellsOf(news)))
     /\ toCommit' = [i \in Ids |-> None]
     /\ toCommitPending' = FALSE
     /\ chain' = chain + 1
     /\ UNCHANGED << writing, tracked, record, toSend, page, frozen, outbox, inbox, latest,
                     raced, untracked, changes, pages >>

(* Mutant: the cached values are not told of a write that was awaited. *)
WriteAnsweredUnnoticed ==
  /\ writing # << >>
  /\ writing' = Tail(writing)
  /\ UNCHANGED << stored, exists, injected, tracked, record, toCommit, toCommitPending, timers, toSend,
                  chain, page, frozen, outbox, inbox, latest, raced, untracked, changes, pages >>

(* The storage area answers a write of SetValueStores, and the stores      *)
(* written reach the cached values: a race if they changed since.          *)
WriteAnswered ==
  /\ writing # << >>
  /\ injected' = Overlay(injected, Head(writing))
  /\ writing' = Tail(writing)
  /\ raced' = raced \cup {c \in DOMAIN Head(writing) : Head(writing)[c] # stored[c]}
  /\ UNCHANGED << stored, exists, tracked, record, toCommit, toCommitPending, timers, toSend,
                  chain, page, frozen, outbox, inbox, latest, untracked, changes, pages >>

(* The cached values expire and are read again. *)
Forget ==
  /\ injected # stored
  /\ injected' = stored
  /\ UNCHANGED << stored, exists, writing, tracked, record, toCommit, toCommitPending, timers,
                  toSend, chain, page, frozen, outbox, inbox, latest, raced, untracked, changes, pages >>

(* broadcast and groupByTab: each record learns the changes it lacks, and  *)
(* its frame is told.                                                      *)
Broadcast ==
  LET news(f) == Only(toSend, {c \in CellsOf(tracked[f]) \cap DOMAIN toSend : toSend[c] # record[f][c]})
  IN /\ chain > 0
     /\ chain' = chain - 1
     /\ toSend' = Nothing
     /\ record' = [f \in Frames |-> Overlay(record[f], news(f))]
     /\ inbox' = [f \in Frames |-> IF news(f) = Nothing THEN inbox[f] ELSE Append(inbox[f], news(f))]
     /\ UNCHANGED << stored, exists, injected, writing, tracked, toCommit, toCommitPending, timers,
                     page, frozen, outbox, latest, raced, untracked, changes, pages >>

(* UpdatedValues reaches the page of the frame, or nobody.  Race: it       *)
(* crosses a change of the page itself.                                    *)
UpdatedValues(f) ==
  LET update == Only(Head(inbox[f]), CellsOf(page[f].ids))
  IN /\ inbox[f] # << >>
     /\ inbox' = [inbox EXCEPT ![f] = Tail(@)]
     /\ page' = [page EXCEPT ![f].local = Overlay(@, update)]
     /\ raced' = raced \cup (DOMAIN update \cap Posted(f))
     /\ UNCHANGED << background, frozen, outbox, changes, pages >>

Next ==
  \/ \E f \in Frames : Leave(f) \/ Restore(f) \/ Restored(f) \/ UpdateValue(f) \/ UpdatedValues(f)
  \/ \E f \in Frames, ids \in PageIds : Open(f, ids)
  \/ \E f \in Frames, c \in Cells, val \in Content : FrameSets(f, c, val)
  \/ \E stores \in Imports : SetValueStores(stores)
  \/ SwitchOff
  \/ Commit
  \/ WriteAnswered
  \/ Forget
  \/ Broadcast

Spec == Init /\ [][Next]_vars

(* Timeouts fire, promise jobs run, the storage area answers and messages  *)
(* between the background and the frames arrive.                           *)
Fairness ==
  /\ WF_vars(Commit) /\ WF_vars(Broadcast) /\ WF_vars(WriteAnswered)
  /\ \A f \in Frames : WF_vars(UpdateValue(f)) /\ WF_vars(UpdatedValues(f)) /\ WF_vars(Restored(f))

FairSpec == Spec /\ Fairness

-----------------------------------------------------------------------------
Page == [live : BOOLEAN, reports : BOOLEAN, ids : SUBSET Ids, local : Store]
Post == [cell : Cells, val : Content, late : BOOLEAN]

(* Every variable has its type. *)
TypeOK ==
  /\ {stored, injected, latest} \subseteq Store
  /\ {exists, untracked} \subseteq SUBSET Ids
  /\ writing \in Seq(Part)
  /\ tracked \in [Frames -> SUBSET Ids]
  /\ record \in [Frames -> Store]
  /\ DOMAIN toCommit = Ids
  /\ \A i \in Ids : toCommit[i] \in {None} \cup Frames \cup [CellsOf({i}) -> Content]
  /\ toCommitPending \in BOOLEAN
  /\ timers \in Nat /\ chain \in Nat
  /\ toSend \in Part
  /\ {page, frozen} \subseteq [Frames -> Page]
  /\ outbox \in [Frames -> Seq(Post)]
  /\ inbox \in [Frames -> Seq(Part)]
  /\ raced \subseteq Cells

(* The last value given to a cell is in the storage, or in a record that a *)
(* timeout is about to commit.                                             *)
StoredFollows ==
  \A c \in Cells \ raced :
    \/ stored[c] = latest[c] /\ (toCommit[c[1]] # None => Pending(c[1])[c] = latest[c])
    \/ toCommit[c[1]] # None /\ Pending(c[1])[c] = latest[c] /\ timers > 0

(* The record of every frame that runs the script has the last value too,  *)
(* or a broadcast that is due will bring it there.                         *)
RecordsFollow ==
  \A c \in Cells \ raced, f \in Frames :
    c[1] \in tracked[f] =>
      \/ record[f][c] = latest[c]
      \/ c \in DOMAIN toSend /\ toSend[c] = latest[c] /\ chain + timers > 0

(* What a page holds is what the background believes it holds, up to the   *)
(* messages on their way between them.                                     *)
PagesFollow ==
  \A c \in Cells \ raced, f \in Frames :
    Runs(f, c) /\ c[1] \in tracked[f] /\ ~page[f].reports =>
      \/ page[f].local[c] = record[f][c]
      \/ c \in Arriving(f) \cup Posted(f)

(* A page that opens gets what is stored, unless a write is unanswered.    *)
NewPagesAreCurrent ==
  \A c \in Cells \ raced :
    injected[c] = stored[c] \/ \E n \in DOMAIN writing : c \in DOMAIN writing[n]

(* However pages come and go, all copies of a value that met no race are   *)
(* the last one, or what will make them so is due or on its way.           *)
CopiesFollow == StoredFollows /\ RecordsFollow /\ PagesFollow /\ NewPagesAreCurrent

(* The scripts of a page are tracked, so that a change made there counts,  *)
(* unless they lost the openers of all pages.                              *)
ScriptsAreTracked ==
  \A f \in Frames :
    page[f].live /\ ~page[f].reports => page[f].ids \subseteq tracked[f] \cup untracked

(* When the changes end, the storage and every page that is tracked come   *)
(* to hold the last value, and pages that open later get it.               *)
CopiesConverge ==
  <>[] \A c \in Cells \ raced :
    /\ stored[c] = latest[c] /\ injected[c] = latest[c]
    /\ \A f \in Frames : Runs(f, c) /\ c[1] \in tracked[f] => page[f].local[c] = latest[c]

-----------------------------------------------------------------------------
(* What the comment in readEnvironmentData says, "{} enables tracking in   *)
(* addValueOpener": a page restored from the back/forward cache is tracked *)
(* though nothing is stored for its scripts.                               *)
EmptyStoresAreTracked ==
  [][\A f \in Frames :
       page[f].reports /\ page'[f].live /\ ~page'[f].reports => page[f].ids \subseteq tracked'[f]]_vars
=============================================================================
