-------------------------- MODULE ValueStoreProofs --------------------------
(* The inductive invariant of ValueStore: every copy of a value follows,   *)
(* however pages come and go, for any scripts, values and frames and any   *)
(* number of changes and pages.                                            *)
EXTENDS ValueStore, TLAPS

-----------------------------------------------------------------------------
(* Parts of stores. *)
LEMMA PartIs ==
  \A p \in Part : /\ p = [c \in DOMAIN p |-> p[c]]
                  /\ DOMAIN p \subseteq Cells
                  /\ \A c \in DOMAIN p : p[c] \in Content
  BY DEF Part

LEMMA IsPart ==
  ASSUME NEW p, NEW S \in SUBSET Cells, p \in [S -> Content]
  PROVE  p \in Part
  BY DEF Part

LEMMA StoreIsPart == \A f \in Store : f \in Part /\ DOMAIN f = Cells
  BY DEF Store, Part

LEMMA OverlayIs ==
  \A f, over : /\ DOMAIN Overlay(f, over) = DOMAIN f \cup DOMAIN over
               /\ \A x \in DOMAIN over : Overlay(f, over)[x] = over[x]
               /\ \A x \in DOMAIN f \ DOMAIN over : Overlay(f, over)[x] = f[x]
  BY DEF Overlay

LEMMA OnlyIs ==
  \A f, S : /\ DOMAIN Only(f, S) = DOMAIN f \cap S
            /\ \A x \in DOMAIN f \cap S : Only(f, S)[x] = f[x]
  BY DEF Only

LEMMA OverlayPart == \A f, over \in Part : Overlay(f, over) \in Part
<1> TAKE f, over \in Part
<1>1. DOMAIN f \cup DOMAIN over \in SUBSET Cells
  BY PartIs
<1>2. \A x \in DOMAIN f \cup DOMAIN over :
        (IF x \in DOMAIN over THEN over[x] ELSE f[x]) \in Content
  BY PartIs
<1>3. Overlay(f, over) \in [DOMAIN f \cup DOMAIN over -> Content]
  BY <1>2 DEF Overlay
<1> QED
  BY <1>1, <1>3, IsPart

LEMMA OnlyPart == \A f \in Part : \A S : Only(f, S) \in Part
<1> TAKE f \in Part
<1> TAKE S
<1>1. DOMAIN f \cap S \in SUBSET Cells
  BY PartIs
<1>2. \A x \in DOMAIN f \cap S : f[x] \in Content
  BY PartIs
<1>3. Only(f, S) \in [DOMAIN f \cap S -> Content]
  BY <1>2 DEF Only
<1> QED
  BY <1>1, <1>3, IsPart

LEMMA OverlayStore == \A f \in Store, over \in Part : Overlay(f, over) \in Store
<1> TAKE f \in Store, over \in Part
<1>1. DOMAIN f \cup DOMAIN over = Cells
  BY PartIs, StoreIsPart
<1>2. \A x \in Cells : (IF x \in DOMAIN over THEN over[x] ELSE f[x]) \in Content
  BY PartIs DEF Store
<1> QED
  BY <1>1, <1>2 DEF Overlay, Store

LEMMA BlankIs == Blank \in Store /\ \A c \in Cells : Blank[c] = None
  BY DEF Blank, Store, Content

LEMMA NothingIs == Nothing \in Part /\ DOMAIN Nothing = {}
<1>1. Only(Blank, {}) \in Part
  BY BlankIs, StoreIsPart, OnlyPart
<1>2. DOMAIN Only(Blank, {}) = DOMAIN Blank \cap {}
  BY DEF Only
<1> QED
  BY <1>1, <1>2 DEF Nothing

LEMMA NotNothing == \A p \in Part : p # Nothing <=> DOMAIN p # {}
<1> TAKE p \in Part
<1>1. CASE DOMAIN p = {}
  <2>1. p = [x \in {} |-> p[x]]
    BY <1>1, PartIs
  <2>2. Nothing = [x \in {} |-> Blank[x]]
    BY DEF Nothing, Only
  <2>3. [x \in {} |-> p[x]] = [x \in {} |-> Blank[x]]
    OBVIOUS
  <2> QED
    BY <1>1, <2>1, <2>2, <2>3
<1>2. CASE DOMAIN p # {}
  BY <1>2, NothingIs
<1> QED
  BY <1>1, <1>2

-----------------------------------------------------------------------------
(* Queues of messages: what stays when the first message is taken, and     *)
(* what a new one adds.                                                    *)
LEMMA TailIs ==
  ASSUME NEW S, NEW q \in Seq(S), q # << >>
  PROVE  /\ Head(q) \in S /\ Head(q) = q[1]
         /\ Tail(q) \in Seq(S)
         /\ Len(q) \in Nat /\ Len(q) > 0 /\ Len(Tail(q)) = Len(q) - 1
         /\ \A n \in 1 .. Len(Tail(q)) : Tail(q)[n] = q[n + 1]
  OBVIOUS

LEMMA AppendIs ==
  ASSUME NEW S, NEW q \in Seq(S), NEW m \in S
  PROVE  /\ Append(q, m) \in Seq(S)
         /\ Len(q) \in Nat /\ Len(Append(q, m)) = Len(q) + 1
         /\ \A n \in 1 .. Len(q) : Append(q, m)[n] = q[n]
         /\ Append(q, m)[Len(q) + 1] = m
  OBVIOUS

-----------------------------------------------------------------------------
(* The type invariant, in groups. *)
StoresTyped ==
  /\ {stored, injected, latest} \subseteq Store
  /\ writing \in Seq(Part)
  /\ toSend \in Part

RecordsTyped ==
  /\ tracked \in [Frames -> SUBSET Ids]
  /\ record \in [Frames -> Store]
  /\ DOMAIN toCommit = Ids
  /\ \A i \in Ids : toCommit[i] \in {None} \cup Frames \cup [CellsOf({i}) -> Content]

PagesTyped ==
  /\ {page, frozen} \subseteq [Frames -> Page]
  /\ outbox \in [Frames -> Seq(Post)]
  /\ inbox \in [Frames -> Seq(Part)]

RestTyped ==
  /\ {exists, untracked} \subseteq SUBSET Ids
  /\ toCommitPending \in BOOLEAN
  /\ timers \in Nat /\ chain \in Nat
  /\ raced \subseteq Cells

LEMMA TypeParts == TypeOK <=> StoresTyped /\ RecordsTyped /\ PagesTyped /\ RestTyped
  BY DEF TypeOK, StoresTyped, RecordsTyped, PagesTyped, RestTyped

-----------------------------------------------------------------------------
(* What will be committed. *)
LEMMA CellsOfOne ==
  /\ \A c \in Cells : c[1] \in Ids /\ c \in CellsOf({c[1]})
  /\ \A i \in Ids : \A c \in CellsOf({i}) : c \in Cells /\ c[1] = i
  BY CellsAssumption DEF CellsOf

LEMMA PendingIs ==
  ASSUME RecordsTyped, NEW i \in Ids
  PROVE  /\ Pending(i) \in {None} \cup [CellsOf({i}) -> Content]
         /\ Pending(i) = None <=> toCommit[i] = None
         /\ Pending(i) \notin Frames
         /\ toCommit[i] \in Frames =>
              \A c \in CellsOf({i}) : Pending(i)[c] = record[toCommit[i]][c]
         /\ toCommit[i] \notin Frames => Pending(i) = toCommit[i]
<1>1. CASE toCommit[i] \in Frames
  <2>1. record[toCommit[i]] \in Store
    BY <1>1 DEF RecordsTyped
  <2>2. CellsOf({i}) \subseteq Cells
    BY DEF CellsOf
  <2>3. Pending(i) = [x \in CellsOf({i}) |-> record[toCommit[i]][x]]
    BY <1>1, <2>1, <2>2 DEF Pending, Only, Store
  <2>4. Pending(i) \in [CellsOf({i}) -> Content]
    BY <2>1, <2>2, <2>3 DEF Store
  <2> QED
    BY <1>1, <2>3, <2>4, RecordAssumption, NoneAssumption
<1>2. CASE toCommit[i] \notin Frames
  BY <1>2, NoneAssumption DEF Pending, RecordsTyped
<1> QED
  BY <1>1, <1>2

(* A step that leaves alone what will be committed. *)
PendingKept ==
  \A i \in Ids : Pending(i)' = Pending(i) /\ (toCommit'[i] = None <=> toCommit[i] = None)

LEMMA KeepsPending ==
  ASSUME RecordsTyped, record' \in [Frames -> Store], DOMAIN toCommit' = Ids,
         \A i \in Ids :
           \/ toCommit'[i] = Pending(i)
           \/ /\ toCommit'[i] = toCommit[i]
              /\ toCommit[i] \in Frames =>
                   \A c \in CellsOf({i}) : record'[toCommit[i]][c] = record[toCommit[i]][c]
  PROVE  /\ PendingKept
         /\ \A i \in Ids : toCommit'[i] \in {None} \cup Frames \cup [CellsOf({i}) -> Content]
<1> SUFFICES ASSUME NEW i \in Ids
             PROVE  /\ Pending(i)' = Pending(i)
                    /\ toCommit'[i] = None <=> toCommit[i] = None
                    /\ toCommit'[i] \in {None} \cup Frames \cup [CellsOf({i}) -> Content]
  BY DEF PendingKept
<1>1. CASE toCommit'[i] = Pending(i)
  <2>1. Pending(i)' = toCommit'[i]
    BY <1>1, PendingIs DEF Pending
  <2> QED
    BY <1>1, <2>1, PendingIs
<1>2. CASE /\ toCommit'[i] = toCommit[i]
           /\ toCommit[i] \in Frames =>
                \A c \in CellsOf({i}) : record'[toCommit[i]][c] = record[toCommit[i]][c]
  <2>1. CASE toCommit[i] \in Frames
    <3>1. record[toCommit[i]] \in Store /\ record'[toCommit[i]] \in Store
      BY <2>1 DEF RecordsTyped
    <3>2. CellsOf({i}) \subseteq Cells
      BY DEF CellsOf
    <3>3. Pending(i) = [x \in CellsOf({i}) |-> record[toCommit[i]][x]]
      BY <2>1, <3>1, <3>2 DEF Pending, Only, Store
    <3>4. Pending(i)' = [x \in CellsOf({i}) |-> record'[toCommit[i]][x]]
      BY <1>2, <2>1, <3>1, <3>2 DEF Pending, Only, Store
    <3>5. Pending(i)' = Pending(i)
      BY <1>2, <2>1, <3>3, <3>4
    <3> QED
      BY <1>2, <2>1, <3>5
  <2>2. CASE toCommit[i] \notin Frames
    BY <1>2, <2>2 DEF Pending, RecordsTyped
  <2> QED
    BY <2>1, <2>2
<1> QED
  BY <1>1, <1>2

-----------------------------------------------------------------------------
(* Every step keeps the types. *)
LEMMA ImportIs ==
  ASSUME NEW stores \in Imports
  PROVE  /\ stores \in Part
         /\ DOMAIN stores = CellsOf({c[1] : c \in DOMAIN stores})
<1>1. stores \in [DOMAIN stores -> Content]
  BY BoundAssumption DEF Content
<1>2. DOMAIN stores = {c \in Cells : \E d \in DOMAIN stores : d[1] = c[1]}
  BY BoundAssumption
<1>3. stores \in Part
  <2>1. DOMAIN stores \in SUBSET Cells
    BY <1>2
  <2> QED
    BY <1>1, <2>1, IsPart
<1>4. CellsOf({c[1] : c \in DOMAIN stores}) = {c \in Cells : \E d \in DOMAIN stores : d[1] = c[1]}
  BY DEF CellsOf
<1> QED
  BY <1>2, <1>3, <1>4

LEMMA PostIs ==
  ASSUME PagesTyped, NEW f \in Frames, outbox[f] # << >>
  PROVE  Head(outbox[f]) \in Post /\ Tail(outbox[f]) \in Seq(Post)
<1>1. outbox[f] \in Seq(Post)
  BY DEF PagesTyped
<1> QED
  BY <1>1, TailIs

LEMMA PartSentIs ==
  ASSUME PagesTyped, NEW f \in Frames, inbox[f] # << >>
  PROVE  Head(inbox[f]) \in Part /\ Tail(inbox[f]) \in Seq(Part)
<1>1. inbox[f] \in Seq(Part)
  BY DEF PagesTyped
<1> QED
  BY <1>1, TailIs

(* The stores, and the parts of them that are written or broadcast. *)
LEMMA ValueType ==
  ASSUME TypeOK, NEW c \in Cells, NEW val \in Content
  PROVE  /\ [d \in {c} |-> val] \in Part
         /\ Overlay(toSend, [d \in {c} |-> val]) \in Part
         /\ [latest EXCEPT ![c] = val] \in Store
<1>1. [d \in {c} |-> val] \in [{c} -> Content]
  OBVIOUS
<1>2. [d \in {c} |-> val] \in Part
  BY <1>1, IsPart
<1>3. toSend \in Part /\ latest \in Store
  BY DEF TypeOK
<1>4. Overlay(toSend, [d \in {c} |-> val]) \in Part
  BY <1>2, <1>3, OverlayPart
<1>5. [latest EXCEPT ![c] = val] \in Store
  BY <1>3 DEF Store
<1> QED
  BY <1>2, <1>4, <1>5

LEMMA StoresImported ==
  ASSUME TypeOK, NEW stores \in Imports, SetValueStores(stores)
  PROVE  StoresTyped'
<1>1. stored \in Store /\ latest \in Store /\ injected \in Store /\ toSend \in Part
      /\ writing \in Seq(Part)
  BY DEF TypeOK
<1>2. stores \in Part
  BY ImportIs
<1>3. Overlay(stored, stores) \in Store /\ Overlay(latest, stores) \in Store
  BY <1>1, <1>2, OverlayStore
<1>4. \A S : Only(stores, S) \in Part
  BY <1>2, OnlyPart
<1>5. \A S, U : Overlay(Only(toSend, S), Only(stores, U)) \in Part
  BY <1>1, <1>4, OnlyPart, OverlayPart
<1>6. \A S : Append(writing, Only(stores, S)) \in Seq(Part)
  BY <1>1, <1>4, AppendIs
<1>7. stored' \in Store /\ latest' \in Store /\ injected' \in Store
  BY <1>1, <1>3 DEF SetValueStores
<1>8. toSend' \in Part
  BY <1>5 DEF SetValueStores
<1>9. writing' \in Seq(Part)
  BY <1>1, <1>6 DEF SetValueStores
<1> QED
  BY <1>7, <1>8, <1>9 DEF StoresTyped

LEMMA CommittedIs ==
  ASSUME RecordsTyped, NEW I \in SUBSET {i \in Ids : toCommit[i] # None}
  PROVE  [c \in CellsOf(I) |-> Pending(c[1])[c]] \in [CellsOf(I) -> Content]
<1>1. ASSUME NEW c \in CellsOf(I) PROVE Pending(c[1])[c] \in Content
  <2>1. c \in Cells /\ c[1] \in I
    BY DEF CellsOf
  <2>2. c[1] \in Ids /\ toCommit[c[1]] # None /\ c \in CellsOf({c[1]})
    BY <2>1, CellsOfOne
  <2>3. Pending(c[1]) \in [CellsOf({c[1]}) -> Content]
    BY <2>2, PendingIs
  <2> QED
    BY <2>2, <2>3
<1> QED
  BY <1>1

LEMMA StoresCommitted ==
  ASSUME TypeOK, Commit
  PROVE  StoresTyped'
<1> DEFINE ids   == {i \in Ids : toCommit[i] # None}
           value == [c \in CellsOf(ids) |-> Pending(c[1])[c]]
<1>1. value \in [CellsOf(ids) -> Content]
  BY CommittedIs, TypeParts
<1>2. CellsOf(ids) \in SUBSET Cells
  BY DEF CellsOf
<1>3. value \in Part
  BY <1>1, <1>2, IsPart
<1>4. stored \in Store /\ injected \in Store
  BY DEF TypeOK
<1>5. \E S : injected' = Overlay(injected, Only(value, S))
  BY DEF Commit
<1>6. stored' = Overlay(stored, value)
  BY DEF Commit
<1> HIDE DEF value
<1>7. stored' \in Store /\ injected' \in Store
  BY <1>3, <1>4, <1>5, <1>6, OnlyPart, OverlayStore
<1> QED
  BY <1>7 DEF Commit, TypeOK, StoresTyped

LEMMA StoresNext ==
  ASSUME TypeOK, Next
  PROVE  StoresTyped'
<1>0. StoresTyped /\ RecordsTyped /\ PagesTyped
  BY TypeParts
<1>1. ASSUME UNCHANGED << stored, injected, latest, writing, toSend >> PROVE StoresTyped'
  BY <1>0, <1>1 DEF StoresTyped
<1>2. ASSUME NEW f \in Frames, Leave(f) \/ Restore(f) PROVE StoresTyped'
  BY <1>1, <1>2 DEF Leave, Restore, background
<1>3. ASSUME NEW f \in Frames, Restored(f) PROVE StoresTyped'
  BY <1>1, <1>3 DEF Restored
<1>4. ASSUME NEW f \in Frames, UpdateValue(f) PROVE StoresTyped'
  <2> DEFINE msg == Head(outbox[f])
  <2>1. msg.cell \in Cells /\ msg.val \in Content
    BY <1>0, <1>4, PostIs DEF UpdateValue, Post
  <2>2. \/ UNCHANGED << toSend, latest >>
        \/ /\ toSend' = Overlay(toSend, [d \in {msg.cell} |-> msg.val])
           /\ latest' = [latest EXCEPT ![msg.cell] = msg.val]
    BY <1>4 DEF UpdateValue
  <2>3. UNCHANGED << stored, injected, writing >>
    BY <1>4 DEF UpdateValue
  <2> HIDE DEF msg
  <2>4. toSend' \in Part /\ latest' \in Store
    BY <1>0, <2>1, <2>2, ValueType DEF StoresTyped
  <2> QED
    BY <1>0, <2>3, <2>4 DEF StoresTyped
<1>5. ASSUME NEW f \in Frames, UpdatedValues(f) PROVE StoresTyped'
  BY <1>1, <1>5 DEF UpdatedValues, background
<1>6. ASSUME NEW f \in Frames, NEW ids \in PageIds, Open(f, ids) PROVE StoresTyped'
  BY <1>1, <1>6 DEF Open
<1>7. ASSUME NEW f \in Frames, NEW c \in Cells, NEW val \in Content, FrameSets(f, c, val)
      PROVE  StoresTyped'
  BY <1>1, <1>7 DEF FrameSets, background
<1>8. ASSUME NEW stores \in Imports, SetValueStores(stores) PROVE StoresTyped'
  BY <1>8, StoresImported
<1>9. CASE SwitchOff
  BY <1>0, <1>9, NothingIs DEF SwitchOff, StoresTyped
<1>10. CASE Commit
  BY <1>10, StoresCommitted
<1>11. CASE WriteAnswered
  <2>1. writing # << >> /\ writing \in Seq(Part) /\ injected \in Store
    BY <1>0, <1>11 DEF WriteAnswered, StoresTyped
  <2>2. Head(writing) \in Part /\ Tail(writing) \in Seq(Part)
    BY <2>1, TailIs
  <2>3. Overlay(injected, Head(writing)) \in Store
    BY <2>1, <2>2, OverlayStore
  <2> QED
    BY <1>0, <1>11, <2>2, <2>3 DEF WriteAnswered, StoresTyped
<1>12. CASE Forget
  BY <1>0, <1>12 DEF Forget, StoresTyped
<1>13. CASE Broadcast
  BY <1>0, <1>13, NothingIs DEF Broadcast, StoresTyped
<1> QED
  BY <1>2, <1>3, <1>4, <1>5, <1>6, <1>7, <1>8, <1>9, <1>10, <1>11, <1>12, <1>13 DEF Next

(* The records, and what is to commit. *)
LEMMA DetachIs ==
  ASSUME RecordsTyped, record' \in [Frames -> Store], NEW F \in SUBSET Frames, Detach(F, Ids),
         \A g \in Frames \ F : record'[g] = record[g]
  PROVE  /\ PendingKept
         /\ DOMAIN toCommit' = Ids
         /\ \A i \in Ids : toCommit'[i] \in {None} \cup Frames \cup [CellsOf({i}) -> Content]
<1>1. DOMAIN toCommit' = Ids
  BY DEF Detach
<1>2. \A i \in Ids : toCommit'[i] = IF toCommit[i] \in F THEN Pending(i) ELSE toCommit[i]
  BY DEF Detach
<1> QED
  BY <1>1, <1>2, KeepsPending

(* The record of a frame that is tracked anew. *)
LEMMA FreshRecord ==
  ASSUME TypeOK, NEW ids
  PROVE  /\ Overlay(Blank, Only(injected, CellsOf(ids))) \in Store
         /\ \A c \in Cells : Overlay(Blank, Only(injected, CellsOf(ids)))[c] =
              IF c[1] \in ids THEN injected[c] ELSE None
<1>1. injected \in Store
  BY DEF TypeOK
<1>2. DOMAIN Only(injected, CellsOf(ids)) = {c \in Cells : c[1] \in ids}
  BY <1>1 DEF Only, CellsOf, Store
<1>3. Only(injected, CellsOf(ids)) \in Part
  BY <1>1, StoreIsPart, OnlyPart
<1>4. Overlay(Blank, Only(injected, CellsOf(ids))) \in Store
  BY <1>3, BlankIs, OverlayStore
<1>5. ASSUME NEW c \in Cells
      PROVE  Overlay(Blank, Only(injected, CellsOf(ids)))[c] =
               IF c[1] \in ids THEN injected[c] ELSE None
  <2>1. CASE c[1] \in ids
    <3>1. c \in DOMAIN injected \cap CellsOf(ids)
      BY <1>1, <2>1 DEF CellsOf, Store
    <3>2. Only(injected, CellsOf(ids))[c] = injected[c]
      BY <3>1, OnlyIs
    <3> QED
      BY <1>2, <2>1, <3>2, OverlayIs
  <2>2. CASE c[1] \notin ids
    <3>1. c \in DOMAIN Blank \ DOMAIN Only(injected, CellsOf(ids))
      BY <1>2, <2>2 DEF Blank
    <3> QED
      BY <2>2, <3>1, OverlayIs, BlankIs
  <2> QED
    BY <2>1, <2>2
<1> QED
  BY <1>4, <1>5

LEMMA TrackOnlyIs ==
  ASSUME TypeOK, NEW f \in Frames, NEW ids \in SUBSET Ids, TrackOnly(f, ids)
  PROVE  RecordsTyped' /\ PendingKept
<1>0. RecordsTyped
  BY TypeParts
<1>1. Under(f) \in SUBSET Frames /\ f \in Under(f)
  BY DEF Under
<1>2. tracked' \in [Frames -> SUBSET Ids]
  BY <1>0 DEF TrackOnly, RecordsTyped
<1> DEFINE fresh == Overlay(Blank, Only(injected, CellsOf(ids)))
<1>3. fresh \in Store
  BY FreshRecord
<1>4. record' = [g \in Frames |-> IF g = f THEN fresh ELSE IF g \in Under(f) THEN Blank ELSE record[g]]
  BY DEF TrackOnly
<1> HIDE DEF fresh
<1>5. record' \in [Frames -> Store]
  BY <1>0, <1>3, <1>4, BlankIs DEF RecordsTyped
<1>6. \A g \in Frames \ Under(f) : record'[g] = record[g]
  BY <1>1, <1>4
<1>7. Detach(Under(f), Ids)
  BY DEF TrackOnly
<1> QED
  BY <1>0, <1>1, <1>2, <1>5, <1>6, <1>7, DetachIs DEF RecordsTyped

(* What Restored makes of the records: the scripts of the page that have   *)
(* no entry are cleared, those that have one get what is stored.           *)
LEMMA RestoredRecords ==
  ASSUME TypeOK, NEW f \in Frames, Restored(f)
  PROVE  /\ record' \in [Frames -> Store]
         /\ \A c \in Cells, g \in Frames :
              record'[g][c] = IF g = f /\ c[1] \in page[f].ids \cap exists THEN stored[c]
                              ELSE IF c[1] \in page[f].ids \ exists THEN None
                              ELSE record[g][c]
<1> DEFINE ids  == page[f].ids
           gone == Only(Blank, CellsOf(ids \ exists))
           kept == Only(stored, CellsOf(ids \cap exists))
           new(g) == IF g = f THEN kept ELSE Nothing
<1>1. stored \in Store /\ record \in [Frames -> Store]
  BY DEF TypeOK
<1>2. gone \in Part /\ kept \in Part
  BY <1>1, BlankIs, StoreIsPart, OnlyPart
<1>3. DOMAIN gone = {c \in Cells : c[1] \in ids \ exists}
  BY DEF Only, Blank, CellsOf
<1>4. DOMAIN kept = {c \in Cells : c[1] \in ids \cap exists}
  BY <1>1 DEF Only, Store, CellsOf
<1>5. \A c \in DOMAIN gone : gone[c] = None
  BY DEF Only, Blank, CellsOf
<1>6. \A c \in DOMAIN kept : kept[c] = stored[c]
  BY DEF Only
<1>7. record' = [g \in Frames |-> Overlay(Overlay(record[g], gone), new(g))]
  BY DEF Restored
<1>8. \A g \in Frames : new(g) \in Part
  BY <1>2, NothingIs
<1> HIDE DEF gone, kept
<1>9. ASSUME NEW g \in Frames
      PROVE  /\ Overlay(record[g], gone) \in Store
             /\ Overlay(Overlay(record[g], gone), new(g)) \in Store
  BY <1>1, <1>2, <1>8, OverlayStore
<1>10. record' \in [Frames -> Store]
  BY <1>7, <1>9
<1>11. ASSUME NEW c \in Cells, NEW g \in Frames
       PROVE  record'[g][c] = IF g = f /\ c[1] \in ids \cap exists THEN stored[c]
                              ELSE IF c[1] \in ids \ exists THEN None ELSE record[g][c]
  <2> DEFINE base == Overlay(record[g], gone)
  <2>1. base \in Store /\ DOMAIN base = Cells /\ DOMAIN record[g] = Cells
    BY <1>1, <1>9, StoreIsPart
  <2>2. base[c] = IF c[1] \in ids \ exists THEN None ELSE record[g][c]
    BY <1>3, <1>5, <2>1, OverlayIs
  <2>3. record'[g] = Overlay(base, new(g))
    BY <1>7
  <2> HIDE DEF base
  <2>4. CASE g = f /\ c[1] \in ids \cap exists
    <3>1. new(g) = kept /\ c \in DOMAIN kept
      BY <1>4, <2>4
    <3> QED
      BY <1>6, <2>3, <2>4, <3>1, OverlayIs
  <2>5. CASE ~(g = f /\ c[1] \in ids \cap exists)
    <3>1. c \in DOMAIN base \ DOMAIN new(g)
      BY <1>4, <2>1, <2>5, NothingIs
    <3>2. record'[g][c] = base[c]
      BY <2>3, <3>1, OverlayIs
    <3> QED
      BY <2>2, <2>5, <3>2
  <2> QED
    BY <2>4, <2>5
<1> QED
  BY <1>10, <1>11

LEMMA RestoredIs ==
  ASSUME TypeOK, NEW f \in Frames, Restored(f)
  PROVE  RecordsTyped' /\ PendingKept
<1>0. RecordsTyped /\ page[f] \in Page /\ exists \subseteq Ids
  BY DEF TypeOK, RecordsTyped
<1>1. tracked' \in [Frames -> SUBSET Ids]
  <2>1. page[f].ids \subseteq Ids
    BY <1>0 DEF Page
  <2> QED
    BY <1>0, <2>1 DEF Restored, RecordsTyped
<1>2. record' \in [Frames -> Store]
  BY RestoredRecords
<1>3. DOMAIN toCommit' = Ids
  BY DEF Restored
<1>4. ASSUME NEW i \in Ids
      PROVE  \/ toCommit'[i] = Pending(i)
             \/ /\ toCommit'[i] = toCommit[i]
                /\ toCommit[i] \in Frames =>
                     \A c \in CellsOf({i}) : record'[toCommit[i]][c] = record[toCommit[i]][c]
  <2>1. toCommit'[i] = IF i \in page[f].ids /\ (toCommit[i] = f \/ i \notin exists)
                       THEN Pending(i) ELSE toCommit[i]
    BY DEF Restored
  <2>2. CASE i \in page[f].ids /\ (toCommit[i] = f \/ i \notin exists)
    BY <2>1, <2>2
  <2>3. CASE ~(i \in page[f].ids /\ (toCommit[i] = f \/ i \notin exists))
    <3>1. ASSUME toCommit[i] \in Frames, NEW c \in CellsOf({i})
          PROVE  record'[toCommit[i]][c] = record[toCommit[i]][c]
      <4>1. c \in Cells /\ c[1] = i
        BY CellsOfOne
      <4> QED
        BY <2>3, <3>1, <4>1, RestoredRecords
    <3> QED
      BY <2>1, <2>3, <3>1
  <2> QED
    BY <2>2, <2>3
<1> QED
  BY <1>0, <1>1, <1>2, <1>3, <1>4, KeepsPending DEF RecordsTyped

(* What a broadcast tells a frame and what becomes of its record. *)
News(f) == Only(toSend, {c \in CellsOf(tracked[f]) \cap DOMAIN toSend : toSend[c] # record[f][c]})

LEMMA NewsIs ==
  ASSUME TypeOK, NEW f \in Frames
  PROVE  /\ News(f) \in Part
         /\ DOMAIN News(f) = {c \in Cells : /\ c[1] \in tracked[f] /\ c \in DOMAIN toSend
                                            /\ toSend[c] # record[f][c]}
         /\ \A c \in DOMAIN News(f) : News(f)[c] = toSend[c]
<1>1. toSend \in Part
  BY DEF TypeOK
<1>2. News(f) \in Part
  BY <1>1, OnlyPart DEF News
<1>3. DOMAIN News(f) = {c \in Cells : /\ c[1] \in tracked[f] /\ c \in DOMAIN toSend
                                      /\ toSend[c] # record[f][c]}
  BY DEF News, Only, CellsOf
<1>4. \A c \in DOMAIN News(f) : News(f)[c] = toSend[c]
  BY DEF News, Only
<1> QED
  BY <1>2, <1>3, <1>4

LEMMA BroadcastIs ==
  ASSUME TypeOK, Broadcast
  PROVE  /\ record' \in [Frames -> Store]
         /\ \A f \in Frames, c \in Cells :
              record'[f][c] = IF c[1] \in tracked[f] /\ c \in DOMAIN toSend THEN toSend[c]
                              ELSE record[f][c]
         /\ inbox' = [f \in Frames |-> IF News(f) = Nothing THEN inbox[f]
                                       ELSE Append(inbox[f], News(f))]
<1>1. record \in [Frames -> Store]
  BY DEF TypeOK
<1>2. record' = [f \in Frames |-> Overlay(record[f], News(f))]
  BY DEF Broadcast, News
<1>3. ASSUME NEW f \in Frames PROVE Overlay(record[f], News(f)) \in Store
  BY <1>1, NewsIs, OverlayStore
<1>4. ASSUME NEW f \in Frames, NEW c \in Cells
      PROVE  record'[f][c] = IF c[1] \in tracked[f] /\ c \in DOMAIN toSend THEN toSend[c]
                             ELSE record[f][c]
  <2>1. record'[f] = Overlay(record[f], News(f)) /\ DOMAIN record[f] = Cells
    BY <1>1, <1>2, StoreIsPart
  <2>2. CASE c \in DOMAIN News(f)
    <3>1. News(f)[c] = toSend[c] /\ c[1] \in tracked[f] /\ c \in DOMAIN toSend
      BY <2>2, NewsIs
    <3>2. record'[f][c] = News(f)[c]
      BY <2>1, <2>2, OverlayIs
    <3> QED
      BY <3>1, <3>2
  <2>3. CASE c \notin DOMAIN News(f)
    <3>1. record'[f][c] = record[f][c]
      BY <2>1, <2>3, OverlayIs
    <3> QED
      BY <2>3, <3>1, NewsIs
  <2> QED
    BY <2>2, <2>3
<1>5. inbox' = [f \in Frames |-> IF News(f) = Nothing THEN inbox[f] ELSE Append(inbox[f], News(f))]
  BY DEF Broadcast, News
<1> QED
  BY <1>2, <1>3, <1>4, <1>5

(* A message UpdateValue, which counts or is ignored. *)
Counts(f, c, val) ==
  /\ c[1] \in tracked[f]
  /\ record' = [record EXCEPT ![f] = [record[f] EXCEPT ![c] = val]]
  /\ toCommit' = [toCommit EXCEPT ![c[1]] = f]
  /\ timers' = IF toCommitPending THEN timers ELSE timers + 1
  /\ toCommitPending' = TRUE
  /\ toSend' = Overlay(toSend, [d \in {c} |-> val])
  /\ latest' = [latest EXCEPT ![c] = val]
  /\ raced' = raced \cup {d \in (DOMAIN toSend \cap CellsOf({c[1]})) \ {c} : toSend[d] # record[f][d]}
                    \cup {d \in {c} : Head(outbox[f]).late \/ c \in Arriving(f)}

Ignored(f, c) ==
  /\ c[1] \notin tracked[f]
  /\ UNCHANGED << record, toCommit, toCommitPending, timers, toSend, latest, raced >>

LEMMA MessageIs ==
  ASSUME TypeOK, NEW f \in Frames, UpdateValue(f)
  PROVE  /\ outbox[f] \in Seq(Post) /\ outbox[f] # << >>
         /\ \E c \in Cells, val \in Content :
              /\ c = Head(outbox[f]).cell /\ val = Head(outbox[f]).val
              /\ Counts(f, c, val) \/ Ignored(f, c)
<1>1. PagesTyped /\ outbox[f] # << >>
  BY TypeParts DEF UpdateValue
<1>2. Head(outbox[f]).cell \in Cells /\ Head(outbox[f]).val \in Content
  BY <1>1, PostIs DEF Post
<1> DEFINE c   == Head(outbox[f]).cell
           val == Head(outbox[f]).val
<1>3. Counts(f, c, val) \/ Ignored(f, c)
  BY DEF UpdateValue, Counts, Ignored
<1> QED
  BY <1>1, <1>2, <1>3 DEF PagesTyped

LEMMA RecordsNext ==
  ASSUME TypeOK, Next
  PROVE  RecordsTyped'
<1>0. RecordsTyped
  BY TypeParts
<1>1. ASSUME UNCHANGED << tracked, record, toCommit >> PROVE RecordsTyped'
  BY <1>0, <1>1 DEF RecordsTyped
<1>2. ASSUME NEW f \in Frames, Leave(f) \/ Restore(f) PROVE RecordsTyped'
  BY <1>1, <1>2 DEF Leave, Restore, background
<1>3. ASSUME NEW f \in Frames, Restored(f) PROVE RecordsTyped'
  BY <1>3, RestoredIs
<1>4. ASSUME NEW f \in Frames, UpdateValue(f) PROVE RecordsTyped'
  <2>1. PICK c \in Cells, val \in Content : Counts(f, c, val) \/ Ignored(f, c)
    BY <1>4, MessageIs
  <2>2. tracked' = tracked
    BY <1>4 DEF UpdateValue
  <2>3. CASE Ignored(f, c)
    BY <1>1, <2>2, <2>3 DEF Ignored
  <2>4. CASE Counts(f, c, val)
    <3>1. /\ record' = [record EXCEPT ![f] = [record[f] EXCEPT ![c] = val]]
          /\ toCommit' = [toCommit EXCEPT ![c[1]] = f]
      BY <2>4 DEF Counts
    <3>2. [record[f] EXCEPT ![c] = val] \in Store
      BY <1>0, <2>1 DEF RecordsTyped, Store
    <3>3. record' \in [Frames -> Store]
      BY <1>0, <3>1, <3>2 DEF RecordsTyped
    <3>4. \A i \in Ids : toCommit'[i] = IF i = c[1] THEN f ELSE toCommit[i]
      BY <1>0, <3>1 DEF RecordsTyped
    <3>5. DOMAIN toCommit' = Ids
      BY <1>0, <3>1 DEF RecordsTyped
    <3>6. \A i \in Ids : toCommit'[i] \in {None} \cup Frames \cup [CellsOf({i}) -> Content]
      BY <1>0, <3>4 DEF RecordsTyped
    <3> QED
      BY <1>0, <2>2, <3>3, <3>5, <3>6 DEF RecordsTyped
  <2> QED
    BY <2>1, <2>3, <2>4
<1>5. ASSUME NEW f \in Frames, UpdatedValues(f) PROVE RecordsTyped'
  BY <1>1, <1>5 DEF UpdatedValues, background
<1>6. ASSUME NEW f \in Frames, NEW ids \in PageIds, Open(f, ids) PROVE RecordsTyped'
  <2>1. ids \in SUBSET Ids /\ TrackOnly(f, ids)
    BY <1>6, BoundAssumption DEF Open
  <2> QED
    BY <2>1, TrackOnlyIs
<1>7. ASSUME NEW f \in Frames, NEW c \in Cells, NEW val \in Content, FrameSets(f, c, val)
      PROVE  RecordsTyped'
  BY <1>1, <1>7 DEF FrameSets, background
<1>8. ASSUME NEW stores \in Imports, SetValueStores(stores) PROVE RecordsTyped'
  BY <1>0, <1>8 DEF SetValueStores, RecordsTyped
<1>9. CASE SwitchOff
  <2>1. record' \in [Frames -> Store] /\ tracked' \in [Frames -> SUBSET Ids]
    BY <1>9, BlankIs DEF SwitchOff
  <2>2. Detach(Frames, Ids)
    BY <1>9 DEF SwitchOff
  <2> QED
    BY <1>0, <2>1, <2>2, DetachIs DEF RecordsTyped
<1>10. CASE Commit
  BY <1>0, <1>10 DEF Commit, RecordsTyped
<1>11. CASE WriteAnswered
  BY <1>1, <1>11 DEF WriteAnswered
<1>12. CASE Forget
  BY <1>1, <1>12 DEF Forget
<1>13. CASE Broadcast
  BY <1>0, <1>13, BroadcastIs DEF Broadcast, RecordsTyped
<1> QED
  BY <1>2, <1>3, <1>4, <1>5, <1>6, <1>7, <1>8, <1>9, <1>10, <1>11, <1>12, <1>13 DEF Next

(* The pages and the messages. *)
LEMMA TurnsLateIs ==
  ASSUME PagesTyped, NEW f \in Frames, TurnsLate(f)
  PROVE  /\ outbox' \in [Frames -> Seq(Post)]
         /\ \A g \in Frames \ {f} : outbox'[g] = outbox[g]
         /\ Len(outbox'[f]) = Len(outbox[f])
         /\ \A n \in 1 .. Len(outbox[f]) : /\ outbox'[f][n].cell = outbox[f][n].cell
                                           /\ outbox'[f][n].late
<1> DEFINE s == outbox[f]
           t == [n \in DOMAIN s |-> [s[n] EXCEPT !.late = TRUE]]
<1>1. s \in Seq(Post) /\ outbox \in [Frames -> Seq(Post)]
  BY DEF PagesTyped
<1>2. Len(s) \in Nat /\ DOMAIN s = 1 .. Len(s) /\ \A n \in 1 .. Len(s) : s[n] \in Post
  BY <1>1
<1>3. outbox' = [outbox EXCEPT ![f] = t]
  BY DEF TurnsLate
<1>4. \A n \in 1 .. Len(s) : /\ [s[n] EXCEPT !.late = TRUE] \in Post
                             /\ [s[n] EXCEPT !.late = TRUE].cell = s[n].cell
                             /\ [s[n] EXCEPT !.late = TRUE].late
  BY <1>2 DEF Post
<1>5. t \in [1 .. Len(s) -> Post]
  BY <1>2, <1>4
<1>6. t \in Seq(Post) /\ Len(t) = Len(s)
  BY <1>2, <1>5
<1>7. \A n \in 1 .. Len(s) : t[n].cell = s[n].cell /\ t[n].late
  BY <1>2, <1>4
<1> HIDE DEF s, t
<1>8. outbox' \in [Frames -> Seq(Post)] /\ outbox'[f] = t /\ \A g \in Frames \ {f} : outbox'[g] = outbox[g]
  BY <1>1, <1>3, <1>6
<1> QED
  BY <1>6, <1>7, <1>8 DEF s

LEMMA OpenIs ==
  ASSUME TypeOK, NEW f \in Frames, NEW ids \in SUBSET Ids, Open(f, ids)
  PROVE  /\ page' \in [Frames -> Page]
         /\ page'[f].live /\ ~page'[f].reports /\ page'[f].ids = ids
         /\ page'[f].local = Overlay(Blank, Only(injected, CellsOf(ids)))
         /\ \A g \in Frames \ {f} : page'[g] = page[g]
<1> DEFINE new == [live |-> TRUE, reports |-> FALSE, ids |-> ids,
                   local |-> Overlay(Blank, Only(injected, CellsOf(ids)))]
<1>1. page' = [page EXCEPT ![f] = new]
  BY DEF Open
<1>2. new \in Page
  BY FreshRecord DEF Page
<1>3. new.live /\ ~new.reports /\ new.ids = ids
      /\ new.local = Overlay(Blank, Only(injected, CellsOf(ids)))
  OBVIOUS
<1> HIDE DEF new
<1> QED
  BY <1>1, <1>2, <1>3 DEF TypeOK

LEMMA NoPageIs == NoPage \in Page /\ ~NoPage.live
  BY BlankIs DEF NoPage, Page

LEMMA RestoreIs ==
  ASSUME TypeOK, NEW f \in Frames, Restore(f)
  PROVE  /\ {page', frozen'} \subseteq [Frames -> Page]
         /\ page'[f].live /\ page'[f].reports
         /\ \A g \in Frames \ {f} : page'[g] = page[g]
<1> DEFINE new == [frozen[f] EXCEPT !.reports = TRUE]
<1>1. frozen[f] \in Page /\ frozen[f].live /\ page \in [Frames -> Page]
  BY DEF Restore, TypeOK
<1>2. new \in Page /\ new.live /\ new.reports
  BY <1>1 DEF Page
<1>3. page' = [page EXCEPT ![f] = new]
  BY DEF Restore
<1> HIDE DEF new
<1>4. page' \in [Frames -> Page] /\ page'[f] = new /\ \A g \in Frames \ {f} : page'[g] = page[g]
  BY <1>1, <1>2, <1>3
<1>5. frozen' \in [Frames -> Page]
  BY NoPageIs DEF Restore, TypeOK
<1> QED
  BY <1>2, <1>4, <1>5

LEMMA ReportIs ==
  ASSUME TypeOK, NEW f \in Frames, Restored(f)
  PROVE  /\ page' \in [Frames -> Page]
         /\ page'[f].live = page[f].live /\ ~page'[f].reports
         /\ page'[f].ids = page[f].ids /\ page'[f].local = page[f].local
         /\ \A g \in Frames \ {f} : page'[g] = page[g]
<1> DEFINE new == [page[f] EXCEPT !.reports = FALSE]
<1>1. page[f] \in Page /\ page \in [Frames -> Page]
  BY DEF TypeOK
<1>2. new \in Page /\ new.live = page[f].live /\ ~new.reports /\ new.ids = page[f].ids
      /\ new.local = page[f].local
  BY <1>1 DEF Page
<1>3. page' = [page EXCEPT ![f] = new]
  BY DEF Restored
<1> HIDE DEF new
<1>4. page' \in [Frames -> Page] /\ page'[f] = new /\ \A g \in Frames \ {f} : page'[g] = page[g]
  BY <1>1, <1>2, <1>3
<1> QED
  BY <1>2, <1>4

LEMMA SetIs ==
  ASSUME TypeOK, NEW f \in Frames, NEW c \in Cells, NEW val \in Content, FrameSets(f, c, val)
  PROVE  /\ page' \in [Frames -> Page] /\ outbox' \in [Frames -> Seq(Post)]
         /\ page'[f].live = page[f].live /\ page'[f].reports = page[f].reports
         /\ page'[f].ids = page[f].ids
         /\ page'[f].local = [page[f].local EXCEPT ![c] = val]
         /\ \A g \in Frames \ {f} : page'[g] = page[g] /\ outbox'[g] = outbox[g]
         /\ outbox'[f] = Append(outbox[f], [cell |-> c, val |-> val, late |-> FALSE])
         /\ [cell |-> c, val |-> val, late |-> FALSE] \in Post
<1> DEFINE local == [page[f].local EXCEPT ![c] = val]
           new   == [page[f] EXCEPT !.local = local]
           msg   == [cell |-> c, val |-> val, late |-> FALSE]
<1>1. page[f] \in Page /\ page \in [Frames -> Page] /\ outbox \in [Frames -> Seq(Post)]
  BY DEF TypeOK
<1>2. local \in Store
  BY <1>1 DEF Page, Store
<1>3. page' = [page EXCEPT ![f] = new]
  BY DEF FrameSets
<1>4. msg \in Post
  BY DEF Post
<1>5. outbox' = [outbox EXCEPT ![f] = Append(outbox[f], msg)]
  BY DEF FrameSets
<1> HIDE DEF local, msg
<1>6. new \in Page /\ new.live = page[f].live /\ new.reports = page[f].reports
      /\ new.ids = page[f].ids /\ new.local = local
  BY <1>1, <1>2 DEF Page
<1> HIDE DEF new
<1>7. page' \in [Frames -> Page] /\ page'[f] = new /\ \A g \in Frames \ {f} : page'[g] = page[g]
  BY <1>1, <1>3, <1>6
<1>8. Append(outbox[f], msg) \in Seq(Post)
  BY <1>1, <1>4, AppendIs
<1>9. /\ outbox' \in [Frames -> Seq(Post)] /\ outbox'[f] = Append(outbox[f], msg)
      /\ \A g \in Frames \ {f} : outbox'[g] = outbox[g]
  BY <1>1, <1>5, <1>8
<1> QED
  BY <1>4, <1>6, <1>7, <1>9 DEF local, msg

(* The part of a message that concerns the scripts of the page. *)
Update(f) == Only(Head(inbox[f]), CellsOf(page[f].ids))

LEMMA ReachIs ==
  ASSUME TypeOK, NEW f \in Frames, UpdatedValues(f)
  PROVE  /\ page' \in [Frames -> Page]
         /\ page'[f].live = page[f].live /\ page'[f].reports = page[f].reports
         /\ page'[f].ids = page[f].ids
         /\ page'[f].local = Overlay(page[f].local, Update(f))
         /\ \A g \in Frames \ {f} : page'[g] = page[g] /\ inbox'[g] = inbox[g]
         /\ inbox[f] \in Seq(Part) /\ inbox[f] # << >>
         /\ inbox' \in [Frames -> Seq(Part)] /\ inbox'[f] = Tail(inbox[f])
         /\ page[f].local \in Store
<1> DEFINE local == Overlay(page[f].local, Update(f))
           new   == [page[f] EXCEPT !.local = local]
<1>1. page[f] \in Page /\ page \in [Frames -> Page] /\ inbox \in [Frames -> Seq(Part)]
      /\ inbox[f] \in Seq(Part) /\ inbox[f] # << >>
  BY DEF TypeOK, UpdatedValues
<1>2. Head(inbox[f]) \in Part /\ Tail(inbox[f]) \in Seq(Part)
  BY <1>1, TailIs
<1>3. Update(f) \in Part /\ page[f].local \in Store
  BY <1>1, <1>2, OnlyPart DEF Update, Page
<1>4. local \in Store
  BY <1>3, OverlayStore
<1>5. page' = [page EXCEPT ![f] = new]
  BY DEF UpdatedValues, Update
<1>6. inbox' = [inbox EXCEPT ![f] = Tail(inbox[f])]
  BY DEF UpdatedValues
<1> HIDE DEF local
<1>7. new \in Page /\ new.live = page[f].live /\ new.reports = page[f].reports
      /\ new.ids = page[f].ids /\ new.local = local
  BY <1>1, <1>4 DEF Page
<1> HIDE DEF new
<1>8. page' \in [Frames -> Page] /\ page'[f] = new /\ \A g \in Frames \ {f} : page'[g] = page[g]
  BY <1>1, <1>5, <1>7
<1>9. /\ inbox' \in [Frames -> Seq(Part)] /\ inbox'[f] = Tail(inbox[f])
      /\ \A g \in Frames \ {f} : inbox'[g] = inbox[g]
  BY <1>1, <1>2, <1>6
<1> QED
  BY <1>1, <1>3, <1>7, <1>8, <1>9 DEF local

LEMMA PagesNext ==
  ASSUME TypeOK, Next
  PROVE  PagesTyped'
<1>0. PagesTyped
  BY TypeParts
<1>1. ASSUME UNCHANGED << page, frozen, outbox, inbox >> PROVE PagesTyped'
  BY <1>0, <1>1 DEF PagesTyped
<1>2. ASSUME NEW f \in Frames, Leave(f) PROVE PagesTyped'
  <2>1. page' \in [Frames -> Page]
    BY <1>0, <1>2, NoPageIs DEF Leave, PagesTyped
  <2>2. frozen' \in [Frames -> Page]
    BY <1>0, <1>2 DEF Leave, PagesTyped
  <2> QED
    BY <1>0, <1>2, <2>1, <2>2 DEF Leave, PagesTyped
<1>3. ASSUME NEW f \in Frames, Restore(f) PROVE PagesTyped'
  <2>1. outbox' \in [Frames -> Seq(Post)]
    BY <1>0, <1>3, TurnsLateIs DEF Restore
  <2>2. inbox' = inbox
    BY <1>3 DEF Restore
  <2> QED
    BY <1>0, <1>3, <2>1, <2>2, RestoreIs DEF PagesTyped
<1>4. ASSUME NEW f \in Frames, Restored(f) PROVE PagesTyped'
  <2>1. UNCHANGED << frozen, outbox, inbox >>
    BY <1>4 DEF Restored
  <2> QED
    BY <1>0, <1>4, <2>1, ReportIs DEF PagesTyped
<1>5. ASSUME NEW f \in Frames, UpdateValue(f) PROVE PagesTyped'
  <2>1. outbox' = [outbox EXCEPT ![f] = Tail(outbox[f])] /\ UNCHANGED << page, frozen, inbox >>
    BY <1>5 DEF UpdateValue
  <2>2. Tail(outbox[f]) \in Seq(Post)
    BY <1>0, <1>5, PostIs DEF UpdateValue
  <2> QED
    BY <1>0, <2>1, <2>2 DEF PagesTyped
<1>6. ASSUME NEW f \in Frames, UpdatedValues(f) PROVE PagesTyped'
  <2>1. UNCHANGED << frozen, outbox >>
    BY <1>6 DEF UpdatedValues
  <2> QED
    BY <1>0, <1>6, <2>1, ReachIs DEF PagesTyped
<1>7. ASSUME NEW f \in Frames, NEW ids \in PageIds, Open(f, ids) PROVE PagesTyped'
  <2>1. ids \in SUBSET Ids
    BY BoundAssumption
  <2>2. outbox' \in [Frames -> Seq(Post)]
    BY <1>0, <1>7, TurnsLateIs DEF Open
  <2>3. inbox' = [inbox EXCEPT ![f] = << >>] \/ inbox' = inbox
    BY <1>7 DEF Open
  <2>4. inbox' \in [Frames -> Seq(Part)]
    <3>1. inbox \in [Frames -> Seq(Part)] /\ << >> \in Seq(Part)
      BY <1>0 DEF PagesTyped
    <3>2. [inbox EXCEPT ![f] = << >>] \in [Frames -> Seq(Part)]
      BY <3>1
    <3> QED
      BY <2>3, <3>1, <3>2
  <2>5. frozen' = frozen
    BY <1>7 DEF Open
  <2> QED
    BY <1>0, <1>7, <2>1, <2>2, <2>4, <2>5, OpenIs DEF PagesTyped
<1>8. ASSUME NEW f \in Frames, NEW c \in Cells, NEW val \in Content, FrameSets(f, c, val)
      PROVE  PagesTyped'
  <2>1. UNCHANGED << frozen, inbox >>
    BY <1>8 DEF FrameSets
  <2> QED
    BY <1>0, <1>8, <2>1, SetIs DEF PagesTyped
<1>9. ASSUME NEW stores \in Imports, SetValueStores(stores) PROVE PagesTyped'
  BY <1>1, <1>9 DEF SetValueStores
<1>10. CASE SwitchOff
  BY <1>1, <1>10 DEF SwitchOff
<1>11. CASE Commit
  BY <1>1, <1>11 DEF Commit
<1>12. CASE WriteAnswered
  BY <1>1, <1>12 DEF WriteAnswered
<1>13. CASE Forget
  BY <1>1, <1>13 DEF Forget
<1>14. CASE Broadcast
  <2>1. UNCHANGED << page, frozen, outbox >>
    BY <1>14 DEF Broadcast
  <2>2. \A f \in Frames : Append(inbox[f], News(f)) \in Seq(Part)
    BY <1>0, NewsIs, AppendIs DEF PagesTyped
  <2>3. inbox' \in [Frames -> Seq(Part)]
    BY <1>0, <1>14, <2>2, BroadcastIs DEF PagesTyped
  <2> QED
    BY <1>0, <2>1, <2>3 DEF PagesTyped
<1> QED
  BY <1>2, <1>3, <1>4, <1>5, <1>6, <1>7, <1>8, <1>9, <1>10, <1>11, <1>12, <1>13, <1>14 DEF Next

(* Counters, histories and the scripts that have an entry. *)
LEMMA RestNext ==
  ASSUME TypeOK, Next
  PROVE  RestTyped'
<1>0. RestTyped /\ RecordsTyped /\ PagesTyped
  BY TypeParts
<1>1. ASSUME UNCHANGED << exists, untracked, toCommitPending, timers, chain >>,
             raced' \subseteq Cells
      PROVE  RestTyped'
  BY <1>0, <1>1 DEF RestTyped
<1>2. ASSUME NEW f \in Frames, Leave(f) \/ Restore(f) PROVE RestTyped'
  BY <1>0, <1>1, <1>2 DEF Leave, Restore, background, RestTyped
<1>3. ASSUME NEW f \in Frames, Restored(f) PROVE RestTyped'
  <2>1. UNCHANGED << exists, toCommitPending, timers, chain >>
    BY <1>3 DEF Restored
  <2>2. untracked' = untracked \cup (page[f].ids \ exists)
    BY <1>3 DEF Restored
  <2>3. page[f].ids \subseteq Ids
    BY <1>0 DEF PagesTyped, Page
  <2>4. \A c \in raced' : c \in raced \/ c \in Cells
    BY <1>3 DEF Restored, CellsOf
  <2> QED
    BY <1>0, <2>1, <2>2, <2>3, <2>4 DEF RestTyped
<1>4. ASSUME NEW f \in Frames, UpdateValue(f) PROVE RestTyped'
  <2>1. UNCHANGED << exists, chain, untracked >>
    BY <1>4 DEF UpdateValue
  <2>2. PICK c \in Cells, val \in Content : Counts(f, c, val) \/ Ignored(f, c)
    BY <1>4, MessageIs
  <2>3. \A d \in raced' : d \in raced \/ d \in Cells
    BY <2>2 DEF Counts, Ignored, CellsOf
  <2>4. timers' \in Nat /\ toCommitPending' \in BOOLEAN
    <3>1. CASE Counts(f, c, val)
      <4>1. toCommitPending' \in BOOLEAN
        BY <3>1 DEF Counts
      <4>2. timers' = timers \/ timers' = timers + 1
        BY <3>1 DEF Counts
      <4> QED
        BY <1>0, <4>1, <4>2 DEF RestTyped
    <3>2. CASE Ignored(f, c)
      BY <1>0, <3>2 DEF Ignored, RestTyped
    <3> QED
      BY <2>2, <3>1, <3>2
  <2> QED
    BY <1>0, <2>1, <2>3, <2>4 DEF RestTyped
<1>5. ASSUME NEW f \in Frames, UpdatedValues(f) PROVE RestTyped'
  <2>1. UNCHANGED << exists, untracked, toCommitPending, timers, chain >>
    BY <1>5 DEF UpdatedValues, background
  <2>2. DOMAIN Update(f) \subseteq Cells
    BY DEF Update, Only, CellsOf
  <2>3. raced' = raced \cup (DOMAIN Update(f) \cap Posted(f))
    BY <1>5 DEF UpdatedValues, Update
  <2> QED
    BY <1>0, <1>1, <2>1, <2>2, <2>3 DEF RestTyped
<1>6. ASSUME NEW f \in Frames, NEW ids \in PageIds, Open(f, ids) PROVE RestTyped'
  <2>1. UNCHANGED << exists, untracked, toCommitPending, timers, chain >>
    BY <1>6 DEF Open
  <2>2. inbox[f] \in Seq(Part)
    BY <1>0 DEF PagesTyped
  <2>3. \A n \in DOMAIN inbox[f] : inbox[f][n] \in Part
    BY <2>2
  <2>4. Arriving(f) \subseteq Cells
    BY <2>3, PartIs DEF Arriving
  <2>5. \A c \in raced' : c \in raced \cup Arriving(f) \cup CellsOf(ids)
    BY <1>6 DEF Open
  <2>6. CellsOf(ids) \subseteq Cells
    BY DEF CellsOf
  <2> QED
    BY <1>0, <1>1, <2>1, <2>4, <2>5, <2>6 DEF RestTyped
<1>7. ASSUME NEW f \in Frames, NEW c \in Cells, NEW val \in Content, FrameSets(f, c, val)
      PROVE  RestTyped'
  BY <1>0, <1>1, <1>7 DEF FrameSets, background, RestTyped
<1>8. ASSUME NEW stores \in Imports, SetValueStores(stores) PROVE RestTyped'
  <2>1. /\ exists' = exists \cup {c[1] : c \in DOMAIN stores}
        /\ toCommitPending' = FALSE /\ chain' = chain + 1
        /\ UNCHANGED << timers, untracked >>
    BY <1>8 DEF SetValueStores
  <2>2. DOMAIN stores \subseteq Cells
    BY ImportIs, PartIs
  <2>3. {c[1] : c \in DOMAIN stores} \subseteq Ids
    BY <2>2, CellsAssumption
  <2>4. \A c \in raced' : c \in raced \/ c \in Cells \/ c \in DOMAIN stores
    BY <1>8 DEF SetValueStores
  <2>5. timers' \in Nat /\ chain' \in Nat
    BY <1>0, <2>1 DEF RestTyped
  <2>6. toCommitPending' \in BOOLEAN
    BY <2>1
  <2> QED
    BY <1>0, <2>1, <2>2, <2>3, <2>4, <2>5, <2>6 DEF RestTyped
<1>9. CASE SwitchOff
  <2>1. UNCHANGED << exists, toCommitPending, timers, chain, raced >>
        /\ untracked' = untracked \cup UNION {tracked[f] : f \in Frames}
    BY <1>9 DEF SwitchOff
  <2>2. \A f \in Frames : tracked[f] \subseteq Ids
    BY <1>0 DEF RecordsTyped
  <2> QED
    BY <1>0, <2>1, <2>2 DEF RestTyped
<1>10. CASE Commit
  <2>1. exists' = exists \cup {i \in Ids : toCommit[i] # None}
        /\ timers > 0 /\ timers' = timers - 1 /\ chain' = chain + 1
        /\ toCommitPending' = FALSE /\ UNCHANGED << untracked, raced >>
    BY <1>10 DEF Commit
  <2>2. timers' \in Nat /\ chain' \in Nat
    BY <1>0, <2>1 DEF RestTyped
  <2>3. toCommitPending' \in BOOLEAN
    BY <2>1
  <2> QED
    BY <1>0, <2>1, <2>2, <2>3 DEF RestTyped
<1>11. CASE WriteAnswered
  <2>1. UNCHANGED << exists, untracked, toCommitPending, timers, chain >>
    BY <1>11 DEF WriteAnswered
  <2>2. writing \in Seq(Part) /\ writing # << >>
    BY <1>11 DEF WriteAnswered, TypeOK
  <2>3. DOMAIN Head(writing) \subseteq Cells
    BY <2>2, TailIs, PartIs
  <2>4. \A c \in raced' : c \in raced \/ c \in DOMAIN Head(writing)
    BY <1>11 DEF WriteAnswered
  <2> QED
    BY <1>0, <1>1, <2>1, <2>3, <2>4 DEF RestTyped
<1>12. CASE Forget
  BY <1>0, <1>1, <1>12 DEF Forget, RestTyped
<1>13. CASE Broadcast
  BY <1>0, <1>13 DEF Broadcast, RestTyped
<1> QED
  BY <1>2, <1>3, <1>4, <1>5, <1>6, <1>7, <1>8, <1>9, <1>10, <1>11, <1>12, <1>13 DEF Next

LEMMA TypeInit == Init => TypeOK
<1> SUFFICES ASSUME Init PROVE TypeOK
  OBVIOUS
<1>1. \E val \in Content : stored = [c \in Cells |-> val]
  BY DEF Init
<1>2. stored \in Store
  BY <1>1 DEF Store
<1>3. injected = stored /\ latest = stored /\ writing = << >> /\ toSend = Nothing
  BY DEF Init
<1>4. StoresTyped
  BY <1>2, <1>3, NothingIs DEF StoresTyped
<1>5. RecordsTyped
  BY BlankIs DEF Init, RecordsTyped
<1>6. PagesTyped
  BY NoPageIs DEF Init, PagesTyped
<1>7. exists \subseteq Ids
  BY CellsAssumption DEF Init
<1>8. RestTyped
  BY <1>7 DEF Init, RestTyped
<1> QED
  BY <1>4, <1>5, <1>6, <1>8, TypeParts

LEMMA TypeNext == TypeOK /\ [Next]_vars => TypeOK'
<1> SUFFICES ASSUME TypeOK, [Next]_vars PROVE TypeOK'
  OBVIOUS
<1>1. CASE Next
  <2>1. StoresTyped' /\ RecordsTyped' /\ PagesTyped' /\ RestTyped'
    BY <1>1, StoresNext, RecordsNext, PagesNext, RestNext
  <2> QED
    BY <2>1 DEF TypeOK, StoresTyped, RecordsTyped, PagesTyped, RestTyped
<1>2. CASE UNCHANGED vars
  BY <1>2 DEF vars, background, TypeOK
<1> QED
  BY <1>1, <1>2

(* Every variable has its type, for any constants. *)
THEOREM TypeCorrect == Spec => []TypeOK
  BY TypeInit, TypeNext, PTL DEF Spec

-----------------------------------------------------------------------------
(* A cell that met a race stays out of consideration. *)
LEMMA RacedGrows == Next => raced \subseteq raced'
<1>1. ASSUME NEW f \in Frames, Leave(f) \/ Restore(f) \/ Restored(f) \/ UpdatedValues(f)
      PROVE  raced \subseteq raced'
  BY <1>1 DEF Leave, Restore, Restored, UpdatedValues
<1>2. ASSUME NEW f \in Frames, UpdateValue(f) PROVE raced \subseteq raced'
  BY <1>2 DEF UpdateValue
<1>3. ASSUME NEW f \in Frames, NEW ids \in PageIds, Open(f, ids) PROVE raced \subseteq raced'
  BY <1>3 DEF Open
<1>4. ASSUME NEW f \in Frames, NEW c \in Cells, NEW val \in Content, FrameSets(f, c, val)
      PROVE  raced \subseteq raced'
  BY <1>4 DEF FrameSets
<1>5. ASSUME NEW stores \in Imports, SetValueStores(stores) PROVE raced \subseteq raced'
  BY <1>5 DEF SetValueStores
<1>6. CASE SwitchOff \/ Commit \/ WriteAnswered \/ Forget \/ Broadcast
  BY <1>6 DEF SwitchOff, Commit, WriteAnswered, Forget, Broadcast
<1> QED
  BY <1>1, <1>2, <1>3, <1>4, <1>5, <1>6 DEF Next

(* A commit is due while one is pending, and a broadcast while there are   *)
(* changes to send.                                                        *)
CommitDue == toCommitPending => timers > 0
SendDue   == toSend # Nothing => chain + timers > 0

(* What will be broadcast is the last value. *)
ToSendLatest == \A c \in DOMAIN toSend \ raced : toSend[c] = latest[c]

BackgroundInv ==
  /\ CommitDue
  /\ SendDue
  /\ ToSendLatest
  /\ StoredFollows
  /\ RecordsFollow
  /\ NewPagesAreCurrent

LEMMA PendingRests == UNCHANGED << toCommit, record >> => PendingKept
  BY DEF PendingKept, Pending

LEMMA StoredKept ==
  ASSUME TypeOK, StoredFollows, PendingKept, raced \subseteq raced',
         UNCHANGED << stored, latest, timers >>
  PROVE  StoredFollows'
<1> SUFFICES ASSUME NEW c \in Cells \ raced'
             PROVE  \/ stored'[c] = latest'[c] /\ (toCommit'[c[1]] # None => Pending(c[1])'[c] = latest'[c])
                    \/ toCommit'[c[1]] # None /\ Pending(c[1])'[c] = latest'[c] /\ timers' > 0
  BY DEF StoredFollows
<1>1. c[1] \in Ids
  BY CellsOfOne
<1>2. Pending(c[1])' = Pending(c[1]) /\ (toCommit'[c[1]] = None <=> toCommit[c[1]] = None)
  BY <1>1 DEF PendingKept
<1>3. \/ stored[c] = latest[c] /\ (toCommit[c[1]] # None => Pending(c[1])[c] = latest[c])
      \/ toCommit[c[1]] # None /\ Pending(c[1])[c] = latest[c] /\ timers > 0
  BY DEF StoredFollows
<1> QED
  BY <1>2, <1>3

(* A step that changes nothing but pages and messages. *)
LEMMA BackgroundRests ==
  ASSUME BackgroundInv, UNCHANGED background, raced \subseteq raced'
  PROVE  BackgroundInv'
<1>1. UNCHANGED << stored, injected, writing, tracked, record, toCommit, toCommitPending, timers,
                   toSend, chain, latest >>
  BY DEF background
<1>2. CommitDue' /\ SendDue'
  BY <1>1 DEF BackgroundInv, CommitDue, SendDue
<1>3. ToSendLatest'
  BY <1>1 DEF BackgroundInv, ToSendLatest
<1>4. StoredFollows'
  BY <1>1 DEF BackgroundInv, StoredFollows, Pending
<1>5. RecordsFollow'
  BY <1>1 DEF BackgroundInv, RecordsFollow
<1>6. NewPagesAreCurrent'
  BY <1>1 DEF BackgroundInv, NewPagesAreCurrent
<1> QED
  BY <1>2, <1>3, <1>4, <1>5, <1>6 DEF BackgroundInv

(* A page that opens without a race gets the last values, or a broadcast   *)
(* will bring them.                                                        *)
LEMMA OpenFollows ==
  ASSUME TypeOK, BackgroundInv, NEW f \in Frames, NEW ids \in SUBSET Ids, Open(f, ids),
         raced \subseteq raced'
  PROVE  BackgroundInv'
<1>1. TrackOnly(f, ids) /\ UNCHANGED << stored, injected, writing, toCommitPending, timers, toSend,
                                        chain, latest >>
  BY DEF Open
<1>2. CommitDue' /\ SendDue'
  BY <1>1 DEF BackgroundInv, CommitDue, SendDue
<1>3. ToSendLatest'
  BY <1>1 DEF BackgroundInv, ToSendLatest
<1>4. StoredFollows'
  BY <1>1, TrackOnlyIs, StoredKept DEF BackgroundInv
<1>5. NewPagesAreCurrent'
  BY <1>1 DEF BackgroundInv, NewPagesAreCurrent
<1>6. ASSUME NEW c \in Cells \ raced', NEW g \in Frames, c[1] \in tracked'[g]
      PROVE  \/ record'[g][c] = latest'[c]
             \/ c \in DOMAIN toSend' /\ toSend'[c] = latest'[c] /\ chain' + timers' > 0
  <2>1. CASE g = f
    <3>1. c[1] \in ids
      BY <1>1, <1>6, <2>1 DEF TrackOnly
    <3>2. record'[g] = Overlay(Blank, Only(injected, CellsOf(ids)))
      BY <1>1, <2>1 DEF TrackOnly
    <3>3. record'[g][c] = injected[c]
      BY <3>1, <3>2, FreshRecord
    <3>4. CASE c \in DOMAIN toSend
      <4>1. toSend[c] = latest[c]
        BY <3>4 DEF BackgroundInv, ToSendLatest
      <4>2. toSend # Nothing
        BY <3>4, NothingIs
      <4> QED
        BY <1>1, <3>4, <4>1, <4>2 DEF BackgroundInv, SendDue
    <3>5. CASE c \notin DOMAIN toSend
      <4>1. c \in CellsOf(ids)
        BY <3>1 DEF CellsOf
      <4>2. /\ ~(toCommit[c[1]] # None /\ Pending(c[1])[c] # injected[c])
            /\ ~\E n \in DOMAIN writing : c \in DOMAIN writing[n]
        BY <3>5, <4>1 DEF Open
      <4>3. injected[c] = stored[c]
        BY <4>2 DEF BackgroundInv, NewPagesAreCurrent
      <4>4. \/ stored[c] = latest[c]
            \/ toCommit[c[1]] # None /\ Pending(c[1])[c] = latest[c]
        BY DEF BackgroundInv, StoredFollows
      <4> QED
        BY <1>1, <3>3, <4>2, <4>3, <4>4
    <3> QED
      BY <3>4, <3>5
  <2>2. CASE g # f
    <3>1. g \notin Under(f) /\ c[1] \in tracked[g] /\ record'[g] = record[g]
      BY <1>1, <1>6, <2>2 DEF TrackOnly
    <3>2. \/ record[g][c] = latest[c]
          \/ c \in DOMAIN toSend /\ toSend[c] = latest[c] /\ chain + timers > 0
      BY <3>1 DEF BackgroundInv, RecordsFollow
    <3> QED
      BY <1>1, <3>1, <3>2
  <2> QED
    BY <2>1, <2>2
<1> QED
  BY <1>2, <1>3, <1>4, <1>5, <1>6 DEF BackgroundInv, RecordsFollow

(* A page restored from the back/forward cache. *)
LEMMA RestoredFollows ==
  ASSUME TypeOK, BackgroundInv, NEW f \in Frames, Restored(f), raced \subseteq raced'
  PROVE  BackgroundInv'
<1>1. UNCHANGED << stored, injected, writing, toCommitPending, timers, toSend, chain, latest >>
  BY DEF Restored
<1>2. CommitDue' /\ SendDue'
  BY <1>1 DEF BackgroundInv, CommitDue, SendDue
<1>3. ToSendLatest'
  BY <1>1 DEF BackgroundInv, ToSendLatest
<1>4. StoredFollows'
  BY <1>1, RestoredIs, StoredKept DEF BackgroundInv
<1>5. NewPagesAreCurrent'
  BY <1>1 DEF BackgroundInv, NewPagesAreCurrent
<1>6. ASSUME NEW c \in Cells \ raced', NEW g \in Frames, c[1] \in tracked'[g]
      PROVE  \/ record'[g][c] = latest'[c]
             \/ c \in DOMAIN toSend' /\ toSend'[c] = latest'[c] /\ chain' + timers' > 0
  <2>1. tracked'[g] = (tracked[g] \ (page[f].ids \ exists)) \cup
                      (IF g = f THEN page[f].ids \cap exists ELSE {})
    BY DEF Restored
  <2>2. CASE g = f /\ c[1] \in page[f].ids \cap exists
    <3>1. c \in CellsOf(page[f].ids \cap exists)
      BY <2>2 DEF CellsOf
    <3>2. latest[c] = stored[c]
      BY <3>1 DEF Restored
    <3>3. record'[g][c] = stored[c]
      BY <2>2, RestoredRecords
    <3> QED
      BY <1>1, <3>2, <3>3
  <2>3. CASE ~(g = f /\ c[1] \in page[f].ids \cap exists)
    <3>1. c[1] \in tracked[g] /\ c[1] \notin page[f].ids \ exists
      BY <1>6, <2>1, <2>3
    <3>2. record'[g][c] = record[g][c]
      BY <2>3, <3>1, RestoredRecords
    <3>3. \/ record[g][c] = latest[c]
          \/ c \in DOMAIN toSend /\ toSend[c] = latest[c] /\ chain + timers > 0
      BY <3>1 DEF BackgroundInv, RecordsFollow
    <3> QED
      BY <1>1, <3>2, <3>3
  <2> QED
    BY <2>2, <2>3
<1> QED
  BY <1>2, <1>3, <1>4, <1>5, <1>6 DEF BackgroundInv, RecordsFollow

(* A page has changed a value. *)
LEMMA CountsIs ==
  ASSUME TypeOK, NEW f \in Frames, NEW c \in Cells, NEW val \in Content, Counts(f, c, val)
  PROVE  /\ record'[f][c] = val
         /\ \A g \in Frames, d \in Cells : g # f \/ d # c => record'[g][d] = record[g][d]
         /\ toCommit'[c[1]] = f
         /\ \A i \in Ids \ {c[1]} : toCommit'[i] = toCommit[i]
         /\ DOMAIN toSend' = DOMAIN toSend \cup {c} /\ toSend'[c] = val
         /\ \A d \in DOMAIN toSend \ {c} : toSend'[d] = toSend[d]
         /\ latest'[c] = val
         /\ \A d \in Cells \ {c} : latest'[d] = latest[d]
<1>1. record \in [Frames -> Store] /\ record[f] \in Store /\ latest \in Store /\ DOMAIN toCommit = Ids
  BY DEF TypeOK
<1>2. c[1] \in Ids
  BY CellsOfOne
<1>3. record' = [record EXCEPT ![f] = [record[f] EXCEPT ![c] = val]]
  BY DEF Counts
<1>4. record'[f] = [record[f] EXCEPT ![c] = val] /\ \A g \in Frames \ {f} : record'[g] = record[g]
  BY <1>1, <1>3
<1>5. record'[f][c] = val /\ \A d \in Cells \ {c} : record'[f][d] = record[f][d]
  BY <1>1, <1>4 DEF Store
<1>6. toCommit'[c[1]] = f /\ \A i \in Ids \ {c[1]} : toCommit'[i] = toCommit[i]
  BY <1>1, <1>2 DEF Counts
<1>7. latest'[c] = val /\ \A d \in Cells \ {c} : latest'[d] = latest[d]
  BY <1>1 DEF Counts, Store
<1> DEFINE new == [d \in {c} |-> val]
<1>8. DOMAIN new = {c} /\ new[c] = val
  OBVIOUS
<1>9. toSend' = Overlay(toSend, new)
  BY DEF Counts
<1> HIDE DEF new
<1>10. /\ DOMAIN toSend' = DOMAIN toSend \cup {c} /\ toSend'[c] = val
       /\ \A d \in DOMAIN toSend \ {c} : toSend'[d] = toSend[d]
  <2>1. /\ DOMAIN toSend' = DOMAIN toSend \cup DOMAIN new
        /\ \A x \in DOMAIN new : toSend'[x] = new[x]
        /\ \A x \in DOMAIN toSend \ DOMAIN new : toSend'[x] = toSend[x]
    BY <1>9 DEF Overlay
  <2> QED
    BY <1>8, <2>1
<1> QED
  BY <1>4, <1>5, <1>6, <1>7, <1>10

LEMMA CountsElsewhere ==
  ASSUME TypeOK, NEW f \in Frames, NEW c \in Cells, NEW val \in Content, Counts(f, c, val),
         NEW g \in Frames, NEW d \in Cells, g # f \/ d # c
  PROVE  record'[g][d] = record[g][d]
<1>1. /\ record'[f][c] = val
      /\ \A h \in Frames, e \in Cells : h # f \/ e # c => record'[h][e] = record[h][e]
      /\ toCommit'[c[1]] = f
      /\ \A i \in Ids \ {c[1]} : toCommit'[i] = toCommit[i]
      /\ DOMAIN toSend' = DOMAIN toSend \cup {c} /\ toSend'[c] = val
      /\ \A e \in DOMAIN toSend \ {c} : toSend'[e] = toSend[e]
      /\ latest'[c] = val
      /\ \A e \in Cells \ {c} : latest'[e] = latest[e]
  BY CountsIs
<1> QED
  BY <1>1

LEMMA CountedCell ==
  ASSUME TypeOK, NEW f \in Frames, NEW c \in Cells, NEW val \in Content, Counts(f, c, val)
  PROVE  record'[f][c] = val
<1>1. /\ record'[f][c] = val
      /\ \A h \in Frames, e \in Cells : h # f \/ e # c => record'[h][e] = record[h][e]
      /\ toCommit'[c[1]] = f
      /\ \A i \in Ids \ {c[1]} : toCommit'[i] = toCommit[i]
      /\ DOMAIN toSend' = DOMAIN toSend \cup {c} /\ toSend'[c] = val
      /\ \A e \in DOMAIN toSend \ {c} : toSend'[e] = toSend[e]
      /\ latest'[c] = val
      /\ \A e \in Cells \ {c} : latest'[e] = latest[e]
  BY CountsIs
<1> QED
  BY <1>1

(* One timer is enough for a broadcast to come. *)
LEMMA SumIsPositive == \A m, n \in Nat : n > 0 => m + n > 0
  OBVIOUS

LEMMA CountsFollows ==
  ASSUME TypeOK, BackgroundInv, NEW f \in Frames, NEW c \in Cells, NEW val \in Content,
         Counts(f, c, val), UNCHANGED << stored, injected, writing, tracked, chain >>,
         raced \subseteq raced'
  PROVE  BackgroundInv'
<1>0. timers \in Nat /\ chain \in Nat /\ RecordsTyped /\ c[1] \in Ids /\ c[1] \in tracked[f]
  BY CellsOfOne, TypeParts DEF TypeOK, Counts
<1>e. /\ record'[f][c] = val
      /\ \A g \in Frames, d \in Cells : g # f \/ d # c => record'[g][d] = record[g][d]
      /\ toCommit'[c[1]] = f
      /\ \A i \in Ids \ {c[1]} : toCommit'[i] = toCommit[i]
      /\ DOMAIN toSend' = DOMAIN toSend \cup {c} /\ toSend'[c] = val
      /\ \A d \in DOMAIN toSend \ {c} : toSend'[d] = toSend[d]
      /\ latest'[c] = val
      /\ \A d \in Cells \ {c} : latest'[d] = latest[d]
  BY CountsIs
<1>1. timers' \in Nat /\ timers' > 0
  <2>1. timers' = IF toCommitPending THEN timers ELSE timers + 1
    BY DEF Counts
  <2>2. toCommitPending => timers > 0
    BY DEF BackgroundInv, CommitDue
  <2> QED
    BY <1>0, <2>1, <2>2
<1>2. CommitDue' /\ SendDue'
  BY <1>0, <1>1 DEF CommitDue, SendDue
<1>3. ToSendLatest'
  <2> SUFFICES ASSUME NEW d \in DOMAIN toSend' \ raced' PROVE toSend'[d] = latest'[d]
    BY DEF ToSendLatest
  <2>1. CASE d = c
    BY <2>1, <1>e
  <2>2. CASE d # c
    <3>1. d \in DOMAIN toSend /\ toSend'[d] = toSend[d]
      BY <2>2, <1>e
    <3>2. d \in Cells
      BY <3>1, PartIs DEF TypeOK
    <3>3. toSend[d] = latest[d]
      BY <3>1 DEF BackgroundInv, ToSendLatest
    <3> QED
      BY <2>2, <3>1, <3>2, <3>3, <1>e
  <2> QED
    BY <2>1, <2>2
<1>4. RecordsFollow'
  <2> SUFFICES ASSUME NEW d \in Cells \ raced', NEW g \in Frames, d[1] \in tracked'[g]
               PROVE  \/ record'[g][d] = latest'[d]
                      \/ d \in DOMAIN toSend' /\ toSend'[d] = latest'[d] /\ chain' + timers' > 0
    BY DEF RecordsFollow
  <2>1. chain' + timers' > 0
    <3>1. chain' = chain
      OBVIOUS
    <3>2. chain' \in Nat
      BY <1>0, <3>1
    <3> QED
      BY <1>1, <3>2, SumIsPositive, Zenon
  <2>2. CASE d = c
    BY <2>1, <2>2, <1>e
  <2>3. CASE d # c
    <3>1. \/ record[g][d] = latest[d]
          \/ d \in DOMAIN toSend /\ toSend[d] = latest[d]
      BY DEF BackgroundInv, RecordsFollow
    <3>2. record'[g][d] = record[g][d] /\ latest'[d] = latest[d]
      BY <2>3, <1>e
    <3>3. d \in DOMAIN toSend => d \in DOMAIN toSend' /\ toSend'[d] = toSend[d]
      BY <2>3, <1>e
    <3> QED
      BY <2>1, <3>1, <3>2, <3>3
  <2> QED
    BY <2>2, <2>3
<1>5. StoredFollows'
  <2> SUFFICES ASSUME NEW d \in Cells \ raced'
               PROVE  \/ stored'[d] = latest'[d] /\ (toCommit'[d[1]] # None => Pending(d[1])'[d] = latest'[d])
                      \/ toCommit'[d[1]] # None /\ Pending(d[1])'[d] = latest'[d] /\ timers' > 0
    BY DEF StoredFollows
  <2>0. d[1] \in Ids /\ d \in CellsOf({d[1]})
    BY CellsOfOne
  <2>1. CASE d[1] = c[1]
    <3>1. toCommit'[d[1]] = f /\ f # None
      BY <2>1, <1>e, NoneAssumption
    <3>2. Pending(d[1])' = Only(record'[f], CellsOf({d[1]}))
      BY <3>1 DEF Pending
    <3>3. record'[f] = [record[f] EXCEPT ![c] = val] /\ record[f] \in Store
      BY <1>0 DEF Counts, RecordsTyped
    <3>4. DOMAIN record'[f] = Cells
      BY <3>3 DEF Store
    <3>5. Pending(d[1])'[d] = record'[f][d]
      BY <2>0, <3>2, <3>4, OnlyIs
    <3>6. CASE d = c
      BY <1>1, <3>1, <3>5, <3>6, <1>e
    <3>7. CASE d # c
      <4>1. \/ record[f][d] = latest[d]
            \/ d \in DOMAIN toSend /\ toSend[d] = latest[d]
        BY <1>0, <2>1 DEF BackgroundInv, RecordsFollow
      <4>2. d \in DOMAIN toSend => toSend[d] = record[f][d]
        BY <2>0, <2>1, <3>7 DEF Counts
      <4>3. record'[f][d] = record[f][d] /\ latest'[d] = latest[d]
        BY <3>7, <1>e
      <4> QED
        BY <1>1, <3>1, <3>5, <4>1, <4>2, <4>3
    <3> QED
      BY <3>6, <3>7
  <2>2. CASE d[1] # c[1]
    <3>1. toCommit'[d[1]] = toCommit[d[1]] /\ latest'[d] = latest[d]
      BY <2>0, <2>2, <1>e
    <3>2. toCommit[d[1]] # None => Pending(d[1])'[d] = Pending(d[1])[d]
      <4>1. CASE toCommit[d[1]] \in Frames
        <5>1. Pending(d[1])' = Only(record'[toCommit[d[1]]], CellsOf({d[1]}))
          BY <3>1, <4>1 DEF Pending
        <5>2. record'[toCommit[d[1]]] \in Store
          <6>1. [record[f] EXCEPT ![c] = val] \in Store /\ record \in [Frames -> Store]
            BY <1>0 DEF RecordsTyped, Store
          <6>2. record' = [record EXCEPT ![f] = [record[f] EXCEPT ![c] = val]]
            BY DEF Counts
          <6> QED
            BY <4>1, <6>1, <6>2
        <5>3. Pending(d[1])'[d] = record'[toCommit[d[1]]][d]
          BY <2>0, <5>1, <5>2, StoreIsPart, OnlyIs
        <5>4. Pending(d[1])[d] = record[toCommit[d[1]]][d]
          BY <1>0, <2>0, <4>1, PendingIs
        <5> QED
          BY <2>2, <4>1, <5>3, <5>4, <1>e
      <4>2. CASE toCommit[d[1]] \notin Frames
        BY <3>1, <4>2 DEF Pending
      <4> QED
        BY <4>1, <4>2
    <3>3. \/ stored[d] = latest[d] /\ (toCommit[d[1]] # None => Pending(d[1])[d] = latest[d])
          \/ toCommit[d[1]] # None /\ Pending(d[1])[d] = latest[d]
      BY DEF BackgroundInv, StoredFollows
    <3> QED
      BY <1>1, <3>1, <3>2, <3>3
  <2> QED
    BY <2>1, <2>2
<1>6. NewPagesAreCurrent'
  BY DEF BackgroundInv, NewPagesAreCurrent
<1> QED
  BY <1>2, <1>3, <1>4, <1>5, <1>6 DEF BackgroundInv

(* Whole stores are set. *)
LEMMA SetStoresFollows ==
  ASSUME TypeOK, BackgroundInv, NEW stores \in Imports, SetValueStores(stores),
         raced \subseteq raced'
  PROVE  BackgroundInv'
<1> DEFINE ids == {c[1] : c \in DOMAIN stores}
           set == DOMAIN stores
<1>1. /\ stores \in Part /\ set = CellsOf(ids) /\ timers \in Nat /\ chain \in Nat
      /\ stored \in Store /\ latest \in Store /\ toSend \in Part /\ writing \in Seq(Part)
  BY ImportIs DEF TypeOK
<1>2. \A c \in Cells : c \in set <=> c[1] \in ids
  BY <1>1 DEF CellsOf
<1>3. /\ stored' = Overlay(stored, stores) /\ latest' = Overlay(latest, stores)
      /\ UNCHANGED << injected, tracked, record, timers >>
      /\ toCommit' = [i \in Ids |-> None] /\ toCommitPending' = FALSE /\ chain' = chain + 1
  BY DEF SetValueStores
<1>4. /\ \A c \in set : stored'[c] = stores[c] /\ latest'[c] = stores[c]
      /\ \A c \in Cells \ set : stored'[c] = stored[c] /\ latest'[c] = latest[c]
  BY <1>1, <1>3, StoreIsPart, OverlayIs
<1> DEFINE old == Only(toSend, Cells \ CellsOf(ids))
           new == Only(stores, set \ {c \in set : stores[c] = None})
<1>5. toSend' = Overlay(old, new)
  BY DEF SetValueStores
<1>6. DOMAIN old = DOMAIN toSend \ set /\ \A c \in DOMAIN toSend \ set : old[c] = toSend[c]
  <2>1. DOMAIN toSend \cap (Cells \ CellsOf(ids)) = DOMAIN toSend \ set
    BY <1>1, PartIs
  <2> QED
    BY <2>1, OnlyIs
<1>7. DOMAIN new = {c \in set : stores[c] # None} /\ \A c \in DOMAIN new : new[c] = stores[c]
  BY DEF Only
<1> HIDE DEF old, new
<1>8. /\ DOMAIN toSend' = (DOMAIN toSend \ set) \cup {c \in set : stores[c] # None}
      /\ \A c \in DOMAIN toSend \ set : toSend'[c] = toSend[c]
      /\ \A c \in set : stores[c] # None => toSend'[c] = stores[c]
  <2>1. /\ DOMAIN toSend' = DOMAIN old \cup DOMAIN new
        /\ \A x \in DOMAIN new : toSend'[x] = new[x]
        /\ \A x \in DOMAIN old \ DOMAIN new : toSend'[x] = old[x]
    BY <1>5 DEF Overlay
  <2> QED
    BY <1>6, <1>7, <2>1
<1>9. chain' + timers' > 0 /\ chain' + timers' >= chain + timers
  BY <1>1, <1>3
<1> HIDE DEF ids, set
<1>10. CommitDue' /\ SendDue'
  BY <1>3, <1>9 DEF CommitDue, SendDue
<1>11. ToSendLatest'
  <2> SUFFICES ASSUME NEW c \in DOMAIN toSend' \ raced' PROVE toSend'[c] = latest'[c]
    BY DEF ToSendLatest
  <2>1. CASE c \in set
    BY <1>4, <1>8, <2>1
  <2>2. CASE c \notin set
    <3>1. c \in DOMAIN toSend \ set /\ c \in Cells
      BY <1>1, <1>8, <2>2, PartIs
    <3>2. toSend[c] = latest[c]
      BY <3>1 DEF BackgroundInv, ToSendLatest
    <3> QED
      BY <1>4, <1>8, <3>1, <3>2
  <2> QED
    BY <2>1, <2>2
<1>12. StoredFollows'
  <2> SUFFICES ASSUME NEW c \in Cells \ raced' PROVE stored'[c] = latest'[c] /\ toCommit'[c[1]] = None
    BY DEF StoredFollows
  <2>1. toCommit'[c[1]] = None
    BY <1>3, CellsOfOne
  <2>2. CASE c \in set
    BY <1>4, <2>1, <2>2
  <2>3. CASE c \notin set
    <3>1. ~(toCommit[c[1]] # None /\ Pending(c[1])[c] # stored[c])
      BY DEF SetValueStores
    <3>2. stored[c] = latest[c]
      BY <3>1 DEF BackgroundInv, StoredFollows
    <3> QED
      BY <1>4, <2>1, <2>3, <3>2
  <2> QED
    BY <2>2, <2>3
<1>13. RecordsFollow'
  <2> SUFFICES ASSUME NEW c \in Cells \ raced', NEW f \in Frames, c[1] \in tracked'[f]
               PROVE  \/ record'[f][c] = latest'[c]
                      \/ c \in DOMAIN toSend' /\ toSend'[c] = latest'[c] /\ chain' + timers' > 0
    BY DEF RecordsFollow
  <2>1. CASE c \in set /\ stores[c] # None
    BY <1>4, <1>8, <1>9, <2>1
  <2>2. CASE c \in set /\ stores[c] = None
    <3>1. record[f][c] = None
      BY <2>2 DEF SetValueStores, set
    <3> QED
      BY <1>3, <1>4, <2>2, <3>1
  <2>3. CASE c \notin set
    <3>1. \/ record[f][c] = latest[c]
          \/ c \in DOMAIN toSend /\ toSend[c] = latest[c]
      BY <1>3 DEF BackgroundInv, RecordsFollow
    <3> QED
      BY <1>3, <1>4, <1>8, <1>9, <2>3, <3>1
  <2> QED
    BY <2>1, <2>2, <2>3
<1>14. NewPagesAreCurrent'
  <2> DEFINE written == Only(stores, CellsOf({i \in ids : \/ i \notin exists
                                                        \/ \E c \in CellsOf({i}) : stores[c] # stored[c]}))
  <2>0. writing' = IF written = Nothing THEN writing ELSE Append(writing, written)
    BY DEF SetValueStores, ids
  <2>1. written \in Part
    BY <1>1, OnlyPart
  <2>2. ASSUME NEW c \in set, NEW i \in ids, i = c[1], stores[c] # stored[c]
        PROVE  c \in DOMAIN written
    <3>1. c \in Cells /\ c \in CellsOf({c[1]})
      BY <1>1, <2>2, PartIs, CellsOfOne DEF set
    <3>2. c \in CellsOf({j \in ids : \/ j \notin exists
                                     \/ \E d \in CellsOf({j}) : stores[d] # stored[d]})
      BY <2>2, <3>1 DEF CellsOf
    <3> QED
      BY <3>2, OnlyIs DEF set
  <2> HIDE DEF written
  <2>3. \A n \in DOMAIN writing : n \in DOMAIN writing' /\ writing'[n] = writing[n]
    BY <1>1, <2>0, <2>1, AppendIs
  <2>4. written # Nothing => \E n \in DOMAIN writing' : writing'[n] = written
    <3>1. ASSUME written # Nothing PROVE \E n \in DOMAIN writing' : writing'[n] = written
      <4>1. writing' = Append(writing, written)
        BY <2>0, <3>1
      <4>2. Len(writing) + 1 \in DOMAIN writing' /\ writing'[Len(writing) + 1] = written
        BY <1>1, <2>1, <4>1, AppendIs
      <4> QED
        BY <4>2
    <3> QED
      BY <3>1
  <2> SUFFICES ASSUME NEW c \in Cells \ raced'
               PROVE  injected'[c] = stored'[c] \/ \E n \in DOMAIN writing' : c \in DOMAIN writing'[n]
    BY DEF NewPagesAreCurrent
  <2>5. injected[c] = stored[c] \/ \E n \in DOMAIN writing : c \in DOMAIN writing[n]
    BY DEF BackgroundInv, NewPagesAreCurrent
  <2>6. CASE c \in set /\ stores[c] # stored[c]
    <3>1. c \in DOMAIN written
      BY <1>2, <2>2, <2>6
    <3> QED
      BY <2>4, <3>1, NothingIs
  <2>7. CASE ~(c \in set /\ stores[c] # stored[c])
    <3>1. stored'[c] = stored[c]
      BY <1>4, <2>7
    <3> QED
      BY <1>3, <2>3, <2>5, <3>1
  <2> QED
    BY <2>6, <2>7
<1> QED
  BY <1>10, <1>11, <1>12, <1>13, <1>14 DEF BackgroundInv

(* What is to commit is stored. *)
LEMMA CommitFollows ==
  ASSUME TypeOK, BackgroundInv, Commit, raced \subseteq raced'
  PROVE  BackgroundInv'
<1> DEFINE ids   == {i \in Ids : toCommit[i] # None}
           value == [c \in CellsOf(ids) |-> Pending(c[1])[c]]
<1>0. /\ timers \in Nat /\ chain \in Nat /\ stored \in Store /\ injected \in Store
      /\ RecordsTyped
  BY TypeParts DEF TypeOK
<1>1. /\ stored' = Overlay(stored, value)
      /\ timers > 0 /\ timers' = timers - 1 /\ chain' = chain + 1
      /\ toCommit' = [i \in Ids |-> None] /\ toCommitPending' = FALSE
      /\ UNCHANGED << writing, tracked, record, toSend, latest, raced >>
  BY DEF Commit
<1>2. PICK news \in SUBSET ids :
        /\ injected' = Overlay(injected, Only(value, CellsOf(news)))
        /\ \A c \in CellsOf(ids) : c[1] \notin news => value[c] = stored[c]
  <2> DEFINE news == {i \in ids : i \notin exists \/ \E c \in CellsOf({i}) : value[c] # stored[c]}
  <2>1. injected' = Overlay(injected, Only(value, CellsOf(news)))
    BY DEF Commit
  <2>2. \A c \in CellsOf(ids) : c[1] \in ids /\ c \in CellsOf({c[1]})
    BY CellsOfOne DEF CellsOf
  <2>3. \A c \in CellsOf(ids) : c[1] \notin news => value[c] = stored[c]
    BY <2>2
  <2>4. news \in SUBSET ids
    OBVIOUS
  <2> QED
    BY <2>1, <2>3, <2>4
<1>3. \A c \in Cells : c \in CellsOf(ids) <=> toCommit[c[1]] # None
  BY CellsOfOne DEF CellsOf
<1>4. DOMAIN value = CellsOf(ids) /\ \A c \in CellsOf(ids) : value[c] = Pending(c[1])[c]
  OBVIOUS
<1> HIDE DEF value
<1>5. \A c \in Cells : stored'[c] = IF toCommit[c[1]] # None THEN value[c] ELSE stored[c]
  BY <1>0, <1>1, <1>3, <1>4, StoreIsPart, OverlayIs
<1>6. CommitDue' /\ SendDue'
  BY <1>0, <1>1 DEF BackgroundInv, CommitDue, SendDue
<1>7. ToSendLatest'
  BY <1>1 DEF BackgroundInv, ToSendLatest
<1>8. StoredFollows'
  <2> SUFFICES ASSUME NEW c \in Cells \ raced' PROVE stored'[c] = latest'[c] /\ toCommit'[c[1]] = None
    BY DEF StoredFollows
  <2>1. toCommit'[c[1]] = None
    BY <1>1, CellsOfOne
  <2>2. \/ stored[c] = latest[c] /\ (toCommit[c[1]] # None => Pending(c[1])[c] = latest[c])
        \/ toCommit[c[1]] # None /\ Pending(c[1])[c] = latest[c]
    BY DEF BackgroundInv, StoredFollows
  <2> QED
    BY <1>1, <1>3, <1>4, <1>5, <2>1, <2>2
<1>9. RecordsFollow'
  BY <1>0, <1>1 DEF BackgroundInv, RecordsFollow
<1>10. NewPagesAreCurrent'
  <2> SUFFICES ASSUME NEW c \in Cells \ raced'
               PROVE  injected'[c] = stored'[c] \/ \E n \in DOMAIN writing' : c \in DOMAIN writing'[n]
    BY DEF NewPagesAreCurrent
  <2>1. injected[c] = stored[c] \/ \E n \in DOMAIN writing : c \in DOMAIN writing[n]
    BY DEF BackgroundInv, NewPagesAreCurrent
  <2>2. DOMAIN Only(value, CellsOf(news)) = {d \in CellsOf(ids) : d[1] \in news}
    BY <1>4 DEF Only, CellsOf
  <2>3. \A d \in DOMAIN Only(value, CellsOf(news)) : Only(value, CellsOf(news))[d] = value[d]
    BY DEF Only
  <2>4. CASE c \in CellsOf(ids) /\ c[1] \in news
    <3>1. injected'[c] = value[c]
      BY <1>2, <2>2, <2>3, <2>4, OverlayIs
    <3> QED
      BY <1>3, <1>5, <2>4, <3>1
  <2>5. CASE ~(c \in CellsOf(ids) /\ c[1] \in news)
    <3>1. c \in DOMAIN injected \ DOMAIN Only(value, CellsOf(news))
      BY <1>0, <2>2, <2>5 DEF Store
    <3>2. injected'[c] = injected[c]
      BY <1>2, <3>1, OverlayIs
    <3>3. stored'[c] = stored[c]
      BY <1>2, <1>3, <1>5, <2>5
    <3> QED
      BY <1>1, <2>1, <3>2, <3>3
  <2> QED
    BY <2>4, <2>5
<1> QED
  BY <1>6, <1>7, <1>8, <1>9, <1>10 DEF BackgroundInv

(* The storage area has answered, or the cached values have expired. *)
LEMMA AnswerFollows ==
  ASSUME TypeOK, BackgroundInv, WriteAnswered, raced \subseteq raced'
  PROVE  BackgroundInv'
<1>1. UNCHANGED << stored, tracked, record, toCommit, toCommitPending, timers, toSend, chain, latest >>
  BY DEF WriteAnswered
<1>2. CommitDue' /\ SendDue' /\ ToSendLatest'
  BY <1>1 DEF BackgroundInv, CommitDue, SendDue, ToSendLatest
<1>3. StoredFollows'
  BY <1>1, PendingRests, StoredKept DEF BackgroundInv
<1>4. RecordsFollow'
  BY <1>1 DEF BackgroundInv, RecordsFollow
<1>5. ASSUME NEW c \in Cells \ raced'
      PROVE  injected'[c] = stored'[c] \/ \E n \in DOMAIN writing' : c \in DOMAIN writing'[n]
  <2>1. writing \in Seq(Part) /\ writing # << >> /\ writing' = Tail(writing)
        /\ injected' = Overlay(injected, Head(writing)) /\ injected \in Store
    BY DEF WriteAnswered, TypeOK
  <2>2. CASE c \in DOMAIN Head(writing)
    <3>1. Head(writing)[c] = stored[c]
      BY <2>2 DEF WriteAnswered
    <3> QED
      BY <1>1, <2>1, <2>2, <3>1, OverlayIs
  <2>3. CASE c \notin DOMAIN Head(writing)
    <3>1. injected'[c] = injected[c]
      BY <2>1, <2>3, StoreIsPart, OverlayIs
    <3>2. ASSUME NEW n \in DOMAIN writing, c \in DOMAIN writing[n]
          PROVE  \E m \in DOMAIN writing' : c \in DOMAIN writing'[m]
      <4>1. /\ Head(writing) = writing[1] /\ Len(writing) \in Nat /\ Len(writing) > 0
            /\ Len(writing') = Len(writing) - 1 /\ DOMAIN writing = 1 .. Len(writing)
            /\ DOMAIN writing' = 1 .. Len(writing')
            /\ \A m \in 1 .. Len(writing') : writing'[m] = writing[m + 1]
        BY <2>1, TailIs
      <4>2. n # 1
        BY <2>3, <3>2, <4>1
      <4>3. n - 1 \in 1 .. Len(writing') /\ writing'[n - 1] = writing[n]
        BY <4>1, <4>2
      <4> QED
        BY <3>2, <4>1, <4>3
    <3>3. injected[c] = stored[c] \/ \E n \in DOMAIN writing : c \in DOMAIN writing[n]
      BY DEF BackgroundInv, NewPagesAreCurrent
    <3> QED
      BY <1>1, <3>1, <3>2, <3>3
  <2> QED
    BY <2>2, <2>3
<1> QED
  BY <1>2, <1>3, <1>4, <1>5 DEF BackgroundInv, NewPagesAreCurrent

LEMMA ForgetFollows ==
  ASSUME TypeOK, BackgroundInv, Forget, raced \subseteq raced'
  PROVE  BackgroundInv'
<1>1. UNCHANGED << stored, writing, tracked, record, toCommit, toCommitPending, timers, toSend, chain,
                   latest >> /\ injected' = stored
  BY DEF Forget
<1>2. CommitDue' /\ SendDue' /\ ToSendLatest'
  BY <1>1 DEF BackgroundInv, CommitDue, SendDue, ToSendLatest
<1>3. StoredFollows'
  BY <1>1, PendingRests, StoredKept DEF BackgroundInv
<1>4. RecordsFollow'
  BY <1>1 DEF BackgroundInv, RecordsFollow
<1>5. NewPagesAreCurrent'
  BY <1>1 DEF NewPagesAreCurrent
<1> QED
  BY <1>2, <1>3, <1>4, <1>5 DEF BackgroundInv

LEMMA SwitchOffFollows ==
  ASSUME TypeOK, BackgroundInv, SwitchOff, raced \subseteq raced'
  PROVE  BackgroundInv'
<1>1. /\ UNCHANGED << stored, injected, writing, toCommitPending, timers, chain, latest >>
      /\ tracked' = [f \in Frames |-> {}] /\ record' = [f \in Frames |-> Blank]
      /\ toSend' = Nothing /\ Detach(Frames, Ids)
  BY DEF SwitchOff
<1>2. CommitDue' /\ SendDue' /\ ToSendLatest'
  BY <1>1, NothingIs DEF BackgroundInv, CommitDue, SendDue, ToSendLatest
<1>3. PendingKept
  <2>1. record' \in [Frames -> Store]
    BY <1>1, BlankIs
  <2> QED
    BY <1>1, <2>1, DetachIs, TypeParts
<1>4. StoredFollows'
  BY <1>1, <1>3, StoredKept DEF BackgroundInv
<1>5. RecordsFollow'
  BY <1>1 DEF RecordsFollow
<1>6. NewPagesAreCurrent'
  BY <1>1 DEF BackgroundInv, NewPagesAreCurrent
<1> QED
  BY <1>2, <1>4, <1>5, <1>6 DEF BackgroundInv

(* All records learn what changed. *)
LEMMA BroadcastFollows ==
  ASSUME TypeOK, BackgroundInv, Broadcast, raced \subseteq raced'
  PROVE  BackgroundInv'
<1>0. RecordsTyped
  BY TypeParts
<1>1. UNCHANGED << stored, injected, writing, tracked, toCommit, toCommitPending, timers, latest >>
      /\ toSend' = Nothing
  BY DEF Broadcast
<1>2. CommitDue' /\ SendDue' /\ ToSendLatest'
  BY <1>1, NothingIs DEF BackgroundInv, CommitDue, SendDue, ToSendLatest
<1>3. RecordsFollow'
  <2> SUFFICES ASSUME NEW c \in Cells \ raced', NEW f \in Frames, c[1] \in tracked'[f]
               PROVE  record'[f][c] = latest'[c]
    BY DEF RecordsFollow
  <2>1. \/ record[f][c] = latest[c]
        \/ c \in DOMAIN toSend /\ toSend[c] = latest[c]
    BY <1>1 DEF BackgroundInv, RecordsFollow
  <2>2. c \in DOMAIN toSend => toSend[c] = latest[c]
    BY DEF BackgroundInv, ToSendLatest
  <2>3. record'[f][c] = IF c[1] \in tracked[f] /\ c \in DOMAIN toSend THEN toSend[c] ELSE record[f][c]
    BY BroadcastIs
  <2> QED
    BY <1>1, <2>1, <2>2, <2>3
<1>4. StoredFollows'
  <2> SUFFICES ASSUME NEW c \in Cells \ raced'
               PROVE  \/ stored'[c] = latest'[c] /\ (toCommit'[c[1]] # None => Pending(c[1])'[c] = latest'[c])
                      \/ toCommit'[c[1]] # None /\ Pending(c[1])'[c] = latest'[c] /\ timers' > 0
    BY DEF StoredFollows
  <2>0. c[1] \in Ids /\ c \in CellsOf({c[1]})
    BY CellsOfOne
  <2>1. \/ stored[c] = latest[c] /\ (toCommit[c[1]] # None => Pending(c[1])[c] = latest[c])
        \/ toCommit[c[1]] # None /\ Pending(c[1])[c] = latest[c] /\ timers > 0
    BY DEF BackgroundInv, StoredFollows
  <2>2. ASSUME toCommit[c[1]] # None PROVE Pending(c[1])'[c] = latest[c]
    <3>1. Pending(c[1])[c] = latest[c]
      BY <2>1, <2>2
    <3>2. CASE toCommit[c[1]] \in Frames
      <4> DEFINE f == toCommit[c[1]]
      <4>1. Pending(c[1])' = Only(record'[f], CellsOf({c[1]}))
        BY <1>1, <3>2 DEF Pending
      <4>2. record'[f] \in Store
        BY <3>2, BroadcastIs
      <4>3. Pending(c[1])'[c] = record'[f][c]
        BY <2>0, <4>1, <4>2, StoreIsPart, OnlyIs
      <4>4. Pending(c[1])[c] = record[f][c]
        BY <1>0, <2>0, <3>2, PendingIs
      <4>5. record'[f][c] = record[f][c] \/ (c \in DOMAIN toSend /\ record'[f][c] = toSend[c])
        BY <3>2, BroadcastIs
      <4>6. c \in DOMAIN toSend => toSend[c] = latest[c]
        BY DEF BackgroundInv, ToSendLatest
      <4> QED
        BY <3>1, <4>3, <4>4, <4>5, <4>6
    <3>3. CASE toCommit[c[1]] \notin Frames
      BY <1>1, <3>1, <3>3 DEF Pending
    <3> QED
      BY <3>2, <3>3
  <2> QED
    BY <1>1, <2>1, <2>2
<1>5. NewPagesAreCurrent'
  BY <1>1 DEF BackgroundInv, NewPagesAreCurrent
<1> QED
  BY <1>2, <1>3, <1>4, <1>5 DEF BackgroundInv

LEMMA BackgroundNext ==
  ASSUME TypeOK, BackgroundInv, Next
  PROVE  BackgroundInv'
<1>0. raced \subseteq raced'
  BY RacedGrows
<1>1. ASSUME NEW f \in Frames, Leave(f) \/ Restore(f) \/ UpdatedValues(f) PROVE BackgroundInv'
  BY <1>0, <1>1, BackgroundRests DEF Leave, Restore, UpdatedValues
<1>2. ASSUME NEW f \in Frames, Restored(f) PROVE BackgroundInv'
  BY <1>0, <1>2, RestoredFollows
<1>3. ASSUME NEW f \in Frames, UpdateValue(f) PROVE BackgroundInv'
  <2>1. PICK c \in Cells, val \in Content : Counts(f, c, val) \/ Ignored(f, c)
    BY <1>3, MessageIs
  <2>2. UNCHANGED << stored, exists, injected, writing, tracked, chain, untracked >>
    BY <1>3 DEF UpdateValue
  <2>3. CASE Counts(f, c, val)
    BY <1>0, <2>2, <2>3, CountsFollows
  <2>4. CASE Ignored(f, c)
    <3>1. UNCHANGED background
      BY <2>2, <2>4 DEF Ignored, background
    <3> QED
      BY <1>0, <3>1, BackgroundRests
  <2> QED
    BY <2>1, <2>3, <2>4
<1>4. ASSUME NEW f \in Frames, NEW ids \in PageIds, Open(f, ids) PROVE BackgroundInv'
  <2>1. ids \in SUBSET Ids
    BY BoundAssumption
  <2> QED
    BY <1>0, <1>4, <2>1, OpenFollows
<1>5. ASSUME NEW f \in Frames, NEW c \in Cells, NEW val \in Content, FrameSets(f, c, val)
      PROVE  BackgroundInv'
  BY <1>0, <1>5, BackgroundRests DEF FrameSets
<1>6. ASSUME NEW stores \in Imports, SetValueStores(stores) PROVE BackgroundInv'
  BY <1>0, <1>6, SetStoresFollows
<1>7. CASE SwitchOff
  BY <1>0, <1>7, SwitchOffFollows
<1>8. CASE Commit
  BY <1>0, <1>8, CommitFollows
<1>9. CASE WriteAnswered
  BY <1>0, <1>9, AnswerFollows
<1>10. CASE Forget
  BY <1>0, <1>10, ForgetFollows
<1>11. CASE Broadcast
  BY <1>0, <1>11, BroadcastFollows
<1> QED
  BY <1>1, <1>2, <1>3, <1>4, <1>5, <1>6, <1>7, <1>8, <1>9, <1>10, <1>11 DEF Next

-----------------------------------------------------------------------------
(* A page stands under a page in the top frame of its tab. *)
PagesStand == \A f \in Frames : page[f].live => Standing(f)

LEMMA StandNext ==
  ASSUME TypeOK, PagesStand, Next
  PROVE  PagesStand'
<1>1. ASSUME \A g \in Frames : page'[g].live => page[g].live \/ Standing(g),
             \A g \in Frames : page[g].live => page'[g].live
      PROVE  PagesStand'
  BY <1>1, TopAssumption DEF PagesStand, Standing
<1>2. ASSUME NEW f \in Frames, Leave(f) PROVE PagesStand'
  <2>1. \A g \in Frames : page'[g] = IF g \in Under(f) THEN NoPage ELSE page[g]
    BY <1>2 DEF Leave
  <2>2. \A g \in Under(f) : ~page'[g].live
    BY <2>1, NoPageIs DEF Under
  <2> SUFFICES ASSUME NEW g \in Frames, page'[g].live PROVE Standing(g)'
    BY DEF PagesStand
  <2>3. g \notin Under(f) /\ page[g].live
    BY <2>1, <2>2
  <2>4. Standing(g)
    BY <2>3 DEF PagesStand
  <2>5. CASE g \in TopFrames
    BY <2>5 DEF Standing
  <2>6. CASE g \notin TopFrames
    <3>1. PICK h \in TopFrames : TabOf[h] = TabOf[g] /\ page[h].live
      BY <2>4, <2>6 DEF Standing
    <3>2. h \in Frames
      BY TopAssumption
    <3>3. h \notin Under(f)
      BY <2>3, <3>1, TopAssumption DEF Under
    <3> QED
      BY <2>1, <3>1, <3>2, <3>3 DEF Standing
  <2> QED
    BY <2>5, <2>6
<1>3. ASSUME NEW f \in Frames, Restore(f) PROVE PagesStand'
  BY <1>1, <1>3, RestoreIs DEF Restore
<1>4. ASSUME NEW f \in Frames, Restored(f) PROVE PagesStand'
  BY <1>1, <1>4, ReportIs
<1>5. ASSUME NEW f \in Frames, UpdatedValues(f) PROVE PagesStand'
  BY <1>1, <1>5, ReachIs
<1>6. ASSUME NEW f \in Frames, NEW ids \in PageIds, Open(f, ids) PROVE PagesStand'
  <2>1. ids \in SUBSET Ids
    BY BoundAssumption
  <2>2. Standing(f) /\ ~page[f].live
    BY <1>6 DEF Open
  <2> QED
    BY <1>1, <1>6, <2>1, <2>2, OpenIs
<1>7. ASSUME NEW f \in Frames, NEW c \in Cells, NEW val \in Content, FrameSets(f, c, val)
      PROVE  PagesStand'
  BY <1>1, <1>7, SetIs
<1>8. ASSUME page' = page PROVE PagesStand'
  BY <1>1, <1>8
<1>9. ASSUME NEW f \in Frames, UpdateValue(f) PROVE PagesStand'
  BY <1>8, <1>9 DEF UpdateValue
<1>10. ASSUME NEW stores \in Imports, SetValueStores(stores) PROVE PagesStand'
  BY <1>8, <1>10 DEF SetValueStores
<1>11. CASE SwitchOff \/ Commit \/ WriteAnswered \/ Forget \/ Broadcast
  BY <1>8, <1>11 DEF SwitchOff, Commit, WriteAnswered, Forget, Broadcast
<1> QED
  BY <1>2, <1>3, <1>4, <1>5, <1>6, <1>7, <1>9, <1>10, <1>11 DEF Next

(* A frame whose page is not live takes nothing from pages that are: no    *)
(* live page is under it.                                                  *)
LEMMA NoneUnder ==
  ASSUME PagesStand, NEW f \in Frames, ~page[f].live, NEW g \in Under(f)
  PROVE  ~page[g].live
  BY TopAssumption DEF PagesStand, Standing, Under

(* The scripts of a page are tracked. *)
LEMMA TrackedNext ==
  ASSUME TypeOK, PagesStand, ScriptsAreTracked, Next
  PROVE  ScriptsAreTracked'
<1>1. ASSUME UNCHANGED << tracked, untracked >>,
             \A g \in Frames : page'[g].live /\ ~page'[g].reports =>
               page[g].live /\ ~page[g].reports /\ page'[g].ids = page[g].ids
      PROVE  ScriptsAreTracked'
  BY <1>1 DEF ScriptsAreTracked
<1>2. ASSUME NEW f \in Frames, Leave(f) PROVE ScriptsAreTracked'
  <2>1. \A g \in Frames : page'[g] = page[g] \/ page'[g] = NoPage
    BY <1>2 DEF Leave
  <2> QED
    BY <1>1, <1>2, <2>1, NoPageIs DEF Leave, background
<1>3. ASSUME NEW f \in Frames, Restore(f) PROVE ScriptsAreTracked'
  <2>1. \A g \in Frames : page'[g].live /\ ~page'[g].reports => page'[g] = page[g]
    BY <1>3, RestoreIs
  <2> QED
    BY <1>1, <1>3, <2>1 DEF Restore, background
<1>4. ASSUME NEW f \in Frames, Restored(f) PROVE ScriptsAreTracked'
  <2>1. /\ tracked' = [g \in Frames |-> (tracked[g] \ (page[f].ids \ exists)) \cup
                                        (IF g = f THEN page[f].ids \cap exists ELSE {})]
        /\ untracked' = untracked \cup (page[f].ids \ exists)
    BY <1>4 DEF Restored
  <2> SUFFICES ASSUME NEW g \in Frames, page'[g].live, ~page'[g].reports
               PROVE  page'[g].ids \subseteq tracked'[g] \cup untracked'
    BY DEF ScriptsAreTracked
  <2>2. CASE g = f
    <3>1. page'[g].ids = page[f].ids
      BY <1>4, <2>2, ReportIs
    <3> QED
      BY <2>1, <2>2, <3>1
  <2>3. CASE g # f
    <3>1. page'[g] = page[g]
      BY <1>4, <2>3, ReportIs
    <3>2. page[g].ids \subseteq tracked[g] \cup untracked
      BY <3>1 DEF ScriptsAreTracked
    <3> QED
      BY <2>1, <2>3, <3>1, <3>2
  <2> QED
    BY <2>2, <2>3
<1>5. ASSUME NEW f \in Frames, UpdatedValues(f) PROVE ScriptsAreTracked'
  <2>1. \A g \in Frames : /\ page'[g].live = page[g].live /\ page'[g].reports = page[g].reports
                          /\ page'[g].ids = page[g].ids
    BY <1>5, ReachIs
  <2> QED
    BY <1>1, <1>5, <2>1 DEF UpdatedValues, background
<1>6. ASSUME NEW f \in Frames, NEW ids \in PageIds, Open(f, ids) PROVE ScriptsAreTracked'
  <2>1. ids \in SUBSET Ids /\ untracked' = untracked /\ ~page[f].live
    BY <1>6, BoundAssumption DEF Open
  <2>2. tracked' = [g \in Frames |-> IF g = f THEN ids ELSE IF g \in Under(f) THEN {} ELSE tracked[g]]
    BY <1>6 DEF Open, TrackOnly
  <2> SUFFICES ASSUME NEW g \in Frames, page'[g].live, ~page'[g].reports
               PROVE  page'[g].ids \subseteq tracked'[g] \cup untracked'
    BY DEF ScriptsAreTracked
  <2>3. CASE g = f
    BY <1>6, <2>1, <2>2, <2>3, OpenIs
  <2>4. CASE g # f
    <3>1. page'[g] = page[g]
      BY <1>6, <2>1, <2>4, OpenIs
    <3>2. g \notin Under(f)
      BY <2>1, <3>1, NoneUnder
    <3>3. page[g].ids \subseteq tracked[g] \cup untracked
      BY <3>1 DEF ScriptsAreTracked
    <3> QED
      BY <2>1, <2>2, <2>4, <3>1, <3>2, <3>3
  <2> QED
    BY <2>3, <2>4
<1>7. ASSUME NEW f \in Frames, NEW c \in Cells, NEW val \in Content, FrameSets(f, c, val)
      PROVE  ScriptsAreTracked'
  <2>1. \A g \in Frames : /\ page'[g].live = page[g].live /\ page'[g].reports = page[g].reports
                          /\ page'[g].ids = page[g].ids
    BY <1>7, SetIs
  <2> QED
    BY <1>1, <1>7, <2>1 DEF FrameSets, background
<1>8. ASSUME UNCHANGED << page, tracked, untracked >> PROVE ScriptsAreTracked'
  BY <1>1, <1>8
<1>9. ASSUME NEW f \in Frames, UpdateValue(f) PROVE ScriptsAreTracked'
  BY <1>8, <1>9 DEF UpdateValue
<1>10. ASSUME NEW stores \in Imports, SetValueStores(stores) PROVE ScriptsAreTracked'
  BY <1>8, <1>10 DEF SetValueStores
<1>11. CASE SwitchOff
  <2>1. untracked' = untracked \cup UNION {tracked[f] : f \in Frames} /\ page' = page
    BY <1>11 DEF SwitchOff
  <2> QED
    BY <2>1 DEF ScriptsAreTracked
<1>12. CASE Commit \/ WriteAnswered \/ Forget \/ Broadcast
  BY <1>8, <1>12 DEF Commit, WriteAnswered, Forget, Broadcast
<1> QED
  BY <1>2, <1>3, <1>4, <1>5, <1>6, <1>7, <1>9, <1>10, <1>11, <1>12 DEF Next

-----------------------------------------------------------------------------
(* The last message of a queue that speaks of a cell. *)
LastPost(q, c, n) == /\ n \in 1 .. Len(q)
                     /\ q[n].cell = c
                     /\ \A m \in n + 1 .. Len(q) : q[m].cell # c
LastPart(q, c, n) == /\ n \in 1 .. Len(q)
                     /\ c \in DOMAIN q[n]
                     /\ \A m \in n + 1 .. Len(q) : c \notin DOMAIN q[m]

PostCells(q) == {q[n].cell : n \in DOMAIN q}
PartCells(q) == UNION {DOMAIN q[n] : n \in DOMAIN q}

LEMMA TakePost ==
  ASSUME NEW q \in Seq(Post), q # << >>
  PROVE  /\ \A c, n : LastPost(Tail(q), c, n) => LastPost(q, c, n + 1) /\ Tail(q)[n] = q[n + 1]
         /\ \A c \in PostCells(q) : c \in PostCells(Tail(q)) \/ LastPost(q, c, 1)
         /\ PostCells(Tail(q)) \subseteq PostCells(q)
<1>1. /\ Tail(q) \in Seq(Post) /\ Len(q) \in Nat /\ Len(q) > 0 /\ Len(Tail(q)) = Len(q) - 1
      /\ \A n \in 1 .. Len(Tail(q)) : Tail(q)[n] = q[n + 1]
      /\ DOMAIN q = 1 .. Len(q) /\ DOMAIN Tail(q) = 1 .. Len(Tail(q))
  BY TailIs
<1>2. ASSUME NEW c, NEW n, LastPost(Tail(q), c, n)
      PROVE  LastPost(q, c, n + 1) /\ Tail(q)[n] = q[n + 1]
  <2>1. n \in 1 .. Len(Tail(q)) /\ Tail(q)[n] = q[n + 1] /\ Tail(q)[n].cell = c
    BY <1>1, <1>2 DEF LastPost
  <2>2. n + 1 \in 1 .. Len(q)
    BY <1>1, <2>1
  <2>3. ASSUME NEW m \in (n + 1) + 1 .. Len(q) PROVE q[m].cell # c
    <3>1. m - 1 \in n + 1 .. Len(Tail(q)) /\ m - 1 \in 1 .. Len(Tail(q)) /\ (m - 1) + 1 = m
      BY <1>1, <2>1
    <3>2. Tail(q)[m - 1].cell # c
      BY <1>2, <3>1 DEF LastPost
    <3>3. Tail(q)[m - 1] = q[m]
      BY <1>1, <3>1
    <3> QED
      BY <3>2, <3>3
  <2> QED
    BY <2>1, <2>2, <2>3 DEF LastPost
<1>3. ASSUME NEW c \in PostCells(q), c \notin PostCells(Tail(q)) PROVE LastPost(q, c, 1)
  <2>1. ASSUME NEW n \in 2 .. Len(q) PROVE q[n].cell # c
    <3>1. n - 1 \in DOMAIN Tail(q) /\ (n - 1) + 1 = n
      BY <1>1
    <3>2. Tail(q)[n - 1] = q[n]
      BY <1>1, <3>1
    <3>3. Tail(q)[n - 1].cell # c
      BY <1>3, <3>1 DEF PostCells
    <3> QED
      BY <3>2, <3>3
  <2>2. PICK n \in 1 .. Len(q) : q[n].cell = c
    BY <1>1 DEF PostCells
  <2>3. n = 1
    BY <1>1, <2>1, <2>2
  <2> QED
    BY <1>1, <2>1, <2>2, <2>3 DEF LastPost
<1>4. ASSUME NEW c \in PostCells(Tail(q)) PROVE c \in PostCells(q)
  <2>1. PICK n \in 1 .. Len(Tail(q)) : Tail(q)[n].cell = c
    BY <1>1 DEF PostCells
  <2>2. n + 1 \in DOMAIN q /\ q[n + 1].cell = c
    BY <1>1, <2>1
  <2> QED
    BY <2>2 DEF PostCells
<1> QED
  BY <1>2, <1>3, <1>4

LEMMA AddPost ==
  ASSUME NEW q \in Seq(Post), NEW m \in Post
  PROVE  /\ \A c, n : LastPost(Append(q, m), c, n) =>
              IF c = m.cell THEN Append(q, m)[n] = m
              ELSE LastPost(q, c, n) /\ Append(q, m)[n] = q[n]
         /\ PostCells(Append(q, m)) = PostCells(q) \cup {m.cell}
<1> DEFINE t == Append(q, m)
<1>1. /\ t \in Seq(Post) /\ Len(q) \in Nat /\ Len(t) = Len(q) + 1
      /\ \A n \in 1 .. Len(q) : t[n] = q[n]
      /\ t[Len(q) + 1] = m
      /\ DOMAIN q = 1 .. Len(q) /\ DOMAIN t = 1 .. Len(t)
  BY AppendIs
<1> HIDE DEF t
<1>2. ASSUME NEW c, NEW n, LastPost(t, c, n)
      PROVE  IF c = m.cell THEN t[n] = m ELSE LastPost(q, c, n) /\ t[n] = q[n]
  <2>0. n \in 1 .. Len(q) + 1 /\ t[n].cell = c /\ \A k \in n + 1 .. Len(q) + 1 : t[k].cell # c
    BY <1>1, <1>2 DEF LastPost
  <2>1. CASE c = m.cell
    <3>1. ~(Len(q) + 1 \in n + 1 .. Len(q) + 1)
      BY <1>1, <2>0, <2>1
    <3>2. n = Len(q) + 1
      BY <1>1, <2>0, <3>1
    <3> QED
      BY <1>1, <2>1, <3>2
  <2>2. CASE c # m.cell
    <3>1. n # Len(q) + 1
      BY <1>1, <2>0, <2>2
    <3>2. n \in 1 .. Len(q)
      BY <1>1, <2>0, <3>1
    <3>3. ASSUME NEW k \in n + 1 .. Len(q) PROVE q[k].cell # c
      <4>1. k \in n + 1 .. Len(q) + 1 /\ k \in 1 .. Len(q)
        BY <1>1, <3>2
      <4> QED
        BY <1>1, <2>0, <4>1
    <3> QED
      BY <1>1, <2>0, <2>2, <3>2, <3>3 DEF LastPost
  <2> QED
    BY <2>1, <2>2
<1>3. PostCells(t) = PostCells(q) \cup {m.cell}
  <2>1. \A c \in PostCells(t) : c \in PostCells(q) \cup {m.cell}
    <3> SUFFICES ASSUME NEW n \in 1 .. Len(q) + 1 PROVE t[n].cell \in PostCells(q) \cup {m.cell}
      BY <1>1 DEF PostCells
    <3>1. CASE n = Len(q) + 1
      BY <1>1, <3>1
    <3>2. CASE n # Len(q) + 1
      <4>1. n \in 1 .. Len(q)
        BY <1>1, <3>2
      <4> QED
        BY <1>1, <4>1 DEF PostCells
    <3> QED
      BY <3>1, <3>2
  <2>2. \A c \in PostCells(q) : c \in PostCells(t)
    <3> SUFFICES ASSUME NEW n \in 1 .. Len(q) PROVE q[n].cell \in PostCells(t)
      BY <1>1 DEF PostCells
    <3>1. n \in DOMAIN t /\ t[n] = q[n]
      BY <1>1
    <3> QED
      BY <3>1 DEF PostCells
  <2>3. m.cell \in PostCells(t)
    <3>1. Len(q) + 1 \in DOMAIN t
      BY <1>1
    <3> QED
      BY <1>1, <3>1 DEF PostCells
  <2> QED
    BY <2>1, <2>2, <2>3
<1> QED
  BY <1>2, <1>3 DEF t

LEMMA TakePart ==
  ASSUME NEW q \in Seq(Part), q # << >>
  PROVE  /\ \A c, n : LastPart(Tail(q), c, n) => LastPart(q, c, n + 1) /\ Tail(q)[n] = q[n + 1]
         /\ \A c \in PartCells(q) : c \in PartCells(Tail(q)) \/ LastPart(q, c, 1)
<1>1. /\ Tail(q) \in Seq(Part) /\ Len(q) \in Nat /\ Len(q) > 0 /\ Len(Tail(q)) = Len(q) - 1
      /\ \A n \in 1 .. Len(Tail(q)) : Tail(q)[n] = q[n + 1]
      /\ DOMAIN q = 1 .. Len(q) /\ DOMAIN Tail(q) = 1 .. Len(Tail(q))
  BY TailIs
<1>2. ASSUME NEW c, NEW n, LastPart(Tail(q), c, n)
      PROVE  LastPart(q, c, n + 1) /\ Tail(q)[n] = q[n + 1]
  <2>1. n \in 1 .. Len(Tail(q)) /\ Tail(q)[n] = q[n + 1] /\ c \in DOMAIN Tail(q)[n]
    BY <1>1, <1>2 DEF LastPart
  <2>2. n + 1 \in 1 .. Len(q)
    BY <1>1, <2>1
  <2>3. ASSUME NEW m \in (n + 1) + 1 .. Len(q) PROVE c \notin DOMAIN q[m]
    <3>1. m - 1 \in n + 1 .. Len(Tail(q)) /\ m - 1 \in 1 .. Len(Tail(q)) /\ (m - 1) + 1 = m
      BY <1>1, <2>1
    <3>2. c \notin DOMAIN Tail(q)[m - 1]
      BY <1>2, <3>1 DEF LastPart
    <3>3. Tail(q)[m - 1] = q[m]
      BY <1>1, <3>1
    <3> QED
      BY <3>2, <3>3
  <2> QED
    BY <2>1, <2>2, <2>3 DEF LastPart
<1>3. ASSUME NEW c \in PartCells(q), c \notin PartCells(Tail(q)) PROVE LastPart(q, c, 1)
  <2>1. ASSUME NEW n \in 2 .. Len(q) PROVE c \notin DOMAIN q[n]
    <3>1. n - 1 \in DOMAIN Tail(q) /\ (n - 1) + 1 = n
      BY <1>1
    <3>2. Tail(q)[n - 1] = q[n]
      BY <1>1, <3>1
    <3>3. c \notin DOMAIN Tail(q)[n - 1]
      BY <1>3, <3>1 DEF PartCells
    <3> QED
      BY <3>2, <3>3
  <2>2. PICK n \in 1 .. Len(q) : c \in DOMAIN q[n]
    BY <1>1 DEF PartCells
  <2>3. n = 1
    BY <1>1, <2>1, <2>2
  <2> QED
    BY <1>1, <2>1, <2>2, <2>3 DEF LastPart
<1> QED
  BY <1>2, <1>3

LEMMA AddPart ==
  ASSUME NEW q \in Seq(Part), NEW m \in Part
  PROVE  /\ \A c, n : LastPart(Append(q, m), c, n) =>
              IF c \in DOMAIN m THEN Append(q, m)[n] = m
              ELSE LastPart(q, c, n) /\ Append(q, m)[n] = q[n]
         /\ PartCells(q) \cup DOMAIN m \subseteq PartCells(Append(q, m))
<1> DEFINE t == Append(q, m)
<1>1. /\ t \in Seq(Part) /\ Len(q) \in Nat /\ Len(t) = Len(q) + 1
      /\ \A n \in 1 .. Len(q) : t[n] = q[n]
      /\ t[Len(q) + 1] = m
      /\ DOMAIN q = 1 .. Len(q) /\ DOMAIN t = 1 .. Len(t)
  BY AppendIs
<1> HIDE DEF t
<1>2. ASSUME NEW c, NEW n, LastPart(t, c, n)
      PROVE  IF c \in DOMAIN m THEN t[n] = m ELSE LastPart(q, c, n) /\ t[n] = q[n]
  <2>0. n \in 1 .. Len(q) + 1 /\ c \in DOMAIN t[n] /\ \A k \in n + 1 .. Len(q) + 1 : c \notin DOMAIN t[k]
    BY <1>1, <1>2 DEF LastPart
  <2>1. CASE c \in DOMAIN m
    <3>1. ~(Len(q) + 1 \in n + 1 .. Len(q) + 1)
      BY <1>1, <2>0, <2>1
    <3>2. n = Len(q) + 1
      BY <1>1, <2>0, <3>1
    <3> QED
      BY <1>1, <2>1, <3>2
  <2>2. CASE c \notin DOMAIN m
    <3>1. n # Len(q) + 1
      BY <1>1, <2>0, <2>2
    <3>2. n \in 1 .. Len(q)
      BY <1>1, <2>0, <3>1
    <3>3. ASSUME NEW k \in n + 1 .. Len(q) PROVE c \notin DOMAIN q[k]
      <4>1. k \in n + 1 .. Len(q) + 1 /\ k \in 1 .. Len(q)
        BY <1>1, <3>2
      <4> QED
        BY <1>1, <2>0, <4>1
    <3> QED
      BY <1>1, <2>0, <2>2, <3>2, <3>3 DEF LastPart
  <2> QED
    BY <2>1, <2>2
<1>3. ASSUME NEW c \in PartCells(q) PROVE c \in PartCells(t)
  <2>1. PICK n \in 1 .. Len(q) : c \in DOMAIN q[n]
    BY <1>1 DEF PartCells
  <2>2. n \in DOMAIN t /\ t[n] = q[n]
    BY <1>1, <2>1
  <2> QED
    BY <2>1, <2>2 DEF PartCells
<1>4. ASSUME NEW c \in DOMAIN m PROVE c \in PartCells(t)
  <2>1. Len(q) + 1 \in DOMAIN t
    BY <1>1
  <2> QED
    BY <1>1, <2>1 DEF PartCells
<1> QED
  BY <1>2, <1>3, <1>4 DEF t

(* The last message a page posted has what the page holds; the last one    *)
(* sent to it has what its record holds.                                   *)
PostedAgree ==
  \A f \in Frames, c \in Cells \ raced : \A n :
    page[f].live /\ LastPost(outbox[f], c, n) /\ ~outbox[f][n].late =>
      outbox[f][n].val = page[f].local[c]

ArrivingAgree ==
  \A f \in Frames, c \in Cells \ raced : \A n :
    c[1] \in tracked[f] /\ LastPart(inbox[f], c, n) => inbox[f][n][c] = record[f][c]

LEMMA PostedIs == \A f \in Frames : Posted(f) = PostCells(outbox[f]) /\ Arriving(f) = PartCells(inbox[f])
  BY DEF Posted, Arriving, PostCells, PartCells

LEMMA LastPosted ==
  \A f \in Frames : \A c, n : LastPost(outbox[f], c, n) /\ outbox[f] \in Seq(Post) => c \in Posted(f)
<1> SUFFICES ASSUME NEW f \in Frames, NEW c, NEW n, LastPost(outbox[f], c, n), outbox[f] \in Seq(Post)
             PROVE  c \in Posted(f)
  OBVIOUS
<1>1. n \in DOMAIN outbox[f] /\ outbox[f][n].cell = c
  BY DEF LastPost
<1> QED
  BY <1>1 DEF Posted

LEMMA LastArriving ==
  \A f \in Frames : \A c, n : LastPart(inbox[f], c, n) /\ inbox[f] \in Seq(Part) =>
    n \in DOMAIN inbox[f] /\ c \in DOMAIN inbox[f][n] /\ c \in Arriving(f)
<1> SUFFICES ASSUME NEW f \in Frames, NEW c, NEW n, LastPart(inbox[f], c, n), inbox[f] \in Seq(Part)
             PROVE  n \in DOMAIN inbox[f] /\ c \in DOMAIN inbox[f][n] /\ c \in Arriving(f)
  OBVIOUS
<1>1. n \in DOMAIN inbox[f] /\ c \in DOMAIN inbox[f][n]
  BY DEF LastPart
<1> QED
  BY <1>1 DEF Arriving

LEMMA PostedNext ==
  ASSUME TypeOK, PostedAgree, Next
  PROVE  PostedAgree'
<1>0. raced \subseteq raced' /\ PagesTyped /\ \A f \in Frames : outbox[f] \in Seq(Post)
  BY RacedGrows, TypeParts DEF PagesTyped
<1> SUFFICES ASSUME NEW g \in Frames, NEW d \in Cells \ raced', NEW n,
                    page'[g].live, LastPost(outbox'[g], d, n), ~outbox'[g][n].late
             PROVE  outbox'[g][n].val = page'[g].local[d]
  BY DEF PostedAgree, LastPost
<1>r. d \in Cells \ raced
  BY <1>0
<1>1. ASSUME outbox'[g] = outbox[g], page[g].live, page'[g].local = page[g].local
      PROVE  outbox'[g][n].val = page'[g].local[d]
  BY <1>1, <1>r DEF PostedAgree
<1>2. ASSUME NEW f \in Frames, Leave(f) PROVE outbox'[g][n].val = page'[g].local[d]
  <2>1. page'[g] = page[g] \/ page'[g] = NoPage
    BY <1>2 DEF Leave
  <2>2. outbox' = outbox
    BY <1>2 DEF Leave
  <2> QED
    BY <1>1, <2>1, <2>2, NoPageIs
<1>3. ASSUME NEW f \in Frames, TurnsLate(f), \A h \in Frames \ {f} : page'[h] = page[h]
      PROVE  outbox'[g][n].val = page'[g].local[d]
  <2>1. CASE g = f
    <3>1. n \in 1 .. Len(outbox[f])
      BY <1>0, <1>3, <2>1, TurnsLateIs DEF LastPost
    <3> QED
      BY <1>0, <1>3, <2>1, <3>1, TurnsLateIs
  <2>2. CASE g # f
    BY <1>0, <1>1, <1>3, <2>2, TurnsLateIs
  <2> QED
    BY <2>1, <2>2
<1>4. ASSUME NEW f \in Frames, Restore(f) PROVE outbox'[g][n].val = page'[g].local[d]
  BY <1>3, <1>4, RestoreIs DEF Restore
<1>5. ASSUME NEW f \in Frames, NEW ids \in PageIds, Open(f, ids)
      PROVE  outbox'[g][n].val = page'[g].local[d]
  <2>1. ids \in SUBSET Ids
    BY BoundAssumption
  <2> QED
    BY <1>3, <1>5, <2>1, OpenIs DEF Open
<1>6. ASSUME NEW f \in Frames, Restored(f) PROVE outbox'[g][n].val = page'[g].local[d]
  <2>1. outbox' = outbox
    BY <1>6 DEF Restored
  <2> QED
    BY <1>1, <1>6, <2>1, ReportIs
<1>7. ASSUME NEW f \in Frames, UpdateValue(f) PROVE outbox'[g][n].val = page'[g].local[d]
  <2>1. page' = page /\ outbox' = [outbox EXCEPT ![f] = Tail(outbox[f])] /\ outbox[f] # << >>
    BY <1>7 DEF UpdateValue
  <2>2. CASE g = f
    <3>1. outbox'[g] = Tail(outbox[f])
      BY <1>0, <2>1, <2>2 DEF PagesTyped
    <3>2. LastPost(outbox[f], d, n + 1) /\ outbox'[g][n] = outbox[f][n + 1]
      BY <1>0, <2>1, <3>1, <2>2, TakePost
    <3>3. page[f].live /\ ~outbox[f][n + 1].late
      BY <2>1, <2>2, <3>2
    <3>4. outbox[f][n + 1].val = page[f].local[d]
      BY <1>r, <3>2, <3>3 DEF PostedAgree
    <3> QED
      BY <2>1, <2>2, <3>2, <3>4
  <2>3. CASE g # f
    BY <1>0, <1>1, <2>1, <2>3 DEF PagesTyped
  <2> QED
    BY <2>2, <2>3
<1>8. ASSUME NEW f \in Frames, UpdatedValues(f) PROVE outbox'[g][n].val = page'[g].local[d]
  <2>1. outbox' = outbox /\ raced' = raced \cup (DOMAIN Update(f) \cap Posted(f))
    BY <1>8 DEF UpdatedValues, Update
  <2>2. CASE g = f
    <3>1. d \in Posted(f)
      BY <1>0, <2>1, <2>2, LastPosted
    <3>2. d \notin DOMAIN Update(f)
      BY <2>1, <3>1
    <3>3. page'[f].local = Overlay(page[f].local, Update(f)) /\ DOMAIN page[f].local = Cells
          /\ page[f].live
      BY <1>8, <2>2, ReachIs, StoreIsPart
    <3>4. page'[f].local[d] = page[f].local[d]
      BY <3>2, <3>3, OverlayIs
    <3> QED
      BY <1>r, <2>1, <2>2, <3>3, <3>4 DEF PostedAgree
  <2>3. CASE g # f
    BY <1>1, <1>8, <2>1, <2>3, ReachIs
  <2> QED
    BY <2>2, <2>3
<1>9. ASSUME NEW f \in Frames, NEW c \in Cells, NEW val \in Content, FrameSets(f, c, val)
      PROVE  outbox'[g][n].val = page'[g].local[d]
  <2>1. CASE g = f
    <3> DEFINE msg == [cell |-> c, val |-> val, late |-> FALSE]
    <3>1. /\ page'[f].live = page[f].live
          /\ page'[f].local = [page[f].local EXCEPT ![c] = val]
          /\ outbox'[f] = Append(outbox[f], msg)
          /\ msg \in Post
      BY <1>9, SetIs
    <3>2. msg.cell = c /\ msg.val = val
      OBVIOUS
    <3> HIDE DEF msg
    <3>3. page[f].local \in Store
      BY <1>0 DEF PagesTyped, Page
    <3>4. IF d = c THEN outbox'[f][n] = msg
          ELSE LastPost(outbox[f], d, n) /\ outbox'[f][n] = outbox[f][n]
      <4>1. \A e, k : LastPost(Append(outbox[f], msg), e, k) =>
              IF e = msg.cell THEN Append(outbox[f], msg)[k] = msg
              ELSE LastPost(outbox[f], e, k) /\ Append(outbox[f], msg)[k] = outbox[f][k]
        BY <1>0, <3>1, AddPost
      <4>2. LastPost(Append(outbox[f], msg), d, n)
        BY <2>1, <3>1
      <4> QED
        BY <3>1, <3>2, <4>1, <4>2
    <3>5. CASE d = c
      BY <2>1, <3>1, <3>2, <3>3, <3>4, <3>5 DEF Store
    <3>6. CASE d # c
      <4>1. page'[f].local[d] = page[f].local[d]
        BY <3>1, <3>3, <3>6 DEF Store
      <4>2. page[f].live /\ LastPost(outbox[f], d, n) /\ ~outbox[f][n].late
            /\ outbox'[f][n] = outbox[f][n]
        BY <2>1, <3>1, <3>4, <3>6
      <4>3. outbox[f][n].val = page[f].local[d]
        BY <1>r, <4>2 DEF PostedAgree
      <4> QED
        BY <2>1, <4>1, <4>2, <4>3
    <3> QED
      BY <3>5, <3>6
  <2>2. CASE g # f
    BY <1>1, <1>9, <2>2, SetIs
  <2> QED
    BY <2>1, <2>2
<1>10. ASSUME UNCHANGED << page, outbox >> PROVE outbox'[g][n].val = page'[g].local[d]
  BY <1>1, <1>10
<1>11. ASSUME NEW stores \in Imports, SetValueStores(stores)
       PROVE  outbox'[g][n].val = page'[g].local[d]
  BY <1>10, <1>11 DEF SetValueStores
<1>12. CASE SwitchOff \/ Commit \/ WriteAnswered \/ Forget \/ Broadcast
  BY <1>10, <1>12 DEF SwitchOff, Commit, WriteAnswered, Forget, Broadcast
<1> QED
  BY <1>2, <1>4, <1>5, <1>6, <1>7, <1>8, <1>9, <1>11, <1>12 DEF Next

LEMMA ArrivingNext ==
  ASSUME TypeOK, ArrivingAgree, Next
  PROVE  ArrivingAgree'
<1>0. /\ raced \subseteq raced' /\ RecordsTyped /\ PagesTyped
      /\ \A f \in Frames : inbox[f] \in Seq(Part)
  BY RacedGrows, TypeParts DEF PagesTyped
<1> SUFFICES ASSUME NEW g \in Frames, NEW d \in Cells \ raced', NEW n,
                    d[1] \in tracked'[g], LastPart(inbox'[g], d, n)
             PROVE  inbox'[g][n][d] = record'[g][d]
  BY DEF ArrivingAgree, LastPart
<1>r. d \in Cells \ raced
  BY <1>0
<1>1. ASSUME inbox'[g] = inbox[g], d[1] \in tracked[g], record'[g][d] = record[g][d]
      PROVE  inbox'[g][n][d] = record'[g][d]
  BY <1>1, <1>r DEF ArrivingAgree
<1>2. ASSUME UNCHANGED << tracked, record, inbox >> PROVE inbox'[g][n][d] = record'[g][d]
  BY <1>1, <1>2
<1>3. ASSUME NEW f \in Frames, Leave(f) \/ Restore(f) PROVE inbox'[g][n][d] = record'[g][d]
  BY <1>2, <1>3 DEF Leave, Restore, background
<1>4. ASSUME NEW f \in Frames, Restored(f) PROVE inbox'[g][n][d] = record'[g][d]
  <2>1. /\ inbox' = inbox
        /\ tracked'[g] = (tracked[g] \ (page[f].ids \ exists)) \cup
                         (IF g = f THEN page[f].ids \cap exists ELSE {})
    BY <1>4 DEF Restored
  <2>2. CASE g = f /\ d[1] \in page[f].ids \cap exists
    <3>1. record'[g][d] = stored[d]
      BY <1>4, <2>2, RestoredRecords
    <3>2. n \in DOMAIN inbox[f] /\ d \in DOMAIN inbox[f][n] /\ d \in Arriving(f)
      BY <1>0, <2>1, <2>2, LastArriving
    <3>3. d \in CellsOf(page[f].ids \cap exists)
      BY <2>2 DEF CellsOf
    <3>4. d \notin {c \in Arriving(f) : \E k \in DOMAIN inbox[f] : c \in DOMAIN inbox[f][k]
                                                                   /\ inbox[f][k][c] # stored[c]}
      BY <1>4, <3>3 DEF Restored
    <3>5. inbox[f][n][d] = stored[d]
      BY <3>2, <3>4
    <3> QED
      BY <2>1, <2>2, <3>1, <3>5
  <2>3. CASE ~(g = f /\ d[1] \in page[f].ids \cap exists)
    <3>1. d[1] \in tracked[g] /\ d[1] \notin page[f].ids \ exists
      BY <2>1, <2>3
    <3>2. record'[g][d] = record[g][d]
      BY <1>4, <2>3, <3>1, RestoredRecords
    <3> QED
      BY <1>1, <2>1, <3>1, <3>2
  <2> QED
    BY <2>2, <2>3
<1>5. ASSUME NEW f \in Frames, UpdateValue(f) PROVE inbox'[g][n][d] = record'[g][d]
  <2>1. UNCHANGED << tracked, inbox >>
    BY <1>5 DEF UpdateValue
  <2>2. PICK c \in Cells, val \in Content : Counts(f, c, val) \/ Ignored(f, c)
    BY <1>5, MessageIs
  <2>3. CASE Ignored(f, c)
    BY <1>2, <2>1, <2>3 DEF Ignored
  <2>4. CASE Counts(f, c, val)
    <3>1. d \in Arriving(g)
      BY <1>0, <2>1, LastArriving
    <3>2. g # f \/ d # c
      BY <2>4, <3>1 DEF Counts
    <3>3. record'[g][d] = record[g][d]
      BY <2>4, <3>2, CountsElsewhere
    <3> QED
      BY <1>1, <2>1, <3>3
  <2> QED
    BY <2>2, <2>3, <2>4
<1>6. ASSUME NEW f \in Frames, UpdatedValues(f) PROVE inbox'[g][n][d] = record'[g][d]
  <2>1. UNCHANGED << tracked, record >>
    BY <1>6 DEF UpdatedValues, background
  <2>2. CASE g = f
    <3>1. inbox'[f] = Tail(inbox[f]) /\ inbox[f] # << >>
      BY <1>6, ReachIs
    <3>2. LastPart(inbox[f], d, n + 1) /\ inbox'[g][n] = inbox[f][n + 1]
      BY <1>0, <2>2, <3>1, TakePart
    <3>3. inbox[f][n + 1][d] = record[f][d]
      BY <1>r, <2>1, <2>2, <3>2 DEF ArrivingAgree
    <3> QED
      BY <2>1, <2>2, <3>2, <3>3
  <2>3. CASE g # f
    BY <1>1, <1>6, <2>1, <2>3, ReachIs
  <2> QED
    BY <2>2, <2>3
<1>7. ASSUME NEW f \in Frames, NEW ids \in PageIds, Open(f, ids) PROVE inbox'[g][n][d] = record'[g][d]
  <2>1. TrackOnly(f, ids)
    BY <1>7 DEF Open
  <2>2. CASE g = f
    <3>1. CASE inbox' = [inbox EXCEPT ![f] = << >>]
      <4>1. inbox'[g] = << >>
        BY <1>0, <2>2, <3>1 DEF PagesTyped
      <4>2. n \in 1 .. 0
        BY <4>1 DEF LastPart
      <4> QED
        BY <4>2
    <3>2. CASE inbox' = inbox /\ Arriving(f) \subseteq raced'
      BY <1>0, <2>2, <3>2, LastArriving
    <3>3. \/ inbox' = [inbox EXCEPT ![f] = << >>]
          \/ inbox' = inbox /\ Arriving(f) \subseteq raced'
      BY <1>7 DEF Open
    <3> QED
      BY <3>1, <3>2, <3>3
  <2>3. CASE g # f
    <3>1. d[1] \in tracked[g] /\ record'[g] = record[g]
      BY <2>1, <2>3 DEF TrackOnly
    <3>2. inbox' = [inbox EXCEPT ![f] = << >>] \/ inbox' = inbox
      BY <1>7 DEF Open
    <3>3. inbox'[g] = inbox[g]
      BY <1>0, <2>3, <3>2 DEF PagesTyped
    <3> QED
      BY <1>1, <3>1, <3>3
  <2> QED
    BY <2>2, <2>3
<1>8. ASSUME NEW f \in Frames, NEW c \in Cells, NEW val \in Content, FrameSets(f, c, val)
      PROVE  inbox'[g][n][d] = record'[g][d]
  BY <1>2, <1>8 DEF FrameSets, background
<1>9. ASSUME NEW stores \in Imports, SetValueStores(stores) PROVE inbox'[g][n][d] = record'[g][d]
  BY <1>2, <1>9 DEF SetValueStores
<1>10. CASE SwitchOff
  BY <1>10 DEF SwitchOff
<1>11. CASE Commit \/ WriteAnswered \/ Forget
  BY <1>2, <1>11 DEF Commit, WriteAnswered, Forget
<1>12. CASE Broadcast
  <2>1. tracked' = tracked
    BY <1>12 DEF Broadcast
  <2>2. record'[g][d] = IF d[1] \in tracked[g] /\ d \in DOMAIN toSend THEN toSend[d] ELSE record[g][d]
    BY <1>12, BroadcastIs
  <2>3. inbox'[g] = IF News(g) = Nothing THEN inbox[g] ELSE Append(inbox[g], News(g))
    BY <1>12, BroadcastIs
  <2>4. /\ News(g) \in Part
        /\ d \in DOMAIN News(g) <=> d[1] \in tracked[g] /\ d \in DOMAIN toSend /\ toSend[d] # record[g][d]
        /\ d \in DOMAIN News(g) => News(g)[d] = toSend[d]
    BY NewsIs
  <2>5. CASE d \in DOMAIN News(g)
    <3>1. inbox'[g] = Append(inbox[g], News(g))
      BY <2>3, <2>5, NothingIs
    <3>2. inbox'[g][n] = News(g)
      <4>1. \A e, k : LastPart(Append(inbox[g], News(g)), e, k) =>
              IF e \in DOMAIN News(g) THEN Append(inbox[g], News(g))[k] = News(g)
              ELSE LastPart(inbox[g], e, k) /\ Append(inbox[g], News(g))[k] = inbox[g][k]
        BY <1>0, <2>4, AddPart
      <4> QED
        BY <2>5, <3>1, <4>1
    <3> QED
      BY <2>2, <2>4, <2>5, <3>2
  <2>6. CASE d \notin DOMAIN News(g)
    <3>1. record'[g][d] = record[g][d]
      BY <2>2, <2>4, <2>6
    <3>2. LastPart(inbox[g], d, n) /\ inbox'[g][n] = inbox[g][n]
      <4>1. CASE News(g) = Nothing
        BY <2>3, <4>1
      <4>2. CASE News(g) # Nothing
        <5>1. \A e, k : LastPart(Append(inbox[g], News(g)), e, k) =>
                IF e \in DOMAIN News(g) THEN Append(inbox[g], News(g))[k] = News(g)
                ELSE LastPart(inbox[g], e, k) /\ Append(inbox[g], News(g))[k] = inbox[g][k]
          BY <1>0, <2>4, AddPart
        <5> QED
          BY <2>3, <2>6, <4>2, <5>1
      <4> QED
        BY <4>1, <4>2
    <3>3. inbox[g][n][d] = record[g][d]
      BY <1>r, <2>1, <3>2 DEF ArrivingAgree
    <3> QED
      BY <3>1, <3>2, <3>3
  <2> QED
    BY <2>5, <2>6
<1> QED
  BY <1>3, <1>4, <1>5, <1>6, <1>7, <1>8, <1>9, <1>10, <1>11, <1>12 DEF Next

LEMMA PagesFollowNext ==
  ASSUME TypeOK, PagesStand, PagesFollow, PostedAgree, ArrivingAgree, Next
  PROVE  PagesFollow'
<1>0. /\ raced \subseteq raced' /\ RecordsTyped /\ PagesTyped
      /\ \A f \in Frames : inbox[f] \in Seq(Part) /\ outbox[f] \in Seq(Post)
  BY RacedGrows, TypeParts DEF PagesTyped
<1> SUFFICES ASSUME NEW d \in Cells \ raced', NEW g \in Frames,
                    page'[g].live, d[1] \in page'[g].ids, d[1] \in tracked'[g], ~page'[g].reports
             PROVE  \/ page'[g].local[d] = record'[g][d]
                    \/ d \in PartCells(inbox'[g]) \cup PostCells(outbox'[g])
  BY DEF PagesFollow, Runs, Arriving, Posted, PartCells, PostCells
<1> DEFINE Goal == \/ page'[g].local[d] = record'[g][d]
                   \/ d \in PartCells(inbox'[g]) \cup PostCells(outbox'[g])
<1>r. d \in Cells \ raced
  BY <1>0
<1>1. ASSUME page[g].live, d[1] \in page[g].ids, d[1] \in tracked[g], ~page[g].reports
      PROVE  \/ page[g].local[d] = record[g][d]
             \/ d \in PartCells(inbox[g]) \cup PostCells(outbox[g])
  <2>1. Runs(g, d)
    BY <1>1 DEF Runs
  <2>2. \/ page[g].local[d] = record[g][d]
        \/ d \in Arriving(g) \cup Posted(g)
    BY <1>1, <1>r, <2>1 DEF PagesFollow
  <2> QED
    BY <2>2, PostedIs
<1>2. ASSUME page'[g] = page[g], d[1] \in tracked[g], record'[g][d] = record[g][d],
             inbox'[g] = inbox[g], outbox'[g] = outbox[g]
      PROVE  Goal
  BY <1>1, <1>2
<1>3. ASSUME UNCHANGED << tracked, record, inbox, outbox >>, page'[g] = page[g] PROVE Goal
  BY <1>2, <1>3
<1>4. ASSUME NEW f \in Frames, Leave(f) PROVE Goal
  <2>1. page'[g] = page[g] \/ page'[g] = NoPage
    BY <1>4 DEF Leave
  <2>2. page'[g] = page[g]
    BY <2>1, NoPageIs
  <2> QED
    BY <1>3, <1>4, <2>2 DEF Leave, background
<1>5. ASSUME NEW f \in Frames, Restore(f) PROVE Goal
  <2>1. g # f /\ page'[g] = page[g]
    BY <1>5, RestoreIs
  <2>2. UNCHANGED << tracked, record, inbox >> /\ TurnsLate(f)
    BY <1>5 DEF Restore, background
  <2>3. outbox'[g] = outbox[g]
    BY <1>0, <2>1, <2>2, TurnsLateIs
  <2> QED
    BY <1>2, <2>1, <2>2, <2>3
<1>6. ASSUME NEW f \in Frames, Restored(f) PROVE Goal
  <2>1. /\ UNCHANGED << inbox, outbox >>
        /\ tracked'[g] = (tracked[g] \ (page[f].ids \ exists)) \cup
                         (IF g = f THEN page[f].ids \cap exists ELSE {})
    BY <1>6 DEF Restored
  <2>2. CASE g = f
    <3>1. page'[f].ids = page[f].ids /\ page'[f].local = page[f].local
      BY <1>6, ReportIs
    <3>2. d[1] \in page[f].ids \cap exists
      BY <2>1, <2>2, <3>1
    <3>3. d \in CellsOf(page[f].ids \cap exists)
      BY <3>2 DEF CellsOf
    <3>4. page[f].local[d] = stored[d]
      BY <1>6, <3>3 DEF Restored
    <3>5. record'[f][d] = stored[d]
      BY <1>6, <3>2, RestoredRecords
    <3> QED
      BY <2>2, <3>1, <3>4, <3>5
  <2>3. CASE g # f
    <3>1. page'[g] = page[g]
      BY <1>6, <2>3, ReportIs
    <3>2. d[1] \in tracked[g] /\ d[1] \notin page[f].ids \ exists
      BY <2>1, <2>3
    <3>3. record'[g][d] = record[g][d]
      BY <1>6, <2>3, <3>2, RestoredRecords
    <3> QED
      BY <1>2, <2>1, <3>1, <3>2, <3>3
  <2> QED
    BY <2>2, <2>3
<1>7. ASSUME NEW f \in Frames, UpdateValue(f) PROVE Goal
  <2>1. UNCHANGED << tracked, page, inbox >> /\ outbox' = [outbox EXCEPT ![f] = Tail(outbox[f])]
    BY <1>7 DEF UpdateValue
  <2>2. PICK c \in Cells, val \in Content : /\ c = Head(outbox[f]).cell /\ val = Head(outbox[f]).val
                                            /\ Counts(f, c, val) \/ Ignored(f, c)
    BY <1>7, MessageIs
  <2>3. record'[g][d] = record[g][d] \/ (g = f /\ d = c /\ Counts(f, c, val))
    <3>1. CASE Counts(f, c, val)
      BY <3>1, CountsElsewhere
    <3>2. CASE Ignored(f, c)
      BY <3>2 DEF Ignored
    <3> QED
      BY <2>2, <3>1, <3>2
  <2>4. CASE g # f
    <3>1. outbox'[g] = outbox[g]
      BY <1>0, <2>1, <2>4 DEF PagesTyped
    <3> QED
      BY <1>2, <2>1, <2>3, <2>4, <3>1
  <2>5. CASE g = f
    <3>1. outbox[f] # << >> /\ outbox'[f] = Tail(outbox[f]) /\ outbox[f] \in Seq(Post)
          /\ outbox[f][1] = Head(outbox[f])
      BY <1>0, <1>7, <2>1, TailIs DEF UpdateValue, PagesTyped
    <3>2. d \in PostCells(outbox[f]) => d \in PostCells(Tail(outbox[f])) \/ LastPost(outbox[f], d, 1)
      BY <3>1, TakePost
    <3>3. CASE d # c
      <4>1. ~LastPost(outbox[f], d, 1)
        BY <2>2, <3>1, <3>3 DEF LastPost
      <4>2. \/ page[g].local[d] = record[g][d]
            \/ d \in PartCells(inbox[g]) \cup PostCells(outbox[g])
        BY <1>1, <2>1
      <4> QED
        BY <2>1, <2>3, <2>5, <3>1, <3>2, <3>3, <4>1, <4>2
    <3>4. CASE d = c
      <4>1. Counts(f, c, val)
        BY <2>1, <2>2, <2>5, <3>4 DEF Ignored
      <4>2. ~Head(outbox[f]).late
        BY <3>4, <4>1 DEF Counts
      <4>3. d \in PostCells(outbox[f])
        <5>1. 1 \in DOMAIN outbox[f] /\ outbox[f][1].cell = d
          BY <2>2, <3>1, <3>4
        <5> QED
          BY <5>1 DEF PostCells
      <4>4. CASE LastPost(outbox[f], d, 1)
        <5>1. page[f].live /\ ~outbox[f][1].late /\ outbox[f][1].val = val
          BY <2>1, <2>2, <2>5, <3>1, <4>2
        <5>2. outbox[f][1].val = page[f].local[d]
          BY <1>r, <4>4, <5>1 DEF PostedAgree
        <5>3. record'[f][d] = val
          BY <3>4, <4>1, CountedCell
        <5> QED
          BY <2>1, <2>5, <5>1, <5>2, <5>3
      <4> QED
        BY <2>5, <3>1, <3>2, <4>3, <4>4
    <3> QED
      BY <3>3, <3>4
  <2> QED
    BY <2>4, <2>5
<1>8. ASSUME NEW f \in Frames, UpdatedValues(f) PROVE Goal
  <2>1. UNCHANGED << tracked, record, outbox >>
    BY <1>8 DEF UpdatedValues, background
  <2>2. CASE g # f
    BY <1>2, <1>8, <2>1, <2>2, ReachIs
  <2>3. CASE g = f
    <3>1. /\ page'[f].live = page[f].live /\ page'[f].reports = page[f].reports
          /\ page'[f].ids = page[f].ids
          /\ page'[f].local = Overlay(page[f].local, Update(f))
          /\ inbox[f] \in Seq(Part) /\ inbox[f] # << >> /\ inbox'[f] = Tail(inbox[f])
          /\ DOMAIN page[f].local = Cells
      BY <1>8, ReachIs, StoreIsPart
    <3>2. Head(inbox[f]) = inbox[f][1]
      BY <3>1, TailIs
    <3>3. d \in DOMAIN Update(f) <=> d \in DOMAIN Head(inbox[f])
      BY <2>3, <3>1 DEF Update, Only, CellsOf
    <3>4. d \in DOMAIN Update(f) => Update(f)[d] = Head(inbox[f])[d]
      BY DEF Update, Only
    <3>5. d \in PartCells(inbox[f]) => d \in PartCells(Tail(inbox[f])) \/ LastPart(inbox[f], d, 1)
      BY <3>1, TakePart
    <3>6. CASE d \in DOMAIN Update(f)
      <4>1. page'[f].local[d] = Head(inbox[f])[d]
        BY <3>1, <3>4, <3>6, OverlayIs
      <4>2. d \in PartCells(inbox[f])
        <5>1. 1 \in DOMAIN inbox[f] /\ d \in DOMAIN inbox[f][1]
          BY <3>1, <3>2, <3>3, <3>6
        <5> QED
          BY <5>1 DEF PartCells
      <4>3. CASE LastPart(inbox[f], d, 1)
        <5>1. inbox[f][1][d] = record[f][d]
          BY <1>r, <2>1, <2>3, <4>3 DEF ArrivingAgree
        <5> QED
          BY <2>1, <2>3, <3>2, <4>1, <5>1
      <4> QED
        BY <2>3, <3>1, <3>5, <4>2, <4>3
    <3>7. CASE d \notin DOMAIN Update(f)
      <4>1. page'[f].local[d] = page[f].local[d]
        BY <3>1, <3>7, OverlayIs
      <4>2. ~LastPart(inbox[f], d, 1)
        BY <3>2, <3>3, <3>7 DEF LastPart
      <4>3. \/ page[f].local[d] = record[f][d]
            \/ d \in PartCells(inbox[f]) \cup PostCells(outbox[f])
        BY <1>1, <2>1, <2>3, <3>1
      <4> QED
        BY <2>1, <2>3, <3>1, <3>5, <4>1, <4>2, <4>3
    <3> QED
      BY <3>6, <3>7
  <2> QED
    BY <2>2, <2>3
<1>9. ASSUME NEW f \in Frames, NEW ids \in PageIds, Open(f, ids) PROVE Goal
  <2>1. ids \in SUBSET Ids /\ TrackOnly(f, ids) /\ ~page[f].live /\ TurnsLate(f)
    BY <1>9, BoundAssumption DEF Open
  <2>2. CASE g = f
    <3>1. record'[f] = Overlay(Blank, Only(injected, CellsOf(ids)))
      BY <2>1 DEF TrackOnly
    <3>2. page'[f].local = Overlay(Blank, Only(injected, CellsOf(ids)))
      BY <1>9, <2>1, OpenIs
    <3> QED
      BY <2>2, <3>1, <3>2
  <2>3. CASE g # f
    <3>1. page'[g] = page[g]
      BY <1>9, <2>1, <2>3, OpenIs
    <3>2. d[1] \in tracked[g] /\ record'[g] = record[g]
      BY <2>1, <2>3 DEF TrackOnly
    <3>3. inbox' = [inbox EXCEPT ![f] = << >>] \/ inbox' = inbox
      BY <1>9 DEF Open
    <3>4. inbox'[g] = inbox[g]
      BY <1>0, <2>3, <3>3 DEF PagesTyped
    <3>5. outbox'[g] = outbox[g]
      BY <1>0, <2>1, <2>3, TurnsLateIs
    <3> QED
      BY <1>2, <3>1, <3>2, <3>4, <3>5
  <2> QED
    BY <2>2, <2>3
<1>10. ASSUME NEW f \in Frames, NEW c \in Cells, NEW val \in Content, FrameSets(f, c, val) PROVE Goal
  <2>1. UNCHANGED << tracked, record, inbox >>
    BY <1>10 DEF FrameSets, background
  <2>2. CASE g # f
    <3>1. page'[g] = page[g] /\ outbox'[g] = outbox[g]
      BY <1>10, <2>2, SetIs
    <3>2. d[1] \in tracked[g] /\ record'[g][d] = record[g][d] /\ inbox'[g] = inbox[g]
      BY <2>1
    <3> QED
      BY <1>2, <3>1, <3>2
  <2>3. CASE g = f
    <3> DEFINE msg == [cell |-> c, val |-> val, late |-> FALSE]
    <3>1. /\ page'[f].live = page[f].live /\ page'[f].reports = page[f].reports
          /\ page'[f].ids = page[f].ids
          /\ page'[f].local = [page[f].local EXCEPT ![c] = val]
          /\ outbox'[f] = Append(outbox[f], msg)
          /\ msg \in Post
      BY <1>10, SetIs
    <3>2. msg.cell = c
      OBVIOUS
    <3> HIDE DEF msg
    <3>3. PostCells(Append(outbox[f], msg)) = PostCells(outbox[f]) \cup {msg.cell}
      BY <1>0, <3>1, AddPost
    <3>4. CASE d = c
      BY <2>3, <3>1, <3>2, <3>3, <3>4
    <3>5. CASE d # c
      <4>1. page[f].local \in Store
        BY <1>0 DEF PagesTyped, Page
      <4>2. page'[f].local[d] = page[f].local[d]
        BY <3>1, <3>5, <4>1 DEF Store
      <4>3. \/ page[f].local[d] = record[f][d]
            \/ d \in PartCells(inbox[f]) \cup PostCells(outbox[f])
        BY <1>1, <2>1, <2>3, <3>1
      <4> QED
        BY <2>1, <2>3, <3>1, <3>3, <4>2, <4>3
    <3> QED
      BY <3>4, <3>5
  <2> QED
    BY <2>2, <2>3
<1>11. ASSUME NEW stores \in Imports, SetValueStores(stores) PROVE Goal
  BY <1>3, <1>11 DEF SetValueStores
<1>12. CASE SwitchOff
  BY <1>12 DEF SwitchOff
<1>13. CASE Commit \/ WriteAnswered \/ Forget
  BY <1>3, <1>13 DEF Commit, WriteAnswered, Forget
<1>14. CASE Broadcast
  <2>1. UNCHANGED << tracked, page, outbox >>
    BY <1>14 DEF Broadcast
  <2>2. record'[g][d] = IF d[1] \in tracked[g] /\ d \in DOMAIN toSend THEN toSend[d] ELSE record[g][d]
    BY <1>14, BroadcastIs
  <2>3. inbox'[g] = IF News(g) = Nothing THEN inbox[g] ELSE Append(inbox[g], News(g))
    BY <1>14, BroadcastIs
  <2>4. /\ News(g) \in Part
        /\ d \in DOMAIN News(g) <=> d[1] \in tracked[g] /\ d \in DOMAIN toSend /\ toSend[d] # record[g][d]
    BY NewsIs
  <2>5. PartCells(inbox[g]) \cup DOMAIN News(g) \subseteq PartCells(inbox'[g])
    <3>1. CASE News(g) = Nothing
      BY <2>3, <3>1, NothingIs
    <3>2. CASE News(g) # Nothing
      BY <1>0, <2>3, <2>4, <3>2, AddPart
    <3> QED
      BY <3>1, <3>2
  <2>6. CASE d \in DOMAIN News(g)
    BY <2>5, <2>6
  <2>7. CASE d \notin DOMAIN News(g)
    <3>1. record'[g][d] = record[g][d]
      BY <2>2, <2>4, <2>7
    <3>2. \/ page[g].local[d] = record[g][d]
          \/ d \in PartCells(inbox[g]) \cup PostCells(outbox[g])
      BY <1>1, <2>1
    <3> QED
      BY <2>1, <2>5, <3>1, <3>2
  <2> QED
    BY <2>6, <2>7
<1> QED
  BY <1>4, <1>5, <1>6, <1>7, <1>8, <1>9, <1>10, <1>11, <1>12, <1>13, <1>14 DEF Next

-----------------------------------------------------------------------------
(* The inductive invariant.  CopiesFollow alone is not inductive: that a   *)
(* message brings a page in step with its record depends on what the last  *)
(* message of each queue says, and that a record or the storage will       *)
(* follow depends on what is due.                                          *)
IInv ==
  /\ TypeOK
  /\ BackgroundInv
  /\ PagesStand
  /\ ScriptsAreTracked
  /\ PostedAgree
  /\ ArrivingAgree
  /\ PagesFollow

LEMMA InvInit == Init => IInv
<1> SUFFICES ASSUME Init PROVE IInv
  OBVIOUS
<1>1. TypeOK
  BY TypeInit
<1>2. /\ latest = stored /\ injected = stored /\ raced = {} /\ toSend = Nothing
      /\ toCommit = [i \in Ids |-> None] /\ toCommitPending = FALSE
      /\ tracked = [f \in Frames |-> {}] /\ page = [f \in Frames |-> NoPage]
      /\ outbox = [f \in Frames |-> << >>]
  BY DEF Init
<1>3. CommitDue /\ SendDue
  BY <1>2 DEF CommitDue, SendDue
<1>4. ToSendLatest
  BY <1>2, NothingIs DEF ToSendLatest
<1>5. StoredFollows
  BY <1>2, CellsOfOne DEF StoredFollows
<1>6. RecordsFollow /\ NewPagesAreCurrent
  BY <1>2 DEF RecordsFollow, NewPagesAreCurrent
<1>7. \A f \in Frames : ~page[f].live
  BY <1>2, NoPageIs
<1>8. PagesStand /\ ScriptsAreTracked /\ PostedAgree /\ PagesFollow
  BY <1>7 DEF PagesStand, ScriptsAreTracked, PostedAgree, PagesFollow, Runs
<1>9. ArrivingAgree
  BY <1>2 DEF ArrivingAgree
<1> QED
  BY <1>1, <1>3, <1>4, <1>5, <1>6, <1>8, <1>9 DEF IInv, BackgroundInv

LEMMA InvNext == IInv /\ [Next]_vars => IInv'
<1> SUFFICES ASSUME IInv, [Next]_vars PROVE IInv'
  OBVIOUS
<1>1. CASE Next
  <2>1. TypeOK' /\ BackgroundInv' /\ PagesStand' /\ ScriptsAreTracked'
    BY <1>1, TypeNext, BackgroundNext, StandNext, TrackedNext DEF IInv
  <2>2. PostedAgree' /\ ArrivingAgree' /\ PagesFollow'
    BY <1>1, PostedNext, ArrivingNext, PagesFollowNext DEF IInv
  <2> QED
    BY <2>1, <2>2 DEF IInv
<1>2. CASE UNCHANGED vars
  <2>1. UNCHANGED << background, page, frozen, outbox, inbox, raced >>
    BY <1>2 DEF vars
  <2>2. UNCHANGED << tracked, record, untracked >>
    BY <2>1 DEF background
  <2>3. TypeOK'
    BY <1>2, TypeNext DEF IInv
  <2>4. BackgroundInv'
    BY <2>1, BackgroundRests DEF IInv
  <2>5. PagesStand' /\ ScriptsAreTracked'
    BY <2>1, <2>2 DEF IInv, PagesStand, Standing, ScriptsAreTracked
  <2>6. PostedAgree' /\ ArrivingAgree' /\ PagesFollow'
    BY <2>1, <2>2 DEF IInv, PostedAgree, ArrivingAgree, PagesFollow, Runs, Arriving, Posted
  <2> QED
    BY <2>3, <2>4, <2>5, <2>6 DEF IInv
<1> QED
  BY <1>1, <1>2

(* However pages, timers and messages interleave, what BackgroundInv and  *)
(* the invariants of pages and queues say together holds in every state.   *)
THEOREM Invariant == Spec => []IInv
  BY InvInit, InvNext, PTL DEF Spec

(* However pages come and go, all copies of a value that met no race are   *)
(* the last one, or what will make them so is due or on its way.           *)
THEOREM AllCopiesFollow == Spec => []CopiesFollow
<1>1. IInv => CopiesFollow
  BY DEF IInv, BackgroundInv, CopiesFollow
<1> QED
  BY <1>1, Invariant, PTL

(* The scripts of a page are tracked, unless they lost the openers of all  *)
(* pages.                                                                  *)
THEOREM PagesAreTracked == Spec => []ScriptsAreTracked
<1>1. IInv => ScriptsAreTracked
  BY DEF IInv
<1> QED
  BY <1>1, Invariant, PTL
=============================================================================
