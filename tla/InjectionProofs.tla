-------------------------- MODULE InjectionProofs ---------------------------
(***************************************************************************)
(* Proofs about Preinject, for any pages, preparations and calls, and any  *)
(* number of acts; and then about ScriptRegistry, for any ids and tabs and *)
(* any numbers of restarts and failures: the type invariant, and that the  *)
(* cleanup at startup spares new scripts and the bridge ends up current.   *)
(***************************************************************************)
EXTENDS Preinject, ScriptRegistry, TLAPS

(* A preparation that has the code has a version of it. *)
Prepared(b) == /\ preps[b].page => preps[b].nonce
               /\ preps[b].state \in {"read", "bag"} => preps[b].code \in Versions

Cached(k) == cache[k] # None => /\ preps[cache[k]].kind = k
                                /\ preps[cache[k]].state \in {"asked", "read", "bag"}

(* No older code is in the cache. *)
Newer == /\ scr # None => scr >= told
         /\ \A k \in Kinds : cache[k] # None /\ preps[cache[k]].state = "bag"
                               => preps[cache[k]].code >= told

(* With injection switched off the cache is empty. *)
Off == ~applied => scr = None /\ \A k \in Kinds : cache[k] = None

(* The inductive invariant behind ChangesReachTheCache. *)
StoreInv == /\ acts \in 0 .. MaxActs /\ code \in 0 .. acts /\ told \in 0 .. code
            /\ raced \in BOOLEAN /\ applied \in BOOLEAN
            /\ scr \in Versions \cup {None}
            /\ preps \in [Preps -> PrepType]
            /\ cache \in [Kinds -> Preps \cup {None}]
            /\ \A b \in Preps : Prepared(b)
            /\ \A k \in Kinds : Cached(k)
            /\ Off
            /\ raced \/ Newer

(* A call in progress has its page and its preparation, and what it was told
   is what is known of its page. *)
Called(c) == /\ calls[c].state # "free" => calls[c].page \in Pages /\ calls[c].prep \in Preps
             /\ calls[c].state = "hinted" => calls[c].got = hints[calls[c].page]

Waited(p) == \A c \in waiters[p] : calls[c].state = "hint" /\ calls[c].page = p

(* The inductive invariant behind StrictPagesAreForced. *)
CallsInv == /\ calls \in [Calls -> CallType]
            /\ hints \in [Pages -> Csp]
            /\ waiters \in [Pages -> SUBSET Calls]
            /\ \A c \in Calls : Called(c)
            /\ \A p \in Pages : Waited(p)

(* A document that may ask has an attempt left. *)
Asks(p) == /\ pages[p].state = "loading" => pages[p].tries = 0
           /\ pages[p].state = "asking" /\ pages[p].call = None => pages[p].tries < Attempts

PagesInv == /\ skipped \in [Tabs -> {"no", "next", "phantom"}]
            /\ pages \in [Pages -> PageType]
            /\ \A p \in Pages : Asks(p)

IInv == StoreInv /\ CallsInv /\ PagesInv
-----------------------------------------------------------------------------
(* Preparations, the cache and the versions of the script *)

(* A hint changes nothing of a preparation but the realm it is for. *)
LEMMA HintedKeeps ==
  ASSUME NEW bag \in PrepType, NEW hint
  PROVE  /\ Hinted(bag, hint) \in PrepType
         /\ Hinted(bag, hint).state = bag.state
         /\ Hinted(bag, hint).kind = bag.kind
         /\ Hinted(bag, hint).code = bag.code
         /\ Hinted(bag, hint).page = bag.page
         /\ bag.nonce => Hinted(bag, hint).nonce
<1>1. CASE hint = "force"  BY <1>1 DEF Hinted, PrepType
<1>2. CASE hint = "nonce"  BY <1>2 DEF Hinted, PrepType
<1>3. CASE hint \notin {"force", "nonce"}  BY <1>3 DEF Hinted, PrepType
<1>4. QED  BY <1>1, <1>2, <1>3

LEMMA NewIsFree ==
  ASSUME Free # {}
  PROVE  New \in Preps /\ preps[New].state = "free"
BY DEF New, Free

(* The preparations are the same, but for the realm they are for. *)
Marks == /\ preps' \in [Preps -> PrepType]
         /\ \A b \in Preps : /\ preps'[b].state = preps[b].state
                             /\ preps'[b].kind = preps[b].kind
                             /\ preps'[b].code = preps[b].code
                             /\ preps'[b].page => preps'[b].nonce

LEMMA MarksKeep ==
  ASSUME StoreInv, Marks, UNCHANGED <<store, scr, cache>>, acts' \in acts .. MaxActs
  PROVE  StoreInv'
<1>1. \A b \in Preps : Prepared(b)'
  BY DEF StoreInv, Marks, Prepared
<1>2. \A k \in Kinds : Cached(k)'
  BY DEF StoreInv, Marks, Cached
<1>3. raced' \/ Newer'
  BY DEF StoreInv, Marks, Newer, store
<1>4. /\ acts' \in 0 .. MaxActs /\ code' \in 0 .. acts' /\ told' \in 0 .. code'
      /\ raced' \in BOOLEAN /\ applied' \in BOOLEAN
      /\ scr' \in Versions \cup {None}
      /\ cache' \in [Kinds -> Preps \cup {None}]
  BY PreinjectAssumption DEF StoreInv, store
<1>5. Off'
  BY DEF StoreInv, Off, store
<1>6. QED  BY <1>1, <1>2, <1>3, <1>4, <1>5 DEF StoreInv, Marks

LEMMA NothingMarked ==
  ASSUME StoreInv, UNCHANGED preps
  PROVE  Marks
BY DEF StoreInv, Marks, Prepared

LEMMA FreshType ==
  ASSUME NEW k \in Kinds, NEW force \in BOOLEAN, NEW nonce \in BOOLEAN
  PROVE  /\ Fresh(k, force, nonce) \in PrepType
         /\ Fresh(k, force, nonce).state = "asked"
         /\ Fresh(k, force, nonce).kind = k
         /\ ~Fresh(k, force, nonce).page
BY DEF Fresh, Blank, PrepType

(* A new preparation has no code yet, and only it enters the cache. *)
LEMMA PrepareKeeps ==
  ASSUME StoreInv, NEW k \in Kinds, NEW force \in BOOLEAN, NEW nonce \in BOOLEAN,
         applied, Prepare(k, force, nonce), UNCHANGED <<store, scr, acts>>
  PROVE  StoreInv'
<1> DEFINE n == New
           fresh == Fresh(k, force, nonce)
<1>1. n \in Preps /\ preps[n].state = "free"
  BY NewIsFree DEF Prepare
<1>2. preps' = [preps EXCEPT ![n] = fresh] /\ cache' = [cache EXCEPT ![k] = n]
  BY DEF Prepare
<1>3. fresh \in PrepType /\ fresh.state = "asked" /\ fresh.kind = k /\ ~fresh.page
  BY FreshType
<1> HIDE DEF n, fresh
<1>4. preps' \in [Preps -> PrepType] /\ cache' \in [Kinds -> Preps \cup {None}]
  BY <1>1, <1>2, <1>3 DEF StoreInv
<1>5. \A b \in Preps : Prepared(b)'
  BY <1>1, <1>2, <1>3 DEF StoreInv, Prepared
<1>6. \A j \in Kinds : cache[j] # n
  BY <1>1, PreinjectAssumption DEF StoreInv, Cached
<1>7. \A j \in Kinds : Cached(j)'
  BY <1>1, <1>2, <1>3, <1>6 DEF StoreInv, Cached
<1>8. raced' \/ Newer'
  BY <1>1, <1>2, <1>3, <1>6 DEF StoreInv, Newer, store
<1>9. Off'
  BY DEF Off, store
<1>10. QED  BY <1>4, <1>5, <1>7, <1>8, <1>9 DEF StoreInv, store

(* What is read is the present code, which is never older than what the
   watchers were told of. *)
LEMMA ReadKeeps ==
  ASSUME StoreInv, NEW b \in Preps, Read(b)
  PROVE  StoreInv'
<1> DEFINE r == [preps[b] EXCEPT !.state = "read", !.code = code]
<1>1. preps' = [preps EXCEPT ![b] = r] /\ UNCHANGED <<store, scr, cache, acts>>
  BY DEF Read
<1>2. preps[b] \in PrepType /\ code \in Versions /\ code >= told /\ preps[b].state = "asked"
  BY PreinjectAssumption DEF StoreInv, Read, Versions
<1>3. r \in PrepType
  BY <1>2 DEF PrepType
<1>4. r.state = "read" /\ r.code = code
  BY <1>2 DEF PrepType
<1>5. r.kind = preps[b].kind /\ r.page = preps[b].page /\ r.nonce = preps[b].nonce
  BY <1>2 DEF PrepType
<1> HIDE DEF r
<1>6. preps' \in [Preps -> PrepType]
  BY <1>1, <1>3 DEF StoreInv
<1>7. \A e \in Preps : Prepared(e)'
  BY <1>1, <1>2, <1>4, <1>5 DEF StoreInv, Prepared
<1>8. \A k \in Kinds : Cached(k)'
  BY <1>1, <1>4, <1>5 DEF StoreInv, Cached
<1>9. raced' \/ Newer'
  BY <1>1, <1>2, <1>4 DEF StoreInv, Newer, store
<1>10. Off'
  BY <1>1 DEF StoreInv, Off, store
<1>11. QED  BY <1>1, <1>6, <1>7, <1>8, <1>9, <1>10 DEF StoreInv, store

(* The memory of a preparation is reused only when it is in no cache. *)
LEMMA CollectKeeps ==
  ASSUME StoreInv, NEW b \in Preps, Collect(b)
  PROVE  StoreInv'
<1>1. preps' = [preps EXCEPT ![b] = Blank] /\ UNCHANGED <<store, scr, cache, acts>>
  BY DEF Collect
<1>2. Blank \in PrepType /\ Blank.state = "free" /\ ~Blank.page
  BY DEF Blank, PrepType, Kinds
<1>3. \A k \in Kinds : cache[k] # b
  BY DEF Collect, Lost
<1>4. preps' \in [Preps -> PrepType]
  BY <1>1, <1>2 DEF StoreInv
<1>5. \A e \in Preps : Prepared(e)'
  BY <1>1, <1>2 DEF StoreInv, Prepared
<1>6. \A k \in Kinds : Cached(k)'
  BY <1>1, <1>3 DEF StoreInv, Cached
<1>7. raced' \/ Newer'
  BY <1>1, <1>2, <1>3 DEF StoreInv, Newer, store
<1>8. Off'
  BY <1>1 DEF StoreInv, Off, store
<1>9. QED  BY <1>1, <1>4, <1>5, <1>6, <1>7, <1>8 DEF StoreInv, store

(* Unless a preparation without a prepared script brings older code, what a bag
   gets is no older than the last change that the watchers were told of. *)
LEMMA PrepareBagKeeps ==
  ASSUME StoreInv, NEW b \in Preps, PrepareBag(b)
  PROVE  StoreInv'
<1> DEFINE t == Taken(b)
           bag == [preps[b] EXCEPT !.state = "bag", !.code = t]
           off == [preps[b] EXCEPT !.state = "off"]
<1>1. preps[b] \in PrepType /\ preps[b].state = "read" /\ preps[b].code \in Versions
  BY DEF StoreInv, Prepared, PrepareBag
<1>2. t \in Versions /\ told \in Nat
  <2>1. Versions \subseteq Nat /\ told \in Nat
    BY PreinjectAssumption DEF StoreInv, Versions
  <2> QED  BY <1>1, <2>1 DEF StoreInv, Taken
<1>3. CASE applied
  <2>1. /\ preps' = [preps EXCEPT ![b] = bag]
        /\ scr' = t
        /\ cache' = [cache EXCEPT ![preps[b].kind] = b]
        /\ raced' = (raced \/ (scr = None /\ preps[b].code < told))
        /\ UNCHANGED <<code, told, applied, acts>>
    BY <1>3 DEF PrepareBag
  <2>2. bag \in PrepType
    BY <1>1, <1>2 DEF PrepType
  <2>3. bag.state = "bag" /\ bag.code = t
    BY <1>1 DEF PrepType
  <2>4. bag.kind = preps[b].kind /\ bag.page = preps[b].page /\ bag.nonce = preps[b].nonce
    BY <1>1 DEF PrepType
  <2>5. preps[b].kind \in Kinds
    BY <1>1 DEF PrepType
  <2>12. raced' \in BOOLEAN
    BY <2>1
  <2>13. raced' \/ (Newer /\ t >= told)
    <3> SUFFICES ASSUME ~raced'  PROVE Newer /\ t >= told
      OBVIOUS
    <3>1. ~raced /\ ~(scr = None /\ preps[b].code < told)
      BY <2>1
    <3>2. Newer
      BY <3>1 DEF StoreInv
    <3>3. CASE scr # None
      BY <3>2, <3>3 DEF Newer, Taken
    <3>4. CASE scr = None
      <4>1. preps[b].code \in Nat /\ ~(preps[b].code < told)
        BY <1>1, <3>1, <3>4, PreinjectAssumption DEF Versions
      <4>2. t = preps[b].code
        BY <3>4 DEF Taken
      <4> QED  BY <1>2, <3>2, <4>1, <4>2
    <3> QED  BY <3>2, <3>3, <3>4
  <2> HIDE DEF bag, t
  <2>6. preps' \in [Preps -> PrepType] /\ cache' \in [Kinds -> Preps \cup {None}]
    BY <2>1, <2>2 DEF StoreInv
  <2>7. \A e \in Preps : Prepared(e)'
    BY <1>2, <2>1, <2>3, <2>4 DEF StoreInv, Prepared
  <2>8. \A k \in Kinds : Cached(k)'
    BY <2>1, <2>3, <2>4, <2>5 DEF StoreInv, Cached
  <2>9. raced' \/ Newer'
    BY <1>2, <2>1, <2>3, <2>5, <2>13 DEF StoreInv, Newer
  <2>10. Off'
    BY <1>3, <2>1 DEF Off
  <2>11. QED  BY <1>2, <2>1, <2>6, <2>7, <2>8, <2>9, <2>10, <2>12 DEF StoreInv
<1>4. CASE ~applied
  <2>1. preps' = [preps EXCEPT ![b] = off] /\ UNCHANGED <<store, scr, cache, acts>>
    BY <1>4 DEF PrepareBag, store
  <2>2. off \in PrepType
    BY <1>1 DEF PrepType
  <2>3. off.state = "off" /\ off.page = preps[b].page /\ off.nonce = preps[b].nonce
    BY <1>1 DEF PrepType
  <2>4. \A k \in Kinds : cache[k] # b
    BY <1>4, PreinjectAssumption DEF StoreInv, Off
  <2> HIDE DEF off
  <2>5. preps' \in [Preps -> PrepType]
    BY <2>1, <2>2 DEF StoreInv
  <2>6. \A e \in Preps : Prepared(e)'
    BY <2>1, <2>3 DEF StoreInv, Prepared
  <2>7. \A k \in Kinds : Cached(k)'
    BY <2>1, <2>4 DEF StoreInv, Cached
  <2>8. raced' \/ Newer'
    BY <2>1, <2>3, <2>4 DEF StoreInv, Newer, store
  <2>9. Off'
    BY <2>1 DEF StoreInv, Off, store
  <2>10. QED  BY <2>1, <2>5, <2>6, <2>7, <2>8, <2>9 DEF StoreInv, store
<1>5. QED  BY <1>3, <1>4

(* Destroying the cache leaves nothing in it. *)
LEMMA DestroyKeeps ==
  ASSUME StoreInv, NEW version \in Versions, Destroy, UNCHANGED preps,
         told' = version, code' = code, version <= code, applied' \in BOOLEAN,
         acts' \in acts .. MaxActs
  PROVE  StoreInv'
<1>1. cache' = [k \in Kinds |-> None] /\ scr' = None /\ raced' = FALSE
  BY DEF Destroy
<1>2. \A b \in Preps : Prepared(b)'
  BY DEF StoreInv, Prepared
<1>3. \A k \in Kinds : Cached(k)'
  BY <1>1 DEF Cached
<1>4. Off'
  BY <1>1 DEF Off
<1>5. raced' \in BOOLEAN
  BY <1>1
<1>6. raced' \/ Newer'
  BY <1>1 DEF Newer
<1>7. /\ acts' \in 0 .. MaxActs /\ code' \in 0 .. acts' /\ told' \in 0 .. code'
      /\ scr' \in Versions \cup {None}
      /\ cache' \in [Kinds -> Preps \cup {None}]
  BY <1>1, PreinjectAssumption DEF StoreInv, Versions
<1>8. QED  BY <1>2, <1>3, <1>4, <1>5, <1>6, <1>7 DEF StoreInv

LEMMA EditScriptKeeps ==
  ASSUME StoreInv, EditScript
  PROVE  StoreInv'
<1>1. /\ code' = code + 1 /\ acts' = acts + 1 /\ acts < MaxActs
      /\ UNCHANGED <<told, raced, applied, scr, cache, preps>>
  BY DEF EditScript, Act
<1>2. acts' \in 0 .. MaxActs /\ code' \in 0 .. acts' /\ told' \in 0 .. code'
  BY <1>1, PreinjectAssumption DEF StoreInv
<1>3. /\ \A b \in Preps : Prepared(b)'
      /\ \A k \in Kinds : Cached(k)'
  BY <1>1 DEF StoreInv, Prepared, Cached
<1>4. Off' /\ (raced' \/ Newer')
  BY <1>1 DEF StoreInv, Off, Newer
<1>5. QED  BY <1>1, <1>2, <1>3, <1>4 DEF StoreInv

LEMMA ScriptChangedKeeps ==
  ASSUME StoreInv, ScriptChanged
  PROVE  StoreInv'
<1>1. told' = code /\ Destroy /\ UNCHANGED <<code, applied, preps, acts>>
  BY DEF ScriptChanged
<1>2. code \in Versions /\ code <= code /\ applied' \in BOOLEAN /\ acts' \in acts .. MaxActs
  BY <1>1, PreinjectAssumption DEF StoreInv, Versions
<1>3. QED  BY <1>1, <1>2, DestroyKeeps

LEMMA ToggleKeeps ==
  ASSUME StoreInv, Toggle
  PROVE  StoreInv'
<1>1. applied' = ~applied /\ UNCHANGED <<code, told, preps>> /\ acts' \in acts .. MaxActs
  BY PreinjectAssumption DEF StoreInv, Toggle, Act
<1>2. applied' \in BOOLEAN
  BY <1>1
<1>3. CASE applied
  <2>1. told \in Versions /\ told <= code
    BY PreinjectAssumption DEF StoreInv, Versions
  <2>2. QED  BY <1>1, <1>2, <1>3, <2>1, DestroyKeeps DEF Toggle
<1>4. CASE ~applied
  <2>1. UNCHANGED <<cache, scr, raced>> /\ applied'
    BY <1>1, <1>4 DEF Toggle
  <2>2. /\ \A b \in Preps : Prepared(b)'
        /\ \A k \in Kinds : Cached(k)'
    BY <1>1, <2>1 DEF StoreInv, Prepared, Cached
  <2>3. Off' /\ (raced' \/ Newer')
    BY <1>1, <2>1 DEF StoreInv, Off, Newer
  <2>4. acts' \in 0 .. MaxActs /\ code' \in 0 .. acts' /\ told' \in 0 .. code'
    BY <1>1, PreinjectAssumption DEF StoreInv
  <2>5. QED  BY <1>1, <1>2, <2>1, <2>2, <2>3, <2>4 DEF StoreInv
<1>5. QED  BY <1>3, <1>4

LEMMA ExpireKeeps ==
  ASSUME StoreInv, Expire
  PROVE  StoreInv'
<1>1. UNCHANGED <<store, preps>> /\ acts' \in acts .. MaxActs
  BY PreinjectAssumption DEF StoreInv, Expire, Act
<1>2. /\ scr' \in {scr, None}
      /\ cache' \in [Kinds -> Preps \cup {None}]
      /\ \A k \in Kinds : cache'[k] \in {cache[k], None}
  BY DEF StoreInv, Expire
<1>3. /\ \A b \in Preps : Prepared(b)'
      /\ \A k \in Kinds : Cached(k)'
  BY <1>1, <1>2 DEF StoreInv, Prepared, Cached
<1>4. Off' /\ (raced' \/ Newer')
  BY <1>1, <1>2 DEF StoreInv, Off, Newer, store
<1>5. acts' \in 0 .. MaxActs /\ code' \in 0 .. acts' /\ told' \in 0 .. code'
  BY <1>1, PreinjectAssumption DEF StoreInv, store
<1>6. QED  BY <1>1, <1>2, <1>3, <1>4, <1>5 DEF StoreInv, store

-----------------------------------------------------------------------------
(* Calls and the hints they wait for *)

LEMMA NoneIsOther ==
  /\ None \notin Pages /\ None \notin Preps /\ None \notin Calls /\ None \notin Nat
  /\ None \notin {"force", "nonce", "skip", "off", "page", "content"}
BY PreinjectAssumption

LEMMA CallsSame ==
  ASSUME CallsInv, UNCHANGED <<calls, hints, waiters>>
  PROVE  CallsInv'
BY DEF CallsInv, Called, Waited

LEMMA NoneHinted ==
  ASSUME Quiet, NEW c \in Calls
  PROVE  calls[c].state # "hinted"
BY DEF Quiet, Resumable

(* The calls that wait for a page learn what is known of it from now on, and
   no other call has yet to go on with what was known before. *)
LEMMA PublishKeeps ==
  ASSUME CallsInv, Quiet, NEW p \in Pages, NEW hint \in Csp, Publish(p, hint)
  PROVE  CallsInv'
<1> DEFINE learnt(c) == [calls[c] EXCEPT !.state = "hinted", !.got = hint]
<1>1. /\ hints' = [hints EXCEPT ![p] = hint]
      /\ waiters' = [waiters EXCEPT ![p] = {}]
      /\ calls' = [c \in Calls |-> IF c \in waiters[p] THEN learnt(c) ELSE calls[c]]
  BY DEF Publish
<1>2. ASSUME NEW c \in Calls
      PROVE  /\ learnt(c) \in CallType
             /\ learnt(c).state = "hinted" /\ learnt(c).got = hint
             /\ learnt(c).page = calls[c].page /\ learnt(c).prep = calls[c].prep
  <2>1. calls[c] \in CallType
    BY DEF CallsInv
  <2>2. learnt(c) \in CallType
    BY <2>1 DEF CallType
  <2>3. learnt(c).state = "hinted" /\ learnt(c).got = hint
    BY <2>1 DEF CallType
  <2>4. learnt(c).page = calls[c].page /\ learnt(c).prep = calls[c].prep
    BY <2>1 DEF CallType
  <2>5. QED  BY <2>2, <2>3, <2>4
<1> HIDE DEF learnt
<1>3. /\ calls' \in [Calls -> CallType]
      /\ hints' \in [Pages -> Csp]
      /\ waiters' \in [Pages -> SUBSET Calls]
  BY <1>1, <1>2 DEF CallsInv
<1>4. ASSUME NEW c \in Calls
      PROVE  Called(c)'
  <2>1. CASE c \in waiters[p]
    <3>1. calls[c].state = "hint" /\ calls[c].page = p
      BY <2>1 DEF CallsInv, Waited
    <3>2. calls'[c] = learnt(c)
      BY <1>1, <2>1
    <3>3. calls[c].prep \in Preps /\ hints'[p] = hint
      BY <1>1, <3>1 DEF CallsInv, Called
    <3>4. QED  BY <1>2, <3>1, <3>2, <3>3 DEF Called
  <2>2. CASE c \notin waiters[p]
    <3>1. calls'[c] = calls[c] /\ calls[c].state # "hinted"
      BY <1>1, <2>2, NoneHinted
    <3>2. QED  BY <3>1 DEF CallsInv, Called
  <2>3. QED  BY <2>1, <2>2
<1>5. ASSUME NEW q \in Pages
      PROVE  Waited(q)'
  <2>1. CASE q = p
    BY <1>1, <2>1 DEF CallsInv, Waited
  <2>2. CASE q # p
    <3>1. waiters'[q] = waiters[q]
      BY <1>1, <2>2 DEF CallsInv
    <3>2. ASSUME NEW c \in waiters[q]
          PROVE  calls'[c] = calls[c]
      BY <1>1, <2>2 DEF CallsInv, Waited
    <3>3. QED  BY <3>1, <3>2 DEF CallsInv, Waited
  <2>3. QED  BY <2>1, <2>2
<1>6. QED  BY <1>3, <1>4, <1>5 DEF CallsInv

LEMMA HintTimeoutKeeps ==
  ASSUME CallsInv, NEW c \in Calls, HintTimeout(c)
  PROVE  CallsInv'
<1> DEFINE p == calls[c].page
           r == [calls[c] EXCEPT !.state = "hinted", !.got = hints[p]]
<1>1. /\ waiters' = [waiters EXCEPT ![p] = waiters[p] \ {c}]
      /\ calls' = [calls EXCEPT ![c] = r]
      /\ UNCHANGED hints /\ calls[c].state = "hint" /\ Quiet
  BY DEF HintTimeout
<1>2. calls[c] \in CallType /\ p \in Pages /\ calls[c].prep \in Preps /\ hints[p] \in Csp
  BY <1>1 DEF CallsInv, Called
<1>3. r \in CallType
  BY <1>2 DEF CallType
<1>4. r.state = "hinted" /\ r.got = hints[p]
  BY <1>2 DEF CallType
<1>5. r.page = p /\ r.prep = calls[c].prep
  BY <1>2 DEF CallType
<1> HIDE DEF r
<1>6. \A d \in Calls : Called(d)'
  BY <1>1, <1>2, <1>4, <1>5 DEF CallsInv, Called
<1>7. \A q \in Pages : Waited(q)'
  BY <1>1, <1>2 DEF CallsInv, Waited
<1>8. QED  BY <1>1, <1>3, <1>6, <1>7 DEF CallsInv

(* A call that ends was not among the waiters any more. *)
LEMMA EndKeepsCalls ==
  ASSUME CallsInv, NEW c \in Calls, calls[c].state # "hint",
         calls' = [calls EXCEPT ![c] = NoCall], UNCHANGED <<hints, waiters>>
  PROVE  CallsInv'
<1>1. NoCall \in CallType /\ NoCall.state = "free"
  BY DEF NoCall, CallType, Csp
<1>2. \A d \in Calls : Called(d)'
  BY <1>1 DEF CallsInv, Called
<1>3. \A q \in Pages : Waited(q)'
  BY DEF CallsInv, Waited
<1>4. QED  BY <1>1, <1>2, <1>3 DEF CallsInv

LEMMA AwaitingType ==
  ASSUME NEW what \in {"bag", "hint"}, NEW p \in Pages, NEW b \in Preps
  PROVE  /\ Awaiting(what, p, b) \in CallType
         /\ Awaiting(what, p, b).state = what
         /\ Awaiting(what, p, b).page = p
         /\ Awaiting(what, p, b).prep = b
BY DEF Awaiting, CallType, Csp

(* A call begins to wait for a bag. *)
LEMMA AskKeepsCalls ==
  ASSUME CallsInv, NEW c \in Calls, calls[c].state = "free", NEW p \in Pages, NEW b \in Preps,
         calls' = [calls EXCEPT ![c] = Awaiting("bag", p, b)], UNCHANGED <<hints, waiters>>
  PROVE  CallsInv'
<1> DEFINE r == Awaiting("bag", p, b)
<1>1. r \in CallType /\ r.state = "bag" /\ r.page = p /\ r.prep = b
  BY AwaitingType
<1>2. calls' = [calls EXCEPT ![c] = r]
  OBVIOUS
<1> HIDE DEF r
<1>3. \A d \in Calls : Called(d)'
  BY <1>1, <1>2 DEF CallsInv, Called
<1>4. \A q \in Pages : Waited(q)'
  BY <1>2 DEF CallsInv, Waited
<1>5. QED  BY <1>1, <1>2, <1>3, <1>4 DEF CallsInv

(* A call with a bag begins to wait for a hint. *)
LEMMA WaitKeepsCalls ==
  ASSUME CallsInv, NEW c \in Calls, calls[c].state = "bag", NEW p \in Pages, NEW b \in Preps,
         waiters' = [waiters EXCEPT ![p] = waiters[p] \cup {c}],
         calls' = [calls EXCEPT ![c] = Awaiting("hint", p, b)], UNCHANGED hints
  PROVE  CallsInv'
<1> DEFINE r == Awaiting("hint", p, b)
<1>1. r \in CallType /\ r.state = "hint" /\ r.page = p /\ r.prep = b
  BY AwaitingType
<1>2. calls' = [calls EXCEPT ![c] = r]
  OBVIOUS
<1> HIDE DEF r
<1>3. \A d \in Calls : Called(d)'
  BY <1>1, <1>2 DEF CallsInv, Called
<1>4. \A q \in Pages : Waited(q)'
  BY <1>1, <1>2 DEF CallsInv, Waited
<1>5. QED  BY <1>1, <1>2, <1>3, <1>4 DEF CallsInv

LEMMA TabRemovedKeepsCalls ==
  ASSUME CallsInv, NEW t \in Tabs, OnTabRemoved(t)
  PROVE  CallsInv'
<1>1. Quiet /\ UNCHANGED calls
  BY DEF OnTabRemoved
<1>2. CASE applied
  <2>1. /\ hints' = [p \in Pages |-> IF p[1] = t THEN None ELSE hints[p]]
        /\ waiters' = [p \in Pages |-> IF p[1] = t THEN {} ELSE waiters[p]]
    BY <1>2 DEF OnTabRemoved
  <2>2. /\ hints' \in [Pages -> Csp]
        /\ waiters' \in [Pages -> SUBSET Calls]
    BY <2>1 DEF CallsInv, Csp
  <2>3. \A c \in Calls : Called(c)'
    BY <1>1, NoneHinted DEF CallsInv, Called
  <2>4. \A p \in Pages : Waited(p)'
    BY <1>1, <2>1 DEF CallsInv, Waited
  <2>5. QED  BY <1>1, <2>2, <2>3, <2>4 DEF CallsInv
<1>3. CASE ~applied
  BY <1>1, <1>3, CallsSame DEF OnTabRemoved
<1>4. QED  BY <1>2, <1>3

-----------------------------------------------------------------------------
(* Documents *)

(* One document changes into r, which has an attempt left if it may ask. *)
LEMMA PageKeeps ==
  ASSUME PagesInv, NEW p \in Pages, NEW r \in PageType, pages' = [pages EXCEPT ![p] = r],
         r.state = "loading" => r.tries = 0,
         r.state = "asking" /\ r.call = None => r.tries < Attempts,
         skipped' \in [Tabs -> {"no", "next", "phantom"}]
  PROVE  PagesInv'
<1>1. \A q \in Pages : Asks(q)'
  BY DEF PagesInv, Asks
<1>2. QED  BY <1>1 DEF PagesInv

LEMMA PagesSame ==
  ASSUME PagesInv, UNCHANGED <<pages, skipped>>
  PROVE  PagesInv'
BY DEF PagesInv, Asks

LEMMA DoneType ==
  ASSUME PagesInv, NEW p \in Pages, NEW got \in {None, "skip", "off", "page", "content"}
  PROVE  /\ Done(p, got) \in PageType
         /\ Done(p, got).state = "done"
         /\ Done(p, got).got = got
<1>1. pages[p] \in PageType
  BY DEF PagesInv
<1>2. Done(p, got) \in PageType
  <2>1. 0 \in 0 .. Attempts
    BY DEF Attempts
  <2>2. QED  BY <1>1, <2>1 DEF Done, PageType
<1>3. Done(p, got).state = "done"
  BY <1>1 DEF Done, PageType
<1>4. Done(p, got).got = got
  BY <1>1 DEF Done, PageType
<1>5. QED  BY <1>2, <1>3, <1>4

(* A document whose call came to nothing may ask again. *)
Again(p) == [pages[p] EXCEPT !.call = None]

LEMMA AgainType ==
  ASSUME PagesInv, NEW p \in Pages, pages[p].state = "asking"
  PROVE  /\ Again(p) \in PageType
         /\ Again(p).state = "asking"
         /\ Again(p).tries = pages[p].tries
<1>1. pages[p] \in PageType
  BY DEF PagesInv
<1>2. Again(p) \in PageType
  BY <1>1 DEF Again, PageType
<1>3. Again(p).state = "asking"
  BY <1>1 DEF Again, PageType
<1>4. Again(p).tries = pages[p].tries
  BY <1>1 DEF Again, PageType
<1>5. QED  BY <1>2, <1>3, <1>4

(* What a call answers: scripts for a realm, or an error. *)
Answers == {"page", "content", "error"}

LEMMA EndKeepsPages ==
  ASSUME PagesInv, NEW c \in Calls, NEW p \in Pages, NEW got \in Answers,
         End(c, p, got), UNCHANGED skipped
  PROVE  PagesInv'
<1>1. CASE ~(pages[p].state = "asking" /\ pages[p].call = c)
  BY <1>1, PagesSame DEF End
<1>2. CASE pages[p].state = "asking" /\ pages[p].call = c
  <2>1. CASE got # "error"
    <3>1. pages' = [pages EXCEPT ![p] = Done(p, got)]
      BY <1>2, <2>1 DEF End
    <3>2. Done(p, got) \in PageType /\ Done(p, got).state = "done"
      BY <2>1, DoneType DEF Answers
    <3>3. QED  BY <3>1, <3>2, PageKeeps DEF PagesInv
  <2>2. CASE got = "error" /\ pages[p].tries < Attempts
    <3>1. pages' = [pages EXCEPT ![p] = Again(p)]
      BY <1>2, <2>2 DEF End, Again
    <3>2. Again(p) \in PageType /\ Again(p).state = "asking" /\ Again(p).tries < Attempts
      BY <1>2, <2>2, AgainType
    <3>3. QED  BY <3>1, <3>2, PageKeeps DEF PagesInv
  <2>3. CASE got = "error" /\ ~(pages[p].tries < Attempts)
    <3>1. pages' = [pages EXCEPT ![p] = Done(p, "off")]
      BY <1>2, <2>3 DEF End
    <3>2. Done(p, "off") \in PageType /\ Done(p, "off").state = "done"
      BY DoneType
    <3>3. QED  BY <3>1, <3>2, PageKeeps DEF PagesInv
  <2>4. QED  BY <2>1, <2>2, <2>3
<1>3. QED  BY <1>1, <1>2

LEMMA AnswerTimeoutKeeps ==
  ASSUME PagesInv, NEW p \in Pages, AnswerTimeout(p)
  PROVE  PagesInv'
<1>1. pages[p].state = "asking" /\ UNCHANGED skipped
  BY DEF AnswerTimeout
<1>2. CASE pages[p].tries < Attempts
  <2>1. pages' = [pages EXCEPT ![p] = Again(p)]
    BY <1>2 DEF AnswerTimeout, Again
  <2>2. Again(p) \in PageType /\ Again(p).state = "asking" /\ Again(p).tries < Attempts
    BY <1>1, <1>2, AgainType
  <2>3. QED  BY <1>1, <2>1, <2>2, PageKeeps DEF PagesInv
<1>3. CASE ~(pages[p].tries < Attempts)
  <2>1. pages' = [pages EXCEPT ![p] = Done(p, "off")]
    BY <1>3 DEF AnswerTimeout
  <2>2. Done(p, "off") \in PageType /\ Done(p, "off").state = "done"
    BY DoneType
  <2>3. QED  BY <1>1, <2>1, <2>2, PageKeeps DEF PagesInv
<1>4. QED  BY <1>2, <1>3

(* Documents that are closed, gone or just loaded ask nothing yet. *)
LEMMA DocumentType ==
  ASSUME NEW csp \in Csp
  PROVE  /\ Closed \in PageType /\ Closed.state = "closed"
         /\ Document(csp) \in PageType /\ Document(csp).state = "loading"
         /\ Document(csp).tries = 0
<1>1. Closed \in PageType
  BY DEF Closed, PageType, Csp, Attempts
<1>2. Closed.state = "closed" /\ Closed.tries = 0
  BY DEF Closed
<1>3. Document(csp) \in PageType
  BY <1>1 DEF Document, PageType
<1>4. Document(csp).state = "loading"
  BY <1>1 DEF Document, PageType
<1>5. Document(csp).tries = 0
  BY <1>1, <1>2 DEF Document, PageType
<1>6. QED  BY <1>1, <1>2, <1>3, <1>4, <1>5

LEMMA GoneType ==
  [Closed EXCEPT !.state = "gone"] \in PageType /\ [Closed EXCEPT !.state = "gone"].state = "gone"
BY DEF Closed, PageType, Csp, Attempts

LEMMA LeaveKeeps ==
  ASSUME PagesInv, NEW t
  PROVE  /\ Leave(t) \in [Pages -> PageType]
         /\ \A q \in Pages : Leave(t)[q] = Closed \/ Leave(t)[q] = pages[q]
<1>1. Closed \in PageType
  BY DEF Closed, PageType, Csp, Attempts
<1>2. QED  BY <1>1 DEF Leave, PagesInv

LEMMA LoadKeeps ==
  ASSUME PagesInv, NEW p \in Pages, NEW csp \in Csp, Load(p, csp)
  PROVE  PagesInv'
<1> DEFINE before == IF p[2] = "top" THEN Leave(p[1]) ELSE pages
           d == Document(csp)
<1>1. pages' = [before EXCEPT ![p] = d] /\ UNCHANGED skipped
  BY DEF Load
<1>2. d \in PageType /\ d.state = "loading" /\ d.tries = 0 /\ Closed.state = "closed"
  BY DocumentType
<1>3. /\ before \in [Pages -> PageType]
      /\ \A q \in Pages : before[q] = Closed \/ before[q] = pages[q]
  BY LeaveKeeps DEF PagesInv
<1> HIDE DEF before, d
<1>4. \A q \in Pages : Asks(q)'
  BY <1>1, <1>2, <1>3 DEF PagesInv, Asks
<1>5. QED  BY <1>1, <1>2, <1>3, <1>4 DEF PagesInv

LEMMA ReloadAndSkipKeeps ==
  ASSUME PagesInv, NEW t \in Tabs, NEW csp \in Csp, ReloadAndSkip(t, csp)
  PROVE  PagesInv'
<1> DEFINE d == Document(csp)
           before == Leave(t)
           top == <<t, "top">>
<1>1. pages' = [before EXCEPT ![top] = d]
  BY DEF ReloadAndSkip
<1>2. skipped' \in [Tabs -> {"no", "next", "phantom"}]
  BY DEF ReloadAndSkip, PagesInv
<1>3. d \in PageType /\ d.state = "loading" /\ d.tries = 0 /\ Closed.state = "closed"
  BY DocumentType
<1>4. /\ before \in [Pages -> PageType]
      /\ \A q \in Pages : before[q] = Closed \/ before[q] = pages[q]
  BY LeaveKeeps
<1> HIDE DEF before, d, top
<1>5. /\ pages' \in [Pages -> PageType]
      /\ \A q \in Pages : pages'[q] = d \/ pages'[q] = Closed \/ pages'[q] = pages[q]
  BY <1>1, <1>3, <1>4
<1>6. \A q \in Pages : Asks(q)'
  BY <1>3, <1>5 DEF PagesInv, Asks
<1>7. QED  BY <1>2, <1>5, <1>6 DEF PagesInv

LEMMA TabRemovedKeepsPages ==
  ASSUME PagesInv, NEW t \in Tabs, OnTabRemoved(t)
  PROVE  PagesInv'
<1> DEFINE gone == [Closed EXCEPT !.state = "gone"]
<1>1. pages' = [q \in Pages |-> IF q[1] = t THEN gone ELSE pages[q]]
  BY DEF OnTabRemoved
<1>2. skipped' \in [Tabs -> {"no", "next", "phantom"}]
  BY DEF OnTabRemoved, PagesInv
<1>3. gone \in PageType /\ gone.state = "gone"
  BY GoneType
<1> HIDE DEF gone
<1>4. pages' \in [Pages -> PageType]
  BY <1>1, <1>3 DEF PagesInv
<1>5. \A q \in Pages : Asks(q)'
  BY <1>1, <1>3 DEF PagesInv, Asks
<1>6. QED  BY <1>2, <1>4, <1>5 DEF PagesInv

-----------------------------------------------------------------------------
(* The parts of GetInjected *)

LEMMA RealmIs ==
  ASSUME NEW bag
  PROVE  /\ Realm(bag) \in Answers
         /\ Realm(bag) = "page" => bag.nonce
BY DEF Realm, Answers

(* What a preparation is when a call has been served with it. *)
Served(bag) == [bag EXCEPT !.page = Realm(bag) = "page"]

LEMMA ServedType ==
  ASSUME NEW bag \in PrepType
  PROVE  /\ Served(bag) \in PrepType
         /\ Served(bag).state = bag.state
         /\ Served(bag).kind = bag.kind
         /\ Served(bag).code = bag.code
         /\ Served(bag).page => Served(bag).nonce
<1>1. Served(bag) \in PrepType
  <2>1. (Realm(bag) = "page") \in BOOLEAN
    OBVIOUS
  <2>2. QED  BY <2>1 DEF Served, PrepType
<1>2. Served(bag).state = bag.state
  BY DEF Served, PrepType
<1>3. Served(bag).kind = bag.kind
  BY DEF Served, PrepType
<1>4. Served(bag).code = bag.code
  BY DEF Served, PrepType
<1>5. Served(bag).page = (Realm(bag) = "page")
  BY DEF Served, PrepType
<1>6. Served(bag).nonce = bag.nonce
  BY DEF Served, PrepType
<1>7. QED  BY <1>1, <1>2, <1>3, <1>4, <1>5, <1>6, RealmIs

(* One preparation changes, but for the realm it is for it stays the same. *)
LEMMA MarkOne ==
  ASSUME StoreInv, NEW b \in Preps, NEW r \in PrepType, preps' = [preps EXCEPT ![b] = r],
         r.state = preps[b].state, r.kind = preps[b].kind, r.code = preps[b].code,
         r.page => r.nonce
  PROVE  Marks
BY DEF StoreInv, Prepared, Marks

LEMMA ServeMarks ==
  ASSUME StoreInv, NEW c \in Calls, NEW p \in Pages, NEW b \in Preps, NEW hint \in Csp,
         Serve(c, p, b, hint)
  PROVE  Marks
<1> DEFINE bag == Hinted(preps[b], hint)
           r == Served(bag)
<1>1. preps[b] \in PrepType
  BY DEF StoreInv
<1>2. /\ bag \in PrepType /\ bag.state = preps[b].state
      /\ bag.kind = preps[b].kind /\ bag.code = preps[b].code
  BY <1>1, HintedKeeps
<1>3. preps' = [preps EXCEPT ![b] = r]
  BY DEF Serve, Served
<1> HIDE DEF bag
<1>4. /\ r \in PrepType /\ r.state = bag.state /\ r.kind = bag.kind /\ r.code = bag.code
      /\ r.page => r.nonce
  BY <1>2, ServedType
<1> HIDE DEF r
<1>5. QED  BY <1>2, <1>3, <1>4, MarkOne

LEMMA HintMarks ==
  ASSUME StoreInv, NEW b \in Preps, NEW hint, preps' = [preps EXCEPT ![b] = Hinted(preps[b], hint)]
  PROVE  Marks
<1> DEFINE r == Hinted(preps[b], hint)
<1>1. preps[b] \in PrepType /\ (preps[b].page => preps[b].nonce)
  BY DEF StoreInv, Prepared
<1>2. /\ r \in PrepType /\ r.state = preps[b].state /\ r.kind = preps[b].kind
      /\ r.code = preps[b].code /\ r.page = preps[b].page /\ (preps[b].nonce => r.nonce)
  BY <1>1, HintedKeeps
<1>3. preps' = [preps EXCEPT ![b] = r]
  OBVIOUS
<1> HIDE DEF r
<1>4. QED  BY <1>1, <1>2, <1>3, MarkOne

(* A document known to be strict gets no scripts for the page realm. *)
Strict(p) == pages[p].state = "asking" /\ pages'[p].state = "done" /\ hints'[p] = "force"
               => pages'[p].got # "page"

LEMMA EndIsStrict ==
  ASSUME PagesInv, NEW c \in Calls, NEW p \in Pages, NEW got \in Answers, End(c, p, got),
         got = "page" => hints'[p] # "force"
  PROVE  \A q \in Pages : Strict(q)
<1>1. \A q \in Pages \ {p} : pages'[q] = pages[q]
  BY DEF End, PagesInv
<1>2. ASSUME pages[p].state = "asking", pages'[p].state = "done", hints'[p] = "force"
      PROVE  pages'[p].got # "page"
  <2>1. got # "page"
    BY <1>2
  <2>2. CASE pages'[p] = Done(p, got) /\ got # "error"
    <3>1. Done(p, got).got = got
      BY <2>2, DoneType DEF Answers
    <3>2. QED  BY <2>1, <2>2, <3>1
  <2>3. CASE pages'[p] = Done(p, "off")
    <3>1. Done(p, "off").got = "off"
      BY DoneType
    <3>2. QED  BY <2>3, <3>1
  <2>4. pages' # pages
    BY <1>2
  <2>5. pages[p].state = "asking" /\ pages[p].call = c
    BY <2>4 DEF End
  <2>6. pages' = [pages EXCEPT ![p] = IF got # "error" THEN Done(p, got)
                                      ELSE IF pages[p].tries < Attempts
                                           THEN Again(p)
                                           ELSE Done(p, "off")]
    BY <2>5 DEF End, Again
  <2>7. Again(p).state = "asking"
    BY <2>5, AgainType
  <2>8. pages'[p] # Again(p)
    BY <1>2, <2>7
  <2>9. QED  BY <2>2, <2>3, <2>6, <2>8 DEF PagesInv
<1>3. QED  BY <1>1, <1>2 DEF Strict

LEMMA ServeIsStrict ==
  ASSUME StoreInv, PagesInv, NEW c \in Calls, NEW p \in Pages, NEW b \in Preps,
         Serve(c, p, b, hints[p]), UNCHANGED hints
  PROVE  \A q \in Pages : Strict(q)
<1> DEFINE bag == Hinted(preps[b], hints[p])
<1>1. End(c, p, Realm(bag)) /\ Realm(bag) \in Answers
  BY RealmIs DEF Serve
<1>2. preps[b] \in PrepType
  BY DEF StoreInv
<1>3. ASSUME hints[p] = "force"
      PROVE  Realm(bag) # "page"
  <2>1. bag = [preps[b] EXCEPT !.force = TRUE]
    BY <1>3 DEF Hinted
  <2>2. bag.force
    BY <1>2, <2>1 DEF PrepType
  <2>3. QED  BY <2>2 DEF Realm
<1> HIDE DEF bag
<1>4. QED  BY <1>1, <1>3, EndIsStrict

-----------------------------------------------------------------------------
(* The actions *)

AllStrict == \A q \in Pages : Strict(q)

LEMMA SamePagesAreStrict ==
  ASSUME UNCHANGED pages
  PROVE  AllStrict
BY DEF AllStrict, Strict

LEMMA KindOfPage ==
  ASSUME NEW p \in Pages
  PROVE  p[1] \in Tabs /\ p[2] \in Kinds
BY PreinjectAssumption

LEMMA SameStore ==
  ASSUME StoreInv, UNCHANGED <<store, scr, cache, preps>>, acts' \in acts .. MaxActs
  PROVE  StoreInv'
BY NothingMarked, MarksKeep

LEMMA ActCounts ==
  ASSUME StoreInv, Act
  PROVE  acts' \in acts .. MaxActs
BY PreinjectAssumption DEF StoreInv, Act

LEMMA SameActs ==
  ASSUME StoreInv, UNCHANGED acts
  PROVE  acts' \in acts .. MaxActs
BY PreinjectAssumption DEF StoreInv

LEMMA ChangesStep ==
  ASSUME IInv, Changes
  PROVE  IInv' /\ AllStrict
<1>1. StoreInv'
  BY EditScriptKeeps, ScriptChangedKeeps, ToggleKeeps, ExpireKeeps DEF IInv, Changes
<1>2. UNCHANGED <<calls, hints, waiters, pages, skipped>>
  BY DEF Changes, EditScript, ScriptChanged, Toggle, Expire
<1>3. CallsInv'
  BY <1>2, CallsSame DEF IInv
<1>4. PagesInv'
  BY <1>2, PagesSame DEF IInv
<1>5. QED  BY <1>1, <1>2, <1>3, <1>4, SamePagesAreStrict DEF IInv

LEMMA PreparingStep ==
  ASSUME IInv, Preparing
  PROVE  IInv' /\ AllStrict
<1>1. PICK b \in Preps : Read(b) \/ PrepareBag(b) \/ Collect(b)
  BY DEF Preparing
<1>2. StoreInv'
  BY <1>1, ReadKeeps, PrepareBagKeeps, CollectKeeps DEF IInv
<1>3. UNCHANGED <<calls, hints, waiters, pages, skipped>>
  BY <1>1 DEF Read, PrepareBag, Collect
<1>4. CallsInv'
  BY <1>3, CallsSame DEF IInv
<1>5. PagesInv'
  BY <1>3, PagesSame DEF IInv
<1>6. QED  BY <1>2, <1>3, <1>4, <1>5, SamePagesAreStrict DEF IInv

(* Serving a call, whether at once or after it waited. *)
LEMMA ServeStep ==
  ASSUME IInv, NEW c \in Calls, NEW p \in Pages, NEW b \in Preps,
         calls[c].state # "hint", Serve(c, p, b, hints[p]),
         UNCHANGED <<store, scr, cache, hints, waiters, skipped, acts>>
  PROVE  IInv' /\ AllStrict
<1>1. hints[p] \in Csp
  BY DEF IInv, CallsInv
<1>2. Marks
  BY <1>1, ServeMarks DEF IInv
<1>3. StoreInv'
  BY <1>2, MarksKeep, SameActs DEF IInv
<1>4. PICK got \in Answers : End(c, p, got)
  BY RealmIs DEF Serve
<1>5. CallsInv'
  BY <1>4, EndKeepsCalls DEF IInv, End
<1>6. PagesInv'
  BY <1>4, EndKeepsPages DEF IInv
<1>7. AllStrict
  BY ServeIsStrict DEF IInv, AllStrict
<1>8. QED  BY <1>3, <1>5, <1>6, <1>7 DEF IInv

LEMMA BagArrivesStep ==
  ASSUME IInv, NEW c \in Calls, BagArrives(c)
  PROVE  IInv' /\ AllStrict
<1> DEFINE b == calls[c].prep
           p == calls[c].page
<1>1. calls[c].state = "bag" /\ p \in Pages /\ b \in Preps
  BY DEF IInv, CallsInv, Called, BagArrives
<1>2. UNCHANGED <<store, scr, cache, hints, skipped, acts>>
  BY DEF BagArrives
<1>3. \/ WithBag(c, p, b)
      \/ End(c, p, "error") /\ UNCHANGED <<preps, waiters>>
  BY DEF BagArrives
<1> HIDE DEF b, p
<1>4. CASE End(c, p, "error") /\ UNCHANGED <<preps, waiters>>
  <2>1. "error" \in Answers
    BY DEF Answers
  <2>2. StoreInv'
    BY <1>2, <1>4, SameStore, SameActs DEF IInv
  <2>3. CallsInv'
    BY <1>1, <1>2, <1>4, EndKeepsCalls DEF IInv, End
  <2>4. PagesInv'
    BY <1>1, <1>2, <1>4, <2>1, EndKeepsPages DEF IInv
  <2>5. AllStrict
    BY <1>1, <1>4, <2>1, EndIsStrict DEF IInv, AllStrict
  <2>6. QED  BY <2>2, <2>3, <2>4, <2>5 DEF IInv
<1>5. CASE WithBag(c, p, b)
  <2>1. CASE hints[p] = None /\ preps[b].page /\ ~preps[b].force
    <3>1. /\ waiters' = [waiters EXCEPT ![p] = waiters[p] \cup {c}]
          /\ calls' = [calls EXCEPT ![c] = Awaiting("hint", p, b)]
          /\ UNCHANGED <<preps, pages>>
      BY <1>5, <2>1 DEF WithBag
    <3>2. StoreInv'
      BY <1>2, <3>1, SameStore, SameActs DEF IInv
    <3>3. CallsInv'
      BY <1>1, <1>2, <3>1, WaitKeepsCalls DEF IInv
    <3>4. PagesInv'
      BY <1>2, <3>1, PagesSame DEF IInv
    <3>5. QED  BY <3>1, <3>2, <3>3, <3>4, SamePagesAreStrict DEF IInv
  <2>2. CASE ~(hints[p] = None /\ preps[b].page /\ ~preps[b].force)
    <3>1. Serve(c, p, b, hints[p]) /\ UNCHANGED waiters
      BY <1>5, <2>2 DEF WithBag
    <3>2. QED  BY <1>1, <1>2, <3>1, ServeStep
  <2>3. QED  BY <2>1, <2>2
<1>6. QED  BY <1>3, <1>4, <1>5

LEMMA HintArrivesStep ==
  ASSUME IInv, NEW c \in Calls, HintArrives(c)
  PROVE  IInv' /\ AllStrict
<1> DEFINE b == calls[c].prep
           p == calls[c].page
<1>1. calls[c].state = "hinted" /\ p \in Pages /\ b \in Preps /\ calls[c].got = hints[p]
  BY DEF IInv, CallsInv, Called, HintArrives
<1>2. Serve(c, p, b, hints[p]) /\ UNCHANGED <<store, scr, cache, hints, waiters, skipped, acts>>
  BY <1>1 DEF HintArrives
<1> HIDE DEF b, p
<1>3. QED  BY <1>1, <1>2, ServeStep

LEMMA HintTimeoutStep ==
  ASSUME IInv, NEW c \in Calls, HintTimeout(c)
  PROVE  IInv' /\ AllStrict
<1>1. UNCHANGED <<store, scr, cache, preps, hints, skipped, pages, acts>>
  BY DEF HintTimeout
<1>2. StoreInv'
  BY <1>1, SameStore, SameActs DEF IInv
<1>3. PagesInv'
  BY <1>1, PagesSame DEF IInv
<1>4. QED  BY <1>1, <1>2, <1>3, HintTimeoutKeeps, SamePagesAreStrict DEF IInv

LEMMA IdleIsFree ==
  ASSUME NEW c \in IdleCall
  PROVE  c \in Calls /\ calls[c].state = "free"
BY DEF IdleCall

(* The document is answered at once. *)
LEMMA ReturnStep ==
  ASSUME IInv, NEW p \in Pages, NEW got \in {"skip", "off"},
         pages' = [pages EXCEPT ![p] = Done(p, got)],
         skipped' \in [Tabs -> {"no", "next", "phantom"}],
         UNCHANGED <<store, scr, cache, preps, calls, hints, waiters, acts>>
  PROVE  IInv' /\ AllStrict
<1>1. StoreInv'
  BY SameStore, SameActs DEF IInv
<1>2. CallsInv'
  BY CallsSame DEF IInv
<1>3. Done(p, got) \in PageType /\ Done(p, got).state = "done" /\ Done(p, got).got = got
  BY DoneType DEF IInv
<1>4. PagesInv'
  BY <1>3, PageKeeps DEF IInv
<1>5. AllStrict
  BY <1>3 DEF IInv, PagesInv, AllStrict, Strict
<1>6. QED  BY <1>1, <1>2, <1>4, <1>5 DEF IInv

(* The document asks and a call begins, with a preparation in the cache or a
   new one. *)
LEMMA CallStep ==
  ASSUME IInv, NEW c \in Calls, NEW p \in Pages, NEW b \in Preps, calls[c].state = "free",
         pages[p].state = "loading" \/ (pages[p].state = "asking" /\ pages[p].call = None),
         pages' = [pages EXCEPT ![p] = [pages[p] EXCEPT !.state = "asking", !.call = c,
                                                        !.tries = pages[p].tries + 1]],
         calls' = [calls EXCEPT ![c] = Awaiting("bag", p, b)],
         skipped' \in [Tabs -> {"no", "next", "phantom"}],
         UNCHANGED <<hints, waiters>>
  PROVE  CallsInv' /\ PagesInv' /\ AllStrict
<1> DEFINE n == pages[p].tries + 1
           r == [pages[p] EXCEPT !.state = "asking", !.call = c, !.tries = n]
<1>1. CallsInv'
  BY AskKeepsCalls DEF IInv
<1>2. pages[p] \in PageType
  BY DEF IInv, PagesInv
<1>3. n \in 0 .. Attempts
  <2>1. pages[p].tries \in 0 .. Attempts
    BY <1>2 DEF PageType
  <2>2. pages[p].tries < Attempts
    BY DEF IInv, PagesInv, Asks, Attempts
  <2>3. QED  BY <2>1, <2>2 DEF Attempts
<1>4. pages' = [pages EXCEPT ![p] = r]
  OBVIOUS
<1> HIDE DEF n
<1>5. r \in PageType
  BY <1>2, <1>3 DEF PageType
<1>6. r.state = "asking"
  BY <1>2 DEF PageType
<1>7. r.call = c
  BY <1>2 DEF PageType
<1> HIDE DEF r
<1>8. c # None
  BY NoneIsOther
<1>9. PagesInv'
  BY <1>4, <1>5, <1>6, <1>7, <1>8, PageKeeps DEF IInv
<1>10. AllStrict
  BY <1>4, <1>6 DEF IInv, PagesInv, AllStrict, Strict
<1>11. QED  BY <1>1, <1>9, <1>10

LEMMA GetInjectedStep ==
  ASSUME IInv, NEW c, NEW p \in Pages, GetInjected(c, p)
  PROVE  IInv' /\ AllStrict
<1> DEFINE t == p[1]
           k == p[2]
           called(b) == /\ pages' = [pages EXCEPT ![p] = [pages[p] EXCEPT !.state = "asking",
                                             !.call = c, !.tries = pages[p].tries + 1]]
                        /\ calls' = [calls EXCEPT ![c] = Awaiting("bag", p, b)]
           returned(got) == /\ pages' = [pages EXCEPT ![p] = Done(p, got)]
                            /\ UNCHANGED <<cache, preps, calls>>
<1>1. /\ UNCHANGED <<store, scr, hints, waiters, acts>>
      /\ c \in IdleCall
      /\ pages[p].state = "loading" \/ (pages[p].state = "asking" /\ pages[p].call = None)
  BY DEF GetInjected
<1>2. t \in Tabs /\ k \in Kinds
  BY KindOfPage
<1>3. c \in Calls /\ calls[c].state = "free"
  BY <1>1, IdleIsFree
<1>4. skipped' \in [Tabs -> {"no", "next", "phantom"}]
  <2>1. \/ skipped' = [skipped EXCEPT ![t] = IF k = "top" THEN "phantom" ELSE skipped[t]]
        \/ skipped' = [skipped EXCEPT ![t] = "no"]
    BY DEF GetInjected
  <2>2. QED  BY <1>2, <2>1 DEF IInv, PagesInv
<1>5. \/ returned("skip")
      \/ returned("off")
      \/ cache[k] = None /\ applied /\ Prepare(k, FALSE, FALSE) /\ called(New)
      \/ cache[k] # None /\ called(cache[k]) /\ UNCHANGED <<cache, preps>>
  BY DEF GetInjected
<1>6. CASE returned("skip")
  BY <1>1, <1>4, <1>6, ReturnStep
<1>7. CASE returned("off")
  BY <1>1, <1>4, <1>7, ReturnStep
<1>8. CASE cache[k] = None /\ applied /\ Prepare(k, FALSE, FALSE) /\ called(New)
  <2>1. New \in Preps
    BY <1>8, NewIsFree DEF Prepare
  <2>2. CallsInv' /\ PagesInv' /\ AllStrict
    BY <1>1, <1>3, <1>4, <1>8, <2>1, CallStep
  <2>3. StoreInv'
    BY <1>1, <1>2, <1>8, PrepareKeeps DEF IInv
  <2>4. QED  BY <2>2, <2>3 DEF IInv
<1>9. CASE cache[k] # None /\ called(cache[k]) /\ UNCHANGED <<cache, preps>>
  <2>1. cache[k] \in Preps
    BY <1>2, <1>9 DEF IInv, StoreInv
  <2>2. CallsInv' /\ PagesInv' /\ AllStrict
    BY <1>1, <1>3, <1>4, <1>9, <2>1, CallStep
  <2>3. StoreInv'
    BY <1>1, <1>9, SameStore, SameActs DEF IInv
  <2>4. QED  BY <2>2, <2>3 DEF IInv
<1> HIDE DEF called, returned
<1>10. QED  BY <1>5, <1>6, <1>7, <1>8, <1>9

LEMMA AnsweringStep ==
  ASSUME IInv, Answering
  PROVE  IInv' /\ AllStrict
<1>1. CASE \E c \in Calls : \E p \in Pages : GetInjected(c, p)
  BY <1>1, GetInjectedStep
<1>2. CASE \E c \in Calls : BagArrives(c)
  BY <1>2, BagArrivesStep
<1>3. CASE \E c \in Calls : HintArrives(c)
  BY <1>3, HintArrivesStep
<1>4. CASE \E c \in Calls : HintTimeout(c)
  BY <1>4, HintTimeoutStep
<1>5. QED  BY <1>1, <1>2, <1>3, <1>4 DEF Answering

(* The headers of a document are heard: the hint goes to the preparation in
   the cache, or a new one, and to the calls that wait. *)
LEMMA OnHeadersReceivedStep ==
  ASSUME IInv, NEW p \in Pages, OnHeadersReceived(p)
  PROVE  IInv' /\ AllStrict
<1> DEFINE k == p[2]
           csp == pages[p].headers
           r == [pages[p] EXCEPT !.headers = "heard"]
<1>1. /\ Quiet /\ csp # "heard" /\ UNCHANGED <<store, scr, skipped, acts>>
      /\ pages' = [pages EXCEPT ![p] = r]
  BY DEF OnHeadersReceived
<1>2. pages[p] \in PageType /\ k \in Kinds
  BY KindOfPage DEF IInv, PagesInv
<1>3. csp \in Csp
  BY <1>1, <1>2 DEF PageType
<1>4. r \in PageType
  BY <1>2 DEF PageType
<1>5. r.state = pages[p].state
  BY <1>2 DEF PageType
<1>6. r.tries = pages[p].tries /\ r.call = pages[p].call
  BY <1>2 DEF PageType
<1>7. \/ UNCHANGED <<cache, preps, hints, waiters, calls>>
      \/ /\ applied
         /\ \/ Prepare(k, csp = "force", csp = "nonce")
            \/ /\ cache[k] # None
               /\ preps' = [preps EXCEPT ![cache[k]] = Hinted(preps[cache[k]], csp)]
               /\ cache' = cache
         /\ UNCHANGED <<hints, waiters, calls>> \/ Publish(p, csp)
  BY DEF OnHeadersReceived
<1> HIDE DEF csp, r
<1>8. PagesInv'
  BY <1>1, <1>4, <1>5, <1>6, PageKeeps DEF IInv, PagesInv, Asks
<1>9. AllStrict
  BY <1>1, <1>5 DEF IInv, PagesInv, AllStrict, Strict
<1>10. CallsInv'
  BY <1>1, <1>3, <1>7, CallsSame, PublishKeeps DEF IInv
<1>11. StoreInv'
  <2>1. CASE UNCHANGED <<cache, preps>>
    BY <1>1, <2>1, SameStore, SameActs DEF IInv
  <2>2. CASE applied /\ Prepare(k, csp = "force", csp = "nonce")
    <3>1. (csp = "force") \in BOOLEAN /\ (csp = "nonce") \in BOOLEAN
      OBVIOUS
    <3>2. QED  BY <1>1, <1>2, <2>2, <3>1, PrepareKeeps DEF IInv
  <2>3. CASE /\ cache[k] # None
             /\ preps' = [preps EXCEPT ![cache[k]] = Hinted(preps[cache[k]], csp)]
             /\ cache' = cache
    <3>1. cache[k] \in Preps
      BY <1>2, <2>3 DEF IInv, StoreInv
    <3>2. Marks
      BY <2>3, <3>1, HintMarks DEF IInv
    <3>3. QED  BY <1>1, <2>3, <3>2, MarksKeep, SameActs DEF IInv
  <2>4. QED  BY <1>7, <2>1, <2>2, <2>3
<1>12. QED  BY <1>8, <1>9, <1>10, <1>11 DEF IInv

LEMMA InjectionFeedbackStep ==
  ASSUME IInv, NEW p \in Pages, InjectionFeedback(p)
  PROVE  IInv' /\ AllStrict
<1> DEFINE r == [pages[p] EXCEPT !.got = "content"]
           b == cache["top"]
<1>1. /\ Quiet /\ Publish(p, "force") /\ UNCHANGED <<store, scr, cache, skipped, acts>>
      /\ pages' = [pages EXCEPT ![p] = r]
      /\ \/ UNCHANGED preps
         \/ b # None /\ preps' = [preps EXCEPT ![b] = Hinted(preps[b], "force")]
  BY DEF InjectionFeedback
<1>2. pages[p] \in PageType
  BY DEF IInv, PagesInv
<1>3. r \in PageType
  BY <1>2 DEF PageType
<1>4. r.state = pages[p].state
  BY <1>2 DEF PageType
<1>5. r.tries = pages[p].tries /\ r.call = pages[p].call
  BY <1>2 DEF PageType
<1>6. r.got = "content"
  BY <1>2 DEF PageType
<1> HIDE DEF r
<1>7. PagesInv'
  BY <1>1, <1>3, <1>4, <1>5, PageKeeps DEF IInv, PagesInv, Asks
<1>8. AllStrict
  BY <1>1, <1>4 DEF IInv, PagesInv, AllStrict, Strict
<1>9. CallsInv'
  BY <1>1, PublishKeeps DEF IInv, Csp
<1>10. Marks
  <2>1. CASE UNCHANGED preps
    BY <2>1, NothingMarked DEF IInv
  <2>2. CASE b # None /\ preps' = [preps EXCEPT ![b] = Hinted(preps[b], "force")]
    <3>1. b \in Preps
      BY <2>2 DEF IInv, StoreInv, Kinds
    <3>2. QED  BY <2>2, <3>1, HintMarks DEF IInv
  <2>3. QED  BY <1>1, <2>1, <2>2
<1>11. StoreInv'
  BY <1>1, <1>10, MarksKeep, SameActs DEF IInv
<1>12. QED  BY <1>7, <1>8, <1>9, <1>11 DEF IInv

LEMMA AnswerTimeoutStep ==
  ASSUME IInv, NEW p \in Pages, AnswerTimeout(p)
  PROVE  IInv' /\ AllStrict
<1>1. UNCHANGED <<store, scr, cache, preps, hints, waiters, skipped, calls, acts>>
  BY DEF AnswerTimeout
<1>2. StoreInv' /\ CallsInv' /\ PagesInv'
  BY <1>1, SameStore, SameActs, CallsSame, AnswerTimeoutKeeps DEF IInv
<1>3. pages[p].state = "asking"
  BY DEF AnswerTimeout
<1>4. pages' = [pages EXCEPT ![p] = Again(p)] \/ pages' = [pages EXCEPT ![p] = Done(p, "off")]
  BY DEF AnswerTimeout, Again
<1>5. Again(p).state = "asking" /\ Done(p, "off").got = "off"
  BY <1>3, AgainType, DoneType DEF IInv
<1>6. AllStrict
  BY <1>4, <1>5 DEF IInv, PagesInv, AllStrict, Strict
<1>7. QED  BY <1>2, <1>6 DEF IInv

(* Documents come and go, and no call is answered. *)
LEMMA LoadStep ==
  ASSUME IInv, NEW p \in Pages, NEW csp \in Csp, Load(p, csp)
  PROVE  IInv' /\ AllStrict
<1>1. UNCHANGED <<store, scr, cache, preps, hints, waiters, skipped, calls>> /\ Act
  BY DEF Load
<1>2. StoreInv' /\ CallsInv' /\ PagesInv'
  BY <1>1, SameStore, ActCounts, CallsSame, LoadKeeps DEF IInv
<1> DEFINE before == IF p[2] = "top" THEN Leave(p[1]) ELSE pages
           d == Document(csp)
<1>3. pages' = [before EXCEPT ![p] = d]
  BY DEF Load
<1>4. d.state = "loading" /\ Closed.state = "closed"
  BY DocumentType
<1>5. \A q \in Pages : before[q] = Closed \/ before[q] = pages[q]
  BY LeaveKeeps DEF IInv, PagesInv
<1>6. before \in [Pages -> PageType]
  BY LeaveKeeps DEF IInv, PagesInv
<1> HIDE DEF before, d
<1>7. AllStrict
  BY <1>3, <1>4, <1>5, <1>6 DEF AllStrict, Strict
<1>8. QED  BY <1>2, <1>7 DEF IInv

LEMMA ReloadAndSkipStep ==
  ASSUME IInv, NEW t \in Tabs, NEW csp \in Csp, ReloadAndSkip(t, csp)
  PROVE  IInv' /\ AllStrict
<1>1. UNCHANGED <<store, scr, cache, preps, hints, waiters, calls>> /\ Act
  BY DEF ReloadAndSkip
<1>2. StoreInv' /\ CallsInv' /\ PagesInv'
  BY <1>1, SameStore, ActCounts, CallsSame, ReloadAndSkipKeeps DEF IInv
<1> DEFINE before == Leave(t)
           d == Document(csp)
           top == <<t, "top">>
<1>3. pages' = [before EXCEPT ![top] = d]
  BY DEF ReloadAndSkip
<1>4. d.state = "loading" /\ Closed.state = "closed"
  BY DocumentType
<1>5. /\ before \in [Pages -> PageType]
      /\ \A q \in Pages : before[q] = Closed \/ before[q] = pages[q]
  BY LeaveKeeps DEF IInv
<1> HIDE DEF before, d, top
<1>6. AllStrict
  BY <1>3, <1>4, <1>5 DEF AllStrict, Strict
<1>7. QED  BY <1>2, <1>6 DEF IInv

LEMMA OnTabUpdatedStep ==
  ASSUME IInv, NEW t \in Tabs, OnTabUpdated(t)
  PROVE  IInv' /\ AllStrict
<1>1. /\ UNCHANGED <<store, scr, hints, waiters, skipped, calls, pages, acts>>
      /\ applied /\ Prepare("top", FALSE, FALSE)
  BY DEF OnTabUpdated
<1>2. StoreInv'
  BY <1>1, PrepareKeeps DEF IInv, Kinds
<1>3. QED  BY <1>1, <1>2, CallsSame, PagesSame, SamePagesAreStrict DEF IInv

LEMMA OnTabRemovedStep ==
  ASSUME IInv, NEW t \in Tabs, OnTabRemoved(t)
  PROVE  IInv' /\ AllStrict
<1>1. UNCHANGED <<store, scr, cache, preps, calls>> /\ Act
  BY DEF OnTabRemoved
<1>2. StoreInv' /\ CallsInv' /\ PagesInv'
  BY <1>1, SameStore, ActCounts, TabRemovedKeepsCalls, TabRemovedKeepsPages DEF IInv
<1> DEFINE gone == [Closed EXCEPT !.state = "gone"]
<1>3. pages' = [q \in Pages |-> IF q[1] = t THEN gone ELSE pages[q]]
  BY DEF OnTabRemoved
<1>4. gone.state = "gone"
  BY GoneType
<1> HIDE DEF gone
<1>5. AllStrict
  BY <1>3, <1>4 DEF AllStrict, Strict
<1>6. QED  BY <1>2, <1>5 DEF IInv

LEMMA BrowsingStep ==
  ASSUME IInv, Browsing
  PROVE  IInv' /\ AllStrict
<1>1. CASE \E p \in Pages : OnHeadersReceived(p)
  BY <1>1, OnHeadersReceivedStep
<1>2. CASE \E p \in Pages : InjectionFeedback(p)
  BY <1>2, InjectionFeedbackStep
<1>3. CASE \E p \in Pages : AnswerTimeout(p)
  BY <1>3, AnswerTimeoutStep
<1>4. CASE \E p \in Pages, csp \in Csp : Load(p, csp)
  BY <1>4, LoadStep
<1>5. CASE \E t \in Tabs : OnTabUpdated(t)
  BY <1>5, OnTabUpdatedStep
<1>6. CASE \E t \in Tabs : OnTabRemoved(t)
  BY <1>6, OnTabRemovedStep
<1>7. CASE \E t \in Tabs, csp \in Csp : ReloadAndSkip(t, csp)
  BY <1>7, ReloadAndSkipStep
<1>8. QED  BY <1>1, <1>2, <1>3, <1>4, <1>5, <1>6, <1>7 DEF Browsing

-----------------------------------------------------------------------------
(* The theorems *)

LEMMA InitHolds ==
  ASSUME Init
  PROVE  IInv
<1>1. /\ code = 0 /\ told = 0 /\ acts = 0 /\ raced = FALSE /\ applied = TRUE /\ scr = None
      /\ cache = [k \in Kinds |-> None]
      /\ preps = [b \in Preps |-> Blank]
      /\ calls = [c \in Calls |-> NoCall]
      /\ hints = [p \in Pages |-> None]
      /\ waiters = [p \in Pages |-> {}]
      /\ skipped = [t \in Tabs |-> "no"]
      /\ pages = [p \in Pages |-> Closed]
  BY DEF Init
<1>2. Blank \in PrepType /\ Blank.state = "free" /\ ~Blank.page
  BY DEF Blank, PrepType, Kinds
<1>3. NoCall \in CallType /\ NoCall.state = "free"
  BY DEF NoCall, CallType, Csp
<1>4. Closed \in PageType /\ Closed.state = "closed"
  BY DEF Closed, PageType, Csp, Attempts
<1>5. StoreInv
  <2>1. acts \in 0 .. MaxActs /\ code \in 0 .. acts /\ told \in 0 .. code
    BY <1>1, PreinjectAssumption
  <2>2. \A b \in Preps : Prepared(b)
    BY <1>1, <1>2 DEF Prepared
  <2>3. \A k \in Kinds : Cached(k)
    BY <1>1 DEF Cached
  <2>4. Off /\ Newer
    BY <1>1, <1>2 DEF Off, Newer
  <2>5. QED  BY <1>1, <1>2, <2>1, <2>2, <2>3, <2>4 DEF StoreInv
<1>6. CallsInv
  BY <1>1, <1>3 DEF CallsInv, Called, Waited, Csp
<1>7. PagesInv
  BY <1>1, <1>4 DEF PagesInv, Asks
<1>8. QED  BY <1>5, <1>6, <1>7 DEF IInv

LEMMA StepHolds ==
  ASSUME IInv, [Next]_vars
  PROVE  IInv' /\ AllStrict
<1>1. CASE Next
  BY <1>1, ChangesStep, PreparingStep, AnsweringStep, BrowsingStep DEF Next
<1>2. CASE UNCHANGED vars
  <2>1. UNCHANGED <<store, scr, cache, preps, hints, waiters, skipped, calls, pages, acts>>
    BY <1>2 DEF vars, store
  <2>2. QED  BY <2>1, SameStore, SameActs, CallsSame, PagesSame, SamePagesAreStrict DEF IInv
<1>3. QED  BY <1>1, <1>2

(* The three invariants together hold in every reachable state. *)
THEOREM Invariant == Spec => []IInv
<1>1. Init => IInv
  BY InitHolds
<1>2. IInv /\ [Next]_vars => IInv'
  BY StepHolds
<1>3. QED  BY <1>1, <1>2, PTL DEF Spec

(* Every variable of the preparations has its type, for any pages, calls and
   preparations; the cache holds only preparations of its kind that are under
   way or done. *)
THEOREM TypeCorrect == Spec => []TypeOK
<1>1. IInv => TypeOK
  BY DEF IInv, StoreInv, CallsInv, PagesInv, Prepared, Cached, Waited, TypeOK
<1>2. QED  BY <1>1, Invariant, PTL

(* Once the watchers were told of new code (onStorageChanged), neither a bag in
   the cache nor the prepared script is older, until a preparation that had read
   older code before finds no prepared script when it ends (prepareBag). *)
THEOREM ChangesReach == Spec => []ChangesReachTheCache
<1>1. IInv => ChangesReachTheCache
  BY DEF IInv, StoreInv, Newer, ChangesReachTheCache
<1>2. QED  BY <1>1, Invariant, PTL

(* A document whose strict policy is known when GetInjected answers it gets no
   scripts for the page realm: what a call was told of its page stays what is
   known of it until the call ends. *)
THEOREM StrictForced == Spec => StrictPagesAreForced
<1>1. IInv /\ [Next]_vars
        => [\A p \in Pages : /\ pages[p].state = "asking"
                             /\ pages'[p].state = "done"
                             /\ hints'[p] = "force"
                             => pages'[p].got # "page"]_vars
  BY StepHolds DEF AllStrict, Strict
<1>2. QED  BY <1>1, Invariant, PTL DEF Spec, StrictPagesAreForced

-----------------------------------------------------------------------------
(* What has no step keeps its type. *)
LEMMA OneShotsRest == OneShotsTyped /\ UNCHANGED oneShots => OneShotsTyped'
  BY DEF OneShotsTyped, oneShots

LEMMA BridgeRests == BridgeTyped /\ UNCHANGED bridgeVars => BridgeTyped'
<1> SUFFICES ASSUME BridgeTyped, UNCHANGED bridgeVars PROVE BridgeTyped'
  OBVIOUS
<1>1. bridge' = bridge /\ ensuring' = ensuring /\ bridgeFailed' = bridgeFailed
  BY DEF bridgeVars
<1> QED
  BY <1>1 DEF BridgeTyped

(* A call that goes on keeps the type of what is known of it. *)
LEMMA StepType ==
  ASSUME job \in [Ids -> Registration], NEW i \in Ids,
         NEW state \in {"new", "cleaning", "asking", "registering", "registered", "ended"},
         Step(i, state)
  PROVE  /\ job' \in [Ids -> Registration]
         /\ job'[i].state = state
         /\ job'[i].kind = job[i].kind
         /\ \A j \in Ids \ {i} : job'[j] = job[j]
  BY DEF Step, Registration

(* Every variable has its type from the start. *)
LEMMA RegistryTypeInit == RegistryInit => RegistryTypeOK
<1> SUFFICES ASSUME RegistryInit PROVE RegistryTypeOK
  OBVIOUS
<1> USE ScriptRegistryAssumption
<1>1. NewOneShot \in Registration
  BY DEF NewOneShot, Registration
<1>2. OneShotsTyped
  BY <1>1 DEF RegistryInit, OneShotsTyped
<1>3. BridgeTyped
  BY DEF RegistryInit, BridgeTyped
<1> QED
  BY <1>2, <1>3 DEF RegistryInit, RegistryTypeOK

(* The steps of one-shot scripts keep their types. *)
LEMMA OneShotsNext ==
  ASSUME OneShotsTyped, RegistryNext
  PROVE  OneShotsTyped'
<1>0. job \in [Ids -> Registration]
  BY DEF OneShotsTyped
<1>1. CASE StaleListed
  BY <1>1 DEF OneShotsTyped, StaleListed
<1>2. CASE StaleRemoved
  BY <1>2 DEF OneShotsTyped, StaleRemoved
<1>3. CASE StaleFails
  BY <1>3 DEF OneShotsTyped, StaleFails
<1>4. ASSUME NEW i \in Ids, NEW kind \in {"user", "content"}, NEW t \in TabIds,
             Register(i, kind, t)
      PROVE  OneShotsTyped'
  <2>1. job' \in [Ids -> Registration] /\ \A j \in Ids \ {i} : job'[j] = job[j]
    BY <1>0, <1>4 DEF Register, Registration
  <2> QED
    BY <1>4, <2>1 DEF OneShotsTyped, Register
<1>5. ASSUME NEW i \in Ids, OneShotAnswers(i) PROVE OneShotsTyped'
  <2>1. CASE Cleaned(i)
    <3>1. /\ job' \in [Ids -> Registration]
          /\ \A j \in Ids \ {i} : job'[j] = job[j]
      BY <2>1, <1>0, StepType DEF Cleaned
    <3> QED
      BY <2>1, <3>1 DEF OneShotsTyped, Cleaned
  <2>2. CASE TabKnown(i)
    <3>1. /\ job' \in [Ids -> Registration]
          /\ \A j \in Ids \ {i} : job'[j] = job[j]
      BY <2>2, <1>0, StepType DEF TabKnown
    <3> QED
      BY <2>2, <3>1 DEF OneShotsTyped, TabKnown
  <2>3. CASE Registered(i)
    <3>1. /\ job' \in [Ids -> Registration]
          /\ job'[i].state = "registered"
          /\ \A j \in Ids \ {i} : job'[j] = job[j]
      BY <2>3, <1>0, StepType DEF Registered
    <3> QED
      BY <2>3, <3>1 DEF OneShotsTyped, Registered
  <2> QED
    BY <1>5, <2>1, <2>2, <2>3 DEF OneShotAnswers
<1>6. ASSUME NEW i \in Ids, RegisterFails(i) PROVE OneShotsTyped'
  <2>1. /\ job' \in [Ids -> Registration]
        /\ \A j \in Ids \ {i} : job'[j] = job[j]
    BY <1>6, <1>0, StepType DEF RegisterFails
  <2> QED
    BY <1>6, <2>1 DEF OneShotsTyped, RegisterFails
<1>7. ASSUME NEW i \in Ids, TimerFires(i) PROVE OneShotsTyped'
  BY <1>7 DEF OneShotsTyped, TimerFires, CleanUp
<1>8. ASSUME NEW t \in TabIds, TabDone(t) PROVE OneShotsTyped'
  BY <1>8 DEF OneShotsTyped, TabDone, CleanUp
<1>9. ASSUME NEW ids \in removing, Unregistered(ids) PROVE OneShotsTyped'
  BY <1>9 DEF OneShotsTyped, Unregistered
<1>10. ASSUME NEW ids \in removing, UnregisterFails(ids) PROVE OneShotsTyped'
  BY <1>10 DEF OneShotsTyped, UnregisterFails
<1>11. ASSUME NEW c \in Causes,
              BridgeAnswers(c) \/ BridgeEvent(c) \/ BridgeListingFails(c) \/ BridgeFails(c)
       PROVE  OneShotsTyped'
  <2>1. UNCHANGED oneShots
    BY <1>11 DEF BridgeAnswers, BridgeListed, BridgeUnregistered, BridgeRegistered, BridgeEvent,
                 BridgeListingFails, BridgeFails, BridgeVarsOnly
  <2> QED
    BY <2>1, OneShotsRest
<1>12. CASE Restart
  <2>1. job' \in [Ids -> Registration]
    BY <1>12, <1>0 DEF Restart, StartsAnew, Registration
  <2>2. userScripts' \subseteq Ids /\ contentScripts' \subseteq Ids
    BY <1>12 DEF OneShotsTyped, Restart, StartsAnew
  <2>3. startup' \in [state : {"listing", "unregistering", "done"}, ids : SUBSET Ids]
    BY <1>12 DEF Restart, StartsAnew
  <2> QED
    BY <1>12, <2>1, <2>2, <2>3 DEF OneShotsTyped, Restart, StartsAnew
<1> QED
  BY <1>1, <1>2, <1>3, <1>4, <1>5, <1>6, <1>7, <1>8, <1>9, <1>10, <1>11, <1>12 DEF RegistryNext

(* The steps of the bridge keep its types. *)
LEMMA BridgeNext ==
  ASSUME BridgeTyped, RegistryNext
  PROVE  BridgeTyped'
<1>1. ASSUME NEW c \in Causes, BridgeListed(c) \/ BridgeListingFails(c) \/ BridgeEvent(c)
      PROVE  BridgeTyped'
  BY <1>1 DEF BridgeTyped, BridgeListed, BridgeListingFails, BridgeEvent, Await
<1>2. ASSUME NEW c \in Causes, BridgeUnregistered(c) \/ BridgeRegistered(c)
      PROVE  BridgeTyped'
  BY <1>2 DEF BridgeTyped, BridgeUnregistered, BridgeRegistered, Await
<1>3. ASSUME NEW c \in Causes, BridgeFails(c) PROVE BridgeTyped'
  BY <1>3 DEF BridgeTyped, BridgeFails, Await
<1>4. CASE Restart
  BY <1>4 DEF BridgeTyped, Restart, StartsAnew
<1>5. CASE UNCHANGED bridgeVars
  BY <1>5, BridgeRests
<1> QED
  BY <1>1, <1>2, <1>3, <1>4, <1>5
  DEF RegistryNext, StaleListed, StaleRemoved, StaleFails, Register, OneShotAnswers, Cleaned,
      TabKnown, Registered, RegisterFails, TimerFires, TabDone, CleanUp, Unregistered,
      UnregisterFails, BridgeAnswers

(* The numbers of restarts and failures are bounded. *)
LEMMA RegistryCountersNext ==
  ASSUME restarts \in 0 .. MaxRestarts, failures \in 0 .. MaxFailures, RegistryNext
  PROVE  restarts' \in 0 .. MaxRestarts /\ failures' \in 0 .. MaxFailures
<1> USE ScriptRegistryAssumption
<1>1. CASE Restart
  BY <1>1 DEF Restart, StartsAnew
<1>2. CASE restarts' = restarts /\ (Fails \/ failures' = failures)
  BY <1>2 DEF Fails
<1> QED
  BY <1>1, <1>2
  DEF RegistryNext, StaleListed, StaleRemoved, StaleFails, Register, OneShotAnswers, Cleaned,
      TabKnown, Registered, RegisterFails, TimerFires, TabDone, CleanUp, Unregistered,
      UnregisterFails, BridgeAnswers, BridgeListed, BridgeUnregistered, BridgeRegistered, BridgeEvent,
      BridgeListingFails, BridgeFails, BridgeVarsOnly, Refused

(* Every variable has its type in every reachable state. *)
THEOREM RegistryTypeCorrect == RegistrySpec => []RegistryTypeOK
<1>1. RegistryTypeOK /\ [RegistryNext]_registryVars => RegistryTypeOK'
  <2>1. CASE RegistryTypeOK /\ RegistryNext
    BY <2>1, OneShotsNext, BridgeNext, RegistryCountersNext DEF RegistryTypeOK
  <2>2. CASE RegistryTypeOK /\ UNCHANGED registryVars
    <3>1. UNCHANGED oneShots /\ UNCHANGED bridgeVars
      BY <2>2 DEF registryVars
    <3> QED
      BY <2>2, <3>1, OneShotsRest, BridgeRests DEF RegistryTypeOK, registryVars
  <2> QED
    BY <2>1, <2>2
<1> QED
  BY RegistryTypeInit, <1>1, PTL DEF RegistrySpec

-----------------------------------------------------------------------------
(* The cleanup at startup.  That it spares what is tracked is not          *)
(* inductive: the registry holds user scripts only, and while the cleanup  *)
(* is under way no user script has come further than waiting for it.       *)
Gated ==
  /\ startup.state # "unregistering" => startup.ids = {}
  /\ \A i \in userScripts \cup startup.ids : job[i].kind = "user"
  /\ \A i \in Ids : job[i].kind = "user" /\ job[i].state \in {"asking", "registering"}
                     => startup.state = "done"
  /\ \A i \in tracked : job[i].kind = "user" => startup.state = "done"
  /\ \A i \in userScripts \cup startup.ids : job[i].state \in {"registered", "ended"}

LEMMA GatedNext ==
  ASSUME OneShotsTyped, Gated, RegistryNext
  PROVE  Gated'
<1>0. job \in [Ids -> Registration]
  BY DEF OneShotsTyped
<1>1. CASE StaleListed
  <2>1. startup.ids = {}
    BY <1>1 DEF Gated, StaleListed
  <2>2. CASE userScripts = {}
    <3>1. startup'.state = "done" /\ startup'.ids = {}
      BY <1>1, <2>1, <2>2 DEF StaleListed, OneShotsTyped
    <3> QED
      BY <1>1, <3>1 DEF Gated, StaleListed
  <2>3. CASE userScripts # {}
    <3>1. startup'.state = "unregistering" /\ startup'.ids = userScripts
      BY <1>1, <2>3 DEF StaleListed
    <3> QED
      BY <1>1, <3>1 DEF Gated, StaleListed, OneShotsTyped
  <2> QED
    BY <2>2, <2>3
<1>2. CASE StaleRemoved
  BY <1>2 DEF Gated, StaleRemoved
<1>3. CASE StaleFails
  BY <1>3 DEF Gated, StaleFails
<1>4. ASSUME NEW i \in Ids, NEW kind \in {"user", "content"}, NEW t \in TabIds,
             Register(i, kind, t)
      PROVE  Gated'
  <2>1. /\ job'[i].kind = kind
        /\ job'[i].state = IF kind = "user" THEN "cleaning" ELSE "asking"
        /\ \A j \in Ids \ {i} : job'[j] = job[j]
    BY <1>0, <1>4 DEF Register, Registration
  <2>2. i \notin userScripts \cup startup.ids \cup tracked
    BY <1>4 DEF Gated, Register, OneShotsTyped
  <2> QED
    BY <1>4, <2>1, <2>2 DEF Gated, Register, OneShotsTyped
<1>5. ASSUME NEW i \in Ids, NEW state \in {"asking", "registering", "ended"},
             Step(i, state), job[i].state \in {"cleaning", "asking", "registering"},
             job[i].state = "cleaning" => startup.state = "done",
             UNCHANGED << userScripts, startup, tracked >>
      PROVE  Gated'
  <2>1. /\ job'[i].kind = job[i].kind
        /\ job'[i].state = state
        /\ \A j \in Ids \ {i} : job'[j] = job[j]
    BY <1>0, <1>5, StepType
  <2>2. i \notin userScripts \cup startup.ids \cup tracked
    BY <1>5 DEF Gated, OneShotsTyped
  <2> QED
    BY <1>5, <2>1, <2>2 DEF Gated, OneShotsTyped
<1>6. ASSUME NEW i \in Ids, Registered(i) PROVE Gated'
  <2>1. /\ job'[i].kind = job[i].kind
        /\ job'[i].state = "registered"
        /\ \A j \in Ids \ {i} : job'[j] = job[j]
    BY <1>0, <1>6, StepType DEF Registered
  <2>2. /\ userScripts' \subseteq userScripts \cup {i}
        /\ i \in userScripts' => i \in userScripts \/ job[i].kind = "user"
    BY <1>6 DEF Registered
  <2>3. startup' = startup /\ tracked' = tracked \cup {i}
    BY <1>6 DEF Registered
  <2>4. job[i].kind = "user" => startup.state = "done"
    BY <1>6 DEF Gated, Registered
  <2> QED
    BY <2>1, <2>2, <2>3, <2>4 DEF Gated, OneShotsTyped
<1>7. ASSUME NEW i \in Ids, TimerFires(i) PROVE Gated'
  BY <1>7 DEF Gated, TimerFires, CleanUp
<1>8. ASSUME NEW t \in TabIds, TabDone(t) PROVE Gated'
  BY <1>8 DEF Gated, TabDone, CleanUp
<1>9. ASSUME NEW ids \in removing, Unregistered(ids) \/ UnregisterFails(ids) PROVE Gated'
  BY <1>9 DEF Gated, Unregistered, UnregisterFails
<1>10. CASE Restart
  <2>1. /\ startup'.state = "listing" /\ startup'.ids = {}
        /\ tracked' = {}
    BY <1>10 DEF Restart, StartsAnew
  <2>2. \A i \in Ids : /\ job'[i].kind = job[i].kind
                       /\ job'[i].state = IF job[i].state \in {"new", "registered"}
                                          THEN job[i].state ELSE "ended"
    BY <1>10, <1>0 DEF Restart, StartsAnew, Registration
  <2>3. \A i \in userScripts' :
          \/ i \in userScripts
          \/ (i \in Ids /\ job[i].state = "registering" /\ job[i].kind = "user")
    <3>1. PICK made \in SUBSET {i \in Ids : job[i].state = "registering"} :
            userScripts' = userScripts \cup {i \in made : job[i].kind = "user"}
      BY <1>10 DEF Restart, StartsAnew
    <3> QED
      BY <3>1
  <2> QED
    BY <2>1, <2>2, <2>3 DEF Gated, OneShotsTyped
<1>11. CASE UNCHANGED oneShots
  BY <1>11 DEF Gated, oneShots
<1>12. ASSUME NEW i \in Ids, OneShotAnswers(i) \/ RegisterFails(i) PROVE Gated'
  BY <1>12, <1>5, <1>6 DEF OneShotAnswers, Cleaned, TabKnown, RegisterFails
<1>13. ASSUME NEW c \in Causes,
              BridgeAnswers(c) \/ BridgeEvent(c) \/ BridgeListingFails(c) \/ BridgeFails(c)
       PROVE  Gated'
  BY <1>13, <1>11 DEF BridgeAnswers, BridgeListed, BridgeUnregistered, BridgeRegistered,
                      BridgeEvent, BridgeListingFails, BridgeFails, BridgeVarsOnly
<1> QED
  BY <1>1, <1>2, <1>3, <1>4, <1>7, <1>8, <1>9, <1>10, <1>12, <1>13 DEF RegistryNext

(* The cleanup at startup never removes what this background page has      *)
(* registered (cleanupStaleUserScriptsAtStartup, registerUserScriptOnce).  *)
THEOREM StartupSparesNewOnes == RegistrySpec => []NewOnesSurviveStartup
<1>1. RegistryInit => Gated
  BY DEF RegistryInit, Gated, NewOneShot
<1>2. RegistryTypeOK /\ Gated /\ [RegistryNext]_registryVars => Gated'
  <2>1. CASE RegistryTypeOK /\ Gated /\ RegistryNext
    BY <2>1, GatedNext DEF RegistryTypeOK
  <2>2. CASE Gated /\ UNCHANGED registryVars
    BY <2>2 DEF Gated, registryVars, oneShots
  <2> QED
    BY <2>1, <2>2
<1>3. Gated => NewOnesSurviveStartup
  <2> SUFFICES ASSUME Gated, NEW i \in startup.ids, i \in tracked PROVE FALSE
    BY DEF NewOnesSurviveStartup
  <2>1. job[i].kind = "user"
    BY DEF Gated
  <2>2. startup.state = "done"
    BY <2>1 DEF Gated
  <2> QED
    BY <2>2 DEF Gated
<1> QED
  BY RegistryTypeCorrect, <1>1, <1>2, <1>3, PTL DEF RegistrySpec

-----------------------------------------------------------------------------
(* The bridge.  Unless a call failed, one that is missing has a call that  *)
(* will register it, and an old one a call that will find it out; once it  *)
(* was removed it does not become old again.                               *)
Ensured ==
  ~bridgeFailed =>
    /\ bridge = "none" =>
         \E c \in Causes : ensuring[c] \in {"listing", "registering", "registering again"}
    /\ bridge = "old" =>
         /\ \E c \in Causes : ensuring[c] \in {"listing", "unregistering", "registering",
                                               "unregistering again"}
         /\ \A c \in Causes : ensuring[c] # "registering again"

LEMMA EnsuredNext ==
  ASSUME BridgeTyped, Ensured, RegistryNext
  PROVE  Ensured'
<1> USE ScriptRegistryAssumption
<1>1. ASSUME NEW c \in Causes, NEW what, Await(c, what)
      PROVE  ensuring'[c] = what /\ \A d \in Causes \ {c} : ensuring'[d] = ensuring[d]
  BY <1>1 DEF Await, BridgeTyped
<1>2. ASSUME NEW c \in Causes, BridgeListed(c) PROVE Ensured'
  <2>1. /\ ensuring'[c] = IF bridge = "none" THEN "registering"
                          ELSE IF bridge = "current" /\ c # "installed" THEN "done"
                               ELSE "unregistering"
        /\ \A d \in Causes \ {c} : ensuring'[d] = ensuring[d]
    BY <1>1, <1>2 DEF BridgeListed
  <2> QED
    BY <1>2, <2>1 DEF Ensured, BridgeListed
<1>3. ASSUME NEW c \in Causes, BridgeListingFails(c) PROVE Ensured'
  <2>1. ensuring'[c] = "registering" /\ \A d \in Causes \ {c} : ensuring'[d] = ensuring[d]
    BY <1>1, <1>3 DEF BridgeListingFails
  <2> QED
    BY <1>3, <2>1 DEF Ensured, BridgeListingFails
<1>4. ASSUME NEW c \in Causes, BridgeUnregistered(c) PROVE Ensured'
  <2>1. /\ ensuring'[c] = IF bridge = "none" THEN "done"
                          ELSE IF ensuring[c] = "unregistering" THEN "registering"
                               ELSE "registering again"
        /\ \A d \in Causes \ {c} : ensuring'[d] = ensuring[d]
    BY <1>1, <1>4 DEF BridgeUnregistered
  <2> QED
    BY <1>4, <2>1 DEF Ensured, BridgeUnregistered
<1>5. ASSUME NEW c \in Causes, BridgeRegistered(c) PROVE Ensured'
  <2>1. /\ ensuring'[c] = IF bridge # "none" /\ ensuring[c] = "registering"
                          THEN "unregistering again" ELSE "done"
        /\ \A d \in Causes \ {c} : ensuring'[d] = ensuring[d]
    BY <1>1, <1>5 DEF BridgeRegistered
  <2> QED
    BY <1>5, <2>1 DEF Ensured, BridgeRegistered
<1>6. ASSUME NEW c \in Causes, BridgeFails(c) PROVE Ensured'
  BY <1>6 DEF Ensured, BridgeFails
<1>7. ASSUME NEW c \in Causes, BridgeEvent(c) PROVE Ensured'
  <2>1. ensuring'[c] = "listing" /\ \A d \in Causes \ {c} : ensuring'[d] = ensuring[d]
    BY <1>1, <1>7 DEF BridgeEvent
  <2> QED
    BY <1>7, <2>1 DEF Ensured, BridgeEvent
<1>8. CASE Restart
  <2>1. ensuring'["load"] = "listing"
    BY <1>8 DEF Restart, StartsAnew
  <2>2. \A c \in Causes : ensuring'[c] # "registering again"
    BY <1>8 DEF Restart, StartsAnew
  <2> QED
    BY <2>1, <2>2 DEF Ensured
<1>9. CASE UNCHANGED bridgeVars
  BY <1>9 DEF Ensured, bridgeVars
<1> QED
  BY <1>2, <1>3, <1>4, <1>5, <1>6, <1>7, <1>8, <1>9
  DEF RegistryNext, StaleListed, StaleRemoved, StaleFails, Register, OneShotAnswers, Cleaned,
      TabKnown, Registered, RegisterFails, TimerFires, TabDone, CleanUp, Unregistered,
      UnregisterFails, BridgeAnswers

(* However the calls of ensureMainWorldBridgeRegistration overlap, when    *)
(* all are over the bridge is registered in its present form.              *)
THEOREM BridgeEndsCurrent == RegistrySpec => []BridgeIsCurrent
<1> USE ScriptRegistryAssumption
<1>1. RegistryInit => Ensured
  BY DEF RegistryInit, Ensured
<1>2. RegistryTypeOK /\ Ensured /\ [RegistryNext]_registryVars => Ensured'
  <2>1. CASE RegistryTypeOK /\ Ensured /\ RegistryNext
    BY <2>1, EnsuredNext DEF RegistryTypeOK
  <2>2. CASE Ensured /\ UNCHANGED registryVars
    BY <2>2 DEF Ensured, registryVars, bridgeVars
  <2> QED
    BY <2>1, <2>2
<1>3. RegistryTypeOK /\ Ensured => BridgeIsCurrent
  BY DEF RegistryTypeOK, BridgeTyped, Ensured, BridgeIsCurrent
<1> QED
  BY RegistryTypeCorrect, <1>1, <1>2, <1>3, PTL DEF RegistrySpec
=============================================================================
