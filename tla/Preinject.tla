------------------------------ MODULE Preinject ------------------------------
(***************************************************************************)
(* How the background page prepares what it injects and answers the pages  *)
(* that ask for it: src/src/background/utils/preinject.js, as run with     *)
(* manifest version 3, with the part of injected/content/index.js that     *)
(* asks.                                                                   *)
(*                                                                         *)
(* Every tab shows one site with one enabled script, whose code is a       *)
(* version number.  A page is a tab and a kind of frame; the two kinds     *)
(* have different urls, so that the kind stands for the key of the cache   *)
(* and the page for the key of a CSP hint.  An object made by prepare is a *)
(* preparation: first the environment that waits for the storage, then the *)
(* bag that takes its place.  What a task does is one step: while a call   *)
(* can be resumed nothing else moves, because promises settle before the   *)
(* next task.  Values of the script are in ValueStore.                     *)
(***************************************************************************)
EXTENDS Naturals

CONSTANTS Pages,        \* pages that may be open: pairs of a tab and a kind
          Preps,        \* identities of preparations
          Calls,        \* identities of GetInjected calls
          None,         \* no preparation, no code, no hint, no answer
          MaxActs       \* bound: edits, switches, entries of the cache that expire,
                        \* documents loaded and tabs closed

Kinds == {"top", "frame"}
Tabs == {p[1] : p \in Pages}

ASSUME PreinjectAssumption == /\ Pages \subseteq Tabs \X Kinds
                              /\ MaxActs \in Nat
                              /\ None \notin Pages \cup Preps \cup Calls \cup Nat
                              /\ None \notin {"force", "nonce", "skip", "off", "page", "content"}

Csp == {None, "force", "nonce"}   \* what the headers of a document ask for
Attempts == 2
Versions == 0 .. MaxActs

VARIABLES code,      \* version of the script in the storage cache
          told,      \* version the watchers of the storage have been told of
          raced,     \* history: since then older code that a preparation had read
                     \* was put into the cache in place of the present one
          applied,   \* option isApplied
          scr,       \* code in the prepared script that bags share, or None
          cache,     \* kind -> preparation in the cache, or None
          preps,     \* the preparations
          hints,     \* page -> cspHints
          waiters,   \* page -> calls among cspHintWaiters
          skipped,   \* tab -> skippedTabs: "no", "next" (1) or "phantom" (-1)
          calls,     \* the calls of GetInjected
          pages,     \* the documents
          acts       \* number of such acts

vars == <<code, told, raced, applied, scr, cache, preps, hints, waiters,
          skipped, calls, pages, acts>>
store == <<code, told, raced, applied>>

Blank == [state |-> "free", kind |-> "top", code |-> None, force |-> FALSE,
          nonce |-> FALSE, page |-> FALSE]
NoCall == [state |-> "free", page |-> None, prep |-> None, got |-> None]
Closed == [state |-> "closed", headers |-> "heard", call |-> None, tries |-> 0, got |-> None]

Init == /\ code = 0 /\ told = 0 /\ raced = FALSE
        /\ applied = TRUE
        /\ scr = None
        /\ cache = [k \in Kinds |-> None]
        /\ preps = [b \in Preps |-> Blank]
        /\ hints = [p \in Pages |-> None]
        /\ waiters = [p \in Pages |-> {}]
        /\ skipped = [t \in Tabs |-> "no"]
        /\ calls = [c \in Calls |-> NoCall]
        /\ pages = [p \in Pages |-> Closed]
        /\ acts = 0

(* The promise a call awaits is settled, so that it goes on at once. *)
Resumable(c) == \/ calls[c].state = "bag" /\ preps[calls[c].prep].state \in {"bag", "off"}
                \/ calls[c].state = "hinted"

(* A preparation nothing refers to any longer. *)
Lost(b) == /\ preps[b].state \in {"bag", "off"}
           /\ \A k \in Kinds : cache[k] # b
           /\ \A c \in Calls : calls[c].prep # b

Quiet == /\ \A c \in Calls : ~Resumable(c)
         /\ \A b \in Preps : ~Lost(b)

-----------------------------------------------------------------------------
(* The storage and the options *)

Act == acts < MaxActs /\ acts' = acts + 1

EditScript == /\ Quiet
              /\ Act
              /\ code' = code + 1
              /\ UNCHANGED <<told, raced, applied, scr, cache, preps, hints, waiters,
                             skipped, calls, pages>>

(* Mutant: the prepared script stays. *)
DestroyKeepsScript ==
    /\ cache' = [k \in Kinds |-> None]
    /\ scr' = scr
    /\ raced' = FALSE

(* cache.destroy *)
Destroy ==
    /\ cache' = [k \in Kinds |-> None]
    /\ scr' = None
    /\ raced' = FALSE

(* onStorageChanged with the key of a script or of its code. *)
ScriptChanged == /\ Quiet
                 /\ told # code
                 /\ told' = code
                 /\ Destroy
                 /\ UNCHANGED <<code, applied, preps, hints, waiters, skipped, calls, pages,
                                acts>>

(* togglePreinject *)
Toggle == /\ Quiet
          /\ Act
          /\ applied' = ~applied
          /\ IF applied THEN Destroy ELSE UNCHANGED <<cache, scr, raced>>
          /\ UNCHANGED <<code, told, preps, hints, waiters, skipped, calls, pages>>

(* trim: an entry was not used for its lifetime. *)
Expire == /\ Quiet
          /\ Act
          /\ \/ \E k \in Kinds : cache[k] # None /\ cache' = [cache EXCEPT ![k] = None]
                                 /\ scr' = scr
             \/ scr # None /\ scr' = None /\ cache' = cache
          /\ UNCHANGED <<store, preps, hints, waiters, skipped, calls, pages>>

-----------------------------------------------------------------------------
(* Preparations *)

Fresh(k, force, nonce) == [Blank EXCEPT !.state = "asked", !.kind = k,
                                        !.force = force, !.nonce = nonce]

Free == {b \in Preps : preps[b].state = "free"}
New == CHOOSE b \in Free : TRUE

(* prepare, for a kind that is not in the cache: an environment is made and
   put there. *)
Prepare(k, force, nonce) == /\ Free # {}
                            /\ preps' = [preps EXCEPT ![New] = Fresh(k, force, nonce)]
                            /\ cache' = [cache EXCEPT ![k] = New]

(* The memory of a preparation is reused. *)
Collect(b) == /\ Lost(b)
              /\ preps' = [preps EXCEPT ![b] = Blank]
              /\ UNCHANGED <<store, scr, cache, hints, waiters, skipped, calls, pages, acts>>

(* The storage reads the code for readEnvironmentData.  *)
Read(b) == /\ Quiet
           /\ preps[b].state = "asked"
           /\ preps' = [preps EXCEPT ![b] = [@ EXCEPT !.state = "read", !.code = code]]
           /\ UNCHANGED <<store, scr, cache, hints, waiters, skipped, calls, pages, acts>>

(* The code a bag gets: prepareScripts takes a prepared script that is in the
   cache, whatever the environment has read. *)
Taken(b) == IF scr # None THEN scr ELSE preps[b].code

(* The data arrives and prepareBag goes on: the bag is put into the cache,
   whatever happened to the environment there.  A prepared script in the cache
   takes precedence over what was read; without one, code that was read before
   the watchers were told of a newer one comes into the cache after all. *)
PrepareBag(b) ==
    /\ Quiet
    /\ preps[b].state = "read"
    /\ IF applied
       THEN /\ scr' = Taken(b)
            /\ cache' = [cache EXCEPT ![preps[b].kind] = b]
            /\ preps' = [preps EXCEPT ![b] = [@ EXCEPT !.state = "bag", !.code = Taken(b)]]
            /\ raced' = (raced \/ (scr = None /\ preps[b].code < told))
       ELSE /\ preps' = [preps EXCEPT ![b] = [@ EXCEPT !.state = "off"]]
            /\ UNCHANGED <<scr, cache, raced>>
    /\ UNCHANGED <<code, told, applied, hints, waiters, skipped, calls, pages, acts>>

-----------------------------------------------------------------------------
(* CSP hints *)

(* applyCspResultToBag: a forced realm stays with the bag. *)
Hinted(bag, hint) == CASE hint = "force" -> [bag EXCEPT !.force = TRUE]
                       [] hint = "nonce" -> [bag EXCEPT !.nonce = TRUE]
                       [] OTHER -> bag

(* publishCspHint: the calls that wait for the page go on. *)
Publish(p, hint) ==
    /\ hints' = [hints EXCEPT ![p] = hint]
    /\ waiters' = [waiters EXCEPT ![p] = {}]
    /\ calls' = [c \in Calls |-> IF c \in waiters[p]
                                 THEN [calls[c] EXCEPT !.state = "hinted", !.got = hint]
                                 ELSE calls[c]]

(* onHeadersReceived, which may come after the document has asked already:
   preparation and detectStrictCsp, unless the tab is skipped. *)
OnHeadersReceived(p) ==
    LET k == p[2]
        csp == pages[p].headers
    IN  /\ Quiet
        /\ csp # "heard"
        /\ pages' = [pages EXCEPT ![p] = [@ EXCEPT !.headers = "heard"]]
        /\ IF ~applied \/ skipped[p[1]] # "no"
           THEN UNCHANGED <<cache, preps, hints, waiters, calls>>
           ELSE /\ IF cache[k] = None
                   THEN Prepare(k, csp = "force", csp = "nonce")
                   ELSE /\ preps' = [preps EXCEPT ![cache[k]] = Hinted(@, csp)]
                        /\ cache' = cache
                /\ IF csp = None THEN UNCHANGED <<hints, waiters, calls>>
                                 ELSE Publish(p, csp)
        /\ UNCHANGED <<store, scr, skipped, acts>>

(* onTabUpdated: the background is told of the new url of a tab. *)
OnTabUpdated(t) == /\ Quiet
                   /\ <<t, "top">> \in Pages
                   /\ pages[<<t, "top">>].state = "loading"
                   /\ applied /\ cache["top"] = None /\ skipped[t] = "no"
                   /\ Prepare("top", FALSE, FALSE)
                   /\ UNCHANGED <<store, scr, hints, waiters, skipped, calls, pages, acts>>

(* InjectionFeedback: the document could not run what it got in the page
   realm.  The bag looked for is that of a top frame. *)
InjectionFeedback(p) ==
    /\ Quiet
    /\ applied
    /\ pages[p].got = "page"
    /\ pages' = [pages EXCEPT ![p] = [@ EXCEPT !.got = "content"]]
    /\ Publish(p, "force")
    /\ preps' = IF p[2] = "top" /\ cache["top"] # None
                THEN [preps EXCEPT ![cache["top"]] = Hinted(@, "force")]
                ELSE preps
    /\ UNCHANGED <<store, scr, cache, skipped, acts>>

(* Mutant: the waiter stays in the list. *)
HintTimeoutKeepsWaiter(c) ==
    /\ Quiet
    /\ calls[c].state = "hint"
    /\ calls' = [calls EXCEPT ![c] = [calls[c] EXCEPT !.state = "hinted",
                                                     !.got = hints[calls[c].page]]]
    /\ UNCHANGED <<store, scr, cache, preps, hints, waiters, skipped, pages, acts>>

(* Mutant: only a waiter in the list is resolved. *)
HintTimeoutIfListed(c) ==
    LET p == calls[c].page
    IN  /\ Quiet
        /\ calls[c].state = "hint" /\ c \in waiters[p]
        /\ waiters' = [waiters EXCEPT ![p] = @ \ {c}]
        /\ calls' = [calls EXCEPT ![c] = [@ EXCEPT !.state = "hinted", !.got = hints[p]]]
        /\ UNCHANGED <<store, scr, cache, preps, hints, skipped, pages, acts>>

(* The timer of waitForCspHint fires. *)
HintTimeout(c) ==
    LET p == calls[c].page
    IN  /\ Quiet
        /\ calls[c].state = "hint"
        /\ waiters' = [waiters EXCEPT ![p] = @ \ {c}]
        /\ calls' = [calls EXCEPT ![c] = [@ EXCEPT !.state = "hinted", !.got = hints[p]]]
        /\ UNCHANGED <<store, scr, cache, preps, hints, skipped, pages, acts>>

-----------------------------------------------------------------------------
(* GetInjected *)

(* triageRealms: the realm of the script, which takes any.  A page realm
   needs a nonce. *)
Realm(bag) == IF bag.nonce /\ ~bag.force THEN "page" ELSE "content"

Awaiting(what, p, b) == [state |-> what, page |-> p, prep |-> b, got |-> None]

Done(p, got) == [pages[p] EXCEPT !.state = "done", !.call = None, !.tries = 0, !.got = got]

(* The call ends and its answer reaches the document, if that still waits for
   it; an error makes it ask once more. *)
End(c, p, got) ==
    /\ calls' = [calls EXCEPT ![c] = NoCall]
    /\ pages' = IF ~(pages[p].state = "asking" /\ pages[p].call = c) THEN pages
                ELSE [pages EXCEPT ![p] = IF got # "error" THEN Done(p, got)
                                          ELSE IF @.tries < Attempts
                                               THEN [@ EXCEPT !.call = None]
                                               ELSE Done(p, "off")]

(* Mutant: the result of waiting is dropped. *)
ServeUnhinted(c, p, b, hint) ==
    /\ preps' = [preps EXCEPT ![b] = [preps[b] EXCEPT !.page = Realm(preps[b]) = "page"]]
    /\ End(c, p, Realm(preps[b]))

(* The call ends with the scripts of the bag, after the hint is applied. *)
Serve(c, p, b, hint) ==
    LET bag == Hinted(preps[b], hint)
    IN  /\ preps' = [preps EXCEPT ![b] = [bag EXCEPT !.page = Realm(bag) = "page"]]
        /\ End(c, p, Realm(bag))

(* The call has its bag: a hint is applied at once, a bag for the page realm
   waits for one. *)
WithBag(c, p, b) ==
    IF hints[p] = None /\ preps[b].page /\ ~preps[b].force
    THEN /\ waiters' = [waiters EXCEPT ![p] = @ \cup {c}]
         /\ calls' = [calls EXCEPT ![c] = Awaiting("hint", p, b)]
         /\ UNCHANGED <<preps, pages>>
    ELSE Serve(c, p, b, hints[p]) /\ waiters' = waiters

IdleCall == LET idle == {c \in Calls : calls[c].state = "free"}
            IN  IF idle = {} THEN {} ELSE {CHOOSE c \in idle : TRUE}

(* The document asks (getInjectedData) and the call reaches the background:
   the page is skipped, or injection is off, or the call takes the
   preparation in the cache or begins one. *)
GetInjected(c, p) ==
    LET t == p[1]
        k == p[2]
        call(b) == /\ pages' = [pages EXCEPT ![p] = [pages[p] EXCEPT
                                      !.state = "asking", !.call = c,
                                      !.tries = pages[p].tries + 1]]
                   /\ calls' = [calls EXCEPT ![c] = Awaiting("bag", p, b)]
        return(got) == /\ pages' = [pages EXCEPT ![p] = Done(p, got)]
                       /\ UNCHANGED <<cache, preps, calls>>
    IN  /\ Quiet
        /\ c \in IdleCall
        /\ \/ pages[p].state = "loading"
           \/ pages[p].state = "asking" /\ pages[p].call = None
        /\ \/ /\ skipped[t] = "next"
              /\ skipped' = [skipped EXCEPT ![t] = IF k = "top" THEN "phantom" ELSE @]
              /\ return("skip")
           \/ /\ skipped[t] # "next"
              /\ skipped' = [skipped EXCEPT ![t] = "no"]
              /\ \/ cache[k] = None /\ ~applied /\ return("off")
                 \/ cache[k] = None /\ applied /\ Prepare(k, FALSE, FALSE) /\ call(New)
                 \/ cache[k] # None /\ call(cache[k]) /\ UNCHANGED <<cache, preps>>
        /\ UNCHANGED <<store, scr, hints, waiters, acts>>

(* The preparation the call awaits has ended, at once if it is a bag.
   Without a bag the call throws. *)
BagArrives(c) ==
    LET b == calls[c].prep
        p == calls[c].page
    IN  /\ calls[c].state = "bag"
        /\ \/ preps[b].state = "bag" /\ WithBag(c, p, b)
           \/ preps[b].state = "off" /\ End(c, p, "error") /\ UNCHANGED <<preps, waiters>>
        /\ UNCHANGED <<store, scr, cache, hints, skipped, acts>>

(* The promise of waitForCspHint is settled. *)
HintArrives(c) == /\ calls[c].state = "hinted"
                  /\ Serve(c, calls[c].page, calls[c].prep, calls[c].got)
                  /\ UNCHANGED <<store, scr, cache, hints, waiters, skipped, acts>>

-----------------------------------------------------------------------------
(* The documents *)

(* The document has waited long enough: it asks once more or goes without. *)
AnswerTimeout(p) ==
    /\ Quiet
    /\ pages[p].state = "asking" /\ pages[p].call # None
    /\ pages' = [pages EXCEPT ![p] = IF @.tries < Attempts THEN [@ EXCEPT !.call = None]
                                                           ELSE Done(p, "off")]
    /\ UNCHANGED <<store, scr, cache, preps, hints, waiters, skipped, calls, acts>>

Document(csp) == [Closed EXCEPT !.state = "loading", !.headers = csp]
Leave(t) == [q \in Pages |-> IF q[1] = t THEN Closed ELSE pages[q]]
Open(t) == pages[<<t, "top">>].state \notin {"closed", "gone"}

(* A document is loaded into a tab, or into the frame of one. *)
Load(p, csp) == /\ Quiet
                /\ Act
                /\ pages[<<p[1], "top">>].state # "gone"
                /\ p[2] = "frame" => Open(p[1]) /\ pages[<<p[1], "top">>].state # "loading"
                /\ pages' = [(IF p[2] = "top" THEN Leave(p[1]) ELSE pages) EXCEPT ![p] = Document(csp)]
                /\ UNCHANGED <<store, scr, cache, preps, hints, waiters, skipped, calls>>

(* reloadAndSkipScripts *)
ReloadAndSkip(t, csp) ==
    /\ Quiet
    /\ Act
    /\ Open(t)
    /\ skipped' = [skipped EXCEPT ![t] = "next"]
    /\ pages' = [Leave(t) EXCEPT ![<<t, "top">>] = Document(csp)]
    /\ UNCHANGED <<store, scr, cache, preps, hints, waiters, calls>>

(* A tab is closed for good.  onTabRemoved leaves only the timers of the calls
   that wait, but it is not told of tabs closed while injection is off. *)
OnTabRemoved(t) ==
    /\ Quiet
    /\ Act
    /\ Open(t)
    /\ pages' = [q \in Pages |-> IF q[1] = t THEN [Closed EXCEPT !.state = "gone"]
                                             ELSE pages[q]]
    /\ IF applied
       THEN /\ hints' = [p \in Pages |-> IF p[1] = t THEN None ELSE hints[p]]
            /\ waiters' = [p \in Pages |-> IF p[1] = t THEN {} ELSE waiters[p]]
            /\ skipped' = [skipped EXCEPT ![t] = "no"]
       ELSE UNCHANGED <<hints, waiters, skipped>>
    /\ UNCHANGED <<store, scr, cache, preps, calls>>

-----------------------------------------------------------------------------
Changes == EditScript \/ ScriptChanged \/ Toggle \/ Expire
Preparing == \E b \in Preps : Read(b) \/ PrepareBag(b) \/ Collect(b)
Answering == \E c \in Calls : \/ \E p \in Pages : GetInjected(c, p)
                              \/ BagArrives(c)
                              \/ HintArrives(c)
                              \/ HintTimeout(c)
Browsing == \/ \E p \in Pages : \/ OnHeadersReceived(p)
                                \/ InjectionFeedback(p)
                                \/ AnswerTimeout(p)
                                \/ \E csp \in Csp : Load(p, csp)
            \/ \E t \in Tabs : \/ OnTabUpdated(t)
                               \/ OnTabRemoved(t)
                               \/ \E csp \in Csp : ReloadAndSkip(t, csp)

Next == Changes \/ Preparing \/ Answering \/ Browsing

Spec == Init /\ [][Next]_vars

(* The storage answers, promises settle, and timers fire. *)
Fairness == /\ \A b \in Preps : /\ WF_vars(Read(b))
                               /\ WF_vars(PrepareBag(b))
                               /\ WF_vars(Collect(b))
            /\ \A c \in Calls : /\ WF_vars(BagArrives(c))
                                /\ WF_vars(HintArrives(c))
                                /\ WF_vars(HintTimeout(c))

FairSpec == Spec /\ Fairness

-----------------------------------------------------------------------------
PrepType == [state : {"free", "asked", "read", "bag", "off"}, kind : Kinds,
             code : Versions \cup {None}, force : BOOLEAN, nonce : BOOLEAN, page : BOOLEAN]
CallType == [state : {"free", "bag", "hint", "hinted"}, page : Pages \cup {None},
             prep : Preps \cup {None}, got : Csp]
PageType == [state : {"closed", "loading", "asking", "done", "gone"}, headers : Csp \cup {"heard"},
             call : Calls \cup {None}, tries : 0 .. Attempts,
             got : {None, "skip", "off", "page", "content"}]

(* Every variable has its type: what is in the cache is a preparation of its
   kind under way or done, and only calls that wait are among the waiters. *)
TypeOK ==
    /\ acts \in 0 .. MaxActs /\ code \in 0 .. acts /\ told \in 0 .. code
    /\ raced \in BOOLEAN /\ applied \in BOOLEAN
    /\ scr \in Versions \cup {None}
    /\ preps \in [Preps -> PrepType]
    /\ \A b \in Preps : preps[b].page => preps[b].nonce
    /\ cache \in [Kinds -> Preps \cup {None}]
    /\ \A k \in Kinds : cache[k] # None => /\ preps[cache[k]].kind = k
                                           /\ preps[cache[k]].state \in {"asked", "read", "bag"}
    /\ calls \in [Calls -> CallType]
    /\ hints \in [Pages -> Csp]
    /\ waiters \in [Pages -> SUBSET Calls]
    /\ \A p \in Pages : \A c \in waiters[p] : calls[c].state = "hint" /\ calls[c].page = p
    /\ skipped \in [Tabs -> {"no", "next", "phantom"}]
    /\ pages \in [Pages -> PageType]

(* After the watchers were told of a new script (onStorageChanged), the cache
   holds no older code, neither in a bag nor in the prepared script that later
   bags take.  A preparation that had read older code before may be under way;
   it does no harm while it is, nor when it ends after another one has put a
   prepared script into the cache.  It does when it ends first (`raced`), until
   the cache is emptied again. *)
ChangesReachTheCache ==
    raced \/ /\ scr # None => scr >= told
             /\ \A k \in Kinds : cache[k] # None /\ preps[cache[k]].state = "bag"
                                   => preps[cache[k]].code >= told

(* When GetInjected ends with scripts for a page whose strict CSP is known by
   then, from the headers, they are for the content realm: the hint is neither
   missed by a call that began to wait before it came, nor lost with the timer
   or another tab's nonce. *)
StrictPagesAreForced ==
    [][\A p \in Pages : /\ pages[p].state = "asking"
                        /\ pages'[p].state = "done"
                        /\ hints'[p] = "force"
                        => pages'[p].got # "page"]_vars

(* Every call of GetInjected ends, though its tab is closed while it waits for
   a hint, or injection is switched off while it waits for a bag. *)
CallsEnd == \A c \in Calls : calls[c].state # "free" ~> calls[c].state = "free"

(* "keeping a phantom for future iframes in this page": in a page that was
   skipped, no frame is given scripts. *)
SkippedPagesRunNothing ==
    \A t \in Tabs : <<t, "frame">> \in Pages /\ pages[<<t, "top">>].got = "skip"
                      => pages[<<t, "frame">>].got \notin {"page", "content"}
=============================================================================
