--------------------------- MODULE ScriptRegistry ---------------------------
(***************************************************************************)
(* What the background page registers with the browser under manifest      *)
(* version 3 (background/utils/tabs.js): one-shot scripts for pages where  *)
(* nothing can be executed at once, and the bridge of the main world.      *)
(*                                                                         *)
(* A one-shot script is a user script (registerUserScriptOnce) or a        *)
(* content script (registerIsolatedContentScriptOnce and its twin for the  *)
(* main world).  Both are remembered by tab and have a timer.  What is     *)
(* registered outlives the background page, what it remembers does not.    *)
(* Calls of the browser take effect when they are answered.                *)
(***************************************************************************)
EXTENDS Naturals

CONSTANTS
  Ids,          \* ids of one-shot scripts
  TabIds,       \* the tabs
  Causes,       \* what calls ensureMainWorldBridgeRegistration: "load" of the module,
                \* onInstalled ("installed") and onStartup ("startup")
  MaxRestarts,  \* bound: times that the background page stops
  MaxFailures   \* bound: calls of the browser that fail

ASSUME ScriptRegistryAssumption ==
  /\ TabIds # {}
  /\ "load" \in Causes /\ Causes \subseteq {"load", "installed", "startup"}
  /\ MaxRestarts \in Nat /\ MaxFailures \in Nat

VARIABLES
  userScripts,     \* the ids registered by userScripts.register
  contentScripts,  \* the ids registered by scripting.registerContentScripts
  job,             \* per id: the call that registers it
  tracked,         \* the ids in registeredUserScriptsByTab
  timers,          \* the ids whose timer runs
  removing,        \* the calls of userScripts.unregister in progress, as sets of ids
  startup,         \* staleUserScriptsCleanupPromise: what it awaits, and the stale ids
  bridge,          \* what is registered under MAIN_WORLD_BRIDGE_SCRIPT_ID
  ensuring,        \* the calls of ensureMainWorldBridgeRegistration: what they await
  stranded,        \* history: ids that a failed call of unregister left behind
  bridgeFailed,    \* history: a call failed that changes the bridge
  restarts,
  failures

oneShots == << userScripts, contentScripts, job, tracked, timers, removing, startup, stranded >>
bridgeVars == << bridge, ensuring, bridgeFailed >>
registryVars == << oneShots, bridgeVars, restarts, failures >>

NewOneShot == [state |-> "new", kind |-> "user", tab |-> CHOOSE t \in TabIds : TRUE]

RegistryInit ==
  /\ userScripts = {}
  /\ contentScripts = {}
  /\ job = [i \in Ids |-> NewOneShot]
  /\ tracked = {}
  /\ timers = {}
  /\ removing = {}
  /\ startup = [state |-> "listing", ids |-> {}]
  /\ bridge \in {"none", "old", "current"}
  /\ ensuring = [c \in Causes |-> IF c = "load" THEN "listing" ELSE "no"]
  /\ stranded = {}
  /\ bridgeFailed = FALSE
  /\ restarts = 0
  /\ failures = 0

Fails == failures < MaxFailures /\ failures' = failures + 1

-----------------------------------------------------------------------------
(* cleanupStaleUserScriptsAtStartup(): a failure ends it too, and it is    *)
(* not repeated before the next start.                                     *)
StaleListed ==
  /\ startup.state = "listing"
  /\ startup' = IF userScripts = {} THEN [startup EXCEPT !.state = "done"]
                                    ELSE [state |-> "unregistering", ids |-> userScripts]
  /\ UNCHANGED << userScripts, contentScripts, job, tracked, timers, removing, stranded,
                  bridgeVars, restarts, failures >>

StaleRemoved ==
  /\ startup.state = "unregistering"
  /\ userScripts' = userScripts \ startup.ids
  /\ startup' = [state |-> "done", ids |-> {}]
  /\ UNCHANGED << contentScripts, job, tracked, timers, removing, stranded, bridgeVars,
                  restarts, failures >>

StaleFails ==
  /\ startup.state # "done"
  /\ Fails
  /\ startup' = [state |-> "done", ids |-> {}]
  /\ stranded' = stranded \cup userScripts
  /\ UNCHANGED << userScripts, contentScripts, job, tracked, timers, removing, bridgeVars,
                  restarts >>

-----------------------------------------------------------------------------
Step(i, state) == job' = [job EXCEPT ![i] = [job[i] EXCEPT !.state = state]]

(* registerUserScriptOnce(), which awaits the cleanup first, or one of its *)
(* twins, which do not *)
Register(i, kind, t) ==
  /\ job[i].state = "new"
  /\ job' = [job EXCEPT ![i] =
       [state |-> IF kind = "user" THEN "cleaning" ELSE "asking", kind |-> kind, tab |-> t]]
  /\ UNCHANGED << userScripts, contentScripts, tracked, timers, removing, startup, stranded,
                  bridgeVars, restarts, failures >>

(* Mutant: the cleanup is started and not awaited. *)
CleanedAtOnce(i) ==
  /\ job[i].state = "cleaning"
  /\ Step(i, "asking")
  /\ UNCHANGED << userScripts, contentScripts, tracked, timers, removing, startup, stranded,
                  bridgeVars, restarts, failures >>

Cleaned(i) ==
  /\ job[i].state = "cleaning"
  /\ startup.state = "done"
  /\ Step(i, "asking")
  /\ UNCHANGED << userScripts, contentScripts, tracked, timers, removing, startup, stranded,
                  bridgeVars, restarts, failures >>

(* The answer of tabs.get(): the tab is gone, or its url has no match      *)
(* pattern, or the script is registered.                                   *)
TabKnown(i) ==
  /\ job[i].state = "asking"
  /\ \E state \in {"registering", "ended"} : Step(i, state)
  /\ UNCHANGED << userScripts, contentScripts, tracked, timers, removing, startup, stranded,
                  bridgeVars, restarts, failures >>

(* Any content script may be refused: it is given as code, where browsers  *)
(* may expect the names of files.                                          *)
Refused(i) == job[i].kind = "content" /\ UNCHANGED failures

(* Mutant: the id is remembered before the answer. *)
RegisterFailsLate(i) ==
  /\ job[i].state = "registering"
  /\ Fails \/ Refused(i)
  /\ Step(i, "ended")
  /\ tracked' = tracked \cup {i}
  /\ UNCHANGED << userScripts, contentScripts, timers, removing, startup, stranded, bridgeVars,
                  restarts >>

RegisterFails(i) ==
  /\ job[i].state = "registering"
  /\ Fails \/ Refused(i)
  /\ Step(i, "ended")
  /\ UNCHANGED << userScripts, contentScripts, tracked, timers, removing, startup, stranded,
                  bridgeVars, restarts >>

(* rememberRegisteredUserScript() and the timer *)
Registered(i) ==
  /\ job[i].state = "registering"
  /\ Step(i, "registered")
  /\ userScripts' = IF job[i].kind = "user" THEN userScripts \cup {i} ELSE userScripts
  /\ contentScripts' = IF job[i].kind = "user" THEN contentScripts ELSE contentScripts \cup {i}
  /\ tracked' = tracked \cup {i}
  /\ timers' = timers \cup {i}
  /\ UNCHANGED << removing, startup, stranded, bridgeVars, restarts, failures >>

(* cleanupRegisteredUserScripts(), which has only userScripts.unregister   *)
(* for the ids of both kinds: they are forgotten, then it is called.       *)
CleanUp(ids) ==
  /\ tracked' = tracked \ ids
  /\ removing' = removing \cup ({ids \cap tracked} \ {{}})
  /\ UNCHANGED << userScripts, contentScripts, job, startup, stranded, bridgeVars, restarts,
                  failures >>

TimerFires(i) == i \in timers /\ timers' = timers \ {i} /\ CleanUp({i})

(* A page of the tab is complete, or the tab is closed. *)
TabDone(t) == CleanUp({i \in tracked : job[i].tab = t}) /\ UNCHANGED timers

(* An unregister call that names an id which is no user script does        *)
(* nothing, or does nothing for that id.                                   *)
Unregistered(ids) ==
  /\ ids \in removing
  /\ removing' = removing \ {ids}
  /\ \/ userScripts' = userScripts \ ids /\ stranded' = stranded
     \/ ~ids \subseteq userScripts /\ userScripts' = userScripts /\ stranded' = stranded \cup ids
  /\ UNCHANGED << contentScripts, job, tracked, timers, startup, bridgeVars, restarts, failures >>

UnregisterFails(ids) ==
  /\ ids \in removing
  /\ Fails
  /\ removing' = removing \ {ids}
  /\ stranded' = stranded \cup ids
  /\ UNCHANGED << userScripts, contentScripts, job, tracked, timers, startup, bridgeVars,
                  restarts >>

-----------------------------------------------------------------------------
(* ensureMainWorldBridgeRegistration().  Without an answer to the listing  *)
(* it is as if there was none.                                             *)
BridgeVarsOnly == UNCHANGED << oneShots, restarts >>
Await(c, what) == ensuring' = [ensuring EXCEPT ![c] = what]

BridgeListed(c) ==
  /\ ensuring[c] = "listing"
  /\ Await(c, IF bridge = "none" THEN "registering"
              ELSE IF bridge = "current" /\ c # "installed" THEN "done" ELSE "unregistering")
  /\ BridgeVarsOnly /\ UNCHANGED << bridge, bridgeFailed, failures >>

BridgeListingFails(c) ==
  /\ ensuring[c] = "listing"
  /\ Fails
  /\ Await(c, "registering")
  /\ BridgeVarsOnly /\ UNCHANGED << bridge, bridgeFailed >>

(* A call that finds nothing to unregister throws, and that ends it. *)
BridgeUnregistered(c) ==
  /\ ensuring[c] \in {"unregistering", "unregistering again"}
  /\ bridge' = "none"
  /\ Await(c, IF bridge = "none" THEN "done"
              ELSE IF ensuring[c] = "unregistering" THEN "registering" ELSE "registering again")
  /\ BridgeVarsOnly /\ UNCHANGED << bridgeFailed, failures >>

(* Mutant: a bridge that exists already is good enough. *)
BridgeRegisteredOnce(c) ==
  /\ ensuring[c] \in {"registering", "registering again"}
  /\ bridge' = IF bridge = "none" THEN "current" ELSE bridge
  /\ Await(c, "done")
  /\ BridgeVarsOnly /\ UNCHANGED << bridgeFailed, failures >>

(* It exists already: another call has registered it, or the listing       *)
(* failed.  It is unregistered and registered once more.                   *)
BridgeRegistered(c) ==
  /\ ensuring[c] \in {"registering", "registering again"}
  /\ bridge' = IF bridge = "none" THEN "current" ELSE bridge
  /\ Await(c, IF bridge # "none" /\ ensuring[c] = "registering" THEN "unregistering again"
              ELSE "done")
  /\ BridgeVarsOnly /\ UNCHANGED << bridgeFailed, failures >>

BridgeFails(c) ==
  /\ ensuring[c] \notin {"no", "listing", "done"}
  /\ Fails
  /\ Await(c, "done")
  /\ bridgeFailed' = TRUE
  /\ BridgeVarsOnly /\ UNCHANGED bridge

(* runtime.onInstalled and onStartup, after the module was loaded *)
BridgeEvent(c) ==
  /\ ensuring[c] = "no"
  /\ Await(c, "listing")
  /\ BridgeVarsOnly /\ UNCHANGED << bridge, bridgeFailed, failures >>

-----------------------------------------------------------------------------
(* The background page stops and starts anew, perhaps with the browser,    *)
(* which forgets content scripts.  What it was about to register may be    *)
(* registered all the same.                                                *)
StartsAnew(cleanup) ==
  /\ restarts < MaxRestarts
  /\ restarts' = restarts + 1
  /\ \E done \in SUBSET {i \in Ids : job[i].state = "registering"} :
       /\ userScripts' = userScripts \cup {i \in done : job[i].kind = "user"}
       /\ contentScripts' \in {{}, contentScripts \cup {i \in done : job[i].kind = "content"}}
  /\ job' = [i \in Ids |-> IF job[i].state \in {"new", "registered"} THEN job[i]
                           ELSE [job[i] EXCEPT !.state = "ended"]]
  /\ tracked' = {}
  /\ timers' = {}
  /\ removing' = {}
  /\ startup' = [state |-> cleanup, ids |-> {}]
  /\ stranded' = {}
  /\ ensuring' = [c \in Causes |-> IF c = "load" THEN "listing" ELSE "no"]
  /\ bridgeFailed' = FALSE
  /\ UNCHANGED << bridge, failures >>

(* Mutant: the module does not clean up when it is loaded. *)
RestartUncleaned == StartsAnew("done")

Restart == StartsAnew("listing")

OneShotAnswers(i) == Cleaned(i) \/ TabKnown(i) \/ Registered(i)
BridgeAnswers(c) == BridgeListed(c) \/ BridgeUnregistered(c) \/ BridgeRegistered(c)

RegistryNext ==
  \/ StaleListed \/ StaleRemoved \/ StaleFails
  \/ \E i \in Ids : \/ \E kind \in {"user", "content"}, t \in TabIds : Register(i, kind, t)
                    \/ OneShotAnswers(i) \/ RegisterFails(i) \/ TimerFires(i)
  \/ \E t \in TabIds : TabDone(t)
  \/ \E ids \in removing : Unregistered(ids) \/ UnregisterFails(ids)
  \/ \E c \in Causes : \/ BridgeAnswers(c) \/ BridgeListingFails(c)
                       \/ BridgeFails(c) \/ BridgeEvent(c)
  \/ Restart

RegistrySpec == RegistryInit /\ [][RegistryNext]_registryVars

(* The browser answers, and timers fire while the background page lives. *)
RegistryFairness ==
  /\ WF_registryVars(StaleListed) /\ WF_registryVars(StaleRemoved)
  /\ \A i \in Ids : WF_registryVars(OneShotAnswers(i)) /\ WF_registryVars(TimerFires(i))
  /\ \A ids \in SUBSET Ids : WF_registryVars(Unregistered(ids))

FairRegistrySpec == RegistrySpec /\ RegistryFairness

-----------------------------------------------------------------------------
Registration == [state : {"new", "cleaning", "asking", "registering", "registered", "ended"},
                 kind : {"user", "content"}, tab : TabIds]

OneShotsTyped ==
  /\ userScripts \subseteq Ids
  /\ contentScripts \subseteq Ids
  /\ job \in [Ids -> Registration]
  /\ tracked \subseteq {i \in timers : job[i].state = "registered"}
  /\ timers \subseteq Ids
  /\ removing \subseteq SUBSET Ids
  /\ startup \in [state : {"listing", "unregistering", "done"}, ids : SUBSET Ids]
  /\ stranded \subseteq Ids

BridgeTyped ==
  /\ bridge \in {"none", "old", "current"}
  /\ ensuring \in [Causes -> {"no", "listing", "unregistering", "registering",
                              "unregistering again", "registering again", "done"}]
  /\ bridgeFailed \in BOOLEAN

(* Every variable has its type; what is remembered was registered by this  *)
(* background page and has its timer.                                      *)
RegistryTypeOK ==
  /\ OneShotsTyped
  /\ BridgeTyped
  /\ restarts \in 0 .. MaxRestarts
  /\ failures \in 0 .. MaxFailures

(* The cleanup at startup, which takes its list before it removes, never   *)
(* removes a script that this background page has registered.              *)
NewOnesSurviveStartup == startup.ids \cap tracked = {}

(* Every one-shot user script goes again: by its timer, with its tab, or   *)
(* at the next start when the background page stopped before; unless a     *)
(* call of unregister fails, its own or one shared with a content script.  *)
OneShotsEnd ==
  \A i \in Ids : i \in userScripts ~> i \notin userScripts \/ i \in stranded

(* When the calls that ensure the bridge are over, it is there and in its  *)
(* present form, however they overlap, and though a listing fails or the   *)
(* background page stops between removing and registering it.              *)
BridgeIsCurrent ==
  (\A c \in Causes : ensuring[c] \in {"no", "done"}) /\ ~bridgeFailed => bridge = "current"
=============================================================================
