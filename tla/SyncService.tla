----------------------------- MODULE SyncService -----------------------------
(***************************************************************************)
(* The life of the sync service (background/sync/base.js, index.js and     *)
(* state-machine.js): one status shared by all services, and any number of *)
(* overlapping calls of sync(), each of which authorizes, checks the       *)
(* status and merges.  What a merge does is left to SyncMerge.             *)
(*                                                                         *)
(* A step is a task of the event loop: from an event to the next await of  *)
(* a request, with the promise jobs in between.  Whoever finds the status  *)
(* somewhere its move is not allowed from throws, and the status stays.    *)
(*                                                                         *)
(* A call is                                                               *)
(*   free        not made                                                  *)
(*   asking      in _refresh, awaiting requestAuth                         *)
(*   refreshing  in _refresh, awaiting the new token                       *)
(*   asking2     in _refresh, awaiting the second requestAuth              *)
(*   syncing     in sync(), awaiting _sync()                               *)
(***************************************************************************)
EXTENDS Naturals, FiniteSets

CONSTANTS
  Services,   \* what `register` was called with
  Password,   \* the services configured with a password: no auth page
  None,       \* no service
  Calls       \* bound: calls of prepare and sync in progress at a time

ASSUME ServicesAssumption == Password \subseteq Services /\ None \notin Services

VARIABLES
  status,      \* state-machine.js `state.status`
  current,     \* option sync.current
  automatic,   \* option syncAutomatically
  token,       \* the services that have a token, or credentials
  session,     \* the services whose auth page is open
  finishing,   \* the services in handleAuth, awaiting finishAuth
  call,        \* the calls of prepare and sync
  timer,       \* whether syncLater is scheduled
  granted,     \* history: the calls whose own authorization succeeded
  revoked,     \* history: the services the user revoked, and whose token no
               \* late answer and no new authorization has brought back since
  late,        \* history: the calls that awaited a new token as it was revoked
  overlapped,  \* history: the status was taken away from what was in progress
  stalled      \* history: what should have called syncLater threw

vars == << status, current, automatic, token, session, finishing, call, timer,
           granted, revoked, late, overlapped, stalled >>

Statuses == {"idle", "unauthorized", "authorizing", "authorized", "initializing",
             "inProgress", "errorInit", "errorAuth", "error"}

(* Mutant: a sync in progress can be authorized again. *)
MovesMore == [
  idle         |-> {"initializing", "unauthorized"},
  initializing |-> {"authorized", "errorInit", "unauthorized"},
  unauthorized |-> {"authorizing"},
  authorizing  |-> {"errorAuth", "authorized", "unauthorized"},
  authorized   |-> {"unauthorized", "initializing", "inProgress"},
  inProgress   |-> {"authorized", "error", "initializing"},
  error        |-> {"unauthorized", "authorizing", "initializing"},
  errorInit    |-> {"unauthorized", "authorizing", "initializing"},
  errorAuth    |-> {"unauthorized", "authorizing"}]

(* stateMap *)
Moves == [
  idle         |-> {"initializing", "unauthorized"},
  initializing |-> {"authorized", "errorInit", "unauthorized"},
  unauthorized |-> {"authorizing"},
  authorizing  |-> {"errorAuth", "authorized", "unauthorized"},
  authorized   |-> {"unauthorized", "initializing", "inProgress"},
  inProgress   |-> {"authorized", "error"},
  error        |-> {"unauthorized", "authorizing", "initializing"},
  errorInit    |-> {"unauthorized", "authorizing", "initializing"},
  errorAuth    |-> {"unauthorized", "authorizing"}]

MayMove(from, to) == to \in Moves[from]
Moved(from, to)   == IF MayMove(from, to) THEN to ELSE from

(* What follows a call: prepare alone, sync alone (setConfig), or sync and *)
(* then syncLater.                                                         *)
Purposes == {"prepare", "sync", "syncLater"}
Free     == [pc |-> "free", service |-> None, purpose |-> "prepare"]
CallStates == {Free} \cup [pc : {"asking", "refreshing", "asking2", "syncing"},
                           service : Services, purpose : Purposes]
Busy(p)  == call[p].pc # "free"

(* A call goes on to another await, or ends. *)
Awaits(p, pc) ==
  [call EXCEPT ![p] = [pc |-> pc, service |-> call[p].service, purpose |-> call[p].purpose]]
Ended(p) == [call EXCEPT ![p] = Free]

Syncing  == {p \in Calls : call[p].pc = "syncing"}
Asking   == {p \in Calls : call[p].pc \in {"asking", "refreshing", "asking2"}}

Init ==
  /\ status = "idle"
  /\ current \in Services \cup {None}
  /\ automatic \in BOOLEAN
  /\ token \in SUBSET Services
  /\ session = {}
  /\ finishing = {}
  /\ call = [p \in Calls |-> Free]
  /\ timer = FALSE
  /\ granted = {}
  /\ revoked = {}
  /\ late = {}
  /\ overlapped = FALSE
  /\ stalled = FALSE

-----------------------------------------------------------------------------
(* prepare(), or sync() with what follows if it need not ask for           *)
(* authorization, called with the service s, the status st and the tokens  *)
(* tok, `scheduled` telling whether syncLater is.  prepare() throws at once *)
(* when there is no token and the status may not become unauthorized;      *)
(* sync() survives that, autoSync() does not.                              *)
StartCall(p, s, purpose, st, tok, scheduled) ==
  LET asks   == s \in tok /\ MayMove(st, "initializing")
      throws == s \notin tok /\ ~MayMove(st, "unauthorized")
      later  == (purpose = "syncLater" /\ ~asks) \/ (purpose = "prepare" /\ ~throws)
  IN /\ ~Busy(p)
     /\ status' = Moved(st, IF s \in tok THEN "initializing" ELSE "unauthorized")
     /\ call' = [call EXCEPT ![p] =
          IF asks THEN [pc |-> "asking", service |-> s, purpose |-> purpose] ELSE Free]
     /\ granted' = granted \ {p}
     /\ timer' = (scheduled \/ later)
     /\ stalled' = IF purpose = "prepare" THEN throws ELSE stalled /\ ~later

(* autoSync(): sync, or with automatic sync switched off prepare only. *)
AutoSync(p, s, st, tok, scheduled) ==
  \/ /\ s # None
     /\ StartCall(p, s, IF automatic THEN "syncLater" ELSE "prepare", st, tok, scheduled)
  \/ /\ s = None
     /\ status' = st
     /\ timer' = scheduled
     /\ UNCHANGED << call, granted, stalled >>

(* Without a token, a call takes the status away from an authorization in  *)
(* progress.                                                               *)
TakeAway(tok) ==
  overlapped' = (overlapped \/ /\ current # None /\ current \notin tok
                               /\ status \in {"initializing", "authorizing"})

(* initialize(): as the options are read, and when sync.current changes.   *)
(* The status starts anew, whatever is in progress.                        *)
Initialize(p, s) ==
  /\ s # current \/ status = "idle"
  /\ current' = s
  /\ overlapped' = (overlapped \/ finishing # {} \/ \E q \in Calls : Busy(q))
  /\ AutoSync(p, s, "idle", token, timer)
  /\ UNCHANGED << automatic, token, session, finishing, revoked, late >>

SetAutomatic ==
  /\ automatic' = ~automatic
  /\ UNCHANGED << status, current, token, session, finishing, call, timer,
                  granted, revoked, late, overlapped, stalled >>

(* The timer of syncLater fires. *)
TimerFires(p) ==
  /\ timer
  /\ AutoSync(p, current, status, token, FALSE)
  /\ TakeAway(token)
  /\ UNCHANGED << current, automatic, token, session, finishing, revoked, late >>

(* getService(): nothing before initialize(), nor when sync is switched off. *)
HasService == current # None /\ status # "idle"

(* SyncStart: the user asks for a sync. *)
SyncStart(p) ==
  /\ HasService
  /\ StartCall(p, current, "syncLater", status, token, timer)
  /\ TakeAway(token)
  /\ UNCHANGED << current, automatic, token, session, finishing, revoked, late >>

(* setConfig: the credentials of a service with a password, good or not,   *)
(* and a sync that syncLater does not follow.                              *)
SetConfig(p, valid) ==
  /\ HasService
  /\ token' = IF current \notin Password THEN token
              ELSE IF valid THEN token \cup {current} ELSE token \ {current}
  /\ StartCall(p, current, "sync", status, token', timer)
  /\ TakeAway(token')
  /\ UNCHANGED << current, automatic, session, finishing, revoked, late >>

-----------------------------------------------------------------------------
(* authorize() opens the page of the service. *)
Authorize ==
  /\ HasService /\ current \notin Password
  /\ session' = session \cup {current}
  /\ UNCHANGED << status, current, automatic, token, finishing, call, timer,
                  granted, revoked, late, overlapped, stalled >>

(* The page redirects: matchAuth consumes the session, and handleAuth      *)
(* starts unless access was denied or the status does not allow it.  Bound: *)
(* one handleAuth per service.                                             *)
Redirect ==
  /\ current \in session \ finishing
  /\ session' = session \ {current}
  /\ \/ UNCHANGED << status, finishing >>
     \/ /\ MayMove(status, "authorizing")
        /\ status' = "authorizing"
        /\ finishing' = finishing \cup {current}
  /\ UNCHANGED << current, automatic, token, call, timer, granted, revoked, late, overlapped,
                  stalled >>

(* handleAuth past finishAuth: the token is stored, and the status allows  *)
(* to go on or not.                                                        *)
FinishAuth(p, s) ==
  /\ s \in finishing
  /\ finishing' = finishing \ {s}
  /\ token' = token \cup {s}
  /\ revoked' = revoked \ {s}
  /\ \/ /\ MayMove(status, "authorized")
        /\ AutoSync(p, current, "authorized", token', timer)
     \/ /\ ~MayMove(status, "authorized")
        /\ UNCHANGED << status, call, timer, granted, stalled >>
  /\ UNCHANGED << current, automatic, session, late, overlapped >>

(* Mutant: the failure is not shown. *)
FinishAuthFailsSilently(s) ==
  /\ s \in finishing
  /\ finishing' = finishing \ {s}
  /\ UNCHANGED << status, current, automatic, token, session, call, timer, granted,
                  revoked, late, overlapped, stalled >>

(* handleAuth when finishAuth fails. *)
FinishAuthFails(s) ==
  /\ s \in finishing
  /\ finishing' = finishing \ {s}
  /\ status' = Moved(status, "errorAuth")
  /\ UNCHANGED << current, automatic, token, session, call, timer, granted,
                  revoked, late, overlapped, stalled >>

(* revoke(): the tokens are deleted and prepare() finds none.  A call that *)
(* awaits a new token is not told.                                         *)
Revoke ==
  /\ HasService /\ current \notin Password
  /\ token' = token \ {current}
  /\ revoked' = revoked \cup {current}
  /\ late' = late \cup {q \in Calls : call[q].pc = "refreshing" /\ call[q].service = current}
  /\ status' = Moved(status, "unauthorized")
  /\ TakeAway(token')
  /\ UNCHANGED << current, automatic, session, finishing, call, timer, granted, stalled >>

-----------------------------------------------------------------------------
(* Mutant: the status is not looked at. *)
SettleCurrentOnly(p, to) ==
  LET goesOn  == call[p].purpose # "prepare" /\ current = call[p].service
      follows == call[p].purpose = "syncLater" /\ ~goesOn
  IN /\ status' = IF goesOn THEN "inProgress" ELSE Moved(status, to)
     /\ call' = IF goesOn THEN Awaits(p, "syncing") ELSE Ended(p)
     /\ timer' = (timer \/ follows)
     /\ stalled' = (stalled /\ ~follows)

(* Mutant: syncLater follows only a sync that took place. *)
SettleReturns(p, to) ==
  LET st     == Moved(status, to)
      goesOn == /\ call[p].purpose # "prepare"
                /\ st = "authorized"
                /\ current = call[p].service
  IN /\ status' = IF goesOn THEN "inProgress" ELSE st
     /\ call' = IF goesOn THEN Awaits(p, "syncing") ELSE Ended(p)
     /\ UNCHANGED << timer, stalled >>

(* _refresh is over, and sync() goes on: only an authorized, current       *)
(* service is synced, and syncLater follows otherwise.                     *)
Settle(p, to) ==
  LET st      == Moved(status, to)
      goesOn  == /\ call[p].purpose # "prepare"
                 /\ st = "authorized"
                 /\ current = call[p].service
      follows == call[p].purpose = "syncLater" /\ ~goesOn
  IN /\ status' = IF goesOn THEN "inProgress" ELSE st
     /\ call' = IF goesOn THEN Awaits(p, "syncing") ELSE Ended(p)
     /\ timer' = (timer \/ follows)
     /\ stalled' = (stalled /\ ~follows)

(* Mutant: the token is refreshed although the user revoked it. *)
RequestAuthAlwaysRefreshes(p) ==
  /\ call[p].pc \in {"asking", "asking2"}
  /\ \/ /\ Settle(p, "authorized")
        /\ granted' = granted \cup {p}
     \/ /\ call[p].pc = "asking2" \/ call[p].service \in Password
        /\ Settle(p, "errorInit")
        /\ UNCHANGED granted
     \/ /\ call[p].pc = "asking" /\ call[p].service \notin Password
        /\ call' = Awaits(p, "refreshing")
        /\ UNCHANGED << status, granted, timer, stalled >>
  /\ UNCHANGED << current, automatic, token, session, finishing, revoked, late, overlapped >>

(* requestAuth answers.  INIT_RETRY and INIT_ERROR are the same number, so *)
(* that the first error always leads to a refresh of the token; a service  *)
(* with a password throws instead.                                         *)
RequestAuthAnswers(p) ==
  LET s == call[p].service
  IN /\ call[p].pc \in {"asking", "asking2"}
     /\ \/ /\ Settle(p, "authorized")
           /\ granted' = granted \cup {p}
        \/ /\ s \notin Password
           /\ Settle(p, "unauthorized")
           /\ UNCHANGED granted
        \/ /\ call[p].pc = "asking2" \/ s \in Password \/ s \notin token
           /\ Settle(p, "errorInit")
           /\ UNCHANGED granted
        \/ /\ call[p].pc = "asking" /\ s \in token \ Password
           /\ call' = Awaits(p, "refreshing")
           /\ UNCHANGED << status, granted, timer, stalled >>
     /\ UNCHANGED << current, automatic, token, session, finishing, revoked, late, overlapped >>

(* Mutant: the token is stored for the service that is current now. *)
RefreshStoresForCurrent(p) ==
  /\ call[p].pc = "refreshing"
  /\ late' = late \ {p}
  /\ \/ /\ token' = token \cup {current}
        /\ revoked' = IF p \in late THEN revoked \ {call[p].service} ELSE revoked
        /\ call' = Awaits(p, "asking2")
        /\ UNCHANGED << status, timer, stalled >>
     \/ /\ Settle(p, "errorInit")
        /\ UNCHANGED << token, revoked >>
  /\ UNCHANGED << current, automatic, session, finishing, granted, overlapped >>

(* Mutant: a failed refresh leaves the status alone. *)
RefreshFailsSilently(p) ==
  /\ call[p].pc = "refreshing"
  /\ late' = late \ {p}
  /\ \/ /\ token' = token \cup {call[p].service}
        /\ call' = Awaits(p, "asking2")
     \/ /\ call' = Ended(p)
        /\ UNCHANGED token
  /\ UNCHANGED << status, current, automatic, session, finishing, timer, granted,
                  revoked, overlapped, stalled >>

(* `authorized` answers with a new token, or fails. *)
RefreshAnswers(p) ==
  /\ call[p].pc = "refreshing"
  /\ late' = late \ {p}
  /\ \/ /\ token' = token \cup {call[p].service}
        /\ revoked' = IF p \in late THEN revoked \ {call[p].service} ELSE revoked
        /\ call' = Awaits(p, "asking2")
        /\ UNCHANGED << status, timer, stalled >>
     \/ /\ Settle(p, "errorInit")
        /\ UNCHANGED << token, revoked >>
  /\ UNCHANGED << current, automatic, session, finishing, granted, overlapped >>

(* _sync() is over.  If it failed, or if the status has been moved away    *)
(* from inProgress, sync() rejects and syncLater does not follow.          *)
SyncEnds(p, success) ==
  LET follows == call[p].purpose = "syncLater"
      done    == success /\ MayMove(status, "authorized")
  IN /\ call[p].pc = "syncing"
     /\ status' = Moved(status, IF success THEN "authorized" ELSE "error")
     /\ call' = Ended(p)
     /\ timer' = (timer \/ (follows /\ done))
     /\ stalled' = IF follows THEN ~done ELSE stalled
     /\ UNCHANGED << current, automatic, token, session, finishing, granted, revoked, late,
                     overlapped >>

Next ==
  \/ \E p \in Calls, s \in Services \cup {None} : Initialize(p, s)
  \/ SetAutomatic
  \/ \E p \in Calls : TimerFires(p) \/ SyncStart(p)
  \/ \E p \in Calls, valid \in BOOLEAN : SetConfig(p, valid)
  \/ Authorize
  \/ Redirect
  \/ \E p \in Calls, s \in Services : FinishAuth(p, s)
  \/ \E s \in Services : FinishAuthFails(s)
  \/ Revoke
  \/ \E p \in Calls : RequestAuthAnswers(p) \/ RefreshAnswers(p)
  \/ \E p \in Calls, success \in BOOLEAN : SyncEnds(p, success)

Spec == Init /\ [][Next]_vars

(* Requests are answered, and promises that settled wake who awaits them. *)
Fairness ==
  /\ \A p \in Calls :
       /\ WF_vars(RequestAuthAnswers(p) \/ RefreshAnswers(p))
       /\ WF_vars(\E success \in BOOLEAN : SyncEnds(p, success))
  /\ \A s \in Services : WF_vars(FinishAuthFails(s) \/ \E p \in Calls : FinishAuth(p, s))

FairSpec == Spec /\ Fairness

-----------------------------------------------------------------------------
(* Every variable has its type. *)
TypeOK ==
  /\ status \in Statuses
  /\ current \in Services \cup {None}
  /\ automatic \in BOOLEAN
  /\ token \in SUBSET Services
  /\ session \in SUBSET Services
  /\ finishing \in SUBSET Services
  /\ call \in [Calls -> CallStates]
  /\ timer \in BOOLEAN
  /\ granted \in SUBSET Calls
  /\ revoked \in SUBSET Services
  /\ late \in SUBSET Calls
  /\ overlapped \in BOOLEAN
  /\ stalled \in BOOLEAN

(* A status of activity belongs to someone who will end it, even after the *)
(* status was reset under other calls: the options page cannot show        *)
(* "Sync in progress" with nothing in progress.                            *)
BusyStatusHasOwner ==
  /\ status = "initializing" => Asking # {}
  /\ status = "inProgress"   => Syncing # {}
  /\ status = "authorizing"  => finishing # {}

(* Unless the status was reset under it, a sync runs alone, its status is  *)
(* inProgress, and its own authorization or a handleAuth preceded it.      *)
SyncRunsAlone ==
  ~overlapped => \A p \in Syncing : /\ status = "inProgress"
                                    /\ Syncing = {p}
                                    /\ call[p].service = current

(* A sync is preceded by an authorization of its own: a call that finds    *)
(* the status authorized by another one does not ride on it.               *)
SyncIsAuthorized == ~overlapped => Syncing \subseteq granted

(* A token that the user revoked comes back only by an answer that was     *)
(* awaited as it was revoked (the code lets it in) or by a handleAuth that *)
(* succeeds: a call under way at the time that asks only afterwards, or    *)
(* whose late answer fails, finds nothing to refresh.                      *)
RevokeSticks == revoked \cap token = {}

(* Automatic sync goes on: the next one is scheduled, or a call that will  *)
(* schedule it is in progress, unless the last one threw.                  *)
NextSyncIsScheduled ==
  current # None /\ status # "idle" =>
    timer \/ stalled \/ \E p \in Calls : Busy(p) /\ call[p].purpose = "syncLater"

(* A status of activity gives way to another one. *)
StatusSettles ==
  \A st \in {"initializing", "inProgress", "authorizing"} : status = st ~> status # st
=============================================================================
