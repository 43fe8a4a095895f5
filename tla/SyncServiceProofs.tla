-------------------------- MODULE SyncServiceProofs --------------------------
(***************************************************************************)
(* Proofs about SyncService, for any services and any number of calls.     *)
(***************************************************************************)
EXTENDS SyncService, TLAPS

(* stateMap, one line per status. *)
LEMMA MovesList ==
  /\ \A to : MayMove("idle", to)         <=> to \in {"initializing", "unauthorized"}
  /\ \A to : MayMove("initializing", to) <=> to \in {"authorized", "errorInit", "unauthorized"}
  /\ \A to : MayMove("unauthorized", to) <=> to \in {"authorizing"}
  /\ \A to : MayMove("authorizing", to)  <=> to \in {"errorAuth", "authorized", "unauthorized"}
  /\ \A to : MayMove("authorized", to)   <=> to \in {"unauthorized", "initializing", "inProgress"}
  /\ \A to : MayMove("inProgress", to)   <=> to \in {"authorized", "error"}
  /\ \A to : MayMove("error", to)        <=> to \in {"unauthorized", "authorizing", "initializing"}
  /\ \A to : MayMove("errorInit", to)    <=> to \in {"unauthorized", "authorizing", "initializing"}
  /\ \A to : MayMove("errorAuth", to)    <=> to \in {"unauthorized", "authorizing"}
BY DEF MayMove, Moves

-----------------------------------------------------------------------------
LEMMA BusyCall ==
  ASSUME TypeOK, NEW p \in Calls, Busy(p)
  PROVE  /\ call[p] \in [pc : {"asking", "refreshing", "asking2", "syncing"},
                        service : Services, purpose : Purposes]
         /\ \A pc \in {"asking", "refreshing", "asking2", "syncing"} :
              Awaits(p, pc) \in [Calls -> CallStates]
         /\ Ended(p) \in [Calls -> CallStates]
<1>1. call \in [Calls -> CallStates]
  BY DEF TypeOK
<1>2. call[p] \in [pc : {"asking", "refreshing", "asking2", "syncing"},
                  service : Services, purpose : Purposes]
  BY <1>1 DEF Busy, Free, CallStates
<1>3. Free \in CallStates
  BY DEF CallStates
<1>4. \A pc \in {"asking", "refreshing", "asking2", "syncing"} :
        [pc |-> pc, service |-> call[p].service, purpose |-> call[p].purpose] \in CallStates
  BY <1>2 DEF CallStates
<1>5. QED  BY <1>1, <1>2, <1>3, <1>4 DEF Awaits, Ended

LEMMA MovedType ==
  ASSUME NEW st \in Statuses, NEW to \in Statuses
  PROVE  Moved(st, to) \in Statuses
BY DEF Moved

LEMMA StartCallType ==
  ASSUME TypeOK, NEW p \in Calls, NEW s \in Services, NEW purpose \in Purposes,
         NEW st \in Statuses, NEW tok, NEW scheduled \in BOOLEAN,
         StartCall(p, s, purpose, st, tok, scheduled)
  PROVE  /\ status' \in Statuses
         /\ call' \in [Calls -> CallStates]
         /\ granted' \in SUBSET Calls
         /\ timer' \in BOOLEAN
         /\ stalled' \in BOOLEAN
<1>1. status' \in Statuses
  <2>1. {"initializing", "unauthorized"} \subseteq Statuses
    BY DEF Statuses
  <2>2. QED  BY <2>1, MovedType DEF StartCall
<1>2. call' \in [Calls -> CallStates]
  <2>1. Free \in CallStates
    BY DEF CallStates
  <2>2. [pc |-> "asking", service |-> s, purpose |-> purpose] \in CallStates
    BY DEF CallStates
  <2>3. call \in [Calls -> CallStates]
    BY DEF TypeOK
  <2>4. QED  BY <2>1, <2>2, <2>3 DEF StartCall
<1>3. granted' \in SUBSET Calls
  BY DEF StartCall, TypeOK
<1>4. timer' \in BOOLEAN
  BY Zenon DEF StartCall, TypeOK
<1>5. stalled' \in BOOLEAN
  <2>1. CASE purpose = "prepare"
    BY <2>1, Zenon DEF StartCall, TypeOK
  <2>2. CASE purpose # "prepare"
    BY <2>2, Zenon DEF StartCall, TypeOK
  <2>3. QED  BY <2>1, <2>2
<1>6. QED  BY <1>1, <1>2, <1>3, <1>4, <1>5

LEMMA AutoSyncType ==
  ASSUME TypeOK, NEW p \in Calls, NEW s \in Services \cup {None},
         NEW st \in Statuses, NEW tok, NEW scheduled \in BOOLEAN,
         AutoSync(p, s, st, tok, scheduled)
  PROVE  /\ status' \in Statuses
         /\ call' \in [Calls -> CallStates]
         /\ granted' \in SUBSET Calls
         /\ timer' \in BOOLEAN
         /\ stalled' \in BOOLEAN
<1>1. CASE s # None
  <2>1. PICK purpose \in Purposes : StartCall(p, s, purpose, st, tok, scheduled)
    BY <1>1 DEF AutoSync, Purposes
  <2>2. s \in Services
    BY <1>1
  <2>3. QED  BY <2>1, <2>2, StartCallType
<1>2. CASE s = None
  BY <1>2 DEF AutoSync, TypeOK, CallStates
<1>3. QED  BY <1>1, <1>2

LEMMA SettleType ==
  ASSUME TypeOK, NEW p \in Calls, Busy(p), NEW to \in Statuses, Settle(p, to)
  PROVE  /\ status' \in Statuses
         /\ call' \in [Calls -> CallStates]
         /\ timer' \in BOOLEAN
         /\ stalled' \in BOOLEAN
<1>1. status' \in Statuses
  <2>1. "inProgress" \in Statuses /\ Moved(status, to) \in Statuses
    BY MovedType DEF Statuses, TypeOK
  <2>2. QED  BY <2>1 DEF Settle
<1>2. call' \in [Calls -> CallStates]
  BY BusyCall DEF Settle
<1>3. timer' \in BOOLEAN
  BY Zenon DEF Settle, TypeOK
<1>4. stalled' \in BOOLEAN
  BY Zenon DEF Settle, TypeOK
<1>5. QED  BY <1>1, <1>2, <1>3, <1>4

LEMMA InitType == Init => TypeOK
<1> SUFFICES ASSUME Init PROVE TypeOK
  OBVIOUS
<1>1. call \in [Calls -> CallStates]
  BY DEF Init, CallStates
<1>2. QED  BY <1>1 DEF Init, TypeOK, Statuses

LEMMA NextType == TypeOK /\ [Next]_vars => TypeOK'
<1> SUFFICES ASSUME TypeOK, [Next]_vars PROVE TypeOK'
  OBVIOUS
<1>0. /\ {"idle", "authorized", "unauthorized", "initializing", "authorizing",
          "errorAuth", "errorInit", "error", "inProgress"} \subseteq Statuses
      /\ call \in [Calls -> CallStates]
  BY DEF Statuses, TypeOK
<1>1. ASSUME NEW p \in Calls, NEW s \in Services \cup {None}, Initialize(p, s)
      PROVE  TypeOK'
  <2>1. overlapped' \in BOOLEAN
    BY <1>1, Zenon DEF Initialize, TypeOK
  <2>2. "idle" \in Statuses /\ timer \in BOOLEAN /\ current' \in Services \cup {None}
    BY <1>0, <1>1 DEF Initialize, TypeOK
  <2>3. /\ status' \in Statuses
        /\ call' \in [Calls -> CallStates]
        /\ granted' \in SUBSET Calls
        /\ timer' \in BOOLEAN
        /\ stalled' \in BOOLEAN
    BY <1>1, <2>2, AutoSyncType DEF Initialize
  <2>4. UNCHANGED << automatic, token, session, finishing, revoked, late >>
    BY <1>1 DEF Initialize
  <2>5. QED
    BY <2>1, <2>2, <2>3, <2>4 DEF TypeOK
<1>2. CASE SetAutomatic
  BY <1>2 DEF SetAutomatic, TypeOK
<1>3. ASSUME NEW tok, TakeAway(tok)
      PROVE  overlapped' \in BOOLEAN
  BY <1>3, Zenon DEF TakeAway, TypeOK
<1>4. ASSUME NEW p \in Calls, TimerFires(p)
      PROVE  TypeOK'
  <2>1. overlapped' \in BOOLEAN
    BY <1>3, <1>4 DEF TimerFires
  <2>2. status \in Statuses /\ current \in Services \cup {None}
    BY DEF TypeOK
  <2>3. QED
    BY <1>4, <2>1, <2>2, AutoSyncType DEF TimerFires, TypeOK
<1>5. ASSUME NEW p \in Calls, SyncStart(p)
      PROVE  TypeOK'
  <2>1. overlapped' \in BOOLEAN
    BY <1>3, <1>5 DEF SyncStart
  <2>2. /\ status \in Statuses /\ current \in Services
        /\ timer \in BOOLEAN /\ "syncLater" \in Purposes
    BY <1>5 DEF SyncStart, HasService, TypeOK, Purposes
  <2>3. QED
    BY <1>5, <2>1, <2>2, StartCallType DEF SyncStart, TypeOK
<1>6. ASSUME NEW p \in Calls, NEW valid \in BOOLEAN, SetConfig(p, valid)
      PROVE  TypeOK'
  <2>1. token' \in SUBSET Services
    BY <1>6 DEF SetConfig, TypeOK, HasService
  <2>2. overlapped' \in BOOLEAN
    BY <1>3, <1>6 DEF SetConfig
  <2>3. /\ status \in Statuses /\ current \in Services
        /\ timer \in BOOLEAN /\ "sync" \in Purposes
    BY <1>6 DEF SetConfig, HasService, TypeOK, Purposes
  <2>4. QED
    BY <1>6, <2>1, <2>2, <2>3, StartCallType DEF SetConfig, TypeOK
<1>7. CASE Authorize
  BY <1>7 DEF Authorize, HasService, TypeOK
<1>8. CASE Redirect
  BY <1>0, <1>8 DEF Redirect, TypeOK
<1>9. ASSUME NEW p \in Calls, NEW s \in Services, FinishAuth(p, s)
      PROVE  TypeOK'
  <2>1. CASE MayMove(status, "authorized")
    <3>1. AutoSync(p, current, "authorized", token', timer)
      BY <1>9, <2>1 DEF FinishAuth
    <3>2. current \in Services \cup {None} /\ timer \in BOOLEAN
      BY DEF TypeOK
    <3>3. /\ status' \in Statuses
          /\ call' \in [Calls -> CallStates]
          /\ granted' \in SUBSET Calls
          /\ timer' \in BOOLEAN
          /\ stalled' \in BOOLEAN
      BY <1>0, <3>1, <3>2, AutoSyncType
    <3>4. QED  BY <1>9, <3>3 DEF FinishAuth, TypeOK
  <2>2. CASE ~MayMove(status, "authorized")
    BY <1>9, <2>2 DEF FinishAuth, TypeOK
  <2>3. QED  BY <2>1, <2>2
<1>10. ASSUME NEW s \in Services, FinishAuthFails(s)
       PROVE  TypeOK'
  BY <1>0, <1>10, MovedType DEF FinishAuthFails, TypeOK
<1>11. CASE Revoke
  <2>1. revoked' \in SUBSET Services /\ late' \in SUBSET Calls
    BY <1>11 DEF Revoke, HasService, TypeOK
  <2>2. overlapped' \in BOOLEAN
    BY <1>3, <1>11 DEF Revoke
  <2>3. status' \in Statuses
    BY <1>0, <1>11, MovedType DEF Revoke, TypeOK
  <2>4. QED
    BY <1>11, <2>1, <2>2, <2>3 DEF Revoke, TypeOK
<1>12. ASSUME NEW p \in Calls, RequestAuthAnswers(p)
       PROVE  TypeOK'
  <2> Busy(p)
    BY <1>12 DEF RequestAuthAnswers, Busy
  <2>1. /\ status' \in Statuses
        /\ call' \in [Calls -> CallStates]
        /\ timer' \in BOOLEAN
        /\ stalled' \in BOOLEAN
        /\ granted' \in SUBSET Calls
    <3>1. CASE \E to \in {"authorized", "unauthorized", "errorInit"} :
                 Settle(p, to) /\ granted' \in {granted, granted \cup {p}}
      BY <1>0, <3>1, SettleType DEF TypeOK
    <3>2. CASE /\ call' = Awaits(p, "refreshing")
               /\ UNCHANGED << status, granted, timer, stalled >>
      BY <3>2, BusyCall DEF TypeOK
    <3>3. QED  BY <1>12, <3>1, <3>2 DEF RequestAuthAnswers
  <2>2. QED  BY <1>12, <2>1 DEF RequestAuthAnswers, TypeOK
<1>13. ASSUME NEW p \in Calls, RefreshAnswers(p)
       PROVE  TypeOK'
  <2> Busy(p)
    BY <1>13 DEF RefreshAnswers, Busy
  <2>1. CASE Settle(p, "errorInit") /\ UNCHANGED token
    BY <1>0, <1>13, <2>1, SettleType DEF RefreshAnswers, TypeOK
  <2>2. CASE /\ token' = token \cup {call[p].service}
             /\ call' = Awaits(p, "asking2")
             /\ UNCHANGED << status, timer, stalled >>
    <3>1. call' \in [Calls -> CallStates]
      BY <2>2, BusyCall
    <3>2. token' \in SUBSET Services
      BY <2>2, BusyCall DEF TypeOK
    <3>3. QED  BY <1>13, <2>2, <3>1, <3>2 DEF RefreshAnswers, TypeOK
  <2>3. QED  BY <1>13, <2>1, <2>2 DEF RefreshAnswers
<1>14. ASSUME NEW p \in Calls, NEW success \in BOOLEAN, SyncEnds(p, success)
       PROVE  TypeOK'
  <2>1. status' \in Statuses
    BY <1>0, <1>14, MovedType DEF SyncEnds, TypeOK
  <2>2. timer' \in BOOLEAN
    BY <1>14, Zenon DEF SyncEnds, TypeOK
  <2>3. stalled' \in BOOLEAN
    BY <1>14, Zenon DEF SyncEnds, TypeOK
  <2>4. call' \in [Calls -> CallStates]
    BY <1>14, BusyCall DEF SyncEnds, Busy
  <2>5. QED  BY <1>14, <2>1, <2>2, <2>3, <2>4 DEF SyncEnds, TypeOK
<1>15. CASE UNCHANGED vars
  BY <1>15 DEF vars, TypeOK
<1>16. QED
  BY <1>1, <1>2, <1>4, <1>5, <1>6, <1>7, <1>8, <1>9, <1>10, <1>11, <1>12, <1>13, <1>14, <1>15
     DEF Next

(* The state of base.js and state-machine.js keeps its shape. *)
THEOREM TypeCorrect == Spec => []TypeOK
<1>1. QED  BY InitType, NextType, PTL DEF Spec

-----------------------------------------------------------------------------
(* What a call of prepare or sync does as it begins with the status st:    *)
(* it asks for authorization, or nothing comes of it but a status.         *)
Begins(p, s, st, tok) ==
  /\ \/ /\ ~Busy(p) /\ s \in tok /\ MayMove(st, "initializing")
        /\ status' = "initializing"
        /\ \E purpose \in Purposes :
             call' = [call EXCEPT ![p] = [pc |-> "asking", service |-> s, purpose |-> purpose]]
     \/ /\ UNCHANGED call
        /\ \/ status' = st
           \/ s \notin tok /\ status' = "unauthorized" /\ MayMove(st, "unauthorized")
  /\ \A q \in Calls : Busy(q) /\ q \in granted => q \in granted'

LEMMA StartCallBegins ==
  ASSUME TypeOK, NEW p \in Calls, NEW s \in Services, NEW purpose \in Purposes,
         NEW st, NEW tok, NEW scheduled, StartCall(p, s, purpose, st, tok, scheduled)
  PROVE  Begins(p, s, st, tok)
<1>1. \A q \in Calls : Busy(q) /\ q \in granted => q \in granted'
  BY DEF StartCall
<1>2. CASE s \in tok /\ MayMove(st, "initializing")
  <2>1. status' = "initializing"
    BY <1>2 DEF StartCall, Moved
  <2>2. call' = [call EXCEPT ![p] = [pc |-> "asking", service |-> s, purpose |-> purpose]]
    BY <1>2 DEF StartCall
  <2>3. ~Busy(p)
    BY DEF StartCall
  <2>4. QED  BY <1>1, <1>2, <2>1, <2>2, <2>3, Zenon DEF Begins
<1>3. CASE ~(s \in tok /\ MayMove(st, "initializing"))
  <2>1. call' = [call EXCEPT ![p] = Free] /\ call[p] = Free /\ call \in [Calls -> CallStates]
    BY <1>3 DEF StartCall, Busy, Free, CallStates, TypeOK
  <2>2. UNCHANGED call
    BY <2>1
  <2>3. \/ status' = st
        \/ s \notin tok /\ status' = "unauthorized" /\ MayMove(st, "unauthorized")
    BY <1>3, Zenon DEF StartCall, Moved
  <2>4. QED  BY <1>1, <2>2, <2>3, Zenon DEF Begins
<1>4. QED  BY <1>2, <1>3

LEMMA AutoSyncBegins ==
  ASSUME TypeOK, NEW p \in Calls, NEW s \in Services \cup {None},
         NEW st, NEW tok, NEW scheduled, AutoSync(p, s, st, tok, scheduled)
  PROVE  Begins(p, s, st, tok)
<1>1. CASE s # None
  <2>1. PICK purpose \in Purposes : StartCall(p, s, purpose, st, tok, scheduled)
    BY <1>1 DEF AutoSync, Purposes
  <2>2. s \in Services
    BY <1>1
  <2>3. QED  BY <2>1, <2>2, StartCallBegins
<1>2. CASE s = None
  BY <1>2 DEF AutoSync, Begins
<1>3. QED  BY <1>1, <1>2

(* A call that asked for authorization goes on to sync, or ends. *)
Settles(p, to) ==
  \/ /\ call[p].service = current /\ Moved(status, to) = "authorized"
     /\ status' = "inProgress"
     /\ call' = Awaits(p, "syncing")
  \/ /\ status' = Moved(status, to)
     /\ call' = Ended(p)

LEMMA SettleSettles ==
  ASSUME NEW p \in Calls, NEW to, Settle(p, to)
  PROVE  Settles(p, to)
BY Zenon DEF Settle, Settles

LEMMA CallAt ==
  ASSUME TypeOK, NEW p \in Calls, NEW c
  PROVE  /\ [call EXCEPT ![p] = c][p] = c
         /\ \A q \in Calls \ {p} : [call EXCEPT ![p] = c][q] = call[q]
BY DEF TypeOK

(* A call that waits for an answer, whatever becomes of it, changes alone. *)
LEMMA Answered ==
  ASSUME TypeOK, NEW p \in Calls,
         \/ \E pc : call' = Awaits(p, pc)
         \/ call' = Ended(p)
  PROVE  \A q \in Calls \ {p} : call'[q] = call[q]
BY DEF Awaits, Ended, TypeOK

-----------------------------------------------------------------------------
LEMMA BeginsKeepsOwner ==
  ASSUME TypeOK, BusyStatusHasOwner, NEW p \in Calls, NEW s, NEW st, NEW tok,
         Begins(p, s, st, tok),
         st \in {"idle", "authorized"} \/ (st = status /\ UNCHANGED finishing)
  PROVE  BusyStatusHasOwner'
<1>1. CASE UNCHANGED call
  <2>1. Asking' = Asking /\ Syncing' = Syncing
    BY <1>1 DEF Asking, Syncing
  <2>2. status' \in {st, "unauthorized", "initializing"}
    BY DEF Begins
  <2>3. CASE status' = "initializing" /\ st # "initializing"
    <3>1. PICK purpose \in Purposes :
            call' = [call EXCEPT ![p] = [pc |-> "asking", service |-> s, purpose |-> purpose]]
      BY <2>3 DEF Begins
    <3>2. p \in Asking'
      BY <3>1, CallAt DEF Asking
    <3>3. QED  BY <2>3, <3>2 DEF BusyStatusHasOwner
  <2>4. QED  BY <2>1, <2>2, <2>3 DEF BusyStatusHasOwner
<1>2. CASE \E purpose \in Purposes :
             /\ status' = "initializing"
             /\ call' = [call EXCEPT ![p] = [pc |-> "asking", service |-> s, purpose |-> purpose]]
  <2>1. PICK purpose \in Purposes :
          call' = [call EXCEPT ![p] = [pc |-> "asking", service |-> s, purpose |-> purpose]]
    BY <1>2
  <2>2. p \in Asking'
    BY <2>1, CallAt DEF Asking
  <2>3. QED  BY <1>2, <2>2 DEF BusyStatusHasOwner
<1>3. QED  BY <1>1, <1>2, Zenon DEF Begins

LEMMA AnswerKeepsOwner ==
  ASSUME TypeOK, BusyStatusHasOwner, NEW p \in Asking, UNCHANGED finishing,
         NEW to \in {"authorized", "unauthorized", "errorInit"}, Settles(p, to)
  PROVE  BusyStatusHasOwner'
<1>1. p \in Calls /\ p \notin Syncing
  BY DEF Asking, Syncing
<1>2. CASE status' = "inProgress" /\ call' = Awaits(p, "syncing")
  <2>1. p \in Syncing'
    BY <1>1, <1>2, CallAt DEF Syncing, Awaits
  <2>2. QED  BY <1>2, <2>1 DEF BusyStatusHasOwner
<1>3. CASE status' = Moved(status, to) /\ call' = Ended(p)
  <2>1. Syncing \subseteq Syncing'
    BY <1>1, <1>3, Answered DEF Syncing
  <2>2. CASE MayMove(status, to)
    BY <1>3, <2>2 DEF Moved, BusyStatusHasOwner
  <2>3. CASE ~MayMove(status, to)
    BY <1>3, <2>1, <2>3, MovesList DEF Moved, BusyStatusHasOwner
  <2>4. QED  BY <2>2, <2>3
<1>4. QED  BY <1>2, <1>3 DEF Settles

LEMMA NextOwner == TypeOK /\ BusyStatusHasOwner /\ [Next]_vars => BusyStatusHasOwner'
<1> SUFFICES ASSUME TypeOK, BusyStatusHasOwner, [Next]_vars
             PROVE  BusyStatusHasOwner'
  OBVIOUS
<1>1. ASSUME NEW p \in Calls, NEW s \in Services \cup {None}, Initialize(p, s)
      PROVE  BusyStatusHasOwner'
  BY <1>1, AutoSyncBegins, BeginsKeepsOwner DEF Initialize
<1>2. CASE SetAutomatic \/ Authorize \/ UNCHANGED vars
  BY <1>2 DEF SetAutomatic, Authorize, vars, BusyStatusHasOwner, Asking, Syncing
<1>3. ASSUME NEW p \in Calls, TimerFires(p)
      PROVE  BusyStatusHasOwner'
  <2>1. current \in Services \cup {None}
    BY DEF TypeOK
  <2>2. Begins(p, current, status, token)
    BY <1>3, <2>1, AutoSyncBegins DEF TimerFires
  <2>3. QED  BY <1>3, <2>2, BeginsKeepsOwner DEF TimerFires
<1>4. ASSUME NEW p \in Calls, SyncStart(p)
      PROVE  BusyStatusHasOwner'
  <2>1. current \in Services /\ "syncLater" \in Purposes
    BY <1>4 DEF SyncStart, HasService, TypeOK, Purposes
  <2>2. Begins(p, current, status, token)
    BY <1>4, <2>1, StartCallBegins DEF SyncStart
  <2>3. QED  BY <1>4, <2>2, BeginsKeepsOwner DEF SyncStart
<1>5. ASSUME NEW p \in Calls, NEW valid \in BOOLEAN, SetConfig(p, valid)
      PROVE  BusyStatusHasOwner'
  <2>1. current \in Services /\ "sync" \in Purposes
    BY <1>5 DEF SetConfig, HasService, TypeOK, Purposes
  <2>2. Begins(p, current, status, token')
    BY <1>5, <2>1, StartCallBegins DEF SetConfig
  <2>3. QED  BY <1>5, <2>2, BeginsKeepsOwner DEF SetConfig
<1>6. CASE Redirect
  BY <1>6 DEF Redirect, BusyStatusHasOwner, Asking, Syncing
<1>7. ASSUME NEW p \in Calls, NEW s \in Services, FinishAuth(p, s)
      PROVE  BusyStatusHasOwner'
  <2>1. CASE MayMove(status, "authorized")
    <3>1. AutoSync(p, current, "authorized", token', timer) /\ current \in Services \cup {None}
      BY <1>7, <2>1 DEF FinishAuth, TypeOK
    <3>2. Begins(p, current, "authorized", token')
      BY <3>1, AutoSyncBegins
    <3>3. QED  BY <3>2, BeginsKeepsOwner
  <2>2. CASE ~MayMove(status, "authorized")
    BY <1>7, <2>2, MovesList DEF FinishAuth, BusyStatusHasOwner, Asking, Syncing
  <2>3. QED  BY <2>1, <2>2
<1>8. ASSUME NEW s \in Services, FinishAuthFails(s)
      PROVE  BusyStatusHasOwner'
  BY <1>8, MovesList DEF FinishAuthFails, Moved, BusyStatusHasOwner, Asking, Syncing
<1>9. CASE Revoke
  BY <1>9, MovesList DEF Revoke, Moved, BusyStatusHasOwner, Asking, Syncing
<1>10. ASSUME NEW p \in Calls, RequestAuthAnswers(p)
       PROVE  BusyStatusHasOwner'
  <2>1. p \in Asking
    BY <1>10 DEF RequestAuthAnswers, Asking
  <2>2. CASE \E to \in {"authorized", "unauthorized", "errorInit"} : Settle(p, to)
    BY <1>10, <2>1, <2>2, SettleSettles, AnswerKeepsOwner DEF RequestAuthAnswers
  <2>3. CASE call' = Awaits(p, "refreshing") /\ UNCHANGED status
    <3>1. p \in Asking' /\ Syncing \subseteq Syncing'
      BY <2>1, <2>3, CallAt, Answered DEF Asking, Syncing, Awaits
    <3>2. QED  BY <1>10, <2>3, <3>1 DEF RequestAuthAnswers, BusyStatusHasOwner
  <2>4. QED  BY <1>10, <2>2, <2>3 DEF RequestAuthAnswers
<1>11. ASSUME NEW p \in Calls, RefreshAnswers(p)
       PROVE  BusyStatusHasOwner'
  <2>1. p \in Asking
    BY <1>11 DEF RefreshAnswers, Asking
  <2>2. CASE Settle(p, "errorInit")
    BY <1>11, <2>1, <2>2, SettleSettles, AnswerKeepsOwner DEF RefreshAnswers
  <2>3. CASE call' = Awaits(p, "asking2") /\ UNCHANGED status
    <3>1. p \in Asking' /\ Syncing \subseteq Syncing'
      BY <2>1, <2>3, CallAt, Answered DEF Asking, Syncing, Awaits
    <3>2. QED  BY <1>11, <2>3, <3>1 DEF RefreshAnswers, BusyStatusHasOwner
  <2>4. QED  BY <1>11, <2>2, <2>3 DEF RefreshAnswers
<1>12. ASSUME NEW p \in Calls, NEW success \in BOOLEAN, SyncEnds(p, success)
       PROVE  BusyStatusHasOwner'
  <2>1. Asking \subseteq Asking'
    BY <1>12, Answered DEF SyncEnds, Asking
  <2>2. status' \in {status, "authorized", "error"} /\ (status = "inProgress" => status' # status)
    BY <1>12, MovesList DEF SyncEnds, Moved
  <2>3. QED  BY <1>12, <2>1, <2>2 DEF SyncEnds, BusyStatusHasOwner
<1>13. QED
  BY <1>1, <1>2, <1>3, <1>4, <1>5, <1>6, <1>7, <1>8, <1>9, <1>10, <1>11, <1>12 DEF Next

(* The options page never shows an activity of base.js that is over:       *)
(* setSyncState left that status, or some call still will.                 *)
THEOREM BusyStatusOwned == Spec => []BusyStatusHasOwner
<1>1. Init => BusyStatusHasOwner
  BY DEF Init, BusyStatusHasOwner
<1>2. QED  BY <1>1, NextOwner, TypeCorrect, PTL DEF Spec

-----------------------------------------------------------------------------
(* A revoked service has no token, and only calls that were there when the *)
(* user revoked it await a new one.                                        *)
OnlyLate == \A p \in Calls \ late : call[p].pc = "refreshing" => call[p].service \notin revoked

RevokedForGood ==
  /\ revoked \cap token = {}
  /\ revoked \cap Password = {}
  /\ OnlyLate

LEMMA BeginsRefreshesNone ==
  ASSUME TypeOK, RevokedForGood, NEW p \in Calls, NEW s, NEW st, NEW tok,
         Begins(p, s, st, tok), revoked' \subseteq revoked, late' = late
  PROVE  OnlyLate'
<1>1. CASE UNCHANGED call
  BY <1>1 DEF RevokedForGood, OnlyLate
<1>2. CASE \E purpose \in Purposes :
             call' = [call EXCEPT ![p] = [pc |-> "asking", service |-> s, purpose |-> purpose]]
  <2>1. PICK purpose \in Purposes :
          call' = [call EXCEPT ![p] = [pc |-> "asking", service |-> s, purpose |-> purpose]]
    BY <1>2
  <2>2. call'[p].pc # "refreshing" /\ \A q \in Calls \ {p} : call'[q] = call[q]
    BY <2>1, CallAt
  <2>3. QED  BY <2>2 DEF RevokedForGood, OnlyLate
<1>3. QED  BY <1>1, <1>2, Zenon DEF Begins

LEMMA AnsweredRefreshesNone ==
  ASSUME TypeOK, RevokedForGood, NEW p \in Calls, revoked' \subseteq revoked, late \subseteq late' \cup {p},
         \/ \E pc \in {"asking2", "syncing"} : call' = Awaits(p, pc)
         \/ call' = Ended(p)
  PROVE  OnlyLate'
<1>1. call'[p].pc # "refreshing"
  BY CallAt DEF Awaits, Ended, Free
<1>2. \A q \in Calls \ {p} : call'[q] = call[q]
  BY Answered
<1>3. QED  BY <1>1, <1>2 DEF RevokedForGood, OnlyLate

LEMMA NextRevoked == TypeOK /\ RevokedForGood /\ [Next]_vars => RevokedForGood'
<1> SUFFICES ASSUME TypeOK, RevokedForGood, [Next]_vars
             PROVE  RevokedForGood'
  OBVIOUS
<1>1. ASSUME NEW p \in Calls, NEW s \in Services \cup {None}, Initialize(p, s)
      PROVE  RevokedForGood'
  <2>1. Begins(p, s, "idle", token)
    BY <1>1, AutoSyncBegins DEF Initialize
  <2>2. QED  BY <1>1, <2>1, BeginsRefreshesNone DEF Initialize, RevokedForGood
<1>2. CASE SetAutomatic \/ Authorize \/ UNCHANGED vars
  BY <1>2 DEF SetAutomatic, Authorize, vars, RevokedForGood, OnlyLate
<1>3. ASSUME NEW p \in Calls, TimerFires(p)
      PROVE  RevokedForGood'
  <2>1. current \in Services \cup {None}
    BY DEF TypeOK
  <2>2. Begins(p, current, status, token)
    BY <1>3, <2>1, AutoSyncBegins DEF TimerFires
  <2>3. QED  BY <1>3, <2>2, BeginsRefreshesNone DEF TimerFires, RevokedForGood
<1>4. ASSUME NEW p \in Calls, SyncStart(p)
      PROVE  RevokedForGood'
  <2>1. current \in Services /\ "syncLater" \in Purposes
    BY <1>4 DEF SyncStart, HasService, TypeOK, Purposes
  <2>2. Begins(p, current, status, token)
    BY <1>4, <2>1, StartCallBegins DEF SyncStart
  <2>3. QED  BY <1>4, <2>2, BeginsRefreshesNone DEF SyncStart, RevokedForGood
<1>5. ASSUME NEW p \in Calls, NEW valid \in BOOLEAN, SetConfig(p, valid)
      PROVE  RevokedForGood'
  <2>1. current \in Services /\ "sync" \in Purposes
    BY <1>5 DEF SetConfig, HasService, TypeOK, Purposes
  <2>2. Begins(p, current, status, token')
    BY <1>5, <2>1, StartCallBegins DEF SetConfig
  <2>3. revoked' \cap token' = {}
    BY <1>5 DEF SetConfig, RevokedForGood
  <2>4. QED  BY <1>5, <2>2, <2>3, BeginsRefreshesNone DEF SetConfig, RevokedForGood
<1>6. CASE Redirect
  BY <1>6 DEF Redirect, RevokedForGood, OnlyLate
<1>7. ASSUME NEW p \in Calls, NEW s \in Services, FinishAuth(p, s)
      PROVE  RevokedForGood'
  <2>1. OnlyLate'
    <3>1. CASE MayMove(status, "authorized")
      <4>1. AutoSync(p, current, "authorized", token', timer) /\ current \in Services \cup {None}
        BY <1>7, <3>1 DEF FinishAuth, TypeOK
      <4>2. Begins(p, current, "authorized", token')
        BY <4>1, AutoSyncBegins
      <4>3. QED  BY <1>7, <4>2, BeginsRefreshesNone DEF FinishAuth
    <3>2. CASE ~MayMove(status, "authorized")
      BY <1>7, <3>2 DEF FinishAuth, RevokedForGood, OnlyLate
    <3>3. QED  BY <3>1, <3>2
  <2>2. QED  BY <1>7, <2>1 DEF FinishAuth, RevokedForGood
<1>8. ASSUME NEW s \in Services, FinishAuthFails(s)
      PROVE  RevokedForGood'
  BY <1>8 DEF FinishAuthFails, RevokedForGood, OnlyLate
<1>9. CASE Revoke
  <2>1. OnlyLate'
    BY <1>9 DEF Revoke, RevokedForGood, OnlyLate
  <2>2. QED  BY <1>9, <2>1 DEF Revoke, RevokedForGood
<1>10. ASSUME NEW p \in Calls, RequestAuthAnswers(p)
       PROVE  RevokedForGood'
  <2>1. CASE \E to : Settle(p, to)
    BY <1>10, <2>1, SettleSettles, AnsweredRefreshesNone
       DEF RequestAuthAnswers, Settles, RevokedForGood
  <2>2. CASE call' = Awaits(p, "refreshing") /\ call[p].service \in token
    <3>1. \A q \in Calls \ {p} : call'[q] = call[q]
      BY <2>2, Answered
    <3>2. call'[p].service = call[p].service
      BY <2>2, CallAt DEF Awaits
    <3>3. QED  BY <1>10, <2>2, <3>1, <3>2 DEF RequestAuthAnswers, RevokedForGood, OnlyLate
  <2>3. QED  BY <1>10, <2>1, <2>2 DEF RequestAuthAnswers
<1>11. ASSUME NEW p \in Calls, RefreshAnswers(p)
       PROVE  RevokedForGood'
  <2>1. revoked' \subseteq revoked /\ late' = late \ {p}
    BY <1>11 DEF RefreshAnswers
  <2>2. OnlyLate'
    BY <1>11, <2>1, SettleSettles, AnsweredRefreshesNone DEF RefreshAnswers, Settles
  <2>3. CASE token' = token
    BY <2>1, <2>2, <2>3 DEF RevokedForGood
  <2>4. CASE token' = token \cup {call[p].service} /\ call[p].service \notin revoked'
    BY <2>1, <2>2, <2>4 DEF RevokedForGood
  <2>5. QED  BY <1>11, <2>3, <2>4 DEF RefreshAnswers, RevokedForGood, OnlyLate
<1>12. ASSUME NEW p \in Calls, NEW success \in BOOLEAN, SyncEnds(p, success)
       PROVE  RevokedForGood'
  BY <1>12, AnsweredRefreshesNone DEF SyncEnds, RevokedForGood
<1>13. QED
  BY <1>1, <1>2, <1>3, <1>4, <1>5, <1>6, <1>7, <1>8, <1>9, <1>10, <1>11, <1>12 DEF Next

(* After revoke() a service stays without a token: what a call does that   *)
(* asks only afterwards cannot bring it back.  What can is an answer that  *)
(* was awaited as the user revoked it, which base.js stores, or handleAuth *)
(* when it succeeds.                                                       *)
THEOREM RevokedStaysRevoked == Spec => []RevokeSticks
<1>1. Init => RevokedForGood
  BY DEF Init, RevokedForGood, OnlyLate, Free
<1>2. RevokedForGood => RevokeSticks
  BY DEF RevokedForGood, RevokeSticks
<1>3. QED  BY <1>1, <1>2, NextRevoked, TypeCorrect, PTL DEF Spec

-----------------------------------------------------------------------------
(* As long as nothing takes the status away, at most one call or one       *)
(* handleAuth is in progress, for the current service, and the status      *)
(* tells which.                                                            *)
Alone ==
  ~overlapped =>
    /\ \A p, q \in Calls : Busy(p) /\ Busy(q) => p = q
    /\ \A p \in Calls : Busy(p) => call[p].service = current
    /\ Asking # {} => status = "initializing"
    /\ Syncing # {} => status = "inProgress" /\ Syncing \subseteq granted
    /\ finishing # {} => status = "authorizing" /\ finishing = {current}

LEMMA BusyWaits ==
  ASSUME TypeOK
  PROVE  \A p \in Calls : Busy(p) <=> p \in Asking \/ p \in Syncing
BY BusyCall DEF Asking, Syncing, Busy

(* Unless the status is one of activity, nothing is in progress. *)
LEMMA QuietStatus ==
  ASSUME TypeOK, Alone, ~overlapped
  PROVE  /\ status # "initializing" => Asking = {}
         /\ status # "inProgress" => Syncing = {}
         /\ status # "authorizing" => finishing = {}
         /\ status \notin {"initializing", "inProgress"} => \A p \in Calls : ~Busy(p)
BY BusyWaits DEF Alone

LEMMA QuietAlone ==
  ASSUME TypeOK', \A p \in Calls : ~Busy(p)', finishing' = {}
  PROVE  Alone'
BY DEF Alone, Asking, Syncing, Busy

LEMMA BeginsAlone ==
  ASSUME TypeOK, NEW p \in Calls, NEW s \in Services \cup {None}, NEW st, NEW tok,
         Begins(p, s, st, tok), current' = s, TypeOK',
         \A q \in Calls : ~Busy(q), finishing' = {}
  PROVE  Alone'
<1>1. CASE UNCHANGED call
  <2>1. \A q \in Calls : ~Busy(q)'
    BY <1>1 DEF Busy
  <2>2. QED  BY <2>1, QuietAlone
<1>2. CASE /\ status' = "initializing"
           /\ \E purpose \in Purposes :
                call' = [call EXCEPT ![p] = [pc |-> "asking", service |-> s, purpose |-> purpose]]
  <2>1. PICK purpose \in Purposes :
          call' = [call EXCEPT ![p] = [pc |-> "asking", service |-> s, purpose |-> purpose]]
    BY <1>2
  <2>2. call'[p].pc = "asking" /\ call'[p].service = s
    BY <2>1, CallAt
  <2>3. \A q \in Calls \ {p} : call'[q].pc = "free"
    BY <2>1, CallAt DEF Busy
  <2>4. Syncing' = {}
    BY <2>2, <2>3 DEF Syncing
  <2>5. QED  BY <1>2, <2>2, <2>3, <2>4 DEF Alone, Busy
<1>3. QED  BY <1>1, <1>2, Zenon DEF Begins

LEMMA BeginsKeepsAlone ==
  ASSUME TypeOK, TypeOK', Alone, NEW p \in Calls, NEW tok, current \in Services,
         Begins(p, current, status, tok), TakeAway(tok), UNCHANGED << current, finishing >>
  PROVE  Alone'
<1> SUFFICES ASSUME ~overlapped' PROVE Alone'
  BY DEF Alone
<1>0. ~overlapped /\ (current \notin tok => status \notin {"initializing", "authorizing"})
  <2>1. current # None
    BY ServicesAssumption
  <2>2. QED  BY <2>1, Zenon DEF TakeAway
<1>1. CASE UNCHANGED << call, status >>
  <2>1. Syncing \subseteq granted => Syncing' \subseteq granted'
    BY <1>1 DEF Begins, Syncing, Busy
  <2>2. QED  BY <1>0, <1>1, <2>1 DEF Alone, Asking, Syncing, Busy
<1>2. CASE MayMove(status, "initializing") \/ (MayMove(status, "unauthorized") /\ current \notin tok)
  <2>1. status \notin {"initializing", "inProgress", "authorizing"}
    BY <1>0, <1>2, MovesList
  <2>2. (\A q \in Calls : ~Busy(q)) /\ finishing' = {}
    BY <1>0, <2>1, QuietStatus
  <2>3. QED  BY <2>2, BeginsAlone
<1>3. QED  BY <1>1, <1>2, Zenon DEF Begins

LEMMA AnswerKeepsAlone ==
  ASSUME TypeOK, TypeOK', Alone, NEW p \in Asking,
         UNCHANGED << current, finishing, overlapped >>,
         NEW to \in {"authorized", "unauthorized", "errorInit"}, Settles(p, to),
         to = "authorized" => p \in granted'
  PROVE  Alone'
<1> SUFFICES ASSUME ~overlapped PROVE Alone'
  BY DEF Alone
<1>1. p \in Calls /\ Busy(p) /\ status = "initializing" /\ finishing' = {}
  BY DEF Asking, Alone, Busy
<1>2. \A q \in Calls \ {p} : call'[q] = call[q] /\ call[q].pc = "free"
  BY <1>1, Answered DEF Settles, Alone, Busy
<1>3. CASE /\ call[p].service = current /\ Moved(status, to) = "authorized"
           /\ status' = "inProgress"
           /\ call' = Awaits(p, "syncing")
  <2>1. call'[p].pc = "syncing" /\ call'[p].service = current'
    BY <1>1, <1>3, CallAt DEF Awaits
  <2>2. p \in granted'
    BY <1>1, <1>3, MovesList DEF Moved
  <2>3. Asking' = {} /\ Syncing' = {p}
    BY <1>1, <1>2, <2>1 DEF Asking, Syncing
  <2>4. QED  BY <1>1, <1>2, <1>3, <2>1, <2>2, <2>3 DEF Alone, Busy
<1>4. CASE call' = Ended(p)
  <2>1. call'[p].pc = "free"
    BY <1>1, <1>4, CallAt DEF Ended, Free
  <2>2. \A q \in Calls : ~Busy(q)'
    BY <1>2, <2>1 DEF Busy
  <2>3. QED  BY <1>1, <2>2, QuietAlone
<1>5. QED  BY <1>3, <1>4 DEF Settles

(* A call waits on: its state changes, but not that it asks. *)
LEMMA StillAskingAlone ==
  ASSUME TypeOK, Alone, NEW p \in Asking, NEW pc \in {"refreshing", "asking2"},
         call' = Awaits(p, pc), UNCHANGED << status, current, finishing, granted, overlapped >>
  PROVE  Alone'
<1>1. p \in Calls /\ Busy(p)
  BY DEF Asking, Busy
<1>2. call'[p].pc = pc /\ call'[p].service = call[p].service
  BY <1>1, CallAt DEF Awaits
<1>3. \A q \in Calls \ {p} : call'[q] = call[q]
  BY <1>1, Answered
<1>4. \A q \in Calls : (Busy(q)' <=> Busy(q)) /\ call'[q].service = call[q].service
  BY <1>1, <1>2, <1>3 DEF Busy
<1>5. Asking' = Asking /\ Syncing' = Syncing
  BY <1>2, <1>3 DEF Asking, Syncing
<1>6. QED  BY <1>4, <1>5, Zenon DEF Alone

LEMMA NextAlone == TypeOK /\ TypeOK' /\ Alone /\ [Next]_vars => Alone'
<1> SUFFICES ASSUME TypeOK, TypeOK', Alone, [Next]_vars
             PROVE  Alone'
  OBVIOUS
<1>1. ASSUME NEW p \in Calls, NEW s \in Services \cup {None}, Initialize(p, s)
      PROVE  Alone'
  <2>1. CASE overlapped'
    BY <2>1 DEF Alone
  <2>2. CASE ~overlapped'
    <3>1. (\A q \in Calls : ~Busy(q)) /\ finishing' = {} /\ current' = s
      BY <1>1, <2>2 DEF Initialize
    <3>2. Begins(p, s, "idle", token)
      BY <1>1, AutoSyncBegins DEF Initialize
    <3>3. QED  BY <3>1, <3>2, BeginsAlone
  <2>3. QED  BY <2>1, <2>2
<1>2. CASE SetAutomatic \/ Authorize \/ UNCHANGED vars
  BY <1>2 DEF SetAutomatic, Authorize, vars, Alone, Asking, Syncing, Busy
<1>3. ASSUME NEW p \in Calls, TimerFires(p)
      PROVE  Alone'
  <2>1. CASE current = None
    <3>1. UNCHANGED << status, current, finishing, call, granted >> /\ (overlapped => overlapped')
      BY <1>3, <2>1 DEF TimerFires, AutoSync, TakeAway
    <3>2. QED  BY <3>1 DEF Alone, Asking, Syncing, Busy
  <2>2. CASE current # None
    <3>1. current \in Services
      BY <2>2 DEF TypeOK
    <3>2. Begins(p, current, status, token)
      BY <1>3, <3>1, AutoSyncBegins DEF TimerFires
    <3>3. QED  BY <1>3, <3>1, <3>2, BeginsKeepsAlone DEF TimerFires
  <2>3. QED  BY <2>1, <2>2
<1>4. ASSUME NEW p \in Calls, SyncStart(p)
      PROVE  Alone'
  <2>1. current \in Services /\ "syncLater" \in Purposes
    BY <1>4 DEF SyncStart, HasService, TypeOK, Purposes
  <2>2. Begins(p, current, status, token)
    BY <1>4, <2>1, StartCallBegins DEF SyncStart
  <2>3. QED  BY <1>4, <2>1, <2>2, BeginsKeepsAlone DEF SyncStart
<1>5. ASSUME NEW p \in Calls, NEW valid \in BOOLEAN, SetConfig(p, valid)
      PROVE  Alone'
  <2>1. current \in Services /\ "sync" \in Purposes
    BY <1>5 DEF SetConfig, HasService, TypeOK, Purposes
  <2>2. Begins(p, current, status, token')
    BY <1>5, <2>1, StartCallBegins DEF SetConfig
  <2>3. QED  BY <1>5, <2>1, <2>2, BeginsKeepsAlone DEF SetConfig
<1>6. CASE Redirect
  <2>1. CASE UNCHANGED << status, finishing >>
    BY <1>6, <2>1 DEF Redirect, Alone, Asking, Syncing, Busy
  <2>2. CASE overlapped
    BY <1>6, <2>2 DEF Redirect, Alone
  <2>3. CASE ~overlapped /\ MayMove(status, "authorizing") /\ finishing' = finishing \cup {current}
    <3>1. status \notin {"initializing", "inProgress", "authorizing"}
      BY <2>3, MovesList
    <3>2. (\A q \in Calls : ~Busy(q)) /\ finishing = {}
      BY <2>3, <3>1, QuietStatus
    <3>3. \A q \in Calls : ~Busy(q)'
      BY <1>6, <3>2 DEF Redirect, Busy
    <3>4. Asking' = {} /\ Syncing' = {}
      BY <3>3 DEF Asking, Syncing, Busy
    <3>5. status' = "authorizing" /\ finishing' = {current'}
      BY <1>6, <2>3, <3>2, MovesList DEF Redirect
    <3>6. QED  BY <3>3, <3>4, <3>5 DEF Alone
  <2>4. QED  BY <1>6, <2>1, <2>2, <2>3 DEF Redirect
<1>7. ASSUME NEW p \in Calls, NEW s \in Services, FinishAuth(p, s)
      PROVE  Alone'
  <2>1. CASE overlapped
    BY <1>7, <2>1 DEF FinishAuth, Alone
  <2>2. CASE ~overlapped
    <3>1. status = "authorizing" /\ finishing = {current} /\ s = current
      BY <1>7, <2>2 DEF FinishAuth, Alone
    <3>2. (\A q \in Calls : ~Busy(q)) /\ finishing' = {}
      BY <1>7, <2>2, <3>1, QuietStatus DEF FinishAuth
    <3>3. AutoSync(p, current, "authorized", token', timer) /\ current' = current
      BY <1>7, <3>1, MovesList DEF FinishAuth
    <3>4. current \in Services \cup {None}
      BY DEF TypeOK
    <3>5. Begins(p, current, "authorized", token')
      BY <3>3, <3>4, AutoSyncBegins
    <3>6. QED  BY <3>2, <3>3, <3>4, <3>5, BeginsAlone
  <2>3. QED  BY <2>1, <2>2
<1>8. ASSUME NEW s \in Services, FinishAuthFails(s)
      PROVE  Alone'
  <2>1. CASE overlapped
    BY <1>8, <2>1 DEF FinishAuthFails, Alone
  <2>2. CASE ~overlapped
    <3>1. status = "authorizing" /\ finishing' = {}
      BY <1>8, <2>2 DEF FinishAuthFails, Alone
    <3>2. \A q \in Calls : ~Busy(q)'
      BY <1>8, <2>2, <3>1, QuietStatus DEF FinishAuthFails, Busy
    <3>3. QED  BY <3>1, <3>2, QuietAlone
  <2>3. QED  BY <2>1, <2>2
<1>9. CASE Revoke
  <2>1. CASE overlapped'
    BY <2>1 DEF Alone
  <2>2. CASE ~overlapped' /\ ~MayMove(status, "unauthorized")
    BY <1>9, <2>2 DEF Revoke, TakeAway, Moved, Alone, Asking, Syncing, Busy
  <2>3. CASE ~overlapped' /\ MayMove(status, "unauthorized")
    <3>1. ~overlapped /\ status \notin {"initializing", "inProgress", "authorizing"}
      BY <1>9, <2>3, MovesList DEF Revoke, HasService, TakeAway
    <3>2. (\A q \in Calls : ~Busy(q)) /\ finishing = {}
      BY <3>1, QuietStatus
    <3>3. (\A q \in Calls : ~Busy(q)') /\ finishing' = {}
      BY <1>9, <3>2 DEF Revoke, Busy
    <3>4. QED  BY <3>3, QuietAlone
  <2>4. QED  BY <2>1, <2>2, <2>3
<1>10. ASSUME NEW p \in Calls, RequestAuthAnswers(p)
       PROVE  Alone'
  <2>1. p \in Asking
    BY <1>10 DEF RequestAuthAnswers, Asking
  <2>2. CASE \E to \in {"authorized", "unauthorized", "errorInit"} :
               Settle(p, to) /\ (to = "authorized" => p \in granted')
    BY <1>10, <2>1, <2>2, SettleSettles, AnswerKeepsAlone DEF RequestAuthAnswers
  <2>3. CASE call' = Awaits(p, "refreshing") /\ UNCHANGED << status, granted >>
    BY <1>10, <2>1, <2>3, StillAskingAlone DEF RequestAuthAnswers
  <2>4. QED  BY <1>10, <2>2, <2>3 DEF RequestAuthAnswers
<1>11. ASSUME NEW p \in Calls, RefreshAnswers(p)
       PROVE  Alone'
  <2>1. p \in Asking
    BY <1>11 DEF RefreshAnswers, Asking
  <2>2. CASE Settle(p, "errorInit")
    BY <1>11, <2>1, <2>2, SettleSettles, AnswerKeepsAlone DEF RefreshAnswers
  <2>3. CASE call' = Awaits(p, "asking2") /\ UNCHANGED status
    BY <1>11, <2>1, <2>3, StillAskingAlone DEF RefreshAnswers
  <2>4. QED  BY <1>11, <2>2, <2>3 DEF RefreshAnswers
<1>12. ASSUME NEW p \in Calls, NEW success \in BOOLEAN, SyncEnds(p, success)
       PROVE  Alone'
  <2>1. CASE overlapped
    BY <1>12, <2>1 DEF SyncEnds, Alone
  <2>2. CASE ~overlapped
    <3>1. p \in Syncing /\ Busy(p)
      BY <1>12 DEF SyncEnds, Syncing, Busy
    <3>2. finishing' = {} /\ \A q \in Calls \ {p} : ~Busy(q)
      BY <1>12, <2>2, <3>1 DEF SyncEnds, Alone
    <3>3. \A q \in Calls \ {p} : ~Busy(q)'
      BY <1>12, <3>2, Answered DEF SyncEnds, Busy
    <3>4. ~Busy(p)'
      BY <1>12, CallAt DEF SyncEnds, Ended, Free, Busy
    <3>5. QED  BY <3>2, <3>3, <3>4, QuietAlone
  <2>3. QED  BY <2>1, <2>2
<1>13. QED
  BY <1>1, <1>2, <1>3, <1>4, <1>5, <1>6, <1>7, <1>8, <1>9, <1>10, <1>11, <1>12 DEF Next

LEMMA AloneThroughout == Spec => []Alone
<1>1. Init => Alone
  BY DEF Init, Alone, Busy, Free, Asking, Syncing
<1>2. QED  BY <1>1, NextAlone, TypeCorrect, PTL DEF Spec

(* Two merges with one storage would undo each other: "Sync in progress,   *)
(* ignore" of sync() holds as long as nothing takes the status away.       *)
THEOREM SyncsRunAlone == Spec => []SyncRunsAlone
<1>1. Alone => SyncRunsAlone
  BY DEF Alone, SyncRunsAlone, Syncing, Busy
<1>2. QED  BY <1>1, AloneThroughout, PTL

(* sync() merges only past an authorization of its own. *)
THEOREM SyncsAreAuthorized == Spec => []SyncIsAuthorized
<1>1. Alone => SyncIsAuthorized
  BY DEF Alone, SyncIsAuthorized
<1>2. QED  BY <1>1, AloneThroughout, PTL

-----------------------------------------------------------------------------
(* There is, or a call in progress will make, a next sync. *)
Promised == timer \/ stalled \/ \E p \in Calls : Busy(p) /\ call[p].purpose = "syncLater"

(* A service that was not initialized yet has no call in progress, whose   *)
(* end could change the status with nobody having called syncLater.        *)
IdleIsQuiet == current # None /\ status = "idle" => \A p \in Calls : ~Busy(p)

LEMMA StartCallPromises ==
  ASSUME TypeOK, NEW p \in Calls, NEW s \in Services, NEW purpose \in Purposes,
         NEW st, NEW tok, NEW scheduled, StartCall(p, s, purpose, st, tok, scheduled)
  PROVE  /\ purpose # "sync" => Promised'
         /\ purpose = "sync" /\ scheduled = timer /\ Promised => Promised'
<1>1. CASE purpose = "prepare"
  BY <1>1, Zenon DEF StartCall, Promised
<1>2. CASE purpose = "syncLater"
  <2>1. CASE s \in tok /\ MayMove(st, "initializing")
    <3>1. call'[p] = [pc |-> "asking", service |-> s, purpose |-> "syncLater"]
      BY <1>2, <2>1, CallAt DEF StartCall
    <3>2. QED  BY <1>2, <3>1 DEF Promised, Busy
  <2>2. CASE ~(s \in tok /\ MayMove(st, "initializing"))
    BY <1>2, <2>2, Zenon DEF StartCall, Promised
  <2>3. QED  BY <2>1, <2>2
<1>3. CASE purpose = "sync" /\ scheduled = timer /\ Promised
  <2>1. CASE timer \/ stalled
    BY <1>3, <2>1, Zenon DEF StartCall, Promised
  <2>2. CASE \E q \in Calls : Busy(q) /\ call[q].purpose = "syncLater"
    <3>1. PICK q \in Calls : Busy(q) /\ call[q].purpose = "syncLater"
      BY <2>2
    <3>2. q # p
      BY <3>1 DEF StartCall
    <3>3. call'[q] = call[q]
      BY <3>2, CallAt DEF StartCall
    <3>4. QED  BY <3>1, <3>3 DEF Promised, Busy
  <2>3. QED  BY <1>3, <2>1, <2>2 DEF Promised
<1>4. QED  BY <1>1, <1>2, <1>3 DEF Purposes

LEMMA AutoSyncPromises ==
  ASSUME TypeOK, NEW p \in Calls, NEW s \in Services,
         NEW st, NEW tok, NEW scheduled, AutoSync(p, s, st, tok, scheduled)
  PROVE  Promised'
<1>1. s # None
  BY ServicesAssumption
<1>2. PICK purpose \in {"syncLater", "prepare"} : StartCall(p, s, purpose, st, tok, scheduled)
  BY <1>1 DEF AutoSync
<1>3. QED  BY <1>2, StartCallPromises DEF Purposes

(* A promise passes to the others, or to what this call leaves. *)
LEMMA AnswerKeepsPromise ==
  ASSUME TypeOK, NEW p \in Calls, Busy(p), Promised,
         timer => timer', stalled => stalled' \/ timer',
         \/ \E pc \in {"refreshing", "asking2", "syncing"} : call' = Awaits(p, pc)
         \/ call' = Ended(p) /\ (call[p].purpose = "syncLater" => timer' \/ stalled')
  PROVE  Promised'
<1>1. CASE timer \/ stalled
  BY <1>1 DEF Promised
<1>2. ASSUME NEW q \in Calls, q # p, Busy(q), call[q].purpose = "syncLater"
      PROVE  Promised'
  <2>1. call'[q] = call[q]
    BY <1>2, Answered
  <2>2. QED  BY <1>2, <2>1 DEF Promised, Busy
<1>3. CASE call[p].purpose = "syncLater"
  <2>1. ASSUME NEW pc \in {"refreshing", "asking2", "syncing"}, call' = Awaits(p, pc)
        PROVE  Promised'
    <3>1. call'[p] = [pc |-> pc, service |-> call[p].service, purpose |-> call[p].purpose]
      BY <2>1, CallAt DEF Awaits
    <3>2. QED  BY <1>3, <3>1 DEF Promised, Busy
  <2>2. CASE timer' \/ stalled'
    BY <2>2 DEF Promised
  <2>3. QED  BY <1>3, <2>1, <2>2
<1>4. QED  BY <1>1, <1>2, <1>3 DEF Promised

LEMMA SettleKeepsPromise ==
  ASSUME TypeOK, NEW p \in Calls, Busy(p), Promised, NEW to, Settle(p, to)
  PROVE  Promised'
<1>1. (timer => timer') /\ (stalled => stalled' \/ timer')
  BY Zenon DEF Settle
<1>2. \/ call' = Awaits(p, "syncing")
      \/ call' = Ended(p) /\ (call[p].purpose = "syncLater" => timer' \/ stalled')
  BY Zenon DEF Settle
<1>3. QED  BY <1>1, <1>2, AnswerKeepsPromise

(* Only initialize() makes the status idle, and leaves it only for no      *)
(* service at all.                                                         *)
LEMMA StartCallLeavesIdle ==
  ASSUME NEW p \in Calls, NEW s, NEW purpose, NEW st, NEW tok, NEW scheduled,
         StartCall(p, s, purpose, st, tok, scheduled)
  PROVE  status' # "idle"
<1>1. CASE st = "idle"
  BY <1>1, MovesList DEF StartCall, Moved
<1>2. CASE st # "idle"
  BY <1>2 DEF StartCall, Moved
<1>3. QED  BY <1>1, <1>2

LEMMA AutoSyncLeavesIdle ==
  ASSUME NEW p \in Calls, NEW s \in Services, NEW st, NEW tok, NEW scheduled,
         AutoSync(p, s, st, tok, scheduled)
  PROVE  status' # "idle"
<1>1. s # None
  BY ServicesAssumption
<1>2. QED  BY <1>1, StartCallLeavesIdle DEF AutoSync

LEMMA NextScheduled ==
  TypeOK /\ NextSyncIsScheduled /\ IdleIsQuiet /\ [Next]_vars
    => NextSyncIsScheduled' /\ IdleIsQuiet'
<1> SUFFICES ASSUME TypeOK, NextSyncIsScheduled, IdleIsQuiet, [Next]_vars
             PROVE  NextSyncIsScheduled' /\ IdleIsQuiet'
  OBVIOUS
<1>a. NextSyncIsScheduled <=> (current # None /\ status # "idle" => Promised)
  BY DEF NextSyncIsScheduled, Promised
<1>b. NextSyncIsScheduled' <=> (current' # None /\ status' # "idle" => Promised')
  BY DEF NextSyncIsScheduled, Promised
<1>c. current \in Services \cup {None} /\ None \notin Services
  BY ServicesAssumption DEF TypeOK
<1>1. ASSUME NEW p \in Calls, NEW s \in Services \cup {None}, Initialize(p, s)
      PROVE  NextSyncIsScheduled' /\ IdleIsQuiet'
  <2>1. CASE s = None
    BY <1>1, <1>b, <2>1 DEF Initialize, IdleIsQuiet
  <2>2. CASE s \in Services
    BY <1>1, <1>b, <2>2, AutoSyncPromises, AutoSyncLeavesIdle DEF Initialize, IdleIsQuiet
  <2>3. QED  BY <2>1, <2>2
<1>2. CASE SetAutomatic \/ Authorize \/ UNCHANGED vars
  BY <1>2 DEF SetAutomatic, Authorize, vars, NextSyncIsScheduled, IdleIsQuiet, Busy
<1>3. ASSUME NEW p \in Calls, TimerFires(p)
      PROVE  NextSyncIsScheduled' /\ IdleIsQuiet'
  <2>1. CASE current = None
    BY <1>3, <1>b, <2>1 DEF TimerFires, IdleIsQuiet
  <2>2. CASE current \in Services
    BY <1>3, <1>b, <2>2, AutoSyncPromises, AutoSyncLeavesIdle DEF TimerFires, IdleIsQuiet
  <2>3. QED  BY <1>c, <2>1, <2>2
<1>4. ASSUME NEW p \in Calls, SyncStart(p)
      PROVE  NextSyncIsScheduled' /\ IdleIsQuiet'
  <2>1. current \in Services /\ "syncLater" \in Purposes
    BY <1>c, <1>4 DEF SyncStart, HasService, Purposes
  <2>2. Promised' /\ status' # "idle"
    BY <1>4, <2>1, StartCallPromises, StartCallLeavesIdle DEF SyncStart
  <2>3. QED  BY <1>b, <2>2 DEF IdleIsQuiet
<1>5. ASSUME NEW p \in Calls, NEW valid \in BOOLEAN, SetConfig(p, valid)
      PROVE  NextSyncIsScheduled' /\ IdleIsQuiet'
  <2>1. current \in Services /\ "sync" \in Purposes /\ Promised
    BY <1>a, <1>c, <1>5 DEF SetConfig, HasService, Purposes
  <2>2. Promised' /\ status' # "idle"
    BY <1>5, <2>1, StartCallPromises, StartCallLeavesIdle DEF SetConfig
  <2>3. QED  BY <1>b, <2>2 DEF IdleIsQuiet
<1>6. CASE Redirect
  <2>1. /\ UNCHANGED << current, timer, stalled, call >>
        /\ status' = status \/ (status # "idle" /\ status' = "authorizing")
    BY <1>6, MovesList DEF Redirect
  <2>2. QED  BY <2>1 DEF NextSyncIsScheduled, IdleIsQuiet, Busy
<1>7. ASSUME NEW p \in Calls, NEW s \in Services, FinishAuth(p, s)
      PROVE  NextSyncIsScheduled' /\ IdleIsQuiet'
  <2>1. CASE current = None
    BY <1>7, <1>b, <2>1 DEF FinishAuth, IdleIsQuiet
  <2>2. CASE current \in Services /\ MayMove(status, "authorized")
    <3>1. AutoSync(p, current, "authorized", token', timer)
      BY <1>7, <2>2 DEF FinishAuth
    <3>2. Promised' /\ status' # "idle"
      BY <2>2, <3>1, AutoSyncPromises, AutoSyncLeavesIdle
    <3>3. QED  BY <1>b, <3>2 DEF IdleIsQuiet
  <2>3. CASE ~MayMove(status, "authorized")
    BY <1>7, <2>3 DEF FinishAuth, NextSyncIsScheduled, IdleIsQuiet, Busy
  <2>4. QED  BY <1>c, <2>1, <2>2, <2>3
<1>8. ASSUME NEW s \in Services, FinishAuthFails(s)
      PROVE  NextSyncIsScheduled' /\ IdleIsQuiet'
  <2>1. /\ UNCHANGED << current, timer, stalled, call >>
        /\ status' = status \/ (status # "idle" /\ status' = "errorAuth")
    BY <1>8, MovesList DEF FinishAuthFails, Moved
  <2>2. QED  BY <2>1 DEF NextSyncIsScheduled, IdleIsQuiet, Busy
<1>9. CASE Revoke
  <2>1. /\ UNCHANGED << current, timer, stalled, call >>
        /\ status # "idle" /\ status' \in {status, "unauthorized"}
    BY <1>9 DEF Revoke, HasService, Moved
  <2>2. QED  BY <2>1 DEF NextSyncIsScheduled, IdleIsQuiet, Busy
<1>10. ASSUME NEW p \in Calls, Busy(p), UNCHANGED current,
              Promised => Promised', status = "idle" \/ status' # "idle"
       PROVE  NextSyncIsScheduled' /\ IdleIsQuiet'
  <2>1. CASE current = None
    BY <1>10, <1>b, <2>1 DEF IdleIsQuiet
  <2>2. CASE current # None
    <3>1. status # "idle"
      BY <1>10, <2>2 DEF IdleIsQuiet
    <3>2. QED  BY <1>10, <1>a, <1>b, <2>2, <3>1 DEF IdleIsQuiet
  <2>3. QED  BY <2>1, <2>2
<1>11. ASSUME NEW p \in Calls, RequestAuthAnswers(p)
       PROVE  NextSyncIsScheduled' /\ IdleIsQuiet'
  <2>1. Busy(p) /\ UNCHANGED current
    BY <1>11 DEF RequestAuthAnswers, Busy
  <2>2. CASE \E to \in {"authorized", "unauthorized", "errorInit"} : Settle(p, to)
    <3>1. Promised => Promised'
      BY <2>1, <2>2, SettleKeepsPromise
    <3>2. status = "idle" \/ status' # "idle"
      BY <2>2 DEF Settle, Moved
    <3>3. QED  BY <1>10, <2>1, <3>1, <3>2
  <2>3. CASE call' = Awaits(p, "refreshing") /\ UNCHANGED << status, timer, stalled >>
    BY <1>10, <2>1, <2>3, AnswerKeepsPromise
  <2>4. QED  BY <1>11, <2>2, <2>3 DEF RequestAuthAnswers
<1>12. ASSUME NEW p \in Calls, RefreshAnswers(p)
       PROVE  NextSyncIsScheduled' /\ IdleIsQuiet'
  <2>1. Busy(p) /\ UNCHANGED current
    BY <1>12 DEF RefreshAnswers, Busy
  <2>2. CASE Settle(p, "errorInit")
    <3>1. Promised => Promised'
      BY <2>1, <2>2, SettleKeepsPromise
    <3>2. status = "idle" \/ status' # "idle"
      BY <2>2 DEF Settle, Moved
    <3>3. QED  BY <1>10, <2>1, <3>1, <3>2
  <2>3. CASE call' = Awaits(p, "asking2") /\ UNCHANGED << status, timer, stalled >>
    BY <1>10, <2>1, <2>3, AnswerKeepsPromise
  <2>4. QED  BY <1>12, <2>2, <2>3 DEF RefreshAnswers
<1>13. ASSUME NEW p \in Calls, NEW success \in BOOLEAN, SyncEnds(p, success)
       PROVE  NextSyncIsScheduled' /\ IdleIsQuiet'
  <2>1. Busy(p) /\ UNCHANGED current /\ call' = Ended(p)
    BY <1>13 DEF SyncEnds, Busy
  <2>2. /\ timer => timer'
        /\ stalled => stalled' \/ timer'
        /\ call[p].purpose = "syncLater" => timer' \/ stalled'
    BY <1>13, Zenon DEF SyncEnds
  <2>3. Promised => Promised'
    BY <2>1, <2>2, AnswerKeepsPromise
  <2>4. status = "idle" \/ status' # "idle"
    BY <1>13 DEF SyncEnds, Moved
  <2>5. QED  BY <1>10, <2>1, <2>3, <2>4
<1>14. QED
  BY <1>1, <1>2, <1>3, <1>4, <1>5, <1>6, <1>7, <1>8, <1>9, <1>11, <1>12, <1>13 DEF Next

(* Whatever way a call of autoSync() or sync() ends, short of throwing, it *)
(* leaves the next sync scheduled.                                         *)
THEOREM SyncGoesOn == Spec => []NextSyncIsScheduled
<1>1. Init => NextSyncIsScheduled /\ IdleIsQuiet
  BY DEF Init, NextSyncIsScheduled, IdleIsQuiet, Busy, Free
<1>2. QED  BY <1>1, NextScheduled, TypeCorrect, PTL DEF Spec
=============================================================================
