-------------------------- MODULE SyncMergeProofs --------------------------
(***************************************************************************)
(* The merge, for any devices, scripts and bounds: its types; that it      *)
(* loses no edit; and, as long as nothing disturbs a sync, that the meta   *)
(* file tells what is in the folder, that devices agree with it, and that  *)
(* what was removed does not come back.                                    *)
(***************************************************************************)
EXTENDS SyncMerge, TLAPS

(* What is listed, uploaded or saved is there, and what is downloaded has  *)
(* an entry.                                                               *)
Present ==
  \A d \in Devices :
    /\ \A u \in Uris : saving[d][u] # 0 => local[d][u].ver # 0
    /\ sync[d].pc = "listing" => \A u \in sync[d].listed : local[d][u].ver # 0
    /\ sync[d].pc = "working" =>
         /\ \A u \in sync[d].get : sync[d].info[u] # 0
         /\ \A u \in sync[d].put : local[d][u].ver # 0

Typed == TypeOK /\ Present

-----------------------------------------------------------------------------
(* Types *)

LEMMA SyncIs ==
  ASSUME NEW s \in Syncs
  PROVE  /\ s.pc = "off" => s = Off
         /\ s.pc = "listing" => s \in Listings
         /\ s.pc = "working" => s \in Workings
         /\ s.pc = "writing" => s \in Writings
         /\ s.pc \in {"off", "listing", "working", "writing"}
BY DEF Syncs, Off, Listings, Workings, Writings

LEMMA ScriptIs ==
  ASSUME NEW ver \in Time \ {0}, NEW modified \in Time \ {0}, NEW removed \in BOOLEAN
  PROVE  /\ Script(ver, modified, removed) \in Scripts
         /\ Script(ver, modified, removed).ver = ver
         /\ Script(ver, modified, removed).modified = modified
         /\ Script(ver, modified, removed).removed = removed
BY DEF Script, Scripts

LEMMA ScriptHas ==
  ASSUME NEW x \in Scripts
  PROVE  /\ x.ver \in Time /\ x.modified \in Time /\ x.removed \in BOOLEAN
         /\ x.ver # 0 => x.modified # 0
<1>1. 0 \in Time
  BY TimeAssumption DEF Time
<1>2. CASE x = NoScript
  BY <1>1, <1>2 DEF NoScript, Script
<1>3. CASE x \in [ver : Time \ {0}, modified : Time \ {0}, removed : BOOLEAN]
  BY <1>3
<1> QED
  BY <1>2, <1>3 DEF Scripts

LEMMA AnsweredIs ==
  ASSUME NEW s \in Workings, NEW u, NEW ok \in BOOLEAN
  PROVE  /\ Answered(s, u, ok) \in Workings
         /\ Answered(s, u, ok).pc = "working"
         /\ Answered(s, u, ok).get = s.get \ {u}
         /\ Answered(s, u, ok).put = s.put \ {u}
         /\ Answered(s, u, ok).info = s.info
BY DEF Answered, Workings

LEMMA NotedIs ==
  ASSUME NEW s \in Workings, NEW u \in Uris, NEW t \in Time
  PROVE  /\ Noted(s, u, t) \in Workings
         /\ Noted(s, u, t).get = s.get
         /\ Noted(s, u, t).put = s.put
         /\ Noted(s, u, t).info = [s.info EXCEPT ![u] = t]
BY DEF Noted, Workings, Infos

(* A script changes, and stays one.                                        *)
LEMMA LocalType ==
  ASSUME TypeOK, NEW d \in Devices, NEW u \in Uris, NEW x \in Scripts, x.ver # 0,
         local' = [local EXCEPT ![d][u] = x]
  PROVE  /\ local' \in [Devices -> [Uris -> Scripts]]
         /\ \A e \in Devices, v \in Uris : local[e][v].ver # 0 => local'[e][v].ver # 0
BY DEF TypeOK

(* A sync changes on one device.                                           *)
LEMMA SyncType ==
  ASSUME Typed, NEW d \in Devices, NEW x \in Syncs,
         sync' = [sync EXCEPT ![d] = x],
         \A e \in Devices, v \in Uris : local[e][v].ver # 0 => local'[e][v].ver # 0,
         saving' = saving,
         x.pc = "listing" => \A u \in x.listed : local[d][u].ver # 0,
         x.pc = "working" => /\ \A u \in x.get : x.info[u] # 0
                             /\ \A u \in x.put : local[d][u].ver # 0
  PROVE  sync' \in [Devices -> Syncs] /\ Present'
<1>1. sync' \in [Devices -> Syncs]
  BY DEF Typed, TypeOK
<1>2. ASSUME NEW e \in Devices
      PROVE  /\ \A u \in Uris : saving'[e][u] # 0 => local'[e][u].ver # 0
             /\ sync'[e].pc = "listing" => \A u \in sync'[e].listed : local'[e][u].ver # 0
             /\ sync'[e].pc = "working" =>
                  /\ \A u \in sync'[e].get : sync'[e].info[u] # 0
                  /\ \A u \in sync'[e].put : local'[e][u].ver # 0
  <2>1. sync'[e] \in Syncs
    BY <1>1
  <2>2. sync'[e].pc = "listing" => sync'[e].listed \subseteq Uris
    BY <2>1, SyncIs DEF Listings
  <2>3. sync'[e].pc = "working" => sync'[e].put \subseteq Uris
    BY <2>1, SyncIs DEF Workings
  <2>4. CASE e = d
    <3>1. sync'[e] = x
      BY <2>4 DEF Typed, TypeOK
    <3> QED
      BY <2>2, <2>3, <2>4, <3>1 DEF Typed, Present
  <2>5. CASE e # d
    <3>1. sync'[e] = sync[e]
      BY <2>5 DEF Typed, TypeOK
    <3> QED
      BY <2>2, <2>3, <3>1 DEF Typed, Present
  <2> QED
    BY <2>4, <2>5
<1> QED
  BY <1>1, <1>2 DEF Present

LEMMA InitTyped == Init => Typed
<1> SUFFICES ASSUME Init PROVE Typed
  OBVIOUS
<1>1. /\ 0 \in Time /\ 0 \in 0..MaxFailures /\ 0 \in 0..MaxOnce
  BY TimeAssumption DEF Time
<1>2. NoScript \in Scripts /\ Off \in Syncs /\ "merge" \in Modes /\ NoMeta \in Metas
  BY <1>1 DEF Scripts, Syncs, Modes, NoMeta, Metas, Infos
<1>3. TypeOK
  BY <1>1, <1>2 DEF Init, TypeOK, Infos
<1>4. Present
  BY DEF Init, Present, Off
<1> QED
  BY <1>3, <1>4 DEF Typed

LEMMA TickType ==
  ASSUME TypeOK, Tick
  PROVE  clock' \in Time \ {0} /\ clock' = clock + 1
BY TimeAssumption DEF TypeOK, Tick, Time

(* Only a script of one device changes, and what is still to be stored.    *)
LEMMA ScriptChangeType ==
  ASSUME Typed, NEW d \in Devices, NEW u \in Uris, NEW x \in Scripts, x.ver # 0,
         local' = [local EXCEPT ![d][u] = x], UNCHANGED sync,
         saving' \in [Devices -> Infos],
         \A e \in Devices, v \in Uris :
           (e = d /\ v = u) \/ saving'[e][v] = 0 \/ saving'[e][v] = saving[e][v]
  PROVE  local' \in [Devices -> [Uris -> Scripts]] /\ Present'
<1>1. /\ local' \in [Devices -> [Uris -> Scripts]]
      /\ \A e \in Devices, v \in Uris : local[e][v].ver # 0 => local'[e][v].ver # 0
  BY LocalType DEF Typed
<1>2. local'[d][u].ver # 0
  BY DEF Typed, TypeOK
<1>3. ASSUME NEW e \in Devices
      PROVE  /\ \A v \in Uris : saving'[e][v] # 0 => local'[e][v].ver # 0
             /\ sync'[e].pc = "listing" => \A v \in sync'[e].listed : local'[e][v].ver # 0
             /\ sync'[e].pc = "working" =>
                  /\ \A v \in sync'[e].get : sync'[e].info[v] # 0
                  /\ \A v \in sync'[e].put : local'[e][v].ver # 0
  <2>1. \A v \in Uris : saving'[e][v] # 0 => local'[e][v].ver # 0
    BY <1>1, <1>2 DEF Typed, Present
  <2>2. sync[e] \in Syncs
    BY DEF Typed, TypeOK
  <2>3. sync[e].pc = "listing" => sync[e].listed \subseteq Uris
    BY <2>2, SyncIs DEF Listings
  <2>4. sync[e].pc = "working" => sync[e].put \subseteq Uris
    BY <2>2, SyncIs DEF Workings
  <2> QED
    BY <1>1, <2>1, <2>3, <2>4 DEF Typed, Present
<1> QED
  BY <1>1, <1>3 DEF Present

LEMMA EditType ==
  ASSUME Typed, NEW d \in Devices, NEW u \in Uris, Edit(d, u)
  PROVE  Typed'
<1>1. clock' \in Time \ {0}
  BY TickType DEF Edit, Typed
<1>2. Script(clock', clock', FALSE) \in Scripts /\ Script(clock', clock', FALSE).ver # 0
  BY <1>1, ScriptIs
<1>3. local' \in [Devices -> [Uris -> Scripts]] /\ Present'
  BY <1>2, ScriptChangeType DEF Edit, Typed, TypeOK
<1>4. newest' \in Infos /\ raced' \in SUBSET Uris /\ dirty' \in [Devices -> SUBSET Uris]
  BY <1>1 DEF Edit, Typed, TypeOK, Infos
<1> QED
  BY <1>1, <1>3, <1>4 DEF Edit, Typed, TypeOK

LEMMA EditBeginsType ==
  ASSUME Typed, NEW d \in Devices, NEW u \in Uris, EditBegins(d, u)
  PROVE  Typed'
<1>1. clock' \in Time \ {0}
  BY TickType DEF EditBegins, Typed
<1>2. local[d][u].ver \in Time \ {0}
  BY ScriptHas DEF EditBegins, Alive, Typed, TypeOK
<1> DEFINE x == Script(local[d][u].ver, clock', FALSE)
<1>3. x \in Scripts /\ x.ver # 0
  BY <1>1, <1>2, ScriptIs
<1>4. local' = [local EXCEPT ![d][u] = x]
  BY DEF EditBegins
<1>5. saving' \in [Devices -> Infos]
  BY <1>1 DEF EditBegins, Typed, TypeOK, Infos
<1>6. \A e \in Devices, v \in Uris : saving'[e][v] = saving[e][v] \/ (e = d /\ v = u)
  BY DEF EditBegins, Typed, TypeOK, Infos
<1>7. local' \in [Devices -> [Uris -> Scripts]] /\ Present'
  <2> HIDE DEF x
  <2>1. sync' = sync
    BY DEF EditBegins
  <2>2. \A e \in Devices, v \in Uris :
          (e = d /\ v = u) \/ saving'[e][v] = 0 \/ saving'[e][v] = saving[e][v]
    BY <1>6
  <2> QED
    BY <1>3, <1>4, <1>5, <2>1, <2>2, ScriptChangeType
<1>8. newest' \in Infos /\ raced' \in SUBSET Uris /\ dirty' \in [Devices -> SUBSET Uris]
  BY <1>1 DEF EditBegins, Typed, TypeOK, Infos
<1> QED
  BY <1>1, <1>5, <1>7, <1>8 DEF EditBegins, Typed, TypeOK

LEMMA EditStoredType ==
  ASSUME Typed, NEW d \in Devices, NEW u \in Uris, EditStored(d, u)
  PROVE  Typed'
<1> DEFINE x == Script(saving[d][u], local[d][u].modified, local[d][u].removed)
<1>1. saving[d][u] \in Time \ {0}
  BY DEF EditStored, Typed, TypeOK, Infos
<1>2. local[d][u].modified \in Time \ {0} /\ local[d][u].removed \in BOOLEAN
  BY <1>1, ScriptHas DEF Typed, TypeOK, Present
<1>3. x \in Scripts /\ x.ver # 0
  BY <1>1, <1>2, ScriptIs
<1>4. local' = [local EXCEPT ![d][u] = x]
  BY DEF EditStored
<1>5. saving' \in [Devices -> Infos]
  BY TimeAssumption DEF EditStored, Typed, TypeOK, Infos, Time
<1>6. \A e \in Devices, v \in Uris : saving'[e][v] \in {0, saving[e][v]}
  BY DEF EditStored, Typed, TypeOK, Infos
<1>7. local' \in [Devices -> [Uris -> Scripts]] /\ Present'
  <2> HIDE DEF x
  <2>1. sync' = sync
    BY DEF EditStored
  <2>2. \A e \in Devices, v \in Uris :
          (e = d /\ v = u) \/ saving'[e][v] = 0 \/ saving'[e][v] = saving[e][v]
    BY <1>6
  <2> QED
    BY <1>3, <1>4, <1>5, <2>1, <2>2, ScriptChangeType
<1> QED
  BY <1>5, <1>7 DEF EditStored, Typed, TypeOK, Remote, History

LEMMA RemoveType ==
  ASSUME Typed, NEW d \in Devices, NEW u \in Uris, Remove(d, u)
  PROVE  Typed'
<1>1. clock' \in Time \ {0}
  BY TickType DEF Remove, Typed
<1>2. local[d][u].ver \in Time \ {0}
  BY ScriptHas DEF Remove, Alive, Typed, TypeOK
<1> DEFINE x == Script(local[d][u].ver, clock', TRUE)
<1>3. x \in Scripts /\ x.ver # 0
  BY <1>1, <1>2, ScriptIs
<1>4. local' = [local EXCEPT ![d][u] = x]
  BY DEF Remove
<1>5. local' \in [Devices -> [Uris -> Scripts]] /\ Present'
  <2> HIDE DEF x
  <2>1. saving' \in [Devices -> Infos] /\ saving' = saving /\ sync' = sync
    BY DEF Remove, Typed, TypeOK
  <2> QED
    BY <1>3, <1>4, <2>1, ScriptChangeType
<1>6. newest' \in Infos /\ dirty' \in [Devices -> SUBSET Uris] /\ disturbed' \in BOOLEAN
  BY TimeAssumption DEF Remove, Typed, TypeOK, Infos, Time
<1> QED
  BY <1>1, <1>5, <1>6 DEF Remove, Typed, TypeOK

(* A sync ends, or goes on with what it had no script to do with.          *)
LEMMA SyncGoesOnType ==
  ASSUME Typed, NEW d \in Devices, NEW x \in {Off} \cup Writings,
         sync' = [sync EXCEPT ![d] = x], UNCHANGED << local, saving >>
  PROVE  sync' \in [Devices -> Syncs] /\ Present'
<1>1. x \in Syncs /\ x.pc \in {"off", "writing"}
  BY DEF Syncs, Off, Writings
<1>2. \A e \in Devices, v \in Uris : local[e][v].ver # 0 => local'[e][v].ver # 0
  OBVIOUS
<1> QED
  BY <1>1, <1>2, SyncType

LEMMA StartType ==
  ASSUME Typed, NEW d \in Devices, NEW m \in Modes, Start(d, m)
  PROVE  /\ sync' \in [Devices -> Syncs] /\ Present'
         /\ mode' \in [Devices -> Modes]
<1> DEFINE x == [pc |-> "listing", mode |-> m, listed |-> Alive(d), remote |-> meta]
<1>1. x \in Syncs /\ x.pc = "listing" /\ x.listed = Alive(d)
  BY DEF Syncs, Listings, Alive, Typed, TypeOK
<1>2. sync' = [sync EXCEPT ![d] = x] /\ local' = local /\ saving' = saving
  BY DEF Start
<1>3. \A u \in Alive(d) : local[d][u].ver # 0
  BY DEF Alive
<1>4. sync' \in [Devices -> Syncs] /\ Present'
  <2> HIDE DEF x
  <2> QED
    BY <1>1, <1>2, <1>3, SyncType
<1>5. mode' \in [Devices -> Modes]
  BY DEF Start, Typed, TypeOK, Modes
<1> QED
  BY <1>4, <1>5

LEMMA StartsType ==
  ASSUME Typed, NEW d \in Devices, NEW m \in Modes, AutoSync(d) \/ SyncStart(d, m)
  PROVE  Typed'
<1>1. CASE AutoSync(d)
  <2>1. mode[d] \in Modes
    BY DEF Typed, TypeOK
  <2>2. /\ sync' \in [Devices -> Syncs] /\ Present'
        /\ mode' \in [Devices -> Modes]
    BY <1>1, <2>1, StartType DEF AutoSync
  <2> QED
    BY <1>1, <2>2 DEF AutoSync, Start, Typed, TypeOK, Remote, History
<1>2. CASE SyncStart(d, m)
  <2>1. once' \in 0..MaxOnce
    BY <1>2, TimeAssumption DEF SyncStart, Typed, TypeOK
  <2>2. CASE Start(d, m)
    <3>1. /\ sync' \in [Devices -> Syncs] /\ Present'
          /\ mode' \in [Devices -> Modes]
      BY <2>2, StartType
    <3> QED
      BY <2>1, <2>2, <3>1 DEF Start, Typed, TypeOK, Remote, History
  <2>3. CASE /\ mode' = [mode EXCEPT ![d] = m]
             /\ UNCHANGED << clock, local, saving, stamp, sync, Remote, failures, History >>
    <3>1. mode' \in [Devices -> Modes]
      BY <2>3 DEF Typed, TypeOK
    <3> QED
      BY <2>1, <2>3, <3>1 DEF Typed, TypeOK, Present, Remote, History
  <2> QED
    BY <1>2, <2>2, <2>3 DEF SyncStart
<1> QED
  BY <1>1, <1>2

LEMMA OutcomeType ==
  ASSUME TypeOK, NEW ok \in BOOLEAN, Outcome(ok)
  PROVE  failures' \in 0..MaxFailures
BY TimeAssumption DEF TypeOK, Outcome

LEMMA WorkingIs ==
  ASSUME Typed, NEW d \in Devices, Working(d)
  PROVE  /\ sync[d] \in Workings
         /\ \A u \in sync[d].get : u \in Uris /\ sync[d].info[u] \in Time \ {0}
         /\ \A u \in sync[d].put : u \in Uris /\ local[d][u].ver # 0
<1>1. sync[d] \in Workings
  BY SyncIs DEF Typed, TypeOK, Working
<1>2. /\ sync[d].get \subseteq Uris /\ sync[d].put \subseteq Uris
      /\ \A u \in Uris : sync[d].info[u] \in Time
  BY <1>1 DEF Workings, Infos
<1> QED
  BY <1>1, <1>2 DEF Typed, Present, Working

(* The request for a script was answered or given up.                      *)
LEMMA AnsweredType ==
  ASSUME Typed, NEW d \in Devices, Working(d), NEW u, NEW ok \in BOOLEAN,
         sync' = [sync EXCEPT ![d] = Answered(@, u, ok)], UNCHANGED saving,
         \A e \in Devices, v \in Uris : local[e][v].ver # 0 => local'[e][v].ver # 0
  PROVE  sync' \in [Devices -> Syncs] /\ Present'
<1> DEFINE x == Answered(sync[d], u, ok)
<1>1. sync[d] \in Workings
  BY WorkingIs
<1>2. /\ x \in Syncs /\ x.pc = "working" /\ x.info = sync[d].info
      /\ x.get \subseteq sync[d].get /\ x.put \subseteq sync[d].put
  BY <1>1, AnsweredIs DEF Syncs
<1>3. /\ \A v \in x.get : x.info[v] # 0
      /\ \A v \in x.put : local[d][v].ver # 0
  BY <1>2, WorkingIs
<1>4. sync' = [sync EXCEPT ![d] = x]
  OBVIOUS
<1> HIDE DEF x
<1> QED
  BY <1>2, <1>3, <1>4, SyncType

LEMMA DownloadType ==
  ASSUME Typed, NEW d \in Devices, NEW u \in Uris, Download(d, u)
  PROVE  Typed'
<1> DEFINE x == Script(file[u], sync[d].info[u], FALSE)
<1>1. x \in Scripts /\ x.ver # 0
  BY WorkingIs, ScriptIs DEF Download, Typed, TypeOK, Infos
<1>2. local' = [local EXCEPT ![d][u] = x]
  BY DEF Download
<1>3. /\ local' \in [Devices -> [Uris -> Scripts]]
      /\ \A e \in Devices, v \in Uris : local[e][v].ver # 0 => local'[e][v].ver # 0
  <2> HIDE DEF x
  <2> QED
    BY <1>1, <1>2, LocalType DEF Typed
<1>4. sync' \in [Devices -> Syncs] /\ Present'
  BY <1>3, AnsweredType DEF Download
<1> QED
  BY <1>3, <1>4 DEF Download, Typed, TypeOK, Remote

LEMMA UploadType ==
  ASSUME Typed, NEW d \in Devices, NEW u \in Uris, NEW ok \in BOOLEAN, Upload(d, u, ok)
  PROVE  Typed'
<1> DEFINE y == Noted(sync[d], u, local[d][u].modified)
           x == Answered(y, u, ok)
<1>1. Working(d) /\ sync[d] \in Workings /\ u \in sync[d].put
  BY WorkingIs DEF Upload
<1>2. /\ local[d][u].modified \in Time \ {0}
      /\ local[d][u].ver \in Time
  BY <1>1, WorkingIs, ScriptHas DEF Typed, TypeOK
<1>3. /\ y \in Workings /\ y.get = sync[d].get /\ y.put = sync[d].put
      /\ y.info = [sync[d].info EXCEPT ![u] = local[d][u].modified]
  BY <1>1, <1>2, NotedIs
<1>4. /\ x \in Syncs /\ x.pc = "working" /\ x.info = y.info
      /\ x.get \subseteq y.get /\ x.put \subseteq y.put
  <2> HIDE DEF y
  <2> QED
    BY <1>3, AnsweredIs DEF Syncs
<1>5. \A v \in sync[d].get : y.info[v] # 0
  <2> HIDE DEF y
  <2>1. sync[d].info \in [Uris -> Time]
    BY <1>1 DEF Workings, Infos
  <2> QED
    BY <1>1, <1>2, <1>3, <2>1, WorkingIs
<1>6. /\ \A v \in x.get : x.info[v] # 0
      /\ \A v \in x.put : local[d][v].ver # 0
  <2> HIDE DEF x, y
  <2> QED
    BY <1>1, <1>3, <1>4, <1>5, WorkingIs
<1>7. sync' = [sync EXCEPT ![d] = x] /\ saving' = saving /\ local' = local
  BY DEF Upload
<1>8. sync' \in [Devices -> Syncs] /\ Present'
  <2> HIDE DEF x
  <2> QED
    BY <1>4, <1>6, <1>7, SyncType
<1>9. failures' \in 0..MaxFailures
  BY OutcomeType DEF Upload, Typed
<1>10. file' \in Infos /\ disturbed' \in BOOLEAN
  BY <1>2 DEF Upload, Typed, TypeOK, Infos
<1> QED
  BY <1>8, <1>9, <1>10 DEF Upload, Typed, TypeOK

LEMMA RemoveRemoteType ==
  ASSUME Typed, NEW d \in Devices, NEW u \in Uris, NEW ok \in BOOLEAN, RemoveRemote(d, u, ok)
  PROVE  Typed'
<1>1. sync' \in [Devices -> Syncs] /\ Present'
  BY AnsweredType DEF RemoveRemote
<1>2. failures' \in 0..MaxFailures
  BY OutcomeType DEF RemoveRemote, Typed
<1>3. file' \in Infos /\ gone' \in [Uris -> SUBSET Time]
  <2>1. 0 \in Time
    BY TimeAssumption DEF Time
  <2>2. file[u] \in Time
    BY DEF Typed, TypeOK, Infos
  <2>3. file' \in Infos
    BY <2>1 DEF RemoveRemote, Typed, TypeOK, Infos
  <2>4. gone' \in [Uris -> SUBSET Time]
    BY <2>2 DEF RemoveRemote, Typed, TypeOK
  <2> QED
    BY <2>3, <2>4
<1> QED
  BY <1>1, <1>2, <1>3 DEF RemoveRemote, Typed, TypeOK

LEMMA RequestFailsType ==
  ASSUME Typed, NEW d \in Devices, NEW u \in Uris, RequestFails(d, u)
  PROVE  Typed'
<1>1. sync' \in [Devices -> Syncs] /\ Present'
  BY AnsweredType DEF RequestFails
<1>2. failures' \in 0..MaxFailures
  BY OutcomeType DEF RequestFails, Typed
<1> QED
  BY <1>1, <1>2 DEF RequestFails, Typed, TypeOK, Remote

LEMMA ListingFailsType ==
  ASSUME Typed, NEW d \in Devices, ListingFails(d)
  PROVE  Typed'
<1>1. sync' \in [Devices -> Syncs] /\ Present'
  BY SyncGoesOnType DEF ListingFails
<1>2. failures' \in 0..MaxFailures
  BY OutcomeType DEF ListingFails, Typed
<1> QED
  BY <1>1, <1>2 DEF ListingFails, Typed, TypeOK, Remote, History

LEMMA PutMetaType ==
  ASSUME Typed, NEW d \in Devices, PutMeta(d) \/ PutMetaFails(d)
  PROVE  Typed'
<1>1. sync' \in [Devices -> Syncs] /\ Present'
  BY SyncGoesOnType DEF PutMeta, PutMetaFails
<1>2. failures' \in 0..MaxFailures
  BY OutcomeType DEF PutMeta, PutMetaFails, Typed, TypeOK
<1>3. meta' \in Metas
  <2>1. sync[d] \in Syncs
    BY DEF Typed, TypeOK
  <2>2. sync[d].pc = "writing" => sync[d].remote \in Metas
    BY <2>1, SyncIs DEF Writings
  <2> QED
    BY <2>2 DEF PutMeta, PutMetaFails, Typed, TypeOK, Remote
<1> QED
  BY <1>1, <1>2, <1>3 DEF PutMeta, PutMetaFails, Typed, TypeOK, Remote

LEMMA FinishType ==
  ASSUME Typed, NEW d \in Devices, Finish(d)
  PROVE  Typed'
<1>1. sync[d] \in Workings
  BY WorkingIs DEF Finish
<1>2. sync[d].timestamp \in Time /\ sync[d].info \in Infos
  BY <1>1 DEF Workings
<1>3. CASE sync' = [sync EXCEPT ![d] = Off] /\ UNCHANGED clock
  <2>1. sync' \in [Devices -> Syncs] /\ Present'
    BY <1>3, SyncGoesOnType DEF Finish
  <2>2. stamp' \in [Devices -> Time]
    BY <1>2, <1>3 DEF Finish, Typed, TypeOK, Tick
  <2> QED
    BY <1>3, <2>1, <2>2 DEF Finish, Typed, TypeOK, Remote, History
<1>4. CASE /\ Tick
           /\ stamp' = [stamp EXCEPT ![d] = clock']
           /\ sync' = [sync EXCEPT ![d] =
                [pc |-> "writing", remote |-> [timestamp |-> clock', info |-> sync[d].info]]]
  <2>1. clock' \in Time
    BY <1>4, TickType DEF Typed
  <2>2. [pc |-> "writing", remote |-> [timestamp |-> clock', info |-> sync[d].info]] \in Writings
    BY <1>2, <2>1 DEF Writings, Metas
  <2>3. sync' \in [Devices -> Syncs] /\ Present'
    BY <1>4, <2>2, SyncGoesOnType DEF Finish
  <2>4. stamp' \in [Devices -> Time]
    BY <1>4, <2>1 DEF Typed, TypeOK
  <2> QED
    BY <2>1, <2>3, <2>4 DEF Finish, Typed, TypeOK, Remote, History
<1> QED
  BY <1>3, <1>4 DEF Finish

(* What Plan(d) decides, spelled out.                                      *)
Unknown(d) == {u \in Files : sync[d].remote.info[u] = 0}
Known(d) == [u \in Uris |-> IF u \in Unknown(d) THEN clock + 1
                            ELSE IF u \in Files THEN sync[d].remote.info[u] ELSE 0]
Gets(d)  == {u \in Files : RemoteWins(d, u, Known(d))}
Puts(d)  == {u \in sync[d].listed : LocalWins(d, u, Known(d))}
Dels(d)  == {u \in Files \ sync[d].listed : LocalWins(d, u, Known(d))}
Drops(d) == {u \in sync[d].listed \ Files : RemoteWins(d, u, Known(d))}
Noting(d) ==
  [u \in Uris |-> IF u \in Puts(d) /\ Known(d)[u] # 0 THEN local[d][u].modified
                  ELSE IF u \in Dels(d) THEN 0 ELSE Known(d)[u]]

LEMMA PlanIs ==
  ASSUME Typed, NEW d \in Devices, Plan(d)
  PROVE  /\ sync[d].pc = "listing" /\ sync[d] \in Listings
         /\ Unknown(d) \cup Drops(d) # {} => Tick
         /\ Unknown(d) \cup Drops(d) = {} => UNCHANGED clock
         /\ \A e \in Devices, u \in Uris :
              local'[e][u] = IF e = d /\ u \in Drops(d)
                             THEN Script(local[d][u].ver, clock + 1, TRUE) ELSE local[e][u]
         /\ local' = [local EXCEPT ![d] = local'[d]] /\ DOMAIN local'[d] = Uris
         /\ sync' = [sync EXCEPT ![d] = sync'[d]]
         /\ sync'[d] \in [pc : {"working"}, get : {Gets(d)}, put : {Puts(d)}, del : {Dels(d)},
                          failed : BOOLEAN, timestamp : {sync[d].remote.timestamp},
                          info : {Noting(d)}, changed : BOOLEAN]
         /\ dirty' = [dirty EXCEPT ![d] = Alive(d) \ sync[d].listed]
         /\ raced' = raced \cup Unknown(d) \cup Drops(d)
                       \cup (Gets(d) \cap (Alive(d) \ sync[d].listed))
                       \cup (IF FirstSync(d) \/ sync[d].mode = "pull" THEN Gets(d) ELSE {})
                       \cup (IF sync[d].mode = "push" THEN Puts(d) ELSE {})
<1>1. sync[d].pc = "listing" /\ sync[d] \in Listings
  BY SyncIs DEF Plan, Typed, TypeOK
<1>2. IF Unknown(d) \cup Drops(d) = {} THEN UNCHANGED clock ELSE Tick
  BY DEF Plan, Unknown, Drops, Known
<1>3. local' = [local EXCEPT ![d] = [u \in Uris |->
          IF u \in Drops(d) THEN Script(local[d][u].ver, clock + 1, TRUE) ELSE local[d][u]]]
  BY DEF Plan, Unknown, Drops, Known
<1>4. \A e \in Devices, u \in Uris :
              local'[e][u] = IF e = d /\ u \in Drops(d)
                             THEN Script(local[d][u].ver, clock + 1, TRUE) ELSE local[e][u]
  BY <1>3 DEF Typed, TypeOK
<1>5. local' = [local EXCEPT ![d] = local'[d]] /\ DOMAIN local'[d] = Uris
  BY <1>3 DEF Typed, TypeOK
<1>6. /\ sync' = [sync EXCEPT ![d] = sync'[d]]
      /\ sync'[d] \in [pc : {"working"}, get : {Gets(d)}, put : {Puts(d)}, del : {Dels(d)},
                       failed : BOOLEAN, timestamp : {sync[d].remote.timestamp},
                       info : {Noting(d)}, changed : BOOLEAN]
  <2> DEFINE c == \/ sync[d].remote.timestamp = 0 \/ Puts(d) \cup Dels(d) \cup Unknown(d) # {}
                  \/ Cardinality({u \in Uris : sync[d].remote.info[u] # 0}) # Cardinality(Files)
             x == [pc |-> "working", get |-> Gets(d), put |-> Puts(d), del |-> Dels(d),
                   failed |-> FALSE, timestamp |-> sync[d].remote.timestamp,
                   info |-> Noting(d), changed |-> c]
  <2>1. sync' = [sync EXCEPT ![d] = x]
    BY DEF Plan, Unknown, Gets, Puts, Dels, Noting, Known
  <2>2. c \in BOOLEAN
    OBVIOUS
  <2>3. x \in [pc : {"working"}, get : {Gets(d)}, put : {Puts(d)}, del : {Dels(d)},
               failed : BOOLEAN, timestamp : {sync[d].remote.timestamp},
               info : {Noting(d)}, changed : BOOLEAN]
    <3> HIDE DEF c
    <3> QED
      BY <2>2
  <2>4. sync'[d] = x
    <3> HIDE DEF x
    <3> QED
      BY <2>1 DEF Typed, TypeOK
  <2> QED
    BY <2>1, <2>3, <2>4
<1>7. dirty' = [dirty EXCEPT ![d] = Alive(d) \ sync[d].listed]
  BY DEF Plan
<1>8. raced' = raced \cup Unknown(d) \cup Drops(d)
                       \cup (Gets(d) \cap (Alive(d) \ sync[d].listed))
                       \cup (IF FirstSync(d) \/ sync[d].mode = "pull" THEN Gets(d) ELSE {})
                       \cup (IF sync[d].mode = "push" THEN Puts(d) ELSE {})
  BY DEF Plan, Unknown, Drops, Gets, Puts, Known
<1> QED
  BY <1>1, <1>2, <1>4, <1>5, <1>6, <1>7, <1>8

LEMMA KnownType ==
  ASSUME Typed, NEW d \in Devices, Plan(d)
  PROVE  /\ Known(d) \in Infos
         /\ \A u \in Files : Known(d)[u] # 0
         /\ Noting(d) \in Infos
         /\ \A u \in Uris : Noting(d)[u] \in {0, Known(d)[u], local[d][u].modified}
<1>1. 0 \in Time
  BY TimeAssumption DEF Time
<1>2. sync[d].remote.info \in [Uris -> Time]
  BY PlanIs DEF Listings, Metas, Infos
<1>3. Unknown(d) # {} => clock + 1 \in Time \ {0}
  BY PlanIs, TickType DEF Typed
<1>4. Known(d) \in Infos
  BY <1>1, <1>2, <1>3 DEF Known, Infos
<1>5. \A u \in Files : Known(d)[u] # 0
  BY <1>2, <1>3 DEF Known, Unknown, Files
<1>6. \A u \in Uris : local[d][u].modified \in Time
  BY ScriptHas DEF Typed, TypeOK
<1>7. Noting(d) \in Infos
  BY <1>1, <1>4, <1>6 DEF Noting, Infos
<1>8. \A u \in Uris : Noting(d)[u] \in {0, Known(d)[u], local[d][u].modified}
  BY DEF Noting
<1> QED
  BY <1>4, <1>5, <1>7, <1>8

LEMMA PlanType ==
  ASSUME Typed, NEW d \in Devices, Plan(d)
  PROVE  Typed'
<1>1. /\ sync[d].listed \subseteq Uris /\ sync[d].remote \in Metas
      /\ \A u \in sync[d].listed : local[d][u].ver # 0
  BY PlanIs DEF Listings, Typed, Present
<1>2. /\ Gets(d) \subseteq Files /\ Puts(d) \subseteq sync[d].listed
      /\ Dels(d) \subseteq Files /\ Drops(d) \subseteq sync[d].listed
      /\ Unknown(d) \subseteq Uris /\ Files \subseteq Uris
  BY DEF Gets, Puts, Dels, Drops, Unknown, Files
<1>3. clock' \in Time /\ (Drops(d) # {} => clock + 1 \in Time \ {0})
  BY PlanIs, TickType DEF Typed, TypeOK
<1>4. ASSUME NEW e \in Devices, NEW u \in Uris
      PROVE  local'[e][u] \in Scripts /\ (local[e][u].ver # 0 => local'[e][u].ver # 0)
  <2>1. CASE e = d /\ u \in Drops(d)
    <3>1. local[d][u].ver \in Time \ {0}
      BY <1>1, <1>2, <2>1, ScriptHas DEF Typed, TypeOK
    <3>2. local'[e][u] = Script(local[d][u].ver, clock + 1, TRUE)
      BY <2>1, PlanIs
    <3>3. clock + 1 \in Time \ {0}
      BY <1>3, <2>1
    <3> DEFINE now == clock + 1
    <3>4. /\ Script(local[d][u].ver, now, TRUE) \in Scripts
          /\ Script(local[d][u].ver, now, TRUE).ver = local[d][u].ver
      <4> HIDE DEF now
      <4>1. now \in Time \ {0}
        BY <3>3 DEF now
      <4> QED
        BY <3>1, <4>1, ScriptIs
    <3> QED
      BY <3>1, <3>2, <3>4
  <2>2. CASE ~(e = d /\ u \in Drops(d))
    <3>1. local'[e][u] = local[e][u]
      <4>1. \A f \in Devices, v \in Uris :
              local'[f][v] = IF f = d /\ v \in Drops(d)
                             THEN Script(local[d][v].ver, clock + 1, TRUE) ELSE local[f][v]
        BY PlanIs
      <4> QED
        BY <2>2, <4>1
    <3> QED
      BY <3>1 DEF Typed, TypeOK
  <2> QED
    BY <2>1, <2>2
<1>5. local' \in [Devices -> [Uris -> Scripts]]
  <2>1. local' = [local EXCEPT ![d] = local'[d]] /\ DOMAIN local'[d] = Uris
    BY PlanIs
  <2>2. local'[d] = [u \in Uris |-> IF u \in Drops(d)
                                    THEN Script(local[d][u].ver, clock + 1, TRUE)
                                    ELSE local[d][u]]
    BY DEF Plan, Drops, Known, Unknown, Typed, TypeOK
  <2>3. \A u \in Uris : local'[d][u] \in Scripts
    BY <1>4
  <2>4. local'[d] \in [Uris -> Scripts]
    BY <2>2, <2>3
  <2> QED
    BY <2>1, <2>4 DEF Typed, TypeOK
<1>6. sync'[d] \in Workings
  <2>1. Noting(d) \in Infos
    BY KnownType
  <2>2. /\ Gets(d) \in SUBSET Uris /\ Puts(d) \in SUBSET Uris /\ Dels(d) \in SUBSET Uris
        /\ sync[d].remote.timestamp \in Time
    BY <1>1, <1>2 DEF Metas
  <2> QED
    BY <2>1, <2>2, PlanIs DEF Workings
<1>7. /\ sync'[d].pc = "working" /\ sync'[d].get = Gets(d) /\ sync'[d].put = Puts(d)
      /\ sync'[d].info = Noting(d)
  BY PlanIs
<1>8. \A u \in Gets(d) : Noting(d)[u] # 0
  <2>1. \A u \in Gets(d) : u \notin Dels(d)
    BY DEF Gets, Dels, RemoteWins, LocalWins
  <2>2. \A u \in Gets(d) : u \in Uris /\ Known(d)[u] # 0
    BY <1>2, KnownType
  <2>3. \A u \in Puts(d) : local[d][u].modified # 0
    BY <1>1, <1>2, ScriptHas DEF Typed, TypeOK
  <2> QED
    BY <2>1, <2>2, <2>3 DEF Noting
<1>9. sync' \in [Devices -> Syncs] /\ Present'
  <2>1. sync' = [sync EXCEPT ![d] = sync'[d]] /\ saving' = saving
    BY PlanIs DEF Plan
  <2>2. sync'[d] \in Syncs
    BY <1>6 DEF Syncs
  <2>3. \A e \in Devices, v \in Uris : local[e][v].ver # 0 => local'[e][v].ver # 0
    BY <1>4
  <2>4. \A u \in Puts(d) : local[d][u].ver # 0
    BY <1>1, <1>2
  <2> DEFINE x == sync'[d]
  <2>5. /\ sync' = [sync EXCEPT ![d] = x] /\ x \in Syncs /\ x.pc = "working"
        /\ \A u \in x.get : x.info[u] # 0
        /\ \A u \in x.put : local[d][u].ver # 0
    BY <1>7, <1>8, <2>1, <2>2, <2>4
  <2> HIDE DEF x
  <2> QED
    BY <2>1, <2>3, <2>5, SyncType
<1>10. raced' \in SUBSET Uris /\ dirty' \in [Devices -> SUBSET Uris]
  <2>1. Alive(d) \subseteq Uris
    BY DEF Alive
  <2>2. dirty' \in [Devices -> SUBSET Uris]
    <3>1. dirty' = [dirty EXCEPT ![d] = Alive(d) \ sync[d].listed]
      BY PlanIs
    <3> QED
      BY <2>1, <3>1 DEF Typed, TypeOK
  <2>3. raced \subseteq Uris
    BY DEF Typed, TypeOK
  <2>4. raced' \subseteq Uris
    <3>1. raced' = raced \cup Unknown(d) \cup Drops(d)
                     \cup (Gets(d) \cap (Alive(d) \ sync[d].listed))
                     \cup (IF FirstSync(d) \/ sync[d].mode = "pull" THEN Gets(d) ELSE {})
                     \cup (IF sync[d].mode = "push" THEN Puts(d) ELSE {})
      BY PlanIs
    <3> QED
      BY <1>1, <1>2, <2>3, <3>1
  <2> QED
    BY <2>2, <2>4
<1> QED
  BY <1>3, <1>5, <1>9, <1>10 DEF Plan, Typed, TypeOK, Remote

LEMMA NextTyped == Typed /\ [Next]_vars => Typed'
<1> SUFFICES ASSUME Typed, [Next]_vars PROVE Typed'
  OBVIOUS
<1>1. ASSUME NEW d \in Devices, NEW u \in Uris, Edit(d, u) PROVE Typed'
  BY <1>1, EditType
<1>2. ASSUME NEW d \in Devices, NEW u \in Uris, EditBegins(d, u) PROVE Typed'
  BY <1>2, EditBeginsType
<1>3. ASSUME NEW d \in Devices, NEW u \in Uris, EditStored(d, u) PROVE Typed'
  BY <1>3, EditStoredType
<1>4. ASSUME NEW d \in Devices, NEW u \in Uris, Remove(d, u) PROVE Typed'
  BY <1>4, RemoveType
<1>5. ASSUME NEW d \in Devices, AutoSync(d) PROVE Typed'
  <2>1. "merge" \in Modes
    BY DEF Modes
  <2> QED
    BY <1>5, <2>1, StartsType
<1>6. ASSUME NEW d \in Devices, NEW m \in Modes, SyncStart(d, m) PROVE Typed'
  BY <1>6, StartsType
<1>7. ASSUME NEW d \in Devices, Plan(d) PROVE Typed'
  BY <1>7, PlanType
<1>8. ASSUME NEW d \in Devices, NEW u \in Uris, Download(d, u) PROVE Typed'
  BY <1>8, DownloadType
<1>9. ASSUME NEW d \in Devices, NEW u \in Uris, RequestFails(d, u) PROVE Typed'
  BY <1>9, RequestFailsType
<1>10. ASSUME NEW d \in Devices, NEW u \in Uris, NEW ok \in BOOLEAN, Upload(d, u, ok)
       PROVE  Typed'
  BY <1>10, UploadType
<1>11. ASSUME NEW d \in Devices, NEW u \in Uris, NEW ok \in BOOLEAN, RemoveRemote(d, u, ok)
       PROVE  Typed'
  BY <1>11, RemoveRemoteType
<1>12. ASSUME NEW d \in Devices, ListingFails(d) PROVE Typed'
  BY <1>12, ListingFailsType
<1>13. ASSUME NEW d \in Devices, Finish(d) PROVE Typed'
  BY <1>13, FinishType
<1>14. ASSUME NEW d \in Devices, PutMeta(d) \/ PutMetaFails(d) PROVE Typed'
  BY <1>14, PutMetaType
<1>15. CASE UNCHANGED vars
  BY <1>15 DEF vars, Typed, TypeOK, Present
<1> QED
  BY <1>1, <1>2, <1>3, <1>4, <1>5, <1>6, <1>7, <1>8, <1>9, <1>10, <1>11, <1>12, <1>13,
     <1>14, <1>15 DEF Next

(* Every variable of the merge has its type: what is downloaded is a       *)
(* script with a time, what is uploaded is there (_sync).                  *)
THEOREM TypeCorrect == Spec => []TypeOK
<1>1. Typed => TypeOK
  BY DEF Typed
<1> QED
  BY <1>1, InitTyped, NextTyped, PTL DEF Spec

-----------------------------------------------------------------------------
(* No edit is lost *)

(* The time that a sync has for a script.                                  *)
Entry(s, u) ==
  IF s.pc = "working" THEN s.info[u]
  ELSE IF s.pc \in {"listing", "writing"} THEN s.remote.info[u] ELSE 0

(* The times that anybody has for a script.                                *)
Stamps(u) ==
  {0, meta.info[u]} \cup {local[d][u].modified : d \in Devices}
                    \cup {Entry(sync[d], u) : d \in Devices}

(* The device has the last edit of a script, or is saving it, with its     *)
(* time.                                                                   *)
Holds(d, u) ==
  /\ local[d][u].ver # 0 /\ ~local[d][u].removed
  /\ local[d][u].modified >= newest[u]
  /\ \/ saving[d][u] = newest[u]
     \/ saving[d][u] = 0 /\ local[d][u].ver = newest[u]

Ahead(u) == {t \in Stamps(u) : t > newest[u]}

(* The syncs that are about to replace the last edit of a script.          *)
Overwriting(u) ==
  {d \in Devices : sync[d].pc = "working" /\ u \in sync[d].get /\ Holds(d, u)}

Holders(u) == {d \in Devices : Holds(d, u)}

(* The inductive invariant behind LatestEditSurvives: nobody has a time    *)
(* later than that of the last edit, so that the device where it was made  *)
(* never takes a file for newer.                                           *)
Past == \A u \in Uris : \A t \in Stamps(u) : t <= clock

Kept ==
  \A u \in Uris \ raced :
    newest[u] # 0 => Ahead(u) = {} /\ Overwriting(u) = {} /\ Holders(u) # {}

LEMMA TimesType ==
  ASSUME Typed
  PROVE  /\ clock \in Nat
         /\ \A u \in Uris : newest[u] \in Nat /\ meta.info[u] \in Nat
         /\ \A d \in Devices, u \in Uris :
              /\ local[d][u].ver \in Nat /\ local[d][u].modified \in Nat
              /\ saving[d][u] \in Nat
              /\ Entry(sync[d], u) \in Nat
         /\ \A u \in Uris : Stamps(u) \subseteq Nat
<1>1. Time \subseteq Nat
  BY TimeAssumption DEF Time
<1>2. clock \in Nat /\ \A u \in Uris : newest[u] \in Nat /\ meta.info[u] \in Nat
  BY <1>1 DEF Typed, TypeOK, Infos, Metas
<1>3. ASSUME NEW d \in Devices, NEW u \in Uris
      PROVE  /\ local[d][u].ver \in Nat /\ local[d][u].modified \in Nat
             /\ saving[d][u] \in Nat
             /\ Entry(sync[d], u) \in Nat
  <2>1. local[d][u].ver \in Nat /\ local[d][u].modified \in Nat
    BY <1>1, ScriptHas DEF Typed, TypeOK
  <2>2. saving[d][u] \in Nat
    BY <1>1 DEF Typed, TypeOK, Infos
  <2>3. sync[d] \in Syncs
    BY DEF Typed, TypeOK
  <2>4. sync[d].pc = "working" => sync[d].info[u] \in Time
    BY <2>3, SyncIs DEF Workings, Infos
  <2>5. sync[d].pc \in {"listing", "writing"} => sync[d].remote.info[u] \in Time
    BY <2>3, SyncIs DEF Listings, Writings, Metas, Infos
  <2>6. Entry(sync[d], u) \in Nat
    BY <1>1, <2>4, <2>5 DEF Entry
  <2> QED
    BY <2>1, <2>2, <2>6
<1> QED
  BY <1>2, <1>3 DEF Stamps

(* What an action does to the times: those of the clock are new, and only  *)
(* an edit, a removal or a race brings one.                                *)
StampsKept(u) ==
  /\ Stamps(u)' \subseteq Stamps(u) \cup {clock'}
  /\ newest'[u] # 0 /\ u \notin raced' =>
       \/ newest'[u] = clock'
       \/ newest'[u] = newest[u] /\ Stamps(u)' \subseteq Stamps(u)

LEMMA StampsFrom ==
  ASSUME NEW u \in Uris, NEW S,
         S = Stamps(u) \/ S = Stamps(u) \cup {clock'},
         meta'.info[u] \in S,
         \A d \in Devices : local'[d][u].modified \in S /\ Entry(sync'[d], u) \in S
  PROVE  Stamps(u)' \subseteq S
BY DEF Stamps

LEMMA StampsHave ==
  ASSUME NEW u \in Uris
  PROVE  /\ 0 \in Stamps(u) /\ meta.info[u] \in Stamps(u)
         /\ \A d \in Devices :
              local[d][u].modified \in Stamps(u) /\ Entry(sync[d], u) \in Stamps(u)
BY DEF Stamps

LEMMA ScriptEffect ==
  ASSUME Typed, NEW d \in Devices, NEW u \in Uris, NEW x,
         local' = [local EXCEPT ![d][u] = x]
  PROVE  /\ local'[d][u] = x
         /\ \A e \in Devices, v \in Uris : (e # d \/ v # u) => local'[e][v] = local[e][v]
BY DEF Typed, TypeOK

LEMMA SyncEffect ==
  ASSUME Typed, NEW d \in Devices, NEW x, sync' = [sync EXCEPT ![d] = x]
  PROVE  sync'[d] = x /\ \A e \in Devices : e # d => sync'[e] = sync[e]
BY DEF Typed, TypeOK

(* The record of a changed script, for the actions that change one.        *)
LEMMA EditEffect ==
  ASSUME Typed, NEW d \in Devices, NEW u \in Uris,
         Edit(d, u) \/ EditBegins(d, u) \/ EditStored(d, u) \/ Remove(d, u)
  PROVE  /\ \A e \in Devices, v \in Uris :
              (e # d \/ v # u) => local'[e][v] = local[e][v] /\ saving'[e][v] = saving[e][v]
         /\ ~EditStored(d, u) => local'[d][u].modified = clock'
         /\ EditStored(d, u) => /\ local'[d][u].modified = local[d][u].modified
                                /\ local'[d][u].removed = local[d][u].removed
                                /\ local'[d][u].ver = saving[d][u]
                                /\ saving'[d][u] = 0
         /\ sync' = sync /\ meta' = meta
<1>1. \A e \in Devices, v \in Uris : (e # d \/ v # u) => saving'[e][v] = saving[e][v]
  <2>1. CASE saving' = saving
    BY <2>1
  <2>2. CASE \E y : saving' = [saving EXCEPT ![d][u] = y]
    BY <2>2 DEF Typed, TypeOK, Infos
  <2> QED
    BY <2>1, <2>2 DEF Edit, EditBegins, EditStored, Remove
<1>2. CASE Edit(d, u) \/ EditBegins(d, u) \/ Remove(d, u)
  <2>1. ASSUME NEW x, local' = [local EXCEPT ![d][u] = x]
        PROVE  /\ local'[d][u] = x
               /\ \A e \in Devices, v \in Uris : (e # d \/ v # u) => local'[e][v] = local[e][v]
    <3>1. local' = [local EXCEPT ![d][u] = x]
      BY <2>1
    <3> QED
      BY <3>1, ScriptEffect
  <2>2. /\ local'[d][u].modified = clock'
        /\ \A e \in Devices, v \in Uris : (e # d \/ v # u) => local'[e][v] = local[e][v]
    <3>1. CASE Edit(d, u)
      <4> DEFINE x == Script(clock', clock', FALSE)
      <4>1. local' = [local EXCEPT ![d][u] = x]
        BY <3>1 DEF Edit
      <4>2. x.modified = clock'
        BY DEF Script
      <4> HIDE DEF x
      <4> QED
        BY <2>1, <4>1, <4>2
    <3>2. CASE EditBegins(d, u)
      <4> DEFINE x == Script(local[d][u].ver, clock', FALSE)
      <4>1. local' = [local EXCEPT ![d][u] = x]
        BY <3>2 DEF EditBegins
      <4>2. x.modified = clock'
        BY DEF Script
      <4> HIDE DEF x
      <4> QED
        BY <2>1, <4>1, <4>2
    <3>3. CASE Remove(d, u)
      <4> DEFINE x == Script(local[d][u].ver, clock', TRUE)
      <4>1. local' = [local EXCEPT ![d][u] = x]
        BY <3>3 DEF Remove
      <4>2. x.modified = clock'
        BY DEF Script
      <4> HIDE DEF x
      <4> QED
        BY <2>1, <4>1, <4>2
    <3> QED
      BY <1>2, <3>1, <3>2, <3>3
  <2>3. sync' = sync /\ meta' = meta
    BY <1>2 DEF Edit, EditBegins, Remove
  <2>4. ~EditStored(d, u)
    BY <1>2 DEF Edit, EditBegins, Remove, EditStored
  <2> QED
    BY <1>1, <2>2, <2>3, <2>4
<1>3. CASE EditStored(d, u)
  <2> DEFINE x == Script(saving[d][u], local[d][u].modified, local[d][u].removed)
  <2>1. local' = [local EXCEPT ![d][u] = x]
    BY <1>3 DEF EditStored
  <2>2. /\ local'[d][u] = x
        /\ \A e \in Devices, v \in Uris : (e # d \/ v # u) => local'[e][v] = local[e][v]
    <3> HIDE DEF x
    <3> QED
      BY <2>1, ScriptEffect
  <2>3. /\ local'[d][u].modified = local[d][u].modified
        /\ local'[d][u].removed = local[d][u].removed
        /\ local'[d][u].ver = saving[d][u]
    BY <2>2 DEF Script
  <2>4. saving'[d][u] = 0
    BY <1>3 DEF EditStored, Typed, TypeOK, Infos
  <2>5. sync' = sync /\ meta' = meta
    BY <1>3 DEF EditStored, Remote
  <2> QED
    BY <1>1, <1>3, <2>2, <2>3, <2>4, <2>5
<1> QED
  BY <1>2, <1>3

LEMMA EditStamps ==
  ASSUME Typed, NEW d \in Devices, NEW u \in Uris,
         Edit(d, u) \/ EditBegins(d, u) \/ EditStored(d, u) \/ Remove(d, u),
         NEW v \in Uris
  PROVE  StampsKept(v)
<1>1. /\ meta'.info[v] \in Stamps(v)
      /\ \A e \in Devices : Entry(sync'[e], v) \in Stamps(v)
  BY EditEffect, StampsHave
<1>2. \A e \in Devices : local'[e][v].modified \in Stamps(v) \cup {clock'}
  BY EditEffect, StampsHave
<1>3. Stamps(v)' \subseteq Stamps(v) \cup {clock'}
  BY <1>1, <1>2, StampsFrom
<1>4. CASE v # u \/ EditStored(d, u)
  <2>1. \A e \in Devices : local'[e][v].modified \in Stamps(v)
    BY <1>4, EditEffect, StampsHave
  <2>2. Stamps(v)' \subseteq Stamps(v)
    BY <1>1, <2>1, StampsFrom
  <2>3. newest'[v] = newest[v]
    BY <1>4 DEF Edit, EditBegins, EditStored, Remove, History, Typed, TypeOK, Infos
  <2> QED
    BY <1>3, <2>2, <2>3 DEF StampsKept
<1>5. CASE v = u /\ Remove(d, u)
  <2>1. newest'[v] = 0
    BY <1>5 DEF Remove, Typed, TypeOK, Infos
  <2> QED
    BY <1>3, <2>1 DEF StampsKept
<1>6. CASE v = u /\ (Edit(d, u) \/ EditBegins(d, u))
  <2>1. newest'[v] = clock'
    BY <1>6 DEF Edit, EditBegins, Typed, TypeOK, Infos
  <2> QED
    BY <1>3, <2>1 DEF StampsKept
<1> QED
  BY <1>4, <1>5, <1>6

LEMMA StampsStay ==
  ASSUME Typed, NEW u \in Uris, newest' = newest,
         meta'.info[u] \in Stamps(u),
         \A d \in Devices : local'[d][u].modified \in Stamps(u),
         \A d \in Devices : Entry(sync'[d], u) \in Stamps(u)
  PROVE  StampsKept(u)
<1>1. Stamps(u)' \subseteq Stamps(u)
  BY StampsFrom
<1> QED
  BY <1>1 DEF StampsKept

LEMMA OneEntry ==
  ASSUME Typed, NEW d \in Devices, NEW x, sync' = [sync EXCEPT ![d] = x],
         NEW u \in Uris, Entry(x, u) \in Stamps(u)
  PROVE  \A e \in Devices : Entry(sync'[e], u) \in Stamps(u)
<1>1. sync'[d] = x /\ \A e \in Devices : e # d => sync'[e] = sync[e]
  BY SyncEffect
<1>2. \A e \in Devices : Entry(sync[e], u) \in Stamps(u)
  BY StampsHave
<1> QED
  BY <1>1, <1>2

(* The time that a sync has for a script, by what the sync does.           *)
LEMMA EntryIs ==
  ASSUME NEW s, NEW u
  PROVE  /\ s.pc = "working" => Entry(s, u) = s.info[u]
         /\ s.pc \in {"listing", "writing"} => Entry(s, u) = s.remote.info[u]
         /\ s.pc = "off" => Entry(s, u) = 0
BY DEF Entry

LEMMA StartStamps ==
  ASSUME Typed, NEW d \in Devices, NEW m \in Modes, Start(d, m), NEW u \in Uris
  PROVE  StampsKept(u)
<1> DEFINE x == [pc |-> "listing", mode |-> m, listed |-> Alive(d), remote |-> meta]
<1>1. sync' = [sync EXCEPT ![d] = x] /\ local' = local /\ meta' = meta /\ newest' = newest
  BY DEF Start, Remote, History
<1>2. Entry(x, u) = meta.info[u]
  BY DEF Entry
<1> HIDE DEF x
<1>3. Entry(x, u) \in Stamps(u)
  BY <1>2, StampsHave
<1>4. \A e \in Devices : Entry(sync'[e], u) \in Stamps(u)
  BY <1>1, <1>3, OneEntry
<1> QED
  BY <1>1, <1>4, StampsHave, StampsStay

LEMMA DownloadStamps ==
  ASSUME Typed, NEW d \in Devices, NEW v \in Uris, Download(d, v), NEW u \in Uris
  PROVE  StampsKept(u)
<1> DEFINE x == Answered(sync[d], v, TRUE)
           y == Script(file[v], sync[d].info[v], FALSE)
<1>1. /\ sync' = [sync EXCEPT ![d] = x] /\ local' = [local EXCEPT ![d][v] = y]
      /\ meta' = meta /\ newest' = newest
      /\ sync[d].pc = "working"
  BY DEF Download, Remote, Working
<1>2. sync[d] \in Workings
  BY <1>1, SyncIs DEF Typed, TypeOK
<1>3. x.pc = "working" /\ x.info = sync[d].info
  BY <1>2, AnsweredIs
<1>4. y.modified = Entry(sync[d], v)
  BY <1>1, EntryIs DEF Script
<1>5. Entry(x, u) = Entry(sync[d], u)
  <2> HIDE DEF x
  <2> QED
    BY <1>1, <1>3, EntryIs
<1> HIDE DEF x, y
<1>6. \A e \in Devices : Entry(sync'[e], u) \in Stamps(u)
  BY <1>1, <1>5, OneEntry, StampsHave
<1>7. \A e \in Devices : local'[e][u].modified \in Stamps(u)
  <2>1. /\ local'[d][v] = y
        /\ \A e \in Devices, w \in Uris : (e # d \/ w # v) => local'[e][w] = local[e][w]
    <3>1. local' = [local EXCEPT ![d][v] = y]
      BY <1>1
    <3> QED
      BY <3>1, ScriptEffect
  <2> QED
    BY <1>4, <2>1, StampsHave
<1> QED
  BY <1>1, <1>6, <1>7, StampsHave, StampsStay

LEMMA UploadStamps ==
  ASSUME Typed, NEW d \in Devices, NEW v \in Uris, NEW ok \in BOOLEAN, Upload(d, v, ok),
         NEW u \in Uris
  PROVE  StampsKept(u)
<1> DEFINE n == Noted(sync[d], v, local[d][v].modified)
           x == Answered(n, v, ok)
<1>1. /\ sync' = [sync EXCEPT ![d] = x] /\ local' = local
      /\ meta' = meta /\ newest' = newest
      /\ sync[d].pc = "working"
  BY DEF Upload, Working
<1>2. sync[d] \in Workings
  BY <1>1, SyncIs DEF Typed, TypeOK
<1>3. local[d][v].modified \in Time
  BY ScriptHas DEF Typed, TypeOK
<1>4. /\ n \in Workings /\ n.info = [sync[d].info EXCEPT ![v] = local[d][v].modified]
  BY <1>2, <1>3, NotedIs
<1>5. x.pc = "working" /\ x.info = n.info
  <2> HIDE DEF n
  <2> QED
    BY <1>4, AnsweredIs
<1>6. Entry(x, u) \in {Entry(sync[d], u), local[d][u].modified}
  <2>1. sync[d].info \in Infos
    BY <1>2 DEF Workings
  <2>2. x.info[u] = IF u = v THEN local[d][v].modified ELSE sync[d].info[u]
    <3> HIDE DEF n, x
    <3> QED
      BY <1>4, <1>5, <2>1 DEF Infos
  <2> HIDE DEF n, x
  <2> QED
    BY <1>1, <1>5, <2>2, EntryIs
<1> HIDE DEF n, x
<1>7. \A e \in Devices : Entry(sync'[e], u) \in Stamps(u)
  BY <1>1, <1>6, OneEntry, StampsHave
<1> QED
  BY <1>1, <1>7, StampsHave, StampsStay

LEMMA AnswerStamps ==
  ASSUME Typed, NEW d \in Devices, NEW v \in Uris, NEW ok \in BOOLEAN,
         RemoveRemote(d, v, ok) \/ RequestFails(d, v), NEW u \in Uris
  PROVE  StampsKept(u)
<1>1. /\ \E b \in BOOLEAN : sync' = [sync EXCEPT ![d] = Answered(sync[d], v, b)]
      /\ local' = local /\ meta' = meta /\ newest' = newest
      /\ sync[d].pc = "working"
  BY DEF RemoveRemote, RequestFails, Working, Remote
<1>2. sync[d] \in Workings
  BY <1>1, SyncIs DEF Typed, TypeOK
<1>3. PICK b \in BOOLEAN : sync' = [sync EXCEPT ![d] = Answered(sync[d], v, b)]
  BY <1>1
<1> DEFINE x == Answered(sync[d], v, b)
<1>4. x.pc = "working" /\ x.info = sync[d].info
  BY <1>2, AnsweredIs
<1>5. sync' = [sync EXCEPT ![d] = x]
  BY <1>3
<1>6. Entry(x, u) = Entry(sync[d], u)
  <2> HIDE DEF x
  <2> QED
    BY <1>1, <1>4, EntryIs
<1> HIDE DEF x
<1>7. \A e \in Devices : Entry(sync'[e], u) \in Stamps(u)
  BY <1>5, <1>6, OneEntry, StampsHave
<1> QED
  BY <1>1, <1>7, StampsHave, StampsStay

LEMMA StopStamps ==
  ASSUME Typed, NEW d \in Devices,
         ListingFails(d) \/ PutMeta(d) \/ PutMetaFails(d), NEW u \in Uris
  PROVE  StampsKept(u)
<1>1. /\ sync' = [sync EXCEPT ![d] = Off] /\ local' = local /\ newest' = newest
      /\ (meta' = meta) \/ (sync[d].pc = "writing" /\ meta' = sync[d].remote)
  BY DEF ListingFails, PutMeta, PutMetaFails, History, Remote
<1>2. Entry(Off, u) = 0
  BY DEF Entry, Off
<1> DEFINE x == Off
<1>3. sync' = [sync EXCEPT ![d] = x] /\ Entry(x, u) \in Stamps(u)
  BY <1>1, <1>2, StampsHave
<1> HIDE DEF x
<1>4. \A e \in Devices : Entry(sync'[e], u) \in Stamps(u)
  BY <1>3, OneEntry
<1>5. meta'.info[u] \in Stamps(u)
  BY <1>1, EntryIs, StampsHave
<1> QED
  BY <1>1, <1>4, <1>5, StampsHave, StampsStay

LEMMA FinishStamps ==
  ASSUME Typed, NEW d \in Devices, Finish(d), NEW u \in Uris
  PROVE  StampsKept(u)
<1>1. local' = local /\ newest' = newest /\ meta' = meta /\ sync[d].pc = "working"
  BY DEF Finish, Working, History, Remote
<1>2. CASE sync' = [sync EXCEPT ![d] = Off]
  <2> DEFINE x == Off
  <2>1. sync' = [sync EXCEPT ![d] = x] /\ Entry(x, u) = 0
    BY <1>2 DEF Entry, Off
  <2> HIDE DEF x
  <2>2. \A e \in Devices : Entry(sync'[e], u) \in Stamps(u)
    BY <2>1, OneEntry, StampsHave
  <2> QED
    BY <1>1, <2>2, StampsHave, StampsStay
<1>3. CASE ~(sync' = [sync EXCEPT ![d] = Off])
  <2> DEFINE x == [pc |-> "writing",
                   remote |-> [timestamp |-> clock', info |-> sync[d].info]]
  <2>1. sync' = [sync EXCEPT ![d] = x]
    BY <1>3 DEF Finish
  <2>2. Entry(x, u) = sync[d].info[u]
    BY DEF Entry
  <2> HIDE DEF x
  <2>3. Entry(x, u) = Entry(sync[d], u)
    BY <1>1, <2>2, EntryIs
  <2>4. \A e \in Devices : Entry(sync'[e], u) \in Stamps(u)
    BY <2>1, <2>3, OneEntry, StampsHave
  <2> QED
    BY <1>1, <2>4, StampsHave, StampsStay
<1> QED
  BY <1>2, <1>3

LEMMA PlanStamps ==
  ASSUME Typed, NEW d \in Devices, Plan(d), NEW u \in Uris
  PROVE  StampsKept(u)
<1> DEFINE Met == u \in Unknown(d) \cup Drops(d)
<1>1. meta' = meta /\ newest' = newest
  BY DEF Plan, Remote
<1>2. Met => u \in raced' /\ clock' = clock + 1
  BY PlanIs DEF Tick
<1>3. \A e \in Devices : \/ local'[e][u].modified = local[e][u].modified
                         \/ Met /\ local'[e][u].modified = clock'
  <2> SUFFICES ASSUME NEW e \in Devices
               PROVE  \/ local'[e][u].modified = local[e][u].modified
                      \/ Met /\ local'[e][u].modified = clock'
    OBVIOUS
  <2>1. CASE e = d /\ u \in Drops(d)
    <3>1. local'[e][u] = Script(local[d][u].ver, clock + 1, TRUE)
      BY <2>1, PlanIs
    <3>2. local'[e][u].modified = clock + 1
      BY <3>1 DEF Script
    <3> QED
      BY <1>2, <2>1, <3>2
  <2>2. CASE ~(e = d /\ u \in Drops(d))
    <3>1. \A f \in Devices, v \in Uris :
            local'[f][v] = IF f = d /\ v \in Drops(d)
                           THEN Script(local[d][v].ver, clock + 1, TRUE) ELSE local[f][v]
      BY PlanIs
    <3>2. local'[e][u] = local[e][u]
      BY <2>2, <3>1
    <3> QED
      BY <3>2
  <2> QED
    BY <2>1, <2>2
<1>4. Entry(sync[d], u) = sync[d].remote.info[u]
  <2>1. sync[d].pc = "listing"
    BY PlanIs
  <2> QED
    BY <2>1 DEF Entry
<1>5. \/ Known(d)[u] \in Stamps(u)
      \/ Met /\ Known(d)[u] = clock'
  <2>1. CASE u \in Unknown(d)
    BY <1>2, <2>1 DEF Known
  <2>2. CASE u \notin Unknown(d)
    <3>1. Known(d)[u] \in {0, Entry(sync[d], u)}
      BY <1>4, <2>2 DEF Known
    <3> QED
      BY <3>1, StampsHave
  <2> QED
    BY <2>1, <2>2
<1>6. \/ Noting(d)[u] \in Stamps(u)
      \/ Met /\ Noting(d)[u] = clock'
  <2>1. Noting(d)[u] \in {0, Known(d)[u], local[d][u].modified}
    BY KnownType
  <2> QED
    BY <1>5, <2>1, StampsHave
<1>7. sync'[d].pc = "working" /\ sync'[d].info = Noting(d)
  BY PlanIs
<1>8. Entry(sync'[d], u) = Noting(d)[u]
  BY <1>7, EntryIs
<1>9. \A e \in Devices : \/ Entry(sync'[e], u) \in Stamps(u)
                         \/ Met /\ Entry(sync'[e], u) = clock'
  <2> DEFINE x == sync'[d]
  <2>1. sync' = [sync EXCEPT ![d] = x]
    BY PlanIs
  <2>2. \A e \in Devices : e # d => sync'[e] = sync[e]
    <3> HIDE DEF x
    <3> QED
      BY <2>1, SyncEffect
  <2>3. \A e \in Devices : Entry(sync[e], u) \in Stamps(u)
    BY StampsHave
  <2> QED
    BY <1>6, <1>8, <2>2, <2>3
<1>10. CASE Met
  <2>1. Stamps(u)' \subseteq Stamps(u) \cup {clock'}
    BY <1>1, <1>3, <1>9, StampsHave, StampsFrom
  <2> QED
    BY <1>2, <1>10, <2>1 DEF StampsKept
<1>11. CASE ~Met
  BY <1>1, <1>3, <1>9, <1>11, StampsHave, StampsStay
<1> QED
  BY <1>10, <1>11

LEMMA NextStamps ==
  ASSUME Typed, [Next]_vars, NEW v \in Uris
  PROVE  StampsKept(v)
<1>1. ASSUME NEW d \in Devices, NEW u \in Uris,
             Edit(d, u) \/ EditBegins(d, u) \/ EditStored(d, u) \/ Remove(d, u)
      PROVE  StampsKept(v)
  BY <1>1, EditStamps
<1>2. ASSUME NEW d \in Devices, NEW m \in Modes, AutoSync(d) \/ SyncStart(d, m)
      PROVE  StampsKept(v)
  <2>1. CASE \E n \in Modes : Start(d, n)
    BY <2>1, StartStamps
  <2>2. CASE ~ \E n \in Modes : Start(d, n)
    <3>1. mode[d] \in Modes
      BY DEF Typed, TypeOK
    <3>2. local' = local /\ sync' = sync /\ meta' = meta /\ newest' = newest
      BY <1>2, <2>2, <3>1 DEF AutoSync, SyncStart, Remote, History
    <3> QED
      BY <3>2, StampsHave, StampsStay
  <2> QED
    BY <2>1, <2>2
<1>3. ASSUME NEW d \in Devices, Plan(d) PROVE StampsKept(v)
  BY <1>3, PlanStamps
<1>4. ASSUME NEW d \in Devices, NEW u \in Uris, Download(d, u) PROVE StampsKept(v)
  BY <1>4, DownloadStamps
<1>5. ASSUME NEW d \in Devices, NEW u \in Uris, RequestFails(d, u) PROVE StampsKept(v)
  BY <1>5, AnswerStamps
<1>6. ASSUME NEW d \in Devices, NEW u \in Uris, NEW ok \in BOOLEAN, Upload(d, u, ok)
      PROVE  StampsKept(v)
  BY <1>6, UploadStamps
<1>7. ASSUME NEW d \in Devices, NEW u \in Uris, NEW ok \in BOOLEAN, RemoveRemote(d, u, ok)
      PROVE  StampsKept(v)
  BY <1>7, AnswerStamps
<1>8. ASSUME NEW d \in Devices, ListingFails(d) \/ PutMeta(d) \/ PutMetaFails(d)
      PROVE  StampsKept(v)
  BY <1>8, StopStamps
<1>9. ASSUME NEW d \in Devices, Finish(d) PROVE StampsKept(v)
  BY <1>9, FinishStamps
<1>10. CASE UNCHANGED vars
  BY <1>10, StampsHave, StampsStay DEF vars
<1>11. Modes # {}
  BY DEF Modes
<1> QED
  BY <1>1, <1>2, <1>3, <1>4, <1>5, <1>6, <1>7, <1>8, <1>9, <1>10, <1>11 DEF Next

LEMMA NextClock ==
  ASSUME Typed, [Next]_vars
  PROVE  clock' = clock \/ clock' = clock + 1
<1>1. ASSUME NEW d \in Devices,
             \/ \E u \in Uris : Edit(d, u) \/ EditBegins(d, u) \/ EditStored(d, u) \/ Remove(d, u)
             \/ AutoSync(d)
             \/ \E m \in Modes : SyncStart(d, m)
      PROVE  clock' = clock \/ clock' = clock + 1
  BY <1>1 DEF Edit, EditBegins, EditStored, Remove, AutoSync, SyncStart, Start, Tick
<1>2. ASSUME NEW d \in Devices, Plan(d)
      PROVE  clock' = clock \/ clock' = clock + 1
  BY <1>2, PlanIs DEF Tick
<1>3. ASSUME NEW d \in Devices,
             \/ \E u \in Uris : Download(d, u) \/ RequestFails(d, u)
             \/ \E u \in Uris, ok \in BOOLEAN : Upload(d, u, ok) \/ RemoveRemote(d, u, ok)
      PROVE  clock' = clock
  BY <1>3 DEF Download, RequestFails, Upload, RemoveRemote
<1>4. ASSUME NEW d \in Devices, ListingFails(d) \/ PutMeta(d) \/ PutMetaFails(d)
      PROVE  clock' = clock
  BY <1>4 DEF ListingFails, PutMeta, PutMetaFails
<1>5. ASSUME NEW d \in Devices, Finish(d)
      PROVE  clock' = clock \/ clock' = clock + 1
  BY <1>5 DEF Finish, Tick
<1>6. CASE UNCHANGED vars
  BY <1>6 DEF vars
<1> QED
  BY <1>1, <1>2, <1>3, <1>4, <1>5, <1>6 DEF Next

LEMMA NextPast ==
  ASSUME Typed, Past, [Next]_vars
  PROVE  Past'
<1> SUFFICES ASSUME NEW u \in Uris, NEW t \in Stamps(u)'
             PROVE  t <= clock'
  BY DEF Past
<1>1. t \in Stamps(u) \/ t = clock'
  BY NextStamps DEF StampsKept
<1>2. Typed'
  BY NextTyped
<1>3. t \in Nat /\ clock \in Nat /\ clock' \in Nat
  <2>1. clock' \in Nat
    BY <1>2, TimeAssumption DEF Typed, TypeOK, Time
  <2> QED
    BY <1>1, <2>1, TimesType
<1>4. clock <= clock'
  BY <1>3, NextClock
<1>5. t \in Stamps(u) => t <= clock
  BY DEF Past
<1> QED
  BY <1>1, <1>3, <1>4, <1>5

(* What a step owes to a script that met no race: somebody still has its   *)
(* last edit, and no sync will overwrite it there.                         *)
HolderStays(u) ==
  newest'[u] # 0 /\ u \notin raced' => Overwriting(u)' = {} /\ Holders(u)' # {}

GetsShrink ==
  \A e \in Devices :
    sync'[e].pc = "working" => sync[e].pc = "working" /\ sync'[e].get \subseteq sync[e].get

LEMMA HoldsSame ==
  ASSUME NEW e, NEW u, local'[e][u] = local[e][u], saving'[e][u] = saving[e][u],
         newest'[u] = newest[u]
  PROVE  Holds(e, u)' <=> Holds(e, u)
BY DEF Holds

LEMMA KeptHas ==
  ASSUME Typed, Kept, NEW u \in Uris, newest[u] # 0, u \notin raced
  PROVE  /\ \A t \in Stamps(u) : ~(t > newest[u])
         /\ \A e \in Devices : sync[e].pc = "working" /\ u \in sync[e].get => ~Holds(e, u)
         /\ \E e \in Devices : Holds(e, u)
<1>1. Ahead(u) = {} /\ Overwriting(u) = {} /\ Holders(u) # {}
  BY DEF Kept
<1>2. \A t \in Stamps(u) : ~(t > newest[u])
  BY <1>1 DEF Ahead
<1>3. \A e \in Devices : sync[e].pc = "working" /\ u \in sync[e].get => ~Holds(e, u)
  BY <1>1 DEF Overwriting
<1>4. \E e \in Devices : Holds(e, u)
  BY <1>1 DEF Holders
<1> QED
  BY <1>2, <1>3, <1>4

LEMMA HoldersFrom ==
  ASSUME NEW u \in Uris,
         \A e \in Devices : sync'[e].pc = "working" /\ u \in sync'[e].get => ~Holds(e, u)',
         \E e \in Devices : Holds(e, u)'
  PROVE  Overwriting(u)' = {} /\ Holders(u)' # {}
BY DEF Overwriting, Holders

(* Nothing happens to a script.                                            *)
LEMMA HolderRests ==
  ASSUME Typed, Kept, NEW u \in Uris, newest'[u] = newest[u], raced \subseteq raced',
         \A e \in Devices : local'[e][u] = local[e][u] /\ saving'[e][u] = saving[e][u],
         GetsShrink
  PROVE  HolderStays(u)
<1> SUFFICES ASSUME newest'[u] # 0, u \notin raced'
             PROVE  Overwriting(u)' = {} /\ Holders(u)' # {}
  BY DEF HolderStays
<1>1. /\ \A e \in Devices : sync[e].pc = "working" /\ u \in sync[e].get => ~Holds(e, u)
      /\ \E e \in Devices : Holds(e, u)
  BY KeptHas
<1>2. ASSUME NEW e \in Devices PROVE Holds(e, u)' <=> Holds(e, u)
  BY HoldsSame
<1>3. ASSUME NEW e \in Devices, sync'[e].pc = "working", u \in sync'[e].get
      PROVE  ~Holds(e, u)'
  BY <1>1, <1>2, <1>3 DEF GetsShrink
<1>4. \E e \in Devices : Holds(e, u)'
  BY <1>1, <1>2
<1> QED
  BY <1>3, <1>4, HoldersFrom

LEMMA GetsFrom ==
  ASSUME Typed, NEW d \in Devices, NEW x, sync' = [sync EXCEPT ![d] = x],
         x.pc = "working" => sync[d].pc = "working" /\ x.get \subseteq sync[d].get
  PROVE  GetsShrink
<1>1. sync'[d] = x /\ \A e \in Devices : e # d => sync'[e] = sync[e]
  BY SyncEffect
<1> QED
  BY <1>1 DEF GetsShrink

LEMMA SameGets == ASSUME sync' = sync PROVE GetsShrink
BY DEF GetsShrink

LEMMA AnsweredGets ==
  ASSUME Typed, NEW d \in Devices, NEW v \in Uris, NEW ok \in BOOLEAN,
         NEW n \in Workings, n.get = sync[d].get, sync[d].pc = "working",
         sync' = [sync EXCEPT ![d] = Answered(n, v, ok)]
  PROVE  GetsShrink /\ sync'[d].get = sync[d].get \ {v}
<1> DEFINE x == Answered(n, v, ok)
<1>1. x.get = sync[d].get \ {v}
  BY AnsweredIs
<1>2. sync' = [sync EXCEPT ![d] = x]
  OBVIOUS
<1> HIDE DEF x
<1>3. sync'[d] = x
  BY <1>2, SyncEffect
<1>4. GetsShrink
  BY <1>1, <1>2, GetsFrom
<1> QED
  BY <1>1, <1>3, <1>4

(* The actions that leave scripts alone: a sync starts, goes on or ends.   *)
LEMMA SyncHolder ==
  ASSUME Typed, Kept, NEW u \in Uris, NEW d \in Devices, NEW v \in Uris,
         NEW ok \in BOOLEAN, NEW m \in Modes,
         \/ AutoSync(d) \/ SyncStart(d, m)
         \/ RequestFails(d, v) \/ Upload(d, v, ok) \/ RemoveRemote(d, v, ok)
         \/ ListingFails(d) \/ PutMeta(d) \/ PutMetaFails(d)
         \/ Finish(d)
  PROVE  HolderStays(u)
<1>1. newest' = newest /\ raced' = raced /\ local' = local /\ saving' = saving
  <2>1. CASE AutoSync(d) \/ SyncStart(d, m)
    BY <2>1 DEF AutoSync, SyncStart, Start, History
  <2>2. CASE RequestFails(d, v) \/ Upload(d, v, ok) \/ RemoveRemote(d, v, ok)
    BY <2>2 DEF RequestFails, Upload, RemoveRemote
  <2>3. CASE ListingFails(d) \/ PutMeta(d) \/ PutMetaFails(d)
    BY <2>3 DEF ListingFails, PutMeta, PutMetaFails, History
  <2>4. CASE Finish(d)
    BY <2>4 DEF Finish, History
  <2> QED
    BY <2>1, <2>2, <2>3, <2>4
<1>2. GetsShrink
  <2>1. CASE AutoSync(d) \/ SyncStart(d, m)
    <3>1. \/ sync' = sync
          \/ \E n : sync' = [sync EXCEPT ![d] =
               [pc |-> "listing", mode |-> n, listed |-> Alive(d), remote |-> meta]]
      BY <2>1 DEF AutoSync, SyncStart, Start
    <3>2. ASSUME NEW n, sync' = [sync EXCEPT ![d] =
                   [pc |-> "listing", mode |-> n, listed |-> Alive(d), remote |-> meta]]
          PROVE  GetsShrink
      <4> DEFINE x == [pc |-> "listing", mode |-> n, listed |-> Alive(d), remote |-> meta]
      <4>1. sync' = [sync EXCEPT ![d] = x] /\ x.pc # "working"
        BY <3>2
      <4> HIDE DEF x
      <4> QED
        BY <4>1, GetsFrom
    <3> QED
      BY <3>1, <3>2, SameGets
  <2>2. CASE RequestFails(d, v) \/ RemoveRemote(d, v, ok)
    <3>1. sync[d].pc = "working" /\
          \E b \in BOOLEAN : sync' = [sync EXCEPT ![d] = Answered(sync[d], v, b)]
      BY <2>2 DEF RequestFails, RemoveRemote, Working
    <3>2. sync[d] \in Workings
      BY <3>1, SyncIs DEF Typed, TypeOK
    <3> QED
      BY <3>1, <3>2, AnsweredGets
  <2>3. CASE Upload(d, v, ok)
    <3> DEFINE n == Noted(sync[d], v, local[d][v].modified)
    <3>1. sync[d].pc = "working" /\ sync' = [sync EXCEPT ![d] = Answered(n, v, ok)]
      BY <2>3 DEF Upload, Working
    <3>2. sync[d] \in Workings /\ local[d][v].modified \in Time
      BY <3>1, SyncIs, ScriptHas DEF Typed, TypeOK
    <3>3. n \in Workings /\ n.get = sync[d].get
      BY <3>2, NotedIs
    <3> HIDE DEF n
    <3> QED
      BY <3>1, <3>3, AnsweredGets
  <2>4. CASE ListingFails(d) \/ PutMeta(d) \/ PutMetaFails(d) \/ Finish(d)
    <3>1. \/ sync' = [sync EXCEPT ![d] = Off]
          \/ \E t : sync' = [sync EXCEPT ![d] =
               [pc |-> "writing", remote |-> [timestamp |-> t, info |-> sync[d].info]]]
      <4>1. CASE Finish(d)
        BY <4>1 DEF Finish
      <4>2. CASE ListingFails(d) \/ PutMeta(d) \/ PutMetaFails(d)
        BY <4>2 DEF ListingFails, PutMeta, PutMetaFails
      <4> QED
        BY <2>4, <4>1, <4>2
    <3>2. ASSUME NEW x, sync' = [sync EXCEPT ![d] = x], x.pc # "working"
          PROVE  GetsShrink
      <4>1. sync' = [sync EXCEPT ![d] = x]
        BY <3>2
      <4> QED
        BY <3>2, <4>1, GetsFrom
    <3>3. CASE sync' = [sync EXCEPT ![d] = Off]
      <4> DEFINE x == Off
      <4>1. sync' = [sync EXCEPT ![d] = x] /\ x.pc # "working"
        BY <3>3 DEF Off
      <4> HIDE DEF x
      <4> QED
        BY <3>2, <4>1
    <3>4. ASSUME NEW t, sync' = [sync EXCEPT ![d] =
                   [pc |-> "writing", remote |-> [timestamp |-> t, info |-> sync[d].info]]]
          PROVE  GetsShrink
      <4> DEFINE x == [pc |-> "writing", remote |-> [timestamp |-> t, info |-> sync[d].info]]
      <4>1. sync' = [sync EXCEPT ![d] = x] /\ x.pc # "working"
        BY <3>4
      <4> HIDE DEF x
      <4> QED
        BY <3>2, <4>1
    <3> QED
      BY <3>1, <3>3, <3>4
  <2> QED
    BY <2>1, <2>2, <2>3, <2>4
<1> QED
  BY <1>1, <1>2, HolderRests

(* A download is of a script that the device does not hold.                *)
LEMMA DownloadHolder ==
  ASSUME Typed, Kept, NEW u \in Uris, NEW d \in Devices, NEW v \in Uris, Download(d, v)
  PROVE  HolderStays(u)
<1> SUFFICES ASSUME newest'[u] # 0, u \notin raced'
             PROVE  Overwriting(u)' = {} /\ Holders(u)' # {}
  BY DEF HolderStays
<1>1. newest' = newest /\ raced' = raced /\ saving' = saving
  BY DEF Download
<1>2. sync[d].pc = "working" /\ v \in sync[d].get
  BY DEF Download, Working
<1>3. /\ \A e \in Devices : sync[e].pc = "working" /\ u \in sync[e].get => ~Holds(e, u)
      /\ \E e \in Devices : Holds(e, u)
  BY <1>1, KeptHas
<1>4. GetsShrink /\ sync'[d].get = sync[d].get \ {v}
  <2>1. sync[d] \in Workings
    BY <1>2, SyncIs DEF Typed, TypeOK
  <2>2. sync' = [sync EXCEPT ![d] = Answered(sync[d], v, TRUE)]
    BY DEF Download
  <2> QED
    BY <1>2, <2>1, <2>2, AnsweredGets
<1>5. \A e \in Devices : (e # d \/ u # v) => local'[e][u] = local[e][u]
  <2> DEFINE y == Script(file[v], sync[d].info[v], FALSE)
  <2>1. local' = [local EXCEPT ![d][v] = y]
    BY DEF Download
  <2> HIDE DEF y
  <2> QED
    BY <2>1, ScriptEffect
<1>6. ASSUME NEW e \in Devices, e # d \/ u # v
      PROVE  Holds(e, u)' <=> Holds(e, u)
  BY <1>1, <1>5, <1>6, HoldsSame
<1>7. ASSUME NEW e \in Devices, sync'[e].pc = "working", u \in sync'[e].get
      PROVE  ~Holds(e, u)'
  BY <1>3, <1>4, <1>6, <1>7 DEF GetsShrink
<1>8. \E e \in Devices : Holds(e, u)'
  BY <1>2, <1>3, <1>6
<1> QED
  BY <1>7, <1>8, HoldersFrom

(* A sync plans to download what it takes for newer than its own script,   *)
(* which the last edit is not.                                             *)
LEMMA PlanHolder ==
  ASSUME Typed, Kept, NEW u \in Uris, NEW d \in Devices, Plan(d)
  PROVE  HolderStays(u)
<1> SUFFICES ASSUME newest'[u] # 0, u \notin raced'
             PROVE  Overwriting(u)' = {} /\ Holders(u)' # {}
  BY DEF HolderStays
<1>1. newest' = newest /\ saving' = saving
  BY DEF Plan
<1>2. /\ u \notin raced /\ u \notin Unknown(d) /\ u \notin Drops(d)
      /\ u \in Gets(d) => /\ u \notin Alive(d) \ sync[d].listed
                          /\ ~FirstSync(d) /\ sync[d].mode # "pull"
  <2>1. raced' = raced \cup Unknown(d) \cup Drops(d)
                   \cup (Gets(d) \cap (Alive(d) \ sync[d].listed))
                   \cup (IF FirstSync(d) \/ sync[d].mode = "pull" THEN Gets(d) ELSE {})
                   \cup (IF sync[d].mode = "push" THEN Puts(d) ELSE {})
    BY PlanIs
  <2> QED
    BY <2>1
<1>3. /\ \A t \in Stamps(u) : ~(t > newest[u])
      /\ \A e \in Devices : sync[e].pc = "working" /\ u \in sync[e].get => ~Holds(e, u)
      /\ \E e \in Devices : Holds(e, u)
  BY <1>1, <1>2, KeptHas
<1>4. ASSUME NEW e \in Devices PROVE Holds(e, u)' <=> Holds(e, u)
  <2>1. \A f \in Devices, v \in Uris :
          local'[f][v] = IF f = d /\ v \in Drops(d)
                         THEN Script(local[d][v].ver, clock + 1, TRUE) ELSE local[f][v]
    BY PlanIs
  <2>2. local'[e][u] = local[e][u]
    BY <1>2, <2>1
  <2> QED
    BY <1>1, <2>2, HoldsSame
<1>5. ASSUME u \in Gets(d) PROVE ~Holds(d, u)
  <2>1. u \in Files /\ RemoteWins(d, u, Known(d))
    BY <1>5 DEF Gets
  <2>2. IF u \notin sync[d].listed THEN Outdated(d)
        ELSE FirstSync(d) \/ Known(d)[u] > local[d][u].modified
    BY <1>2, <1>5, <2>1 DEF RemoteWins
  <2>3. CASE u \notin sync[d].listed
    <3>1. u \notin Alive(d)
      BY <1>2, <1>5, <2>3
    <3> QED
      BY <3>1 DEF Alive, Holds
  <2>4. CASE u \in sync[d].listed
    <3>1. Known(d)[u] > local[d][u].modified
      BY <1>2, <1>5, <2>2, <2>4
    <3>2. Known(d)[u] = sync[d].remote.info[u]
      BY <1>2, <2>1 DEF Known
    <3>3. sync[d].pc = "listing"
      BY PlanIs
    <3>4. Entry(sync[d], u) = sync[d].remote.info[u]
      BY <3>3 DEF Entry
    <3>5. Entry(sync[d], u) \in Stamps(u)
      BY StampsHave
    <3>6. ~(Entry(sync[d], u) > newest[u])
      BY <1>3, <3>5
    <3>7. /\ Entry(sync[d], u) \in Nat /\ newest[u] \in Nat
          /\ local[d][u].modified \in Nat
      BY TimesType
    <3>8. ~(local[d][u].modified >= newest[u])
      BY <3>1, <3>2, <3>4, <3>6, <3>7
    <3> QED
      BY <3>8 DEF Holds
  <2> QED
    BY <2>3, <2>4
<1>6. /\ sync'[d].get = Gets(d)
      /\ \A e \in Devices : e # d => sync'[e] = sync[e]
  <2>1. sync'[d].get = Gets(d)
    BY PlanIs
  <2> DEFINE x == sync'[d]
  <2>2. sync' = [sync EXCEPT ![d] = x]
    BY PlanIs
  <2> HIDE DEF x
  <2> QED
    BY <2>1, <2>2, SyncEffect
<1>7. ASSUME NEW e \in Devices, sync'[e].pc = "working", u \in sync'[e].get
      PROVE  ~Holds(e, u)'
  <2>1. CASE e = d
    BY <1>4, <1>5, <1>6, <1>7, <2>1
  <2>2. CASE e # d
    BY <1>3, <1>4, <1>6, <1>7, <2>2
  <2> QED
    BY <2>1, <2>2
<1>8. \E e \in Devices : Holds(e, u)'
  BY <1>3, <1>4
<1> QED
  BY <1>7, <1>8, HoldersFrom

(* An edit is held where it is made, and nowhere else.                     *)
LEMMA EditHolder ==
  ASSUME Typed, Past, NEW u \in Uris, NEW d \in Devices,
         Edit(d, u) \/ EditBegins(d, u)
  PROVE  HolderStays(u)
<1> SUFFICES ASSUME newest'[u] # 0, u \notin raced'
             PROVE  Overwriting(u)' = {} /\ Holders(u)' # {}
  BY DEF HolderStays
<1>1. newest'[u] = clock' /\ clock' = clock + 1 /\ sync' = sync
  BY DEF Edit, EditBegins, Tick, Typed, TypeOK, Infos
<1>2. ~(sync[d].pc = "working" /\ u \in sync[d].get)
  BY DEF Edit, EditBegins
<1>3. clock \in Nat
  BY TimesType
<1>4. Holds(d, u)'
  <2>1. CASE Edit(d, u)
    <3> DEFINE x == Script(clock', clock', FALSE)
    <3>1. local' = [local EXCEPT ![d][u] = x] /\ saving'[d][u] = 0
      BY <2>1 DEF Edit
    <3>2. x.ver = clock' /\ x.modified = clock' /\ x.removed = FALSE
      BY DEF Script
    <3>3. local' = [local EXCEPT ![d][u] = x]
      BY <3>1
    <3> HIDE DEF x
    <3>4. local'[d][u] = x
      BY <3>3, ScriptEffect
    <3> QED
      BY <1>1, <1>3, <3>1, <3>2, <3>4 DEF Holds
  <2>2. CASE EditBegins(d, u)
    <3> DEFINE x == Script(local[d][u].ver, clock', FALSE)
    <3>1. local' = [local EXCEPT ![d][u] = x]
      BY <2>2 DEF EditBegins
    <3>2. saving'[d][u] = clock' /\ local[d][u].ver # 0
      BY <2>2 DEF EditBegins, Alive, Typed, TypeOK, Infos
    <3>3. x.ver = local[d][u].ver /\ x.modified = clock' /\ x.removed = FALSE
      BY DEF Script
    <3> HIDE DEF x
    <3>4. local'[d][u] = x
      BY <3>1, ScriptEffect
    <3> QED
      BY <1>1, <1>3, <3>2, <3>3, <3>4 DEF Holds
  <2> QED
    BY <2>1, <2>2
<1>5. ASSUME NEW e \in Devices, e # d PROVE ~Holds(e, u)'
  <2>1. local'[e][u] = local[e][u]
    BY <1>5, EditEffect
  <2>2. local[e][u].modified \in Stamps(u)
    BY StampsHave
  <2>3. local[e][u].modified <= clock /\ local[e][u].modified \in Nat
    BY <2>2, TimesType DEF Past
  <2>4. ~(local'[e][u].modified >= newest'[u])
    BY <1>1, <1>3, <2>1, <2>3
  <2> QED
    BY <2>4 DEF Holds
<1>6. ASSUME NEW e \in Devices, sync'[e].pc = "working", u \in sync'[e].get
      PROVE  ~Holds(e, u)'
  BY <1>1, <1>2, <1>5, <1>6
<1>7. \E e \in Devices : Holds(e, u)'
  BY <1>4
<1> QED
  BY <1>6, <1>7, HoldersFrom

LEMMA StoredHolder ==
  ASSUME Typed, Kept, NEW u \in Uris, NEW d \in Devices, EditStored(d, u)
  PROVE  HolderStays(u)
<1> SUFFICES ASSUME newest'[u] # 0, u \notin raced'
             PROVE  Overwriting(u)' = {} /\ Holders(u)' # {}
  BY DEF HolderStays
<1>1. newest' = newest /\ raced' = raced /\ sync' = sync /\ saving[d][u] # 0
  BY DEF EditStored, History, Remote
<1>2. /\ \A e \in Devices : sync[e].pc = "working" /\ u \in sync[e].get => ~Holds(e, u)
      /\ \E e \in Devices : Holds(e, u)
  BY <1>1, KeptHas
<1>3. Holds(d, u)' <=> Holds(d, u)
  <2>1. /\ local'[d][u].modified = local[d][u].modified
        /\ local'[d][u].removed = local[d][u].removed
        /\ local'[d][u].ver = saving[d][u]
        /\ saving'[d][u] = 0
    BY EditEffect
  <2>2. local[d][u].ver # 0
    BY <1>1 DEF Typed, Present
  <2> QED
    BY <1>1, <2>1, <2>2 DEF Holds
<1>4. ASSUME NEW e \in Devices, e # d PROVE Holds(e, u)' <=> Holds(e, u)
  <2>1. local'[e][u] = local[e][u] /\ saving'[e][u] = saving[e][u]
    BY <1>4, EditEffect
  <2> QED
    BY <1>1, <2>1, HoldsSame
<1>5. ASSUME NEW e \in Devices, sync'[e].pc = "working", u \in sync'[e].get
      PROVE  ~Holds(e, u)'
  BY <1>1, <1>2, <1>3, <1>4, <1>5
<1>6. \E e \in Devices : Holds(e, u)'
  BY <1>2, <1>3, <1>4
<1> QED
  BY <1>5, <1>6, HoldersFrom

LEMMA NextRaced == ASSUME Typed, [Next]_vars PROVE raced \subseteq raced'
<1>1. ASSUME NEW d \in Devices, NEW u \in Uris,
             Edit(d, u) \/ EditBegins(d, u) \/ EditStored(d, u) \/ Remove(d, u)
      PROVE  raced \subseteq raced'
  BY <1>1 DEF Edit, EditBegins, EditStored, Remove, History
<1>2. ASSUME NEW d \in Devices, Plan(d) PROVE raced \subseteq raced'
  BY <1>2, PlanIs
<1>3. CASE UNCHANGED vars
  BY <1>3 DEF vars
<1>4. ASSUME NEW d \in Devices,
             \/ AutoSync(d) \/ \E m \in Modes : SyncStart(d, m)
             \/ \E u \in Uris : Download(d, u) \/ RequestFails(d, u)
             \/ \E u \in Uris, ok \in BOOLEAN : Upload(d, u, ok) \/ RemoveRemote(d, u, ok)
             \/ ListingFails(d) \/ PutMeta(d) \/ PutMetaFails(d)
             \/ Finish(d)
      PROVE  raced' = raced
  BY <1>4 DEF AutoSync, SyncStart, Start, Download, RequestFails, Upload, RemoveRemote,
              ListingFails, PutMeta, PutMetaFails, Finish, History
<1> QED
  BY <1>1, <1>2, <1>3, <1>4 DEF Next

LEMMA NextHolder ==
  ASSUME Typed, Past, Kept, [Next]_vars, NEW u \in Uris
  PROVE  HolderStays(u)
<1>1. ASSUME NEW d \in Devices, NEW v \in Uris,
             Edit(d, v) \/ EditBegins(d, v) \/ EditStored(d, v) \/ Remove(d, v)
      PROVE  HolderStays(u)
  <2>1. CASE v # u
    <3>1. newest'[u] = newest[u]
      BY <1>1, <2>1 DEF Edit, EditBegins, EditStored, Remove, History, Typed, TypeOK, Infos
    <3>2. /\ \A e \in Devices : local'[e][u] = local[e][u] /\ saving'[e][u] = saving[e][u]
          /\ sync' = sync
      BY <1>1, <2>1, EditEffect
    <3> QED
      BY <3>1, <3>2, NextRaced, SameGets, HolderRests
  <2>2. CASE v = u /\ Remove(d, v)
    <3>1. newest'[u] = 0
      BY <2>2 DEF Remove, Typed, TypeOK, Infos
    <3> QED
      BY <3>1 DEF HolderStays
  <2>3. CASE v = u /\ (Edit(d, v) \/ EditBegins(d, v))
    BY <2>3, EditHolder
  <2>4. CASE v = u /\ EditStored(d, v)
    BY <2>4, StoredHolder
  <2> QED
    BY <1>1, <2>1, <2>2, <2>3, <2>4
<1>2. ASSUME NEW d \in Devices, Plan(d) PROVE HolderStays(u)
  BY <1>2, PlanHolder
<1>3. ASSUME NEW d \in Devices, NEW v \in Uris, Download(d, v) PROVE HolderStays(u)
  BY <1>3, DownloadHolder
<1>4. ASSUME NEW d \in Devices, NEW v \in Uris, NEW ok \in BOOLEAN, NEW m \in Modes,
             \/ AutoSync(d) \/ SyncStart(d, m)
             \/ RequestFails(d, v) \/ Upload(d, v, ok) \/ RemoveRemote(d, v, ok)
             \/ ListingFails(d) \/ PutMeta(d) \/ PutMetaFails(d)
             \/ Finish(d)
      PROVE  HolderStays(u)
  BY <1>4, SyncHolder
<1>5. CASE UNCHANGED vars
  <2>1. /\ newest' = newest /\ raced' = raced /\ local' = local /\ saving' = saving
        /\ sync' = sync
    BY <1>5 DEF vars
  <2> QED
    BY <2>1, SameGets, HolderRests
<1>6. "merge" \in Modes /\ TRUE \in BOOLEAN
  BY DEF Modes
<1> QED
  BY <1>1, <1>2, <1>3, <1>4, <1>5, <1>6 DEF Next

LEMMA NextAhead ==
  ASSUME Typed, Past, Kept, [Next]_vars, NEW u \in Uris, newest'[u] # 0, u \notin raced'
  PROVE  Ahead(u)' = {}
<1>1. Past'
  BY NextPast
<1>2. \/ newest'[u] = clock'
      \/ newest'[u] = newest[u] /\ Stamps(u)' \subseteq Stamps(u)
  BY NextStamps DEF StampsKept
<1>3. Typed' /\ u \notin raced
  BY NextTyped, NextRaced
<1>4. clock' \in Nat
  BY <1>3, TimeAssumption DEF Typed, TypeOK, Time
<1>5. CASE newest'[u] = clock'
  <2>1. \A t \in Stamps(u)' : t <= clock' /\ t \in Nat
    <3>1. Stamps(u)' \subseteq Stamps(u) \cup {clock'}
      BY NextStamps DEF StampsKept
    <3> QED
      BY <1>1, <1>4, <3>1, TimesType DEF Past
  <2>2. \A t \in Stamps(u)' : ~(t > newest'[u])
    BY <1>4, <1>5, <2>1
  <2> QED
    BY <2>2 DEF Ahead
<1>6. CASE newest'[u] = newest[u] /\ Stamps(u)' \subseteq Stamps(u)
  <2>1. \A t \in Stamps(u) : ~(t > newest[u])
    BY <1>3, <1>6, KeptHas
  <2>2. \A t \in Stamps(u)' : ~(t > newest'[u])
    BY <1>6, <2>1
  <2> QED
    BY <2>2 DEF Ahead
<1> QED
  BY <1>2, <1>5, <1>6

LEMMA NextKept ==
  ASSUME Typed, Past, Kept, [Next]_vars
  PROVE  Kept'
<1> SUFFICES ASSUME NEW u \in Uris, newest'[u] # 0, u \notin raced'
             PROVE  Ahead(u)' = {} /\ Overwriting(u)' = {} /\ Holders(u)' # {}
  BY DEF Kept
<1>1. Ahead(u)' = {}
  BY NextAhead
<1>2. Overwriting(u)' = {} /\ Holders(u)' # {}
  BY NextHolder DEF HolderStays
<1> QED
  BY <1>1, <1>2

LEMMA InitKept == Init => Past /\ Kept
<1> SUFFICES ASSUME Init PROVE Past /\ Kept
  OBVIOUS
<1>1. \A u \in Uris : newest[u] = 0
  BY DEF Init
<1>2. ASSUME NEW u \in Uris PROVE Stamps(u) = {0}
  <2>1. meta.info[u] = 0
    BY DEF Init, NoMeta
  <2>2. \A d \in Devices : local[d][u].modified = 0
    BY DEF Init, NoScript, Script
  <2>3. \A d \in Devices : Entry(sync[d], u) = 0
    BY DEF Init, Entry, Off
  <2> QED
    BY <2>1, <2>2, <2>3 DEF Stamps
<1>3. clock = 0
  BY DEF Init
<1> QED
  BY <1>1, <1>2, <1>3 DEF Past, Kept

LEMMA HeldSurvives == Typed /\ Kept => LatestEditSurvives
<1> SUFFICES ASSUME Typed, Kept, NEW u \in Uris \ raced, newest[u] # 0
             PROVE  \E d \in Devices :
                      u \in Alive(d) /\ newest[u] \in {local[d][u].ver, saving[d][u]}
  BY DEF LatestEditSurvives
<1>1. PICK d \in Devices : Holds(d, u)
  BY KeptHas
<1> QED
  BY <1>1 DEF Holds, Alive

(* Whatever requests fail and however the syncs of any number of devices   *)
(* overlap, the last edit of a script that met none of the named races is  *)
(* there: compareItems takes a file for newer by its entry in the meta     *)
(* file, and no entry is later than the edit (_sync).                      *)
THEOREM EditsSurvive == Spec => []LatestEditSurvives
<1>1. Init => Typed /\ Past /\ Kept
  BY InitTyped, InitKept
<1>2. Typed /\ Past /\ Kept /\ [Next]_vars => (Typed /\ Past /\ Kept)'
  BY NextTyped, NextPast, NextKept
<1>3. Typed /\ Past /\ Kept => LatestEditSurvives
  BY HeldSurvives
<1> QED
  BY <1>1, <1>2, <1>3, PTL DEF Spec

-----------------------------------------------------------------------------
(* The folder, the devices and what they removed *)

(* What holds as long as no request failed, no script moved in two syncs   *)
(* at once, and none was saved while it moved.                             *)

(* The device is bound to write the meta file.                             *)
Changing(d) == (sync[d].pc = "working" /\ sync[d].changed) \/ sync[d].pc = "writing"
Alone(d) == \A e \in Devices : Changing(e) => e = d
Still == \A e \in Devices : ~Changing(e)

(* Nothing is from later than now.                                         *)
Clocked ==
  /\ meta.timestamp <= clock
  /\ \A u \in Uris : file[u] <= clock /\ \A v \in gone[u] : v <= clock
  /\ \A d \in Devices :
       /\ stamp[d] <= clock
       /\ sync[d].pc = "writing" => sync[d].remote.timestamp <= clock
       /\ \A u \in Uris : local[d][u].ver <= clock /\ saving[d][u] <= clock

(* The version of a script was never in the folder, or on another device.  *)
New(d, u) == local[d][u].ver \notin gone[u] /\ local[d][u].ver # file[u]
Own(d, u) == New(d, u) /\ \A e \in Devices : local[e][u].ver = local[d][u].ver => e = d

(* What is stored has the time of its edit, and what is being saved is     *)
(* nowhere else.                                                           *)
Stored(d, u) == u \in Alive(d) /\ saving[d][u] = 0 => local[d][u].ver = local[d][u].modified

Fresh(d, u) ==
  saving[d][u] # 0 =>
    /\ local[d][u].removed \/ local[d][u].modified = saving[d][u]
    /\ saving[d][u] \notin gone[u] /\ saving[d][u] # file[u]
    /\ \A e \in Devices : local[e][u].ver # saving[d][u]
    /\ \A e \in Devices : saving[e][u] = saving[d][u] => e = d

(* The script is as an entry t says.                                       *)
Agrees(d, u, t) ==
  /\ u \in Alive(d) <=> t # 0
  /\ t # 0 => local[d][u].ver = t /\ local[d][u].modified = t /\ saving[d][u] = 0

(* The device has a version that was removed from the folder.              *)
Stale(d, u) ==
  u \in Alive(d) /\ saving[d][u] = 0 /\ local[d][u].ver \in gone[u] /\ local[d][u].ver # file[u]

FolderInv ==
  Still => /\ meta.info = file
           /\ \A u \in Uris : \A v \in gone[u] : v <= meta.timestamp

WaitingInv(d) ==
  sync[d].pc \in {"off", "listing"} =>
    /\ stamp[d] = 0 => \A u \in Uris : local[d][u].ver # 0 => Own(d, u)
    /\ Alone(d) /\ stamp[d] # 0 /\ stamp[d] = meta.timestamp =>
         \A u \in Uris \ dirty[d] : Agrees(d, u, meta.info[u])
    /\ Alone(d) =>
         \A u \in Uris \ raced : Stale(d, u) => stamp[d] # 0 /\ stamp[d] < meta.timestamp

ListingInv(d) ==
  sync[d].pc = "listing" =>
    /\ sync[d].remote = meta
    /\ sync[d].listed \subseteq Alive(d)
    /\ \A u \in Alive(d) \ sync[d].listed : New(d, u)

(* What a sync has decided about a script, and not done yet.               *)
Planned(d, u) ==
  /\ u \in sync[d].put => u \in Alive(d) /\ sync[d].changed
  /\ u \in sync[d].del => sync[d].changed /\ (u \in Alive(d) => New(d, u))
  /\ ~(u \in sync[d].put /\ u \in sync[d].get)
  /\ ~(u \in sync[d].put /\ u \in sync[d].del)
  /\ ~(u \in sync[d].get /\ u \in sync[d].del)

PlannedAlone(d, u) ==
  /\ u \notin sync[d].put \cup sync[d].del => sync[d].info[u] = file[u]
  /\ u \in sync[d].del => sync[d].info[u] = 0
  /\ u \notin sync[d].put \cup sync[d].get \cup sync[d].del \cup dirty[d] =>
       Agrees(d, u, sync[d].info[u])
  /\ u \in sync[d].del \ dirty[d] => u \notin Alive(d)
  /\ u \notin raced /\ Stale(d, u) =>
       \/ u \in sync[d].get
       \/ u \in sync[d].put /\ file[u] # 0

WorkingInv(d) ==
  sync[d].pc = "working" =>
    /\ ~sync[d].failed
    /\ sync[d].timestamp = meta.timestamp
    /\ sync[d].timestamp = 0 => sync[d].changed
    /\ \A u \in Uris : Planned(d, u)
    /\ Alone(d) => \A u \in Uris : PlannedAlone(d, u)

WritingInv(d) ==
  sync[d].pc = "writing" =>
    /\ meta.timestamp < sync[d].remote.timestamp
    /\ stamp[d] = sync[d].remote.timestamp
    /\ \A e \in Devices \ {d} : sync[e].pc = "writing" \/ stamp[e] < sync[d].remote.timestamp
    /\ \A u \in Uris : \A v \in gone[u] : v <= sync[d].remote.timestamp
    /\ Alone(d) =>
         /\ sync[d].remote.info = file
         /\ \A u \in Uris \ dirty[d] : Agrees(d, u, file[u])
         /\ \A u \in Uris \ raced : ~Stale(d, u)

Merged ==
  /\ Clocked
  /\ \A d \in Devices, u \in Uris : Stored(d, u) /\ Fresh(d, u)
  /\ FolderInv
  /\ \A d \in Devices : WaitingInv(d) /\ ListingInv(d) /\ WorkingInv(d) /\ WritingInv(d)

Settled == ~disturbed => Merged

LEMMA MergeTypes ==
  ASSUME Typed
  PROVE  /\ meta.timestamp \in Nat /\ clock \in Nat
         /\ \A u \in Uris : file[u] \in Nat /\ gone[u] \subseteq Nat
         /\ \A d \in Devices : stamp[d] \in Nat
         /\ \A d \in Devices, u \in Uris : local[d][u].ver \in Nat /\ saving[d][u] \in Nat
         /\ \A d \in Devices : sync[d].pc = "writing" => sync[d].remote.timestamp \in Nat
         /\ \A d \in Devices, u \in Uris : local[d][u].removed \in BOOLEAN
         /\ \A d \in Devices : sync[d] \in Syncs
<1>1. Time \subseteq Nat
  BY TimeAssumption DEF Time
<1>2. meta.timestamp \in Nat
  BY <1>1 DEF Typed, TypeOK, Metas
<1>3. \A u \in Uris : file[u] \in Nat /\ gone[u] \subseteq Nat
  BY <1>1 DEF Typed, TypeOK, Infos
<1>4. \A d \in Devices : stamp[d] \in Nat
  BY <1>1 DEF Typed, TypeOK
<1>5. \A d \in Devices : sync[d] \in Syncs
  BY DEF Typed, TypeOK
<1>6. \A d \in Devices : sync[d].pc = "writing" => sync[d].remote.timestamp \in Nat
  BY <1>1, <1>5, SyncIs DEF Writings, Metas
<1>7. \A d \in Devices, u \in Uris : local[d][u].removed \in BOOLEAN
  BY ScriptHas DEF Typed, TypeOK
<1> QED
  BY <1>2, <1>3, <1>4, <1>5, <1>6, <1>7, TimesType

(* What the user does to a script.                                         *)
Edited(d, u) ==
  /\ clock' = clock + 1 /\ u \in dirty'[d]
  /\ local'[d][u].ver = clock' /\ local'[d][u].modified = clock' /\ ~local'[d][u].removed
  /\ saving[d][u] = 0 /\ saving'[d][u] = 0
Begun(d, u) ==
  /\ clock' = clock + 1 /\ u \in dirty'[d]
  /\ local[d][u].ver # 0 /\ ~local[d][u].removed
  /\ local'[d][u].ver = local[d][u].ver /\ local'[d][u].modified = clock'
  /\ ~local'[d][u].removed
  /\ saving[d][u] = 0 /\ saving'[d][u] = clock'
Saved(d, u) ==
  /\ clock' = clock
  /\ local'[d][u].ver = saving[d][u] /\ local'[d][u].modified = local[d][u].modified
  /\ local'[d][u].removed = local[d][u].removed
  /\ saving[d][u] # 0 /\ saving'[d][u] = 0
Removed(d, u) ==
  /\ clock' = clock + 1 /\ u \in dirty'[d]
  /\ local'[d][u].ver = local[d][u].ver /\ local'[d][u].modified = clock'
  /\ local'[d][u].removed
  /\ local[d][u].ver # 0 /\ ~local[d][u].removed
  /\ saving[d][u] = 0 /\ saving'[d][u] = 0
  /\ ~disturbed' => u \notin WillUpload(d)

OnlyScript(d, u) ==
  /\ \A e \in Devices, v \in Uris :
       (e # d \/ v # u) => local'[e][v] = local[e][v] /\ saving'[e][v] = saving[e][v]
  /\ \A e \in Devices : dirty[e] \subseteq dirty'[e]
  /\ raced \subseteq raced' /\ (disturbed => disturbed')
  /\ file' = file /\ meta' = meta /\ gone' = gone /\ stamp' = stamp /\ sync' = sync

LEMMA UserEffect ==
  ASSUME Typed, NEW d \in Devices, NEW u \in Uris,
         Edit(d, u) \/ EditBegins(d, u) \/ EditStored(d, u) \/ Remove(d, u)
  PROVE  /\ OnlyScript(d, u)
         /\ Edited(d, u) \/ Begun(d, u) \/ Saved(d, u) \/ Removed(d, u)
<1>1. \A e \in Devices, v \in Uris :
        (e # d \/ v # u) => local'[e][v] = local[e][v] /\ saving'[e][v] = saving[e][v]
  BY EditEffect
<1>2. /\ raced \subseteq raced' /\ (disturbed => disturbed')
      /\ file' = file /\ meta' = meta /\ gone' = gone /\ stamp' = stamp /\ sync' = sync
  <2>1. CASE Edit(d, u)
    BY <2>1 DEF Edit
  <2>2. CASE EditBegins(d, u)
    BY <2>2 DEF EditBegins
  <2>3. CASE EditStored(d, u)
    BY <2>3 DEF EditStored, Remote, History
  <2>4. CASE Remove(d, u)
    BY <2>4 DEF Remove
  <2> QED
    BY <2>1, <2>2, <2>3, <2>4
<1>3. \A e \in Devices : dirty[e] \subseteq dirty'[e]
  BY DEF Edit, EditBegins, EditStored, Remove, History, Typed, TypeOK
<1>4. OnlyScript(d, u)
  BY <1>1, <1>2, <1>3 DEF OnlyScript
<1>5. ASSUME NEW x, local' = [local EXCEPT ![d][u] = x]
      PROVE  local'[d][u] = x
  <2>1. local' = [local EXCEPT ![d][u] = x]
    BY <1>5
  <2>2. /\ local'[d][u] = x
        /\ \A e \in Devices, v \in Uris : (e # d \/ v # u) => local'[e][v] = local[e][v]
    BY <2>1, ScriptEffect
  <2> QED
    BY <2>2
<1>6. CASE Edit(d, u)
  <2> DEFINE x == Script(clock', clock', FALSE)
  <2>1. local' = [local EXCEPT ![d][u] = x]
    BY <1>6 DEF Edit
  <2>2. x.ver = clock' /\ x.modified = clock' /\ ~x.removed
    BY DEF Script
  <2>3. local'[d][u] = x
    <3> HIDE DEF x
    <3> QED
      BY <1>5, <2>1
  <2>4. u \in dirty'[d]
    BY <1>6 DEF Edit, Typed, TypeOK
  <2>5. Edited(d, u)
    <3> HIDE DEF x
    <3> QED
      BY <1>6, <2>2, <2>3, <2>4 DEF Edit, Tick, Edited
  <2> QED
    BY <1>4, <2>5
<1>7. CASE EditBegins(d, u)
  <2> DEFINE x == Script(local[d][u].ver, clock', FALSE)
  <2>1. local' = [local EXCEPT ![d][u] = x]
    BY <1>7 DEF EditBegins
  <2>2. x.ver = local[d][u].ver /\ x.modified = clock' /\ ~x.removed
    BY DEF Script
  <2>3. local'[d][u] = x
    <3> HIDE DEF x
    <3> QED
      BY <1>5, <2>1
  <2>4. u \in dirty'[d] /\ saving'[d][u] = clock'
    BY <1>7 DEF EditBegins, Typed, TypeOK, Infos
  <2>5. Begun(d, u)
    <3> HIDE DEF x
    <3> QED
      BY <1>7, <2>2, <2>3, <2>4 DEF EditBegins, Tick, Begun, Alive
  <2> QED
    BY <1>4, <2>5
<1>8. CASE EditStored(d, u)
  <2>1. clock' = clock /\ saving[d][u] # 0
    BY <1>8 DEF EditStored
  <2>2. Saved(d, u)
    BY <1>8, <2>1, EditEffect DEF Saved
  <2> QED
    BY <1>4, <2>2
<1>9. CASE Remove(d, u)
  <2> DEFINE x == Script(local[d][u].ver, clock', TRUE)
  <2>1. local' = [local EXCEPT ![d][u] = x]
    BY <1>9 DEF Remove
  <2>2. x.ver = local[d][u].ver /\ x.modified = clock' /\ x.removed
    BY DEF Script
  <2>3. local'[d][u] = x
    <3> HIDE DEF x
    <3> QED
      BY <1>5, <2>1
  <2>4. u \in dirty'[d]
    BY <1>9 DEF Remove, Typed, TypeOK
  <2>5. ~disturbed' => u \notin WillUpload(d)
    BY <1>9 DEF Remove
  <2>6. Removed(d, u)
    <3> HIDE DEF x
    <3> QED
      BY <1>9, <2>2, <2>3, <2>4, <2>5 DEF Remove, Tick, Removed, Alive
  <2> QED
    BY <1>4, <2>6
<1> QED
  BY <1>6, <1>7, <1>8, <1>9

LEMMA UserMerged ==
  ASSUME Typed, Merged, NEW d \in Devices, NEW u \in Uris, OnlyScript(d, u),
         Edited(d, u) \/ Begun(d, u) \/ Saved(d, u) \/ Removed(d, u), ~disturbed'
  PROVE  Merged'
<1> DEFINE Same(e, v) == local'[e][v] = local[e][v] /\ saving'[e][v] = saving[e][v]
<1>1. \A e \in Devices, v \in Uris : Same(e, v) \/ (e = d /\ v = u)
  BY DEF OnlyScript
<1>2. /\ file' = file /\ meta' = meta /\ gone' = gone /\ stamp' = stamp /\ sync' = sync
      /\ \A e \in Devices : dirty[e] \subseteq dirty'[e]
      /\ raced \subseteq raced'
  BY DEF OnlyScript
<1>3. clock' \in Nat /\ clock <= clock'
  BY MergeTypes DEF Edited, Begun, Saved, Removed
<1>4. Clocked'
  <2>1. local'[d][u].ver <= clock' /\ saving'[d][u] <= clock'
    BY <1>3, MergeTypes DEF Merged, Clocked, Edited, Begun, Saved, Removed
  <2>2. \A e \in Devices, v \in Uris : local'[e][v].ver <= clock' /\ saving'[e][v] <= clock'
    BY <1>1, <1>3, <2>1, MergeTypes DEF Merged, Clocked
  <2>3. /\ meta.timestamp <= clock'
        /\ \A v \in Uris : file[v] <= clock' /\ \A t \in gone[v] : t <= clock'
        /\ \A e \in Devices :
             /\ stamp[e] <= clock'
             /\ sync[e].pc = "writing" => sync[e].remote.timestamp <= clock'
    BY <1>3, MergeTypes DEF Merged, Clocked
  <2> QED
    BY <1>2, <2>2, <2>3 DEF Clocked
<1>5. (Edited(d, u) \/ Saved(d, u)) =>
        /\ local'[d][u].ver \notin gone[u] /\ local'[d][u].ver # file[u]
        /\ \A e \in Devices \ {d} : /\ local'[d][u].ver # local[e][u].ver
                                    /\ saving[e][u] # 0 => local'[d][u].ver # saving[e][u]
  <2>1. CASE Edited(d, u)
    BY <2>1, MergeTypes DEF Merged, Clocked, Edited
  <2>2. CASE Saved(d, u)
    <3>1. Fresh(d, u)
      BY DEF Merged
    <3> QED
      BY <2>2, <3>1 DEF Fresh, Saved
  <2> QED
    BY <2>1, <2>2
<1>6. ASSUME NEW e \in Devices, NEW v \in Uris PROVE Stored(e, v)'
  <2>1. Stored(e, v) /\ Fresh(e, v)
    BY DEF Merged
  <2>2. CASE Same(e, v)
    BY <2>1, <2>2 DEF Stored, Alive
  <2>3. CASE e = d /\ v = u
    BY <2>1, <2>3, MergeTypes DEF Stored, Alive, Fresh, Edited, Begun, Saved, Removed
  <2> QED
    BY <1>1, <2>2, <2>3
<1>7. ASSUME NEW e \in Devices, NEW v \in Uris PROVE Fresh(e, v)'
  <2>1. Fresh(e, v) /\ \A f \in Devices : Fresh(f, v)
    BY DEF Merged
  <2>2. CASE v # u
    BY <1>1, <1>2, <2>1, <2>2 DEF Fresh
  <2>3. CASE v = u /\ e # d
    <3>1. Same(e, u) /\ \A f \in Devices : f # d => Same(f, u)
      BY <1>1, <2>3
    <3>2. CASE Begun(d, u)
      <4>1. saving'[d][u] = clock' /\ saving[e][u] <= clock /\ clock' = clock + 1
        BY <3>2 DEF Begun, Merged, Clocked
      <4>2. local'[d][u].ver = local[d][u].ver /\ saving[e][u] # saving'[d][u]
        BY <3>2, <4>1, MergeTypes DEF Begun
      <4> QED
        BY <1>2, <2>1, <2>3, <3>1, <4>2 DEF Fresh
    <3>3. CASE Removed(d, u)
      BY <1>2, <2>1, <2>3, <3>1, <3>3 DEF Fresh, Removed
    <3>4. CASE Edited(d, u) \/ Saved(d, u)
      <4>1. saving'[d][u] = 0
        BY <3>4 DEF Edited, Saved
      <4> QED
        BY <1>2, <1>5, <2>1, <2>3, <3>1, <3>4, <4>1 DEF Fresh
    <3> QED
      BY <3>2, <3>3, <3>4
  <2>4. CASE v = u /\ e = d
    <3>1. \A f \in Devices : f # d => Same(f, u)
      BY <1>1
    <3>2. CASE Begun(d, u)
      <4>1. /\ saving'[d][u] = clock' /\ clock' = clock + 1
            /\ local'[d][u].ver = local[d][u].ver /\ local'[d][u].modified = clock'
        BY <3>2 DEF Begun
      <4>2. /\ clock' \notin gone[u] /\ clock' # file[u]
            /\ \A f \in Devices : local[f][u].ver # clock' /\ saving[f][u] # clock'
        BY <4>1, MergeTypes DEF Merged, Clocked
      <4> QED
        BY <1>2, <2>4, <3>1, <4>1, <4>2 DEF Fresh
    <3>3. CASE ~Begun(d, u)
      <4>1. saving'[d][u] = 0
        BY <3>3 DEF Edited, Saved, Removed
      <4> QED
        BY <2>4, <4>1 DEF Fresh
    <3> QED
      BY <3>2, <3>3
  <2> QED
    BY <2>2, <2>3, <2>4
<1>8. FolderInv'
  BY <1>2 DEF Merged, FolderInv, Still, Changing
<1>9. \A e \in Devices : Alone(e)' <=> Alone(e)
  BY <1>2 DEF Alone, Changing
(* The script is new, or as it was but for a removal. *)
<1>10. ASSUME NEW e \in Devices, NEW v \in Uris, Stale(e, v)' PROVE Stale(e, v)
  <2>1. CASE Same(e, v)
    BY <1>2, <1>10, <2>1 DEF Stale, Alive
  <2>2. CASE e = d /\ v = u
    <3>1. ~Edited(d, u) /\ ~Saved(d, u)
      BY <1>2, <1>5, <1>10, <2>2 DEF Stale
    <3>2. ~Begun(d, u) /\ ~Removed(d, u)
      BY <1>10, <2>2, <1>3, MergeTypes DEF Stale, Alive, Begun, Removed
    <3> QED
      BY <3>1, <3>2
  <2> QED
    BY <1>1, <2>1, <2>2
<1>11. ASSUME NEW e \in Devices, NEW v \in Uris, NEW t, Agrees(e, v, t), v \notin dirty'[e]
       PROVE  Agrees(e, v, t)'
  <2>1. CASE Same(e, v)
    BY <1>11, <2>1 DEF Agrees, Alive
  <2>2. CASE e = d /\ v = u
    <3>1. Saved(d, u)
      BY <1>11, <2>2 DEF Edited, Begun, Removed
    <3>2. t = 0 /\ u \notin Alive(d)
      BY <1>11, <2>2, <3>1 DEF Agrees, Saved
    <3>3. local[d][u].ver # 0
      BY <3>1 DEF Saved, Typed, Present
    <3> QED
      BY <2>2, <3>1, <3>2, <3>3 DEF Agrees, Alive, Saved
  <2> QED
    BY <1>1, <2>1, <2>2
<1>12. ASSUME NEW e \in Devices, NEW v \in Uris, New(e, v) PROVE New(e, v)'
  <2>1. CASE Same(e, v)
    BY <1>2, <1>12, <2>1 DEF New
  <2>2. CASE e = d /\ v = u
    <3>1. CASE Edited(d, u) \/ Saved(d, u)
      BY <1>2, <1>5, <2>2, <3>1 DEF New
    <3>2. CASE Begun(d, u) \/ Removed(d, u)
      BY <1>2, <1>12, <2>2, <3>2 DEF New, Begun, Removed
    <3> QED
      BY <3>1, <3>2
  <2> QED
    BY <1>1, <2>1, <2>2
<1>13. ASSUME NEW e \in Devices, NEW v \in Uris, local[e][v].ver # 0 => Own(e, v)
       PROVE  local'[e][v].ver # 0 => Own(e, v)'
  <2>1. \A f \in Devices : Fresh(f, v)
    BY DEF Merged
  <2>2. CASE v # u
    BY <1>1, <1>2, <1>13, <2>2 DEF Own, New
  <2>3. CASE v = u /\ e = d
    <3>1. CASE Edited(d, u) \/ Saved(d, u)
      BY <1>1, <1>2, <1>5, <2>3, <3>1 DEF Own, New
    <3>2. CASE Begun(d, u) \/ Removed(d, u)
      BY <1>1, <1>2, <1>13, <2>3, <3>2 DEF Own, New, Begun, Removed
    <3> QED
      BY <3>1, <3>2
  <2>4. CASE v = u /\ e # d
    <3>1. Same(e, u) /\ \A f \in Devices : f # d => Same(f, u)
      BY <1>1, <2>4
    <3>2. CASE Edited(d, u) \/ Saved(d, u)
      BY <1>2, <1>5, <1>13, <2>4, <3>1, <3>2 DEF Own, New
    <3>3. CASE Begun(d, u) \/ Removed(d, u)
      BY <1>2, <1>13, <2>4, <3>1, <3>3 DEF Own, New, Begun, Removed
    <3> QED
      BY <3>2, <3>3
  <2> QED
    BY <2>2, <2>3, <2>4
(* No script that a sync will upload is removed, and what comes alive is new. *)
<1>14. ASSUME NEW e \in Devices, NEW v \in Uris, v \in Alive(e), v \notin Alive(e)'
       PROVE  e = d /\ v = u /\ Removed(d, u)
  <2>1. ~Same(e, v)
    BY <1>14 DEF Alive
  <2>2. e = d /\ v = u
    BY <1>1, <2>1
  <2>3. ~Begun(d, u) /\ ~Edited(d, u)
    BY <1>3, <1>14, <2>2, MergeTypes DEF Alive, Begun, Edited
  <2>4. ~Saved(d, u)
    BY <1>14, <2>2 DEF Alive, Saved
  <2> QED
    BY <2>2, <2>3, <2>4
<1>15. ASSUME NEW e \in Devices, NEW v \in Uris, v \notin Alive(e), v \in Alive(e)'
       PROVE  New(e, v)'
  <2>1. ~Same(e, v)
    BY <1>15 DEF Alive
  <2>2. e = d /\ v = u
    BY <1>1, <2>1
  <2>3. Edited(d, u) \/ Saved(d, u)
    BY <1>15, <2>2 DEF Alive, Begun, Removed
  <2> QED
    BY <1>2, <1>5, <2>2, <2>3 DEF New
<1>16. ASSUME NEW e \in Devices PROVE WaitingInv(e)'
  <2>1. WaitingInv(e)
    BY DEF Merged
  <2> SUFFICES ASSUME sync[e].pc \in {"off", "listing"} PROVE WaitingInv(e)'
    BY <1>2 DEF WaitingInv
  <2>2. stamp[e] = 0 => \A v \in Uris : local'[e][v].ver # 0 => Own(e, v)'
    BY <1>13, <2>1 DEF WaitingInv
  <2>3. Alone(e) /\ stamp[e] # 0 /\ stamp[e] = meta.timestamp =>
          \A v \in Uris \ dirty'[e] : Agrees(e, v, meta.info[v])'
    <3> SUFFICES ASSUME Alone(e), stamp[e] # 0, stamp[e] = meta.timestamp,
                        NEW v \in Uris \ dirty'[e]
                 PROVE  Agrees(e, v, meta.info[v])'
      OBVIOUS
    <3> DEFINE t == meta.info[v]
    <3>1. Agrees(e, v, t) /\ v \notin dirty'[e] /\ v \in Uris
      BY <1>2, <2>1 DEF WaitingInv
    <3>2. t' = t
      BY <1>2
    <3> HIDE DEF t
    <3>3. Agrees(e, v, t)'
      BY <1>11, <3>1, <3>2 DEF Agrees
    <3> QED
      BY <3>3 DEF t
  <2>4. Alone(e) => \A v \in Uris \ raced' : Stale(e, v)' => stamp[e] # 0 /\ stamp[e] < meta.timestamp
    BY <1>2, <1>10, <2>1 DEF WaitingInv
  <2> QED
    BY <1>2, <1>9, <2>2, <2>3, <2>4 DEF WaitingInv
<1>17. ASSUME NEW e \in Devices PROVE ListingInv(e)'
  <2>1. ListingInv(e)
    BY DEF Merged
  <2> SUFFICES ASSUME sync[e].pc = "listing" PROVE ListingInv(e)'
    BY <1>2 DEF ListingInv
  <2>2. sync[e].listed \subseteq Uris
    BY SyncIs, MergeTypes DEF Listings
  <2>3. sync[e].listed \subseteq Alive(e)'
    <3>1. Removed(d, u) /\ e = d => u \notin sync[e].listed
      BY DEF Removed, WillUpload
    <3> QED
      BY <1>14, <2>1, <2>2, <3>1 DEF ListingInv
  <2>4. \A v \in Alive(e)' \ sync[e].listed : New(e, v)'
    BY <1>12, <1>15, <2>1 DEF ListingInv, Alive
  <2> QED
    BY <1>2, <2>1, <2>3, <2>4 DEF ListingInv
<1>18. ASSUME NEW e \in Devices PROVE WorkingInv(e)'
  <2>1. WorkingInv(e)
    BY DEF Merged
  <2> SUFFICES ASSUME sync[e].pc = "working" PROVE WorkingInv(e)'
    BY <1>2 DEF WorkingInv
  <2>2. ASSUME NEW v \in Uris PROVE Planned(e, v)'
    <3>1. Planned(e, v)
      BY <2>1 DEF WorkingInv
    <3>2. v \in sync[e].put => v \in Alive(e)'
      <4>1. Removed(d, u) /\ e = d => u \notin sync[e].put
        BY DEF Removed, WillUpload
      <4> QED
        BY <1>14, <3>1, <4>1 DEF Planned
    <3>3. v \in sync[e].del /\ v \in Alive(e)' => New(e, v)'
      BY <1>12, <1>15, <3>1 DEF Planned
    <3> QED
      BY <1>2, <3>1, <3>2, <3>3 DEF Planned
  <2>3. ASSUME NEW v \in Uris, Alone(e) PROVE PlannedAlone(e, v)'
    <3>1. PlannedAlone(e, v)
      BY <2>1, <2>3 DEF WorkingInv
    <3>2. /\ v \notin sync[e].put \cup sync[e].del => sync[e].info[v] = file[v]
          /\ v \in sync[e].del => sync[e].info[v] = 0
      BY <3>1 DEF PlannedAlone
    <3>3. ASSUME v \notin sync[e].put \cup sync[e].get \cup sync[e].del \cup dirty'[e]
          PROVE  Agrees(e, v, sync[e].info[v])'
      <4> DEFINE t == sync[e].info[v]
      <4>1. Agrees(e, v, t) /\ v \notin dirty'[e]
        BY <1>2, <3>1, <3>3 DEF PlannedAlone
      <4>2. t' = t
        BY <1>2
      <4> HIDE DEF t
      <4>3. Agrees(e, v, t)'
        BY <1>11, <4>1, <4>2 DEF Agrees
      <4> QED
        BY <4>3 DEF t
    <3>4. v \in sync[e].del \ dirty'[e] => v \notin Alive(e)'
      <4> SUFFICES ASSUME v \in sync[e].del, v \notin dirty'[e], v \in Alive(e)' PROVE FALSE
        OBVIOUS
      <4>1. v \notin Alive(e)
        BY <1>2, <3>1 DEF PlannedAlone
      <4>2. ~Same(e, v)
        BY <4>1 DEF Alive
      <4>3. e = d /\ v = u
        BY <1>1, <4>2
      <4>4. Saved(d, u)
        BY <4>3 DEF Edited, Begun, Removed
      <4>5. local[d][u].ver # 0
        BY <4>4 DEF Saved, Typed, Present
      <4> QED
        BY <4>1, <4>3, <4>4, <4>5 DEF Alive, Saved
    <3>5. v \notin raced' /\ Stale(e, v)' =>
            \/ v \in sync[e].get
            \/ v \in sync[e].put /\ file[v] # 0
      BY <1>2, <1>10, <3>1 DEF PlannedAlone
    <3> QED
      BY <1>2, <3>2, <3>3, <3>4, <3>5 DEF PlannedAlone
  <2> QED
    BY <1>2, <1>9, <2>1, <2>2, <2>3 DEF WorkingInv
<1>19. ASSUME NEW e \in Devices PROVE WritingInv(e)'
  <2>1. WritingInv(e)
    BY DEF Merged
  <2> SUFFICES ASSUME sync[e].pc = "writing" PROVE WritingInv(e)'
    BY <1>2 DEF WritingInv
  <2>2. ASSUME Alone(e), NEW v \in Uris \ dirty'[e] PROVE Agrees(e, v, file[v])'
    <3> DEFINE t == file[v]
    <3>1. Agrees(e, v, t) /\ v \notin dirty'[e] /\ v \in Uris
      BY <1>2, <2>1, <2>2 DEF WritingInv
    <3>2. t' = t
      BY <1>2
    <3> HIDE DEF t
    <3>3. Agrees(e, v, t)'
      BY <1>11, <3>1, <3>2 DEF Agrees
    <3> QED
      BY <3>3 DEF t
  <2>3. Alone(e) => \A v \in Uris \ raced' : ~Stale(e, v)'
    BY <1>2, <1>10, <2>1 DEF WritingInv
  <2> QED
    BY <1>2, <1>9, <2>1, <2>2, <2>3 DEF WritingInv
<1> QED
  BY <1>4, <1>6, <1>7, <1>8, <1>16, <1>17, <1>18, <1>19 DEF Merged

(* What depends on the scripts and files alone.                            *)
LEMMA ScriptsSame ==
  ASSUME local' = local, saving' = saving, file' = file, gone' = gone
  PROVE  \A e \in Devices, v \in Uris :
           /\ Alive(e)' = Alive(e)
           /\ Stored(e, v)' <=> Stored(e, v)
           /\ Fresh(e, v)' <=> Fresh(e, v)
           /\ New(e, v)' <=> New(e, v)
           /\ Own(e, v)' <=> Own(e, v)
           /\ Stale(e, v)' <=> Stale(e, v)
           /\ \A t : Agrees(e, v, t)' <=> Agrees(e, v, t)
<1> SUFFICES ASSUME NEW e \in Devices, NEW v \in Uris
             PROVE  /\ Alive(e)' = Alive(e)
                    /\ Stored(e, v)' <=> Stored(e, v)
                    /\ Fresh(e, v)' <=> Fresh(e, v)
                    /\ New(e, v)' <=> New(e, v)
                    /\ Own(e, v)' <=> Own(e, v)
                    /\ Stale(e, v)' <=> Stale(e, v)
                    /\ \A t : Agrees(e, v, t)' <=> Agrees(e, v, t)
  OBVIOUS
<1>1. Alive(e)' = Alive(e)
  BY DEF Alive
<1>2. /\ Stored(e, v)' <=> Stored(e, v)
      /\ Stale(e, v)' <=> Stale(e, v)
      /\ \A t : Agrees(e, v, t)' <=> Agrees(e, v, t)
  BY <1>1 DEF Stored, Stale, Agrees
<1>3. Fresh(e, v)' <=> Fresh(e, v)
  BY DEF Fresh
<1>4. (New(e, v)' <=> New(e, v)) /\ (Own(e, v)' <=> Own(e, v))
  BY DEF New, Own
<1> QED
  BY <1>1, <1>2, <1>3, <1>4

(* A device that does nothing, while the folder stays as it is.            *)
LEMMA DeviceSame ==
  ASSUME Merged, saving' = saving, file' = file, gone' = gone, meta' = meta,
         NEW e \in Devices, sync'[e] = sync[e], stamp'[e] = stamp[e], dirty'[e] = dirty[e],
         \A v \in Uris : local'[e][v] = local[e][v],
         \A f \in Devices, v \in Uris : local'[f][v].ver = local[f][v].ver,
         raced \subseteq raced', Alone(e)' => Alone(e)
  PROVE  /\ WaitingInv(e)' /\ ListingInv(e)' /\ WorkingInv(e)'
         /\ (\A f \in Devices \ {e} : sync'[f].pc = "writing" \/ stamp'[f] = stamp[f]
                                      \/ stamp'[f] = meta.timestamp)
            /\ (\A f \in Devices : sync[f].pc = "writing" => sync'[f].pc = "writing")
              => WritingInv(e)'
<1>1. \A v \in Uris :
           /\ Alive(e)' = Alive(e)
           /\ New(e, v)' <=> New(e, v)
           /\ Own(e, v)' <=> Own(e, v)
           /\ Stale(e, v)' <=> Stale(e, v)
           /\ \A t : Agrees(e, v, t)' <=> Agrees(e, v, t)
  <2> SUFFICES ASSUME NEW v \in Uris
               PROVE  /\ Alive(e)' = Alive(e)
                      /\ New(e, v)' <=> New(e, v)
                      /\ Own(e, v)' <=> Own(e, v)
                      /\ Stale(e, v)' <=> Stale(e, v)
                      /\ \A t : Agrees(e, v, t)' <=> Agrees(e, v, t)
    OBVIOUS
  <2>1. Alive(e)' = Alive(e)
    BY DEF Alive
  <2>2. /\ Stale(e, v)' <=> Stale(e, v)
        /\ \A t : Agrees(e, v, t)' <=> Agrees(e, v, t)
    BY <2>1 DEF Stale, Agrees
  <2>3. (New(e, v)' <=> New(e, v)) /\ (Own(e, v)' <=> Own(e, v))
    BY DEF New, Own
  <2> QED
    BY <2>1, <2>2, <2>3
<1>2. WaitingInv(e) /\ ListingInv(e) /\ WorkingInv(e) /\ WritingInv(e)
  BY DEF Merged
<1>3. WaitingInv(e)'
  <2>1. \A v \in Uris : Agrees(e, v, meta.info[v])' <=> Agrees(e, v, meta.info[v])
    <3> SUFFICES ASSUME NEW v \in Uris
                 PROVE  Agrees(e, v, meta.info[v])' <=> Agrees(e, v, meta.info[v])
      OBVIOUS
    <3> QED
      BY <1>1 DEF Agrees
  <2> QED
    BY <1>1, <1>2, <2>1 DEF WaitingInv
<1>4. ListingInv(e)'
  BY <1>2 DEF ListingInv, Alive, New
<1>5. WorkingInv(e)'
  <2>1. \A v \in Uris : Planned(e, v) => Planned(e, v)'
    BY <1>1 DEF Planned
  <2>2. \A v \in Uris : PlannedAlone(e, v) => PlannedAlone(e, v)'
    BY <1>1 DEF PlannedAlone, Agrees
  <2> QED
    BY <1>2, <2>1, <2>2 DEF WorkingInv
<1>6. ASSUME \A f \in Devices \ {e} : \/ sync'[f].pc = "writing" \/ stamp'[f] = stamp[f]
                                      \/ stamp'[f] = meta.timestamp,
             \A f \in Devices : sync[f].pc = "writing" => sync'[f].pc = "writing"
      PROVE  WritingInv(e)'
  <2> SUFFICES ASSUME sync[e].pc = "writing" PROVE WritingInv(e)'
    BY DEF WritingInv
  <2>1. /\ meta'.timestamp < sync'[e].remote.timestamp
        /\ stamp'[e] = sync'[e].remote.timestamp
        /\ \A u \in Uris : \A v \in gone'[u] : v <= sync'[e].remote.timestamp
    BY <1>2 DEF WritingInv
  <2>2. \A f \in Devices \ {e} : sync'[f].pc = "writing" \/ stamp'[f] < sync'[e].remote.timestamp
    BY <1>2, <1>6 DEF WritingInv
  <2>3. Alone(e)' =>
         /\ sync'[e].remote.info = file'
         /\ \A u \in Uris \ dirty'[e] : Agrees(e, u, file[u])'
         /\ \A u \in Uris \ raced' : ~Stale(e, u)'
    BY <1>1, <1>2 DEF WritingInv, Agrees
  <2> QED
    BY <2>1, <2>2, <2>3 DEF WritingInv
<1> QED
  BY <1>3, <1>4, <1>5, <1>6

LEMMA StartMerged ==
  ASSUME Typed, Merged, NEW d \in Devices, NEW m \in Modes, Start(d, m)
  PROVE  Merged'
<1> DEFINE x == [pc |-> "listing", mode |-> m, listed |-> Alive(d), remote |-> meta]
<1>1. /\ local' = local /\ saving' = saving /\ file' = file /\ gone' = gone /\ meta' = meta
      /\ stamp' = stamp /\ dirty' = dirty /\ raced' = raced /\ clock' = clock
      /\ sync' = [sync EXCEPT ![d] = x]
      /\ sync[d].pc = "off"
  BY DEF Start, Remote, History, Busy
<1>2. /\ x.pc = "listing" /\ x.listed = Alive(d) /\ x.remote = meta
  OBVIOUS
<1> HIDE DEF x
<1>3. sync'[d] = x /\ \A e \in Devices : e # d => sync'[e] = sync[e]
  BY <1>1, SyncEffect
<1>4. \A e \in Devices : Changing(e)' <=> Changing(e)
  BY <1>1, <1>2, <1>3 DEF Changing
<1>5. (\A e \in Devices : Alone(e)' <=> Alone(e)) /\ (Still' <=> Still)
  BY <1>4 DEF Alone, Still
<1>6. Clocked'
  BY <1>1, <1>2, <1>3 DEF Merged, Clocked
<1>7. \A e \in Devices, v \in Uris : Stored(e, v)' /\ Fresh(e, v)'
  BY <1>1, ScriptsSame DEF Merged
<1>8. FolderInv'
  BY <1>1, <1>5 DEF Merged, FolderInv
<1>9. ASSUME NEW e \in Devices, e # d
      PROVE  WaitingInv(e)' /\ ListingInv(e)' /\ WorkingInv(e)' /\ WritingInv(e)'
  BY <1>1, <1>2, <1>3, <1>5, <1>9, DeviceSame
<1>10. WaitingInv(d)'
  <2>1. WaitingInv(d)
    BY DEF Merged
  <2>2. \A v \in Uris : /\ Own(d, v)' <=> Own(d, v)
                        /\ Stale(d, v)' <=> Stale(d, v)
                        /\ Agrees(d, v, meta.info[v])' <=> Agrees(d, v, meta.info[v])
    <3>1. \A v \in Uris : /\ Own(d, v)' <=> Own(d, v)
                          /\ Stale(d, v)' <=> Stale(d, v)
      BY <1>1, ScriptsSame
    <3>2. \A v \in Uris : Agrees(d, v, meta.info[v])' <=> Agrees(d, v, meta.info[v])
      BY <1>1 DEF Agrees, Alive
    <3> QED
      BY <3>1, <3>2
  <2> QED
    BY <1>1, <1>5, <2>1, <2>2 DEF WaitingInv
<1>11. ListingInv(d)'
  BY <1>1, <1>2, <1>3 DEF ListingInv, Alive
<1>12. WorkingInv(d)' /\ WritingInv(d)'
  BY <1>2, <1>3 DEF WorkingInv, WritingInv
<1> QED
  BY <1>6, <1>7, <1>8, <1>9, <1>10, <1>11, <1>12 DEF Merged

LEMMA ListingFailsMerged ==
  ASSUME Typed, Merged, NEW d \in Devices, ListingFails(d)
  PROVE  Merged'
<1> DEFINE x == Off
<1>1. /\ local' = local /\ saving' = saving /\ file' = file /\ gone' = gone /\ meta' = meta
      /\ stamp' = stamp /\ dirty' = dirty /\ raced' = raced /\ clock' = clock
      /\ sync' = [sync EXCEPT ![d] = x]
      /\ sync[d].pc = "listing"
  BY DEF ListingFails, Remote, History
<1>2. x.pc = "off"
  BY DEF Off
<1> HIDE DEF x
<1>3. sync'[d] = x /\ \A e \in Devices : e # d => sync'[e] = sync[e]
  BY <1>1, SyncEffect
<1>4. \A e \in Devices : Changing(e)' <=> Changing(e)
  BY <1>1, <1>2, <1>3 DEF Changing
<1>5. (\A e \in Devices : Alone(e)' <=> Alone(e)) /\ (Still' <=> Still)
  BY <1>4 DEF Alone, Still
<1>6. Clocked'
  BY <1>1, <1>2, <1>3 DEF Merged, Clocked
<1>7. \A e \in Devices, v \in Uris : Stored(e, v)' /\ Fresh(e, v)'
  BY <1>1, ScriptsSame DEF Merged
<1>8. FolderInv'
  BY <1>1, <1>5 DEF Merged, FolderInv
<1>9. ASSUME NEW e \in Devices, e # d
      PROVE  WaitingInv(e)' /\ ListingInv(e)' /\ WorkingInv(e)' /\ WritingInv(e)'
  BY <1>1, <1>2, <1>3, <1>5, <1>9, DeviceSame
<1>10. WaitingInv(d)'
  <2>1. WaitingInv(d)
    BY DEF Merged
  <2>2. \A v \in Uris : /\ Own(d, v)' <=> Own(d, v)
                        /\ Stale(d, v)' <=> Stale(d, v)
    BY <1>1, ScriptsSame
  <2>3. \A v \in Uris : Agrees(d, v, meta.info[v])' <=> Agrees(d, v, meta.info[v])
    BY <1>1 DEF Agrees, Alive
  <2> QED
    BY <1>1, <1>5, <2>1, <2>2, <2>3 DEF WaitingInv
<1>11. ListingInv(d)' /\ WorkingInv(d)' /\ WritingInv(d)'
  BY <1>2, <1>3 DEF ListingInv, WorkingInv, WritingInv
<1> QED
  BY <1>6, <1>7, <1>8, <1>9, <1>10, <1>11 DEF Merged

LEMMA FinishMerged ==
  ASSUME Typed, Merged, NEW d \in Devices, Finish(d)
  PROVE  Merged'
<1>1. /\ local' = local /\ saving' = saving /\ file' = file /\ gone' = gone /\ meta' = meta
      /\ dirty' = dirty /\ raced' = raced
      /\ sync[d].pc = "working" /\ sync[d].get \cup sync[d].put \cup sync[d].del = {}
  BY DEF Finish, Working, Remote, History
<1>2. WorkingInv(d)
  BY DEF Merged
<1>3. /\ ~sync[d].failed /\ sync[d].timestamp = meta.timestamp
      /\ sync[d].timestamp = 0 => sync[d].changed
      /\ Alone(d) => \A v \in Uris : PlannedAlone(d, v)
  BY <1>1, <1>2 DEF WorkingInv
<1>4. Alone(d) =>
        /\ \A v \in Uris : sync[d].info[v] = file[v]
        /\ \A v \in Uris \ dirty[d] : Agrees(d, v, file[v])
        /\ \A v \in Uris \ raced : ~Stale(d, v)
  <2> SUFFICES ASSUME Alone(d), NEW v \in Uris
               PROVE  /\ sync[d].info[v] = file[v]
                      /\ v \notin dirty[d] => Agrees(d, v, file[v])
                      /\ v \notin raced => ~Stale(d, v)
    OBVIOUS
  <2>1. PlannedAlone(d, v)
    BY <1>3
  <2>2. sync[d].info[v] = file[v]
    BY <1>1, <2>1 DEF PlannedAlone
  <2>3. v \notin dirty[d] => Agrees(d, v, sync[d].info[v])
    BY <1>1, <2>1 DEF PlannedAlone
  <2>4. v \notin raced => ~Stale(d, v)
    BY <1>1, <2>1 DEF PlannedAlone
  <2> QED
    BY <2>2, <2>3, <2>4
<1>5. \A e \in Devices, v \in Uris : Stored(e, v)' /\ Fresh(e, v)'
  BY <1>1, ScriptsSame DEF Merged
<1>6. CASE ~sync[d].changed /\ stamp' = [stamp EXCEPT ![d] = sync[d].timestamp]
           /\ sync' = [sync EXCEPT ![d] = Off] /\ clock' = clock
  <2> DEFINE x == Off
  <2>1. x.pc = "off" /\ sync' = [sync EXCEPT ![d] = x]
    BY <1>6 DEF Off
  <2> HIDE DEF x
  <2>2. sync'[d] = x /\ \A e \in Devices : e # d => sync'[e] = sync[e]
    BY <2>1, SyncEffect
  <2>3. stamp'[d] = meta.timestamp /\ \A e \in Devices : e # d => stamp'[e] = stamp[e]
    BY <1>3, <1>6 DEF Typed, TypeOK
  <2>4. meta.timestamp # 0
    BY <1>3, <1>6
  <2>5. \A e \in Devices : Changing(e)' <=> Changing(e)
    BY <1>1, <1>6, <2>1, <2>2 DEF Changing
  <2>6. (\A e \in Devices : Alone(e)' <=> Alone(e)) /\ (Still' <=> Still)
    BY <2>5 DEF Alone, Still
  <2>7. Clocked'
    BY <1>1, <1>6, <2>1, <2>2, <2>3 DEF Merged, Clocked
  <2>8. FolderInv'
    BY <1>1, <2>6 DEF Merged, FolderInv
  <2>9. ASSUME NEW e \in Devices, e # d
        PROVE  WaitingInv(e)' /\ ListingInv(e)' /\ WorkingInv(e)' /\ WritingInv(e)'
    BY <1>1, <2>1, <2>2, <2>3, <2>6, <2>9, DeviceSame
  <2>10. WaitingInv(d)'
    <3>1. Alone(d) => meta.info = file
      <4>1. Alone(d) => Still
        BY <1>1, <1>6 DEF Alone, Still, Changing
      <4> QED
        BY <4>1 DEF Merged, FolderInv
    <3>2. Alone(d) => \A v \in Uris \ dirty[d] : Agrees(d, v, meta.info[v])
      BY <1>4, <3>1
    <3>3. Alone(d)' => \A v \in Uris \ dirty'[d] : Agrees(d, v, meta.info[v])'
      BY <1>1, <2>6, <3>2 DEF Agrees, Alive
    <3>4. Alone(d)' => \A v \in Uris \ raced' : ~Stale(d, v)'
      BY <1>1, <1>4, <2>6, ScriptsSame
    <3> QED
      BY <1>1, <2>3, <2>4, <3>3, <3>4 DEF WaitingInv
  <2>11. ListingInv(d)' /\ WorkingInv(d)' /\ WritingInv(d)'
    BY <2>1, <2>2 DEF ListingInv, WorkingInv, WritingInv
  <2> QED
    BY <1>5, <2>7, <2>8, <2>9, <2>10, <2>11 DEF Merged
<1>7. CASE Tick /\ stamp' = [stamp EXCEPT ![d] = clock']
           /\ sync' = [sync EXCEPT ![d] = [pc |-> "writing",
                         remote |-> [timestamp |-> clock', info |-> sync[d].info]]]
  <2> DEFINE x == [pc |-> "writing",
                   remote |-> [timestamp |-> clock', info |-> sync[d].info]]
  <2>1. /\ x.pc = "writing" /\ x.remote.timestamp = clock' /\ x.remote.info = sync[d].info
        /\ sync' = [sync EXCEPT ![d] = x]
    BY <1>7
  <2> HIDE DEF x
  <2>2. sync'[d] = x /\ \A e \in Devices : e # d => sync'[e] = sync[e]
    BY <2>1, SyncEffect
  <2>3. stamp'[d] = clock' /\ \A e \in Devices : e # d => stamp'[e] = stamp[e]
    BY <1>7 DEF Typed, TypeOK
  <2>4. clock' = clock + 1 /\ clock' \in Nat /\ clock \in Nat
    BY <1>7, MergeTypes DEF Tick
  <2>5. \A e \in Devices : Changing(e)' <=> (e = d \/ Changing(e))
    BY <2>1, <2>2 DEF Changing
  <2>6. /\ \A e \in Devices : Alone(e)' => Alone(e)
        /\ ~Still'
    BY <2>5 DEF Alone, Still
  <2>7. Clocked'
    <3>1. /\ meta.timestamp <= clock'
          /\ \A v \in Uris : file[v] <= clock' /\ \A t \in gone[v] : t <= clock'
          /\ \A e \in Devices :
               /\ stamp[e] <= clock'
               /\ sync[e].pc = "writing" => sync[e].remote.timestamp <= clock'
               /\ \A v \in Uris : local[e][v].ver <= clock' /\ saving[e][v] <= clock'
      BY <2>4, MergeTypes DEF Merged, Clocked
    <3> QED
      BY <1>1, <2>1, <2>2, <2>3, <2>4, <3>1 DEF Clocked
  <2>8. FolderInv'
    BY <2>6 DEF FolderInv
  <2>9. ASSUME NEW e \in Devices, e # d
        PROVE  WaitingInv(e)' /\ ListingInv(e)' /\ WorkingInv(e)' /\ WritingInv(e)'
    BY <1>1, <2>1, <2>2, <2>3, <2>6, <2>9, DeviceSame
  <2>10. WritingInv(d)'
    <3>1. /\ meta.timestamp < clock'
          /\ \A e \in Devices : stamp[e] < clock'
          /\ \A v \in Uris : \A t \in gone[v] : t <= clock'
      BY <2>4, MergeTypes DEF Merged, Clocked
    <3>2. Alone(d) => sync[d].info = file
      <4>1. sync[d].info \in [Uris -> Time] /\ file \in [Uris -> Time]
        BY <1>1, MergeTypes, SyncIs DEF Workings, Infos, Typed, TypeOK
      <4> QED
        BY <1>4, <4>1
    <3>3. Alone(d) =>
            /\ \A v \in Uris \ dirty[d] : Agrees(d, v, file[v])'
            /\ \A v \in Uris \ raced : ~Stale(d, v)'
      BY <1>1, <1>4 DEF Agrees, Stale, Alive
    <3>4. /\ meta'.timestamp < sync'[d].remote.timestamp
          /\ stamp'[d] = sync'[d].remote.timestamp
          /\ \A e \in Devices \ {d} : stamp'[e] < sync'[d].remote.timestamp
          /\ \A v \in Uris : \A t \in gone'[v] : t <= sync'[d].remote.timestamp
      BY <1>1, <2>1, <2>2, <2>3, <3>1
    <3>5. Alone(d)' =>
         /\ sync'[d].remote.info = file'
         /\ \A v \in Uris \ dirty'[d] : Agrees(d, v, file[v])'
         /\ \A v \in Uris \ raced' : ~Stale(d, v)'
      BY <1>1, <2>1, <2>2, <2>6, <3>2, <3>3
    <3> QED
      BY <3>4, <3>5 DEF WritingInv
  <2>11. WaitingInv(d)' /\ ListingInv(d)' /\ WorkingInv(d)'
    BY <2>1, <2>2 DEF WaitingInv, ListingInv, WorkingInv
  <2> QED
    BY <1>5, <2>7, <2>8, <2>9, <2>10, <2>11 DEF Merged
<1> QED
  BY <1>3, <1>6, <1>7 DEF Finish

(* The folder changes only under a sync that is alone, or it is disturbed. *)
LEMMA OverlapsIs ==
  ASSUME Typed, NEW d \in Devices, ~Overlaps(d)
  PROVE  /\ \A e \in Devices : e # d => sync[e].pc = "off"
         /\ Alone(d)
<1>1. \A e \in Devices : e # d => sync[e].pc = "off"
  BY DEF Overlaps, Busy
<1> QED
  BY <1>1 DEF Alone, Changing

LEMMA PutMetaMerged ==
  ASSUME Typed, Merged, NEW d \in Devices, PutMeta(d), ~disturbed'
  PROVE  Merged'
<1> DEFINE x == Off
<1>1. /\ local' = local /\ saving' = saving /\ file' = file /\ gone' = gone
      /\ meta' = sync[d].remote /\ clock' = clock
      /\ stamp' = stamp /\ dirty' = dirty /\ raced' = raced
      /\ sync' = [sync EXCEPT ![d] = x]
      /\ sync[d].pc = "writing"
  BY DEF PutMeta
<1>2. ~Overlaps(d)
  BY DEF PutMeta
<1>3. x.pc = "off"
  BY DEF Off
<1> HIDE DEF x
<1>4. sync'[d] = x /\ \A e \in Devices : e # d => sync'[e] = sync[e]
  BY <1>1, SyncEffect
<1>5. \A e \in Devices : sync'[e].pc = "off"
  BY <1>2, <1>3, <1>4, OverlapsIs
<1>6. WritingInv(d) /\ Alone(d)
  BY <1>2, OverlapsIs DEF Merged
<1>7. /\ meta.timestamp < meta'.timestamp
      /\ stamp[d] = meta'.timestamp
      /\ \A e \in Devices \ {d} : stamp[e] < meta'.timestamp
      /\ \A u \in Uris : \A v \in gone[u] : v <= meta'.timestamp
      /\ meta'.info = file
      /\ \A u \in Uris \ dirty[d] : Agrees(d, u, file[u])
      /\ \A u \in Uris \ raced : ~Stale(d, u)
  <2>1. \A e \in Devices \ {d} : sync[e].pc # "writing"
    BY <1>2, OverlapsIs
  <2> QED
    BY <1>1, <1>6, <2>1 DEF WritingInv
<1>8. Clocked'
  BY <1>1, <1>5 DEF Merged, Clocked
<1>9. \A e \in Devices, v \in Uris : Stored(e, v)' /\ Fresh(e, v)'
  BY <1>1, ScriptsSame DEF Merged
<1>10. FolderInv'
  BY <1>1, <1>7 DEF FolderInv
<1>11. meta.timestamp \in Nat /\ meta'.timestamp \in Nat
  BY <1>1, MergeTypes
<1>12. WaitingInv(d)'
  <2>1. stamp'[d] # 0 /\ ~(stamp'[d] = 0)
    BY <1>1, <1>7, <1>11
  <2>2. \A v \in Uris \ dirty'[d] : Agrees(d, v, meta.info[v])'
    BY <1>1, <1>7 DEF Agrees, Alive
  <2>3. \A v \in Uris \ raced' : ~Stale(d, v)'
    BY <1>1, <1>7, ScriptsSame
  <2> QED
    BY <2>1, <2>2, <2>3 DEF WaitingInv
<1>13. ASSUME NEW e \in Devices, e # d PROVE WaitingInv(e)'
  <2>1. WaitingInv(e) /\ sync[e].pc = "off"
    BY <1>2, <1>13, OverlapsIs DEF Merged
  <2>2. stamp[e] = 0 => \A v \in Uris : local[e][v].ver # 0 => Own(e, v)
    BY <2>1 DEF WaitingInv
  <2>3. stamp'[e] = 0 => \A v \in Uris : local'[e][v].ver # 0 => Own(e, v)'
    BY <1>1, <2>2, ScriptsSame
  <2>4. stamp[e] < meta'.timestamp /\ stamp[e] \in Nat
    BY <1>7, <1>13, MergeTypes
  <2>5. \A v \in Uris : Stale(e, v)' => stamp[e] # 0
    <3> SUFFICES ASSUME NEW v \in Uris, Stale(e, v), stamp[e] = 0 PROVE FALSE
      BY <1>1, ScriptsSame
    <3>1. local[e][v].ver # 0 /\ local[e][v].ver \in gone[v]
      BY DEF Stale, Alive
    <3> QED
      BY <2>2, <3>1 DEF Own, New
  <2>6. stamp'[e] # meta'.timestamp /\ stamp'[e] < meta'.timestamp
    BY <1>1, <1>11, <2>4
  <2> QED
    BY <1>1, <2>3, <2>5, <2>6 DEF WaitingInv
<1>14. \A e \in Devices : ListingInv(e)' /\ WorkingInv(e)' /\ WritingInv(e)'
  BY <1>5 DEF ListingInv, WorkingInv, WritingInv
<1> QED
  BY <1>8, <1>9, <1>10, <1>12, <1>13, <1>14 DEF Merged

LEMMA AnsweredHas ==
  ASSUME NEW s \in Workings, NEW u, NEW ok \in BOOLEAN
  PROVE  /\ Answered(s, u, ok).pc = "working"
         /\ Answered(s, u, ok).get = s.get \ {u}
         /\ Answered(s, u, ok).put = s.put \ {u}
         /\ Answered(s, u, ok).del = s.del \ {u}
         /\ Answered(s, u, ok).info = s.info
         /\ Answered(s, u, ok).timestamp = s.timestamp
         /\ Answered(s, u, ok).changed = s.changed
BY DEF Answered, Workings

LEMMA AnsweredWell ==
  ASSUME NEW s \in Workings, NEW u
  PROVE  Answered(s, u, TRUE).failed <=> s.failed
<1>1. Answered(s, u, TRUE).failed = (s.failed \/ ~TRUE)
  BY DEF Answered, Workings
<1> QED
  BY <1>1

LEMMA NotedHas ==
  ASSUME NEW s \in Workings, NEW u \in Uris, NEW t \in Time
  PROVE  /\ Noted(s, u, t) \in Workings
         /\ Noted(s, u, t).get = s.get
         /\ Noted(s, u, t).put = s.put
         /\ Noted(s, u, t).del = s.del
         /\ Noted(s, u, t).info[u] = t
         /\ \A v \in Uris : v # u => Noted(s, u, t).info[v] = s.info[v]
         /\ Noted(s, u, t).timestamp = s.timestamp
         /\ Noted(s, u, t).changed = s.changed
         /\ Noted(s, u, t).failed = s.failed
<1>1. /\ Noted(s, u, t) \in Workings
      /\ Noted(s, u, t).get = s.get
      /\ Noted(s, u, t).put = s.put
      /\ Noted(s, u, t).info = [s.info EXCEPT ![u] = t]
  BY NotedIs
<1>2. /\ Noted(s, u, t).del = s.del
      /\ Noted(s, u, t).timestamp = s.timestamp
      /\ Noted(s, u, t).changed = s.changed
      /\ Noted(s, u, t).failed = s.failed
  BY DEF Noted, Workings
<1>3. s.info \in [Uris -> Time]
  BY DEF Workings, Infos
<1> QED
  BY <1>1, <1>2, <1>3

(* One request of d for u is answered while no other sync is in progress.  *)
Answers(d, u) ==
  /\ sync[d].pc = "working" /\ sync'[d].pc = "working"
  /\ \A e \in Devices : e # d => sync[e].pc = "off" /\ sync'[e] = sync[e]
  /\ sync'[d].get = sync[d].get \ {u}
  /\ sync'[d].put = sync[d].put \ {u}
  /\ sync'[d].del = sync[d].del \ {u}
  /\ \A v \in Uris : v # u => sync'[d].info[v] = sync[d].info[v]
  /\ sync'[d].timestamp = sync[d].timestamp
  /\ sync'[d].changed = sync[d].changed
  /\ sync'[d].failed <=> sync[d].failed
  /\ \A v \in Uris : v # u => file'[v] = file[v] /\ gone'[v] = gone[v]
  /\ \A e \in Devices, v \in Uris : (e # d \/ v # u) => local'[e][v] = local[e][v]
  /\ UNCHANGED << clock, meta, stamp, saving, dirty, raced >>
  /\ saving[d][u] = 0 \/ u \notin sync[d].put \cup sync[d].get

(* What is left to show of it.                                             *)
LEMMA AnswersMerged ==
  ASSUME Typed, Merged, NEW d \in Devices, NEW u \in Uris, Answers(d, u),
         Clocked', Stored(d, u)', \A e \in Devices : Fresh(e, u)',
         sync'[d].info[u] = file'[u],
         u \notin dirty[d] => Agrees(d, u, sync[d].info[u])',
         u \notin raced => ~Stale(d, u)',
         (file' = file /\ gone' = gone) \/ sync[d].changed,
         \A e \in Devices : e # d /\ stamp[e] = 0 /\ local[e][u].ver # 0 => Own(e, u)'
  PROVE  Merged'
<1>1. \A e \in Devices : e # d => sync[e].pc = "off" /\ sync'[e].pc = "off"
  BY DEF Answers
<1>2. /\ sync[d].pc = "working" /\ sync'[d].pc = "working"
      /\ meta' = meta /\ stamp' = stamp /\ saving' = saving /\ dirty' = dirty /\ raced' = raced
      /\ \A v \in Uris : v # u => file'[v] = file[v] /\ gone'[v] = gone[v]
      /\ \A e \in Devices, v \in Uris : (e # d \/ v # u) => local'[e][v] = local[e][v]
  BY DEF Answers
<1>3. \A e \in Devices : Changing(e)' <=> Changing(e)
  BY <1>1, <1>2 DEF Answers, Changing
<1>4. (\A e \in Devices : Alone(e)' <=> Alone(e)) /\ (Still' <=> Still)
  BY <1>3 DEF Alone, Still
<1>5. \A e \in Devices, v \in Uris : v # u =>
           /\ v \in Alive(e)' <=> v \in Alive(e)
           /\ Stored(e, v)' <=> Stored(e, v)
           /\ Fresh(e, v)' <=> Fresh(e, v)
           /\ New(e, v)' <=> New(e, v)
           /\ Own(e, v)' <=> Own(e, v)
           /\ Stale(e, v)' <=> Stale(e, v)
           /\ \A t : Agrees(e, v, t)' <=> Agrees(e, v, t)
  <2> SUFFICES ASSUME NEW e \in Devices, NEW v \in Uris, v # u
               PROVE  /\ v \in Alive(e)' <=> v \in Alive(e)
                      /\ Stored(e, v)' <=> Stored(e, v)
                      /\ Fresh(e, v)' <=> Fresh(e, v)
                      /\ New(e, v)' <=> New(e, v)
                      /\ Own(e, v)' <=> Own(e, v)
                      /\ Stale(e, v)' <=> Stale(e, v)
                      /\ \A t : Agrees(e, v, t)' <=> Agrees(e, v, t)
    OBVIOUS
  <2>1. v \in Alive(e)' <=> v \in Alive(e)
    BY <1>2 DEF Alive
  <2>2. /\ Stored(e, v)' <=> Stored(e, v)
        /\ Stale(e, v)' <=> Stale(e, v)
        /\ \A t : Agrees(e, v, t)' <=> Agrees(e, v, t)
    BY <1>2, <2>1 DEF Stored, Stale, Agrees
  <2>3. Fresh(e, v)' <=> Fresh(e, v)
    BY <1>2 DEF Fresh
  <2>4. (New(e, v)' <=> New(e, v)) /\ (Own(e, v)' <=> Own(e, v))
    BY <1>2 DEF New, Own
  <2> QED
    BY <2>1, <2>2, <2>3, <2>4
<1>6. ASSUME NEW e \in Devices, NEW v \in Uris PROVE Stored(e, v)' /\ Fresh(e, v)'
  <2>1. Stored(e, v) /\ Fresh(e, v)
    BY DEF Merged
  <2>2. CASE v # u
    BY <1>5, <2>1, <2>2
  <2>3. CASE v = u
    <3>1. e # d => Stored(e, u)'
      BY <1>2, <2>1, <2>3 DEF Stored, Alive
    <3> QED
      BY <2>3, <3>1
  <2> QED
    BY <2>2, <2>3
<1>7. FolderInv'
  <2>1. CASE file' = file /\ gone' = gone
    BY <1>2, <1>4, <2>1 DEF Merged, FolderInv
  <2>2. CASE sync[d].changed
    <3>1. ~Still
      BY <1>2, <2>2 DEF Still, Changing
    <3> QED
      BY <1>4, <3>1 DEF FolderInv
  <2> QED
    BY <2>1, <2>2
<1>8. ASSUME NEW e \in Devices, e # d PROVE WaitingInv(e)'
  <2>1. WaitingInv(e) /\ sync[e].pc = "off"
    BY <1>1, <1>8 DEF Merged
  <2>2. stamp'[e] = 0 => \A v \in Uris : local'[e][v].ver # 0 => Own(e, v)'
    <3> SUFFICES ASSUME stamp[e] = 0, NEW v \in Uris, local[e][v].ver # 0 PROVE Own(e, v)'
      BY <1>2, <1>8
    <3>1. Own(e, v)
      BY <2>1 DEF WaitingInv
    <3>2. v # u => Own(e, v)'
      BY <1>5, <3>1
    <3> QED
      BY <1>8, <3>2
  <2>3. CASE sync[d].changed
    <3>1. ~Alone(e)
      BY <1>2, <1>8, <2>3 DEF Alone, Changing
    <3> QED
      BY <1>4, <2>2, <3>1 DEF WaitingInv
  <2>4. CASE file' = file /\ gone' = gone
    <3>1. \A v \in Uris : local'[e][v] = local[e][v]
      BY <1>2, <1>8
    <3>2. \A v \in Uris : /\ Stale(e, v)' <=> Stale(e, v)
                          /\ Agrees(e, v, meta.info[v])' <=> Agrees(e, v, meta.info[v])
      BY <1>2, <2>4, <3>1 DEF Stale, Agrees, Alive
    <3> QED
      BY <1>2, <1>4, <2>1, <2>2, <3>2 DEF WaitingInv
  <2> QED
    BY <2>3, <2>4
<1>9. \A e \in Devices : e # d => ListingInv(e)' /\ WorkingInv(e)' /\ WritingInv(e)'
  BY <1>1 DEF ListingInv, WorkingInv, WritingInv
<1>10. WaitingInv(d)' /\ ListingInv(d)' /\ WritingInv(d)'
  BY <1>2 DEF WaitingInv, ListingInv, WritingInv
<1>11. WorkingInv(d)'
  <2>1. WorkingInv(d) /\ Alone(d)
    BY <1>1, <1>2 DEF Merged, Alone, Changing
  <2>2. /\ ~sync'[d].failed /\ sync'[d].timestamp = meta'.timestamp
        /\ sync'[d].timestamp = 0 => sync'[d].changed
    BY <1>2, <2>1 DEF WorkingInv, Answers
  <2>3. ASSUME NEW v \in Uris PROVE Planned(d, v)'
    <3>1. Planned(d, v)
      BY <1>2, <2>1 DEF WorkingInv
    <3>2. CASE v = u
      BY <3>2 DEF Planned, Answers
    <3>3. CASE v # u
      <4>1. (v \in Alive(d)' <=> v \in Alive(d)) /\ (New(d, v)' <=> New(d, v))
        BY <1>5, <3>3
      <4> QED
        BY <3>1, <3>3, <4>1 DEF Planned, Answers
    <3> QED
      BY <3>2, <3>3
  <2>4. ASSUME NEW v \in Uris PROVE PlannedAlone(d, v)'
    <3>1. PlannedAlone(d, v)
      BY <1>2, <2>1 DEF WorkingInv
    <3>2. CASE v = u
      <4>1. /\ u \notin sync'[d].put /\ u \notin sync'[d].get /\ u \notin sync'[d].del
        BY DEF Answers
      <4>2. u \notin dirty[d] => Agrees(d, u, sync[d].info[u])'
        OBVIOUS
      <4> QED
        BY <1>2, <3>2, <4>1, <4>2 DEF PlannedAlone
    <3>3. CASE v # u
      <4> DEFINE t == sync[d].info[v]
      <4>1. /\ v \in Alive(d)' <=> v \in Alive(d)
            /\ Stale(d, v)' <=> Stale(d, v)
            /\ Agrees(d, v, t)' <=> Agrees(d, v, t)
        <5>1. /\ v \in Alive(d)' <=> v \in Alive(d)
              /\ Stale(d, v)' <=> Stale(d, v)
          BY <1>5, <3>3
        <5>2. t' = t
          BY <3>3 DEF Answers
        <5> HIDE DEF t
        <5>3. Agrees(d, v, t)' <=> Agrees(d, v, t)
          BY <1>2, <3>3, <5>1, <5>2 DEF Agrees
        <5> QED
          BY <5>1, <5>3
      <4>2. /\ v \in sync'[d].put <=> v \in sync[d].put
            /\ v \in sync'[d].get <=> v \in sync[d].get
            /\ v \in sync'[d].del <=> v \in sync[d].del
            /\ sync'[d].info[v] = sync[d].info[v] /\ file'[v] = file[v]
        BY <3>3 DEF Answers
      <4> QED
        BY <1>2, <3>1, <4>1, <4>2 DEF PlannedAlone
    <3> QED
      BY <3>2, <3>3
  <2> QED
    BY <2>2, <2>3, <2>4 DEF WorkingInv
<1> QED
  BY <1>6, <1>7, <1>8, <1>9, <1>10, <1>11 DEF Merged

LEMMA DownloadMerged ==
  ASSUME Typed, Merged, NEW d \in Devices, NEW u \in Uris, Download(d, u), ~disturbed'
  PROVE  Merged'
<1> DEFINE x == Answered(sync[d], u, TRUE)
           y == Script(file[u], sync[d].info[u], FALSE)
<1>1. /\ sync[d].pc = "working" /\ u \in sync[d].get /\ file[u] # 0
      /\ clock' = clock /\ file' = file /\ gone' = gone /\ meta' = meta /\ stamp' = stamp
      /\ saving' = saving /\ dirty' = dirty /\ raced' = raced
      /\ sync' = [sync EXCEPT ![d] = x] /\ local' = [local EXCEPT ![d][u] = y]
      /\ ~Overlaps(d) /\ saving[d][u] = 0
  BY DEF Download, Working, Remote
<1>2. sync[d] \in Workings
  BY <1>1, MergeTypes, SyncIs
<1>3. /\ x.pc = "working" /\ x.get = sync[d].get \ {u}
      /\ x.put = sync[d].put \ {u} /\ x.del = sync[d].del \ {u}
      /\ x.info = sync[d].info /\ x.timestamp = sync[d].timestamp
      /\ x.changed = sync[d].changed
  BY <1>2, AnsweredHas
<1>4. x.failed <=> sync[d].failed
  BY <1>2, AnsweredWell
<1>5. y.ver = file[u] /\ y.modified = sync[d].info[u] /\ ~y.removed
  BY DEF Script
<1> HIDE DEF x, y
<1>6. sync'[d] = x /\ \A e \in Devices : e # d => sync'[e] = sync[e]
  BY <1>1, SyncEffect
<1>7. /\ local'[d][u] = y
      /\ \A e \in Devices, v \in Uris : (e # d \/ v # u) => local'[e][v] = local[e][v]
  BY <1>1, ScriptEffect
<1>8. (\A e \in Devices : e # d => sync[e].pc = "off") /\ Alone(d)
  BY <1>1, OverlapsIs
<1>9. Planned(d, u) /\ PlannedAlone(d, u)
  BY <1>1, <1>8 DEF Merged, WorkingInv
<1>10. Answers(d, u)
  BY <1>1, <1>3, <1>4, <1>6, <1>7, <1>8 DEF Answers
<1>11. sync[d].info[u] = file[u]
  BY <1>1, <1>9 DEF Planned, PlannedAlone
<1>12. Clocked'
  <2>1. \A e \in Devices, v \in Uris : local'[e][v].ver <= clock
    BY <1>5, <1>7 DEF Merged, Clocked
  <2> QED
    BY <1>1, <1>3, <1>6, <2>1 DEF Merged, Clocked
<1>13. Stored(d, u)'
  BY <1>5, <1>7, <1>11 DEF Stored
<1>14. ASSUME NEW e \in Devices PROVE Fresh(e, u)'
  <2>1. Fresh(e, u)
    BY DEF Merged
  <2>2. CASE e = d
    BY <1>1, <2>2 DEF Fresh
  <2>3. CASE e # d
    BY <1>1, <1>5, <1>7, <2>1, <2>3 DEF Fresh
  <2> QED
    BY <2>2, <2>3
<1>15. sync'[d].info[u] = file'[u]
  BY <1>1, <1>3, <1>6, <1>11
<1>16. Agrees(d, u, sync[d].info[u])'
  BY <1>1, <1>5, <1>7, <1>11, <1>15 DEF Agrees, Alive
<1>17. ~Stale(d, u)'
  BY <1>1, <1>5, <1>7 DEF Stale
<1>18. ASSUME NEW e \in Devices, e # d, stamp[e] = 0, local[e][u].ver # 0 PROVE Own(e, u)'
  <2>1. Own(e, u)
    BY <1>8, <1>18 DEF Merged, WaitingInv
  <2> QED
    BY <1>1, <1>5, <1>7, <1>18, <2>1 DEF Own, New
<1> QED
  BY <1>1, <1>10, <1>12, <1>13, <1>14, <1>15, <1>16, <1>17, <1>18, AnswersMerged

LEMMA UploadMerged ==
  ASSUME Typed, Merged, NEW d \in Devices, NEW u \in Uris, NEW ok \in BOOLEAN,
         Upload(d, u, ok), ~disturbed'
  PROVE  Merged'
<1> DEFINE n == Noted(sync[d], u, local[d][u].modified)
           x == Answered(n, u, TRUE)
<1>1. /\ sync[d].pc = "working" /\ u \in sync[d].put
      /\ clock' = clock /\ local' = local /\ gone' = gone /\ meta' = meta /\ stamp' = stamp
      /\ saving' = saving /\ dirty' = dirty /\ raced' = raced
      /\ file' = [file EXCEPT ![u] = local[d][u].ver]
      /\ ~Overlaps(d) /\ saving[d][u] = 0
  BY DEF Upload, Working
<1>2. sync' = [sync EXCEPT ![d] = x]
  <2>1. ok = TRUE
    BY DEF Upload
  <2> QED
    BY <2>1 DEF Upload
<1>3. sync[d] \in Workings /\ local[d][u].modified \in Time
  BY <1>1, MergeTypes, SyncIs, ScriptHas DEF Typed, TypeOK
<1>4. /\ n \in Workings
      /\ n.get = sync[d].get /\ n.put = sync[d].put /\ n.del = sync[d].del
      /\ n.info[u] = local[d][u].modified
      /\ \A v \in Uris : v # u => n.info[v] = sync[d].info[v]
      /\ n.timestamp = sync[d].timestamp
      /\ n.changed = sync[d].changed
      /\ n.failed = sync[d].failed
  BY <1>3, NotedHas
<1> HIDE DEF n
<1>5. /\ x.pc = "working" /\ x.get = n.get \ {u}
      /\ x.put = n.put \ {u} /\ x.del = n.del \ {u}
      /\ x.info = n.info /\ x.timestamp = n.timestamp
      /\ x.changed = n.changed
  BY <1>4, AnsweredHas
<1>6. x.failed <=> n.failed
  BY <1>4, AnsweredWell
<1> HIDE DEF x
<1>7. sync'[d] = x /\ \A e \in Devices : e # d => sync'[e] = sync[e]
  BY <1>2, SyncEffect
<1>8. file'[u] = local[d][u].ver /\ \A v \in Uris : v # u => file'[v] = file[v]
  BY <1>1 DEF Typed, TypeOK, Infos
<1>9. (\A e \in Devices : e # d => sync[e].pc = "off") /\ Alone(d)
  BY <1>1, OverlapsIs
<1>10. Planned(d, u)
  BY <1>1 DEF Merged, WorkingInv
<1>11. Answers(d, u)
  BY <1>1, <1>4, <1>5, <1>6, <1>7, <1>8, <1>9 DEF Answers
<1>12. u \in Alive(d) /\ sync[d].changed
  BY <1>1, <1>10 DEF Planned
<1>13. local[d][u].ver = local[d][u].modified
  <2>1. Stored(d, u)
    BY DEF Merged
  <2> QED
    BY <1>1, <1>12, <2>1 DEF Stored
<1>14. Clocked'
  <2>1. \A v \in Uris : file'[v] <= clock
    BY <1>8 DEF Merged, Clocked
  <2> QED
    BY <1>1, <1>5, <1>7, <2>1 DEF Merged, Clocked
<1>15. Stored(d, u)'
  BY <1>1, <1>13 DEF Stored
<1>16. ASSUME NEW e \in Devices PROVE Fresh(e, u)'
  <2>1. Fresh(e, u)
    BY DEF Merged
  <2> QED
    BY <1>1, <1>8, <2>1 DEF Fresh
<1>17. sync'[d].info[u] = file'[u]
  BY <1>4, <1>5, <1>7, <1>8, <1>13
<1>18. Agrees(d, u, sync[d].info[u])'
  BY <1>1, <1>8, <1>12, <1>13, <1>17 DEF Agrees, Alive
<1>19. ~Stale(d, u)'
  BY <1>1, <1>8 DEF Stale
<1>20. ASSUME NEW e \in Devices, e # d, stamp[e] = 0, local[e][u].ver # 0 PROVE Own(e, u)'
  <2>1. Own(e, u)
    BY <1>9, <1>20 DEF Merged, WaitingInv
  <2> QED
    BY <1>1, <1>8, <1>20, <2>1 DEF Own, New
<1> QED
  BY <1>11, <1>12, <1>14, <1>15, <1>16, <1>17, <1>18, <1>19, <1>20, AnswersMerged

LEMMA RemoveRemoteMerged ==
  ASSUME Typed, Merged, NEW d \in Devices, NEW u \in Uris, NEW ok \in BOOLEAN,
         RemoveRemote(d, u, ok), ~disturbed'
  PROVE  Merged'
<1> DEFINE x == Answered(sync[d], u, TRUE)
<1>1. /\ sync[d].pc = "working" /\ u \in sync[d].del /\ file[u] # 0
      /\ clock' = clock /\ local' = local /\ meta' = meta /\ stamp' = stamp
      /\ saving' = saving /\ dirty' = dirty /\ raced' = raced
      /\ file' = [file EXCEPT ![u] = 0]
      /\ gone' = [gone EXCEPT ![u] = gone[u] \cup {file[u]}]
      /\ ~Overlaps(d)
  BY DEF RemoveRemote, Working
<1>2. sync' = [sync EXCEPT ![d] = x]
  <2>1. ok = TRUE
    BY DEF RemoveRemote
  <2> QED
    BY <2>1 DEF RemoveRemote
<1>3. sync[d] \in Workings
  BY <1>1, MergeTypes, SyncIs
<1>4. /\ x.pc = "working" /\ x.get = sync[d].get \ {u}
      /\ x.put = sync[d].put \ {u} /\ x.del = sync[d].del \ {u}
      /\ x.info = sync[d].info /\ x.timestamp = sync[d].timestamp
      /\ x.changed = sync[d].changed
  BY <1>3, AnsweredHas
<1>5. x.failed <=> sync[d].failed
  BY <1>3, AnsweredWell
<1> HIDE DEF x
<1>6. sync'[d] = x /\ \A e \in Devices : e # d => sync'[e] = sync[e]
  BY <1>2, SyncEffect
<1>7. /\ file'[u] = 0 /\ gone'[u] = gone[u] \cup {file[u]}
      /\ \A v \in Uris : v # u => file'[v] = file[v] /\ gone'[v] = gone[v]
  BY <1>1 DEF Typed, TypeOK, Infos
<1>8. (\A e \in Devices : e # d => sync[e].pc = "off") /\ Alone(d)
  BY <1>1, OverlapsIs
<1>9. Planned(d, u) /\ PlannedAlone(d, u)
  BY <1>1, <1>8 DEF Merged, WorkingInv
<1>10. u \notin sync[d].put /\ u \notin sync[d].get /\ sync[d].changed
  BY <1>1, <1>9 DEF Planned
<1>11. Answers(d, u)
  BY <1>1, <1>4, <1>5, <1>6, <1>7, <1>8, <1>10 DEF Answers
<1>12. Clocked'
  <2>1. \A v \in Uris : file'[v] <= clock /\ \A t \in gone'[v] : t <= clock
    BY <1>7, MergeTypes DEF Merged, Clocked
  <2> QED
    BY <1>1, <1>4, <1>6, <2>1 DEF Merged, Clocked
<1>13. Stored(d, u)'
  BY <1>1 DEF Merged, Stored, Alive
<1>14. ASSUME NEW e \in Devices PROVE Fresh(e, u)'
  <2>1. Fresh(e, u)
    BY DEF Merged
  <2> QED
    BY <1>1, <1>7, <2>1 DEF Fresh
<1>15. sync[d].info[u] = 0
  BY <1>1, <1>9 DEF PlannedAlone
<1>16. sync'[d].info[u] = file'[u] /\ sync'[d].info[u] = 0
  BY <1>4, <1>6, <1>7, <1>15
<1>17. u \notin dirty[d] => Agrees(d, u, sync[d].info[u])'
  <2>1. u \notin dirty[d] => u \notin Alive(d)
    BY <1>1, <1>9 DEF PlannedAlone
  <2> QED
    BY <1>1, <1>16, <2>1 DEF Agrees, Alive
<1>18. ~Stale(d, u)'
  BY <1>1, <1>7, <1>9 DEF Stale, Planned, New, Alive
<1>19. ASSUME NEW e \in Devices, e # d, stamp[e] = 0, local[e][u].ver # 0 PROVE Own(e, u)'
  <2>1. Own(e, u)
    BY <1>8, <1>19 DEF Merged, WaitingInv
  <2> QED
    BY <1>1, <1>7, <1>19, <2>1 DEF Own, New
<1> QED
  BY <1>10, <1>11, <1>12, <1>13, <1>14, <1>16, <1>17, <1>18, <1>19, AnswersMerged

LEMMA PlanHas ==
  ASSUME Typed, NEW d \in Devices, Plan(d)
  PROVE  /\ sync'[d].failed = FALSE
         /\ sync[d].remote.timestamp = 0 \/ Puts(d) \cup Dels(d) # {} => sync'[d].changed
<1> DEFINE c == \/ sync[d].remote.timestamp = 0 \/ Puts(d) \cup Dels(d) \cup Unknown(d) # {}
                \/ Cardinality({u \in Uris : sync[d].remote.info[u] # 0}) # Cardinality(Files)
           x == [pc |-> "working", get |-> Gets(d), put |-> Puts(d), del |-> Dels(d),
                 failed |-> FALSE, timestamp |-> sync[d].remote.timestamp,
                 info |-> Noting(d), changed |-> c]
<1>1. sync' = [sync EXCEPT ![d] = x]
  BY DEF Plan, Unknown, Gets, Puts, Dels, Noting, Known
<1>2. x.failed = FALSE /\ x.changed = c
  OBVIOUS
<1>3. sync[d].remote.timestamp = 0 \/ Puts(d) \cup Dels(d) # {} => c
  OBVIOUS
<1>4. sync'[d] = x
  <2> HIDE DEF x
  <2> QED
    BY <1>1, SyncEffect
<1>5. sync'[d].failed = FALSE /\ sync'[d].changed = c
  <2> HIDE DEF x, c
  <2> QED
    BY <1>2, <1>4
<1>6. c => sync'[d].changed
  <2> HIDE DEF c
  <2> QED
    BY <1>5
<1> QED
  <2> HIDE DEF c
  <2> QED
    BY <1>3, <1>5, <1>6

(* compareItems decides for one side at most.                              *)
LEMMA OneWins ==
  ASSUME Typed, NEW d \in Devices, sync[d].pc = "listing", NEW u \in Uris, NEW info,
         u \in Files => info[u] \in Nat
  PROVE  ~(LocalWins(d, u, info) /\ RemoteWins(d, u, info))
<1>1. local[d][u].modified \in Nat
  BY TimesType
<1>2. info[u] \in Nat => ~(info[u] < local[d][u].modified /\ info[u] > local[d][u].modified)
  BY <1>1
<1> QED
  BY <1>2 DEF LocalWins, RemoteWins

LEMMA PlanMerged ==
  ASSUME Typed, Merged, NEW d \in Devices, Plan(d)
  PROVE  Merged'
<1>1. /\ file' = file /\ gone' = gone /\ meta' = meta /\ stamp' = stamp /\ saving' = saving
      /\ sync[d].pc = "listing" /\ sync[d] \in Listings
  BY PlanIs DEF Plan, Remote
<1>2. ASSUME NEW e \in Devices, NEW v \in Uris, ~(e = d /\ v \in Drops(d))
      PROVE  local'[e][v] = local[e][v]
  <2>1. \A f \in Devices, w \in Uris :
          local'[f][w] = IF f = d /\ w \in Drops(d)
                         THEN Script(local[d][w].ver, clock + 1, TRUE) ELSE local[f][w]
    BY PlanIs
  <2> QED
    BY <1>2, <2>1
<1>3. ASSUME NEW v \in Uris, v \in Drops(d)
      PROVE  local'[d][v].ver = local[d][v].ver /\ local'[d][v].removed
  <2>1. \A f \in Devices, w \in Uris :
          local'[f][w] = IF f = d /\ w \in Drops(d)
                         THEN Script(local[d][w].ver, clock + 1, TRUE) ELSE local[f][w]
    BY PlanIs
  <2>2. local'[d][v] = Script(local[d][v].ver, clock + 1, TRUE)
    BY <1>3, <2>1
  <2> QED
    BY <2>2 DEF Script
<1>4. \A e \in Devices, v \in Uris : local'[e][v].ver = local[e][v].ver
  BY <1>2, <1>3
<1>5. /\ \A e \in Devices : e # d => sync'[e] = sync[e] /\ dirty'[e] = dirty[e]
      /\ dirty'[d] = Alive(d) \ sync[d].listed
  <2> DEFINE x == sync'[d]
  <2>1. sync' = [sync EXCEPT ![d] = x]
    BY PlanIs
  <2>2. \A e \in Devices : e # d => sync'[e] = sync[e]
    <3> HIDE DEF x
    <3> QED
      BY <2>1, SyncEffect
  <2>3. dirty' = [dirty EXCEPT ![d] = Alive(d) \ sync[d].listed]
    BY PlanIs
  <2> QED
    BY <2>2, <2>3 DEF Typed, TypeOK
<1>6. /\ sync'[d].pc = "working" /\ sync'[d].get = Gets(d) /\ sync'[d].put = Puts(d)
      /\ sync'[d].del = Dels(d) /\ sync'[d].info = Noting(d)
      /\ sync'[d].timestamp = sync[d].remote.timestamp
  BY PlanIs
<1>7. /\ raced \subseteq raced' /\ Drops(d) \subseteq raced'
      /\ sync[d].mode = "push" => Puts(d) \subseteq raced'
  BY PlanIs
<1>8. clock \in Nat /\ clock' \in Nat /\ clock <= clock'
  <2>1. clock' = clock \/ clock' = clock + 1
    BY PlanIs DEF Tick
  <2> QED
    BY <2>1, MergeTypes
<1>9. Clocked'
  <2>1. /\ meta.timestamp <= clock'
        /\ \A v \in Uris : file[v] <= clock' /\ \A t \in gone[v] : t <= clock'
        /\ \A e \in Devices :
             /\ stamp[e] <= clock'
             /\ sync[e].pc = "writing" => sync[e].remote.timestamp <= clock'
             /\ \A v \in Uris : local[e][v].ver <= clock' /\ saving[e][v] <= clock'
    BY <1>8, MergeTypes DEF Merged, Clocked
  <2> QED
    BY <1>1, <1>4, <1>5, <1>6, <2>1 DEF Clocked
<1>10. ASSUME NEW e \in Devices, NEW v \in Uris PROVE Stored(e, v)' /\ Fresh(e, v)'
  <2>1. Stored(e, v) /\ Fresh(e, v)
    BY DEF Merged
  <2>2. CASE e = d /\ v \in Drops(d)
    <3>1. local'[d][v].removed
      BY <1>3, <2>2
    <3> QED
      BY <1>1, <1>4, <2>1, <2>2, <3>1 DEF Stored, Fresh, Alive
  <2>3. CASE ~(e = d /\ v \in Drops(d))
    <3>1. local'[e][v] = local[e][v]
      BY <1>2, <2>3
    <3> QED
      BY <1>1, <1>4, <2>1, <3>1 DEF Stored, Fresh, Alive
  <2> QED
    BY <2>2, <2>3
<1>11. \A e \in Devices : Changing(e) => Changing(e)'
  BY <1>1, <1>5 DEF Changing
<1>12. /\ \A e \in Devices : Alone(e)' => Alone(e)
       /\ Still' => Still
       /\ Alone(d) => Still
  BY <1>1, <1>11 DEF Alone, Still, Changing
<1>13. FolderInv'
  BY <1>1, <1>12 DEF Merged, FolderInv
<1>14. ASSUME NEW e \in Devices, e # d
       PROVE  WaitingInv(e)' /\ ListingInv(e)' /\ WorkingInv(e)' /\ WritingInv(e)'
  <2>1. sync'[e] = sync[e] /\ dirty'[e] = dirty[e] /\ stamp'[e] = stamp[e]
        /\ (\A v \in Uris : local'[e][v] = local[e][v])
        /\ (Alone(e)' => Alone(e))
    BY <1>1, <1>2, <1>5, <1>12, <1>14
  <2>2. /\ \A f \in Devices \ {e} : stamp'[f] = stamp[f]
        /\ \A f \in Devices : sync[f].pc = "writing" => sync'[f].pc = "writing"
    BY <1>1, <1>5
  <2> QED
    BY <1>1, <1>4, <1>7, <2>1, <2>2, DeviceSame
<1>15. WaitingInv(d)' /\ ListingInv(d)' /\ WritingInv(d)'
  BY <1>6 DEF WaitingInv, ListingInv, WritingInv
(* What d decides. *)
<1>16. ListingInv(d) /\ WaitingInv(d)
  BY DEF Merged
<1>17. /\ sync[d].remote = meta
       /\ sync[d].listed \subseteq Alive(d)
       /\ \A v \in Alive(d) \ sync[d].listed : New(d, v)
  BY <1>1, <1>16 DEF ListingInv
<1>18. \A v \in Uris : ~(LocalWins(d, v, Known(d)) /\ RemoteWins(d, v, Known(d)))
  <2> DEFINE k == Known(d)
  <2>1. k \in Infos
    BY KnownType
  <2>2. \A v \in Uris : k[v] \in Nat
    BY <2>1, TimeAssumption DEF Infos, Time
  <2> HIDE DEF k
  <2>3. \A v \in Uris : ~(LocalWins(d, v, k) /\ RemoteWins(d, v, k))
    BY <1>1, <2>2, OneWins
  <2> QED
    BY <2>3 DEF k
<1>19. ASSUME NEW v \in Uris
       PROVE  /\ v \in Puts(d) => v \in sync[d].listed /\ v \notin Drops(d)
              /\ v \in Dels(d) => v \in Files \ sync[d].listed /\ v \notin Drops(d)
              /\ v \in Drops(d) => v \in sync[d].listed \ Files
              /\ ~(v \in Puts(d) /\ v \in Gets(d)) /\ ~(v \in Puts(d) /\ v \in Dels(d))
              /\ ~(v \in Gets(d) /\ v \in Dels(d))
  BY <1>18 DEF Puts, Dels, Gets, Drops
<1>20. ASSUME NEW v \in Uris PROVE Planned(d, v)'
  <2>1. v \in Puts(d) => v \in Alive(d)' /\ sync'[d].changed
    <3> SUFFICES ASSUME v \in Puts(d) PROVE v \in Alive(d)' /\ sync'[d].changed
      OBVIOUS
    <3>1. v \in Alive(d) /\ local'[d][v] = local[d][v]
      BY <1>2, <1>17, <1>19
    <3> QED
      BY <3>1, PlanHas DEF Alive
  <2>2. v \in Dels(d) => sync'[d].changed /\ (v \in Alive(d)' => New(d, v)')
    <3> SUFFICES ASSUME v \in Dels(d) PROVE sync'[d].changed /\ (v \in Alive(d)' => New(d, v)')
      OBVIOUS
    <3>1. v \notin sync[d].listed /\ local'[d][v] = local[d][v]
      BY <1>2, <1>19
    <3> QED
      BY <1>1, <1>17, <3>1, PlanHas DEF Alive, New
  <2> QED
    BY <1>6, <1>19, <2>1, <2>2 DEF Planned
<1>21. ASSUME NEW v \in Uris, Alone(d) PROVE PlannedAlone(d, v)'
  <2>1. meta.info = file /\ \A t \in gone[v] : t <= meta.timestamp
    BY <1>12, <1>21 DEF Merged, FolderInv
  <2>2. Known(d)[v] = file[v]
    BY <1>17, <2>1 DEF Known, Unknown, Files
  <2>3. /\ v \notin Puts(d) \cup Dels(d) => Noting(d)[v] = file[v]
        /\ v \in Dels(d) => Noting(d)[v] = 0
    BY <1>19, <2>2 DEF Noting
  <2>4. Stored(d, v) /\ Fresh(d, v)
    BY DEF Merged
  <2>5. sync[d].mode \in {"merge", "push", "pull"}
    BY <1>1 DEF Listings, Modes
  <2>6. file[v] \in Nat /\ local[d][v].modified \in Nat
    BY MergeTypes, TimesType
  <2> DEFINE k == Known(d)
  <2>8. v \notin Puts(d) \cup Gets(d) \cup Dels(d) \cup dirty'[d] => Agrees(d, v, file[v])'
    <3> SUFFICES ASSUME v \notin Puts(d), v \notin Gets(d), v \notin Dels(d), v \notin dirty'[d]
                 PROVE  Agrees(d, v, file[v])'
      OBVIOUS
    <3>1. CASE v \in sync[d].listed /\ v \in Files
      <4>1. ~LocalWins(d, v, k) /\ ~RemoteWins(d, v, k)
        BY <3>1 DEF Puts, Gets
      <4>2. ~(file[v] < local[d][v].modified) /\ ~(file[v] > local[d][v].modified)
        BY <2>2, <2>5, <3>1, <4>1 DEF LocalWins, RemoteWins
      <4>3. file[v] = local[d][v].modified /\ file[v] # 0 /\ v \in Alive(d)
        BY <1>17, <2>6, <3>1, <4>2 DEF Files
      <4>4. saving[d][v] = 0
        BY <2>4, <4>3 DEF Fresh, Alive
      <4>5. local[d][v].ver = local[d][v].modified
        BY <2>4, <4>3, <4>4 DEF Stored
      <4>6. local'[d][v] = local[d][v]
        BY <1>2, <1>19, <3>1
      <4> QED
        BY <1>1, <4>3, <4>4, <4>5, <4>6 DEF Agrees, Alive
    <3>2. CASE v \in sync[d].listed /\ v \notin Files
      <4>1. ~LocalWins(d, v, k)
        BY <3>2 DEF Puts
      <4>2. RemoteWins(d, v, k)
        BY <2>5, <3>2, <4>1 DEF LocalWins, RemoteWins
      <4>3. v \in Drops(d)
        BY <3>2, <4>2 DEF Drops
      <4>4. local'[d][v].removed /\ file[v] = 0
        BY <1>3, <3>2, <4>3 DEF Files
      <4> QED
        BY <1>1, <4>4 DEF Agrees, Alive
    <3>3. CASE v \notin sync[d].listed
      <4>1. v \notin Alive(d)
        BY <1>5, <3>3
      <4>2. v \notin Files
        <5>1. LocalWins(d, v, k) \/ RemoteWins(d, v, k) \/ v \notin Files
          BY <2>5, <3>3 DEF LocalWins, RemoteWins
        <5> QED
          BY <3>3, <5>1 DEF Gets, Dels
      <4>3. local'[d][v] = local[d][v]
        BY <1>2, <1>19, <3>3
      <4> QED
        BY <1>1, <4>1, <4>2, <4>3 DEF Agrees, Alive, Files
    <3> QED
      BY <3>1, <3>2, <3>3
  <2>9. v \in Dels(d) /\ v \notin dirty'[d] => v \notin Alive(d)'
    <3> SUFFICES ASSUME v \in Dels(d), v \notin dirty'[d] PROVE v \notin Alive(d)'
      OBVIOUS
    <3>1. v \notin Alive(d) /\ local'[d][v] = local[d][v]
      BY <1>2, <1>5, <1>19
    <3> QED
      BY <3>1 DEF Alive
  <2>10. v \notin raced' /\ Stale(d, v)' => v \in Gets(d) \/ (v \in Puts(d) /\ file[v] # 0)
    <3> SUFFICES ASSUME v \notin raced', Stale(d, v)'
                 PROVE  v \in Gets(d) \/ (v \in Puts(d) /\ file[v] # 0)
      OBVIOUS
    <3>1. v \notin Drops(d) /\ v \notin raced
      BY <1>7
    <3>2. local'[d][v] = local[d][v]
      BY <1>2, <3>1
    <3>3. Stale(d, v)
      BY <1>1, <3>2 DEF Stale, Alive
    <3>4. v \in sync[d].listed
      BY <1>17, <3>3 DEF Stale, New
    <3>5. ~FirstSync(d) /\ Outdated(d)
      BY <1>1, <1>16, <1>17, <1>21, <3>1, <3>3, MergeTypes DEF WaitingInv, FirstSync, Outdated
    <3>6. local[d][v].ver = local[d][v].modified /\ local[d][v].ver \in gone[v]
          /\ local[d][v].ver # file[v]
      BY <2>4, <3>3 DEF Stored, Stale
    <3>7. CASE v \in Files
      <4>1. k[v] = file[v] /\ file[v] # 0
        BY <2>2, <3>7 DEF Files
      <4>2. LocalWins(d, v, k) \/ RemoteWins(d, v, k)
        BY <2>5, <2>6, <3>4, <3>5, <3>6, <3>7, <4>1 DEF LocalWins, RemoteWins
      <4> QED
        BY <3>4, <3>7, <4>1, <4>2 DEF Puts, Gets
    <3>8. CASE v \notin Files
      <4>1. ~(local[d][v].modified > sync[d].remote.timestamp)
        BY <1>17, <2>1, <2>6, <3>6, MergeTypes
      <4>2. sync[d].mode # "push"
        <5>1. sync[d].mode = "push" => LocalWins(d, v, k)
          BY DEF LocalWins
        <5>2. sync[d].mode = "push" => v \in Puts(d)
          BY <3>4, <5>1 DEF Puts
        <5> QED
          BY <1>7, <5>2
      <4>3. ~LocalWins(d, v, k)
        BY <3>4, <3>5, <3>8, <4>1, <4>2 DEF LocalWins
      <4>4. RemoteWins(d, v, k)
        BY <2>5, <3>4, <3>8, <4>2, <4>3 DEF RemoteWins
      <4>5. v \in Drops(d)
        BY <3>4, <3>8, <4>4 DEF Drops
      <4> QED
        BY <3>1, <4>5
    <3> QED
      BY <3>7, <3>8
  <2>11. ~(v \in Puts(d)) /\ ~(v \in Dels(d)) => sync'[d].info[v] = file'[v]
    BY <1>1, <1>6, <2>3
  <2>12. v \in Dels(d) => sync'[d].info[v] = 0
    BY <1>6, <2>3
  <2>13. v \notin Puts(d) \cup Gets(d) \cup Dels(d) \cup dirty'[d]
           => Agrees(d, v, sync[d].info[v])'
    BY <1>1, <1>6, <2>8, <2>11 DEF Agrees
  <2> QED
    BY <1>1, <1>6, <2>9, <2>10, <2>11, <2>12, <2>13 DEF PlannedAlone
<1>22. WorkingInv(d)'
  <2>1. /\ ~sync'[d].failed /\ sync'[d].timestamp = meta'.timestamp
        /\ sync'[d].timestamp = 0 => sync'[d].changed
    BY <1>1, <1>6, <1>17, PlanHas
  <2> QED
    BY <1>12, <1>20, <1>21, <2>1 DEF WorkingInv
<1> QED
  BY <1>9, <1>10, <1>13, <1>14, <1>15, <1>22 DEF Merged

LEMMA InitMerged == Init => Merged
<1> SUFFICES ASSUME Init PROVE Merged
  OBVIOUS
<1>1. /\ \A d \in Devices : sync[d].pc = "off" /\ stamp[d] = 0 /\ dirty[d] = {}
      /\ \A d \in Devices, u \in Uris : local[d][u] = NoScript /\ saving[d][u] = 0
      /\ \A u \in Uris : file[u] = 0 /\ gone[u] = {}
      /\ clock = 0 /\ meta = NoMeta /\ file = [u \in Uris |-> 0]
  BY DEF Init, Off
<1>2. /\ NoScript.ver = 0 /\ NoMeta.timestamp = 0 /\ NoMeta.info = [u \in Uris |-> 0]
  BY DEF NoScript, NoMeta, Script
<1>3. Clocked
  BY <1>1, <1>2 DEF Clocked
<1>4. \A d \in Devices, u \in Uris : Stored(d, u) /\ Fresh(d, u)
  BY <1>1, <1>2 DEF Stored, Fresh, Alive
<1>5. FolderInv
  BY <1>1, <1>2 DEF FolderInv
<1>6. \A d \in Devices : WaitingInv(d)
  <2> SUFFICES ASSUME NEW d \in Devices PROVE WaitingInv(d)
    OBVIOUS
  <2>1. \A u \in Uris : local[d][u].ver = 0
    BY <1>1, <1>2
  <2>2. \A u \in Uris : ~Stale(d, u)
    BY <1>1 DEF Stale
  <2> QED
    BY <1>1, <2>1, <2>2 DEF WaitingInv
<1>7. \A d \in Devices : ListingInv(d) /\ WorkingInv(d) /\ WritingInv(d)
  BY <1>1 DEF ListingInv, WorkingInv, WritingInv
<1> QED
  BY <1>3, <1>4, <1>5, <1>6, <1>7 DEF Merged

(* What was disturbed stays so.                                            *)
LEMMA NextDisturbed ==
  ASSUME [Next]_vars, ~disturbed'
  PROVE  ~disturbed
<1>1. ASSUME NEW d \in Devices, NEW u \in Uris,
             Edit(d, u) \/ EditBegins(d, u) \/ EditStored(d, u) \/ Remove(d, u)
      PROVE  ~disturbed
  BY <1>1 DEF Edit, EditBegins, EditStored, Remove, History
<1>2. ASSUME NEW d \in Devices, NEW m \in Modes, AutoSync(d) \/ SyncStart(d, m)
      PROVE  ~disturbed
  BY <1>2 DEF AutoSync, SyncStart, Start, History
<1>3. ASSUME NEW d \in Devices, Plan(d) PROVE ~disturbed
  BY <1>3 DEF Plan
<1>4. ASSUME NEW d \in Devices, NEW u \in Uris, Download(d, u) \/ RequestFails(d, u)
      PROVE  ~disturbed
  BY <1>4 DEF Download, RequestFails
<1>5. ASSUME NEW d \in Devices, NEW u \in Uris, NEW ok \in BOOLEAN,
             Upload(d, u, ok) \/ RemoveRemote(d, u, ok)
      PROVE  ~disturbed
  BY <1>5 DEF Upload, RemoveRemote
<1>6. ASSUME NEW d \in Devices, ListingFails(d) \/ Finish(d) PROVE ~disturbed
  BY <1>6 DEF ListingFails, Finish, History
<1>7. ASSUME NEW d \in Devices, PutMeta(d) \/ PutMetaFails(d) PROVE ~disturbed
  BY <1>7 DEF PutMeta, PutMetaFails
<1>8. CASE UNCHANGED vars
  BY <1>8 DEF vars
<1>9. Modes # {}
  BY DEF Modes
<1> QED
  BY <1>1, <1>2, <1>3, <1>4, <1>5, <1>6, <1>7, <1>8, <1>9 DEF Next

LEMMA NothingMerged ==
  ASSUME Merged, UNCHANGED << clock, local, saving, stamp, sync, Remote, History >>
  PROVE  Merged'
<1>1. /\ local' = local /\ saving' = saving /\ file' = file /\ gone' = gone /\ meta' = meta
      /\ stamp' = stamp /\ dirty' = dirty /\ raced' = raced /\ clock' = clock /\ sync' = sync
  BY DEF Remote, History
<1>2. (\A e \in Devices : Alone(e)' <=> Alone(e)) /\ (Still' <=> Still)
  BY <1>1 DEF Alone, Still, Changing
<1>3. Clocked' /\ FolderInv'
  BY <1>1, <1>2 DEF Merged, Clocked, FolderInv
<1>4. \A e \in Devices, v \in Uris : Stored(e, v)' /\ Fresh(e, v)'
  BY <1>1, ScriptsSame DEF Merged
<1>5. \A e \in Devices : WaitingInv(e)' /\ ListingInv(e)' /\ WorkingInv(e)' /\ WritingInv(e)'
  BY <1>1, <1>2, DeviceSame
<1> QED
  BY <1>3, <1>4, <1>5 DEF Merged

LEMMA NextSettled ==
  ASSUME Typed, Settled, [Next]_vars
  PROVE  Settled'
<1> SUFFICES ASSUME ~disturbed' PROVE Merged'
  BY DEF Settled
<1>0. Merged
  BY NextDisturbed DEF Settled
<1>1. ASSUME NEW d \in Devices, NEW u \in Uris,
             Edit(d, u) \/ EditBegins(d, u) \/ EditStored(d, u) \/ Remove(d, u)
      PROVE  Merged'
  BY <1>0, <1>1, UserEffect, UserMerged
<1>2. ASSUME NEW d \in Devices, NEW m \in Modes, AutoSync(d) \/ SyncStart(d, m)
      PROVE  Merged'
  <2>1. CASE \E n \in Modes : Start(d, n)
    BY <1>0, <2>1, StartMerged
  <2>2. CASE ~ \E n \in Modes : Start(d, n)
    <3>1. mode[d] \in Modes
      BY DEF Typed, TypeOK
    <3>2. UNCHANGED << clock, local, saving, stamp, sync, Remote, History >>
      BY <1>2, <2>2, <3>1 DEF AutoSync, SyncStart
    <3> QED
      BY <1>0, <3>2, NothingMerged
  <2> QED
    BY <2>1, <2>2
<1>3. ASSUME NEW d \in Devices, Plan(d) PROVE Merged'
  BY <1>0, <1>3, PlanMerged
<1>4. ASSUME NEW d \in Devices, NEW u \in Uris, Download(d, u) PROVE Merged'
  BY <1>0, <1>4, DownloadMerged
<1>5. ASSUME NEW d \in Devices, NEW u \in Uris, RequestFails(d, u) PROVE Merged'
  BY <1>5 DEF RequestFails
<1>6. ASSUME NEW d \in Devices, NEW u \in Uris, NEW ok \in BOOLEAN, Upload(d, u, ok)
      PROVE  Merged'
  BY <1>0, <1>6, UploadMerged
<1>7. ASSUME NEW d \in Devices, NEW u \in Uris, NEW ok \in BOOLEAN, RemoveRemote(d, u, ok)
      PROVE  Merged'
  BY <1>0, <1>7, RemoveRemoteMerged
<1>8. ASSUME NEW d \in Devices, ListingFails(d) PROVE Merged'
  BY <1>0, <1>8, ListingFailsMerged
<1>9. ASSUME NEW d \in Devices, Finish(d) PROVE Merged'
  BY <1>0, <1>9, FinishMerged
<1>10. ASSUME NEW d \in Devices, PutMeta(d) PROVE Merged'
  BY <1>0, <1>10, PutMetaMerged
<1>11. ASSUME NEW d \in Devices, PutMetaFails(d) PROVE Merged'
  BY <1>11 DEF PutMetaFails
<1>12. CASE UNCHANGED vars
  <2>1. UNCHANGED << clock, local, saving, stamp, sync, Remote, History >>
    BY <1>12 DEF vars, Remote, History
  <2> QED
    BY <1>0, <2>1, NothingMerged
<1>13. Modes # {}
  BY DEF Modes
<1> QED
  BY <1>1, <1>2, <1>3, <1>4, <1>5, <1>6, <1>7, <1>8, <1>9, <1>10, <1>11, <1>12, <1>13
     DEF Next

LEMMA AlwaysSettled == Spec => [](Typed /\ Settled)
<1>1. Init => Typed /\ Settled
  BY InitTyped, InitMerged DEF Settled
<1>2. Typed /\ Settled /\ [Next]_vars => (Typed /\ Settled)'
  BY NextTyped, NextSettled
<1> QED
  BY <1>1, <1>2, PTL DEF Spec

LEMMA QuietIs ==
  ASSUME Typed, Settled, Quiet
  PROVE  /\ Merged /\ Still
         /\ \A d \in Devices : sync[d].pc = "off" /\ Alone(d)
<1>1. \A d \in Devices : sync[d].pc = "off"
  BY DEF Quiet, Busy
<1> QED
  BY <1>1 DEF Quiet, Settled, Still, Alone, Changing

(* Between syncs the meta file tells of every file in the folder which     *)
(* version it holds, and of no other script (_sync).                       *)
THEOREM MetaIsKept == Spec => []MetaDescribesFiles
<1>1. Typed /\ Settled => MetaDescribesFiles
  BY QuietIs DEF MetaDescribesFiles, Merged, FolderInv
<1> QED
  BY <1>1, AlwaysSettled, PTL

(* A device with the timestamp of the meta file has the scripts of the     *)
(* folder, but for those that its user changed (_sync, compareItems).      *)
THEOREM SyncsAgree == Spec => []SyncedAgrees
<1>1. Typed /\ Settled => SyncedAgrees
  <2> SUFFICES ASSUME Typed, Settled, NEW d \in Devices, Quiet,
                      stamp[d] # 0, stamp[d] = meta.timestamp, NEW u \in Uris \ dirty[d]
               PROVE  /\ u \in Alive(d) <=> u \in Files
                      /\ u \in Files => /\ local[d][u].ver = file[u]
                                        /\ local[d][u].modified = meta.info[u]
    BY DEF SyncedAgrees
  <2>1. WaitingInv(d) /\ FolderInv
    BY QuietIs DEF Merged
  <2>2. Agrees(d, u, meta.info[u])
    BY <2>1, QuietIs DEF WaitingInv
  <2>3. meta.info = file
    BY <2>1, QuietIs DEF FolderInv
  <2> QED
    BY <2>2, <2>3 DEF Agrees, Files
<1> QED
  BY <1>1, AlwaysSettled, PTL

(* A script that is not in the folder does not come back in a version that *)
(* a sync removed (compareItems).                                          *)
THEOREM DeletionsStay == Spec => DeletedStaysDeleted
<1>1. ASSUME Typed, Settled, [Next]_vars, NEW u \in Uris \ raced,
             file[u] = 0, file'[u] # 0, ~disturbed'
      PROVE  file'[u] \notin gone[u]
  <2>1. Merged
    BY <1>1, NextDisturbed DEF Settled
  <2>2. PICK d \in Devices, v \in Uris, ok \in BOOLEAN : Upload(d, v, ok) \/ RemoveRemote(d, v, ok)
    <3>1. ASSUME NEW d \in Devices,
                 \/ \E v \in Uris : Edit(d, v) \/ EditBegins(d, v) \/ EditStored(d, v) \/ Remove(d, v)
                 \/ AutoSync(d)
                 \/ \E m \in Modes : SyncStart(d, m)
                 \/ Plan(d)
                 \/ \E v \in Uris : Download(d, v) \/ RequestFails(d, v)
                 \/ ListingFails(d)
                 \/ Finish(d)
                 \/ PutMeta(d) \/ PutMetaFails(d)
          PROVE  file' = file
      <4>1. ASSUME NEW v \in Uris, Edit(d, v) \/ EditBegins(d, v) \/ EditStored(d, v) \/ Remove(d, v)
            PROVE  file' = file
        BY <4>1 DEF Edit, EditBegins, EditStored, Remove, Remote
      <4>2. ASSUME NEW m \in Modes, AutoSync(d) \/ SyncStart(d, m)
            PROVE  file' = file
        BY <4>2 DEF AutoSync, SyncStart, Start, Remote
      <4>3. CASE Plan(d)
        BY <4>3 DEF Plan, Remote
      <4>4. ASSUME NEW v \in Uris, Download(d, v) \/ RequestFails(d, v)
            PROVE  file' = file
        BY <4>4 DEF Download, RequestFails, Remote
      <4>5. CASE ListingFails(d) \/ Finish(d) \/ PutMeta(d) \/ PutMetaFails(d)
        BY <4>5 DEF ListingFails, Finish, PutMeta, PutMetaFails, Remote
      <4>6. Modes # {}
        BY DEF Modes
      <4> QED
        BY <3>1, <4>1, <4>2, <4>3, <4>4, <4>5, <4>6
    <3>2. CASE UNCHANGED vars
      BY <1>1, <3>2 DEF vars
    <3>3. file' # file
      BY <1>1
    <3> QED
      BY <1>1, <3>1, <3>2, <3>3 DEF Next
  <2>3. CASE RemoveRemote(d, v, ok)
    <3>1. file'[u] = 0 \/ file'[u] = file[u]
      BY <2>3 DEF RemoveRemote, Typed, TypeOK, Infos
    <3> QED
      BY <1>1, <3>1
  <2>4. CASE Upload(d, v, ok)
    <3>1. v = u /\ file'[u] = local[d][u].ver
      BY <1>1, <2>4 DEF Upload, Typed, TypeOK, Infos
    <3>2. sync[d].pc = "working" /\ u \in sync[d].put /\ ~Overlaps(d) /\ saving[d][u] = 0
      BY <1>1, <2>4, <3>1 DEF Upload, Working
    <3>3. Planned(d, u) /\ PlannedAlone(d, u)
      BY <1>1, <2>1, <3>2, OverlapsIs DEF Merged, WorkingInv
    <3>4. ~Stale(d, u)
      BY <1>1, <3>2, <3>3 DEF Planned, PlannedAlone
    <3>5. u \in Alive(d)
      BY <3>2, <3>3 DEF Planned
    <3> QED
      BY <1>1, <3>1, <3>2, <3>4, <3>5 DEF Stale
  <2> QED
    BY <2>2, <2>3, <2>4
<1>2. Typed /\ Settled /\ [Next]_vars =>
        [\A u \in Uris \ raced :
           file[u] = 0 /\ file'[u] # 0 /\ ~disturbed' => file'[u] \notin gone[u]]_vars
  BY <1>1
<1> QED
  BY <1>2, AlwaysSettled, PTL DEF Spec, DeletedStaysDeleted
=============================================================================
