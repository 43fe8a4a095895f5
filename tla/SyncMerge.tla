------------------------------ MODULE SyncMerge ------------------------------
(***************************************************************************)
(* The merge of a sync: `_sync` of background/sync/base.js, run by several *)
(* devices on the same remote folder, which holds a file per script and a  *)
(* meta file with a timestamp and the time each script was modified.       *)
(* Nothing locks the folder: a device reads the meta file, lists the       *)
(* files, decides, moves scripts one request at a time, and writes the     *)
(* meta file.                                                              *)
(*                                                                         *)
(* Times are numbers of the one clock the devices are assumed to share; a  *)
(* version of a script is the time of its edit, and 0 stands for a script, *)
(* a file, an entry or a timestamp that does not exist.  The order of      *)
(* scripts is left out, but for the `sorted` it may cause.                 *)
(***************************************************************************)
EXTENDS Naturals, FiniteSets

CONSTANTS
  Devices,
  Uris,        \* the scripts
  MaxTime,     \* bound: what happens in a behaviour, each at a time of its own
  MaxFailures, \* bound: requests that fail
  MaxOnce      \* bound: syncs asked to push or to pull once

ASSUME TimeAssumption == MaxTime \in Nat /\ MaxFailures \in Nat /\ MaxOnce \in Nat

Time  == 0..MaxTime
Modes == {"merge", "push", "pull"}

VARIABLES
  clock,
  local,      \* the scripts of each device
  saving,     \* the edit of each script that is not stored yet
  stamp,      \* `localMeta.timestamp` of each device
  mode,       \* `syncMode` of each device
  sync,       \* the sync in progress on each device
  file,       \* remote: the version each file holds
  meta,       \* remote: the meta file
  failures,   \* bound: how many requests failed
  once,       \* bound: how many syncs were asked to push or to pull once
  dirty,      \* history: what the user changed since the last sync looked
  newest,     \* history: the last edit of each script, 0 once removed
  gone,       \* history: the versions of each script that syncs removed from the folder
  raced,      \* history: scripts that met one of the races named below
  disturbed   \* history: requests failed, or scripts moved in two syncs at once,
              \* or while they were being saved

vars == << clock, local, saving, stamp, mode, sync, file, meta, failures,
           once, dirty, newest, gone, raced, disturbed >>

Script(ver, modified, removed) ==
  [ver |-> ver, modified |-> modified, removed |-> removed]

NoScript == Script(0, 0, FALSE)
NoMeta   == [timestamp |-> 0, info |-> [u \in Uris |-> 0]]
Off      == [pc |-> "off"]

Busy(d)  == sync[d].pc # "off"
Alive(d) == {u \in Uris : local[d][u].ver # 0 /\ ~local[d][u].removed}
Files    == {u \in Uris : file[u] # 0}

Init ==
  /\ clock = 0
  /\ local = [d \in Devices |-> [u \in Uris |-> NoScript]]
  /\ saving = [d \in Devices |-> [u \in Uris |-> 0]]
  /\ stamp = [d \in Devices |-> 0]
  /\ mode = [d \in Devices |-> "merge"]
  /\ sync = [d \in Devices |-> Off]
  /\ file = [u \in Uris |-> 0]
  /\ meta = NoMeta
  /\ failures = 0
  /\ once = 0
  /\ dirty = [d \in Devices |-> {}]
  /\ newest = [u \in Uris |-> 0]
  /\ gone = [u \in Uris |-> {}]
  /\ raced = {}
  /\ disturbed = FALSE

Remote  == << file, meta >>
History == << dirty, newest, gone, raced, disturbed >>

-----------------------------------------------------------------------------
Tick == clock < MaxTime /\ clock' = clock + 1

(* The user installs or edits a script.  Race: a sync of the device is     *)
(* about to download the same script, and will overwrite this edit.        *)
(* Bound: what is removed during a sync is not installed again in it.      *)
Edit(d, u) ==
  /\ Tick
  /\ saving[d][u] = 0
  /\ Busy(d) => ~local[d][u].removed
  /\ local' = [local EXCEPT ![d][u] = Script(clock', clock', FALSE)]
  /\ dirty' = [dirty EXCEPT ![d] = @ \cup {u}]
  /\ newest' = [newest EXCEPT ![u] = clock']
  /\ raced' = IF sync[d].pc = "working" /\ u \in sync[d].get THEN raced \cup {u} ELSE raced
  /\ UNCHANGED << saving, stamp, mode, once, sync, file, meta, failures, gone, disturbed >>

(* The same, with a sync in between: parseScript changes the time of a     *)
(* script, awaits its former code, and then stores the new one.  Bound: an *)
(* edit or removal of the script waits for that; a new script is stored at *)
(* once.                                                                   *)
EditBegins(d, u) ==
  /\ Tick
  /\ Busy(d) /\ u \in Alive(d)
  /\ saving[d][u] = 0
  /\ local' = [local EXCEPT ![d][u] = Script(@.ver, clock', FALSE)]
  /\ saving' = [saving EXCEPT ![d][u] = clock']
  /\ dirty' = [dirty EXCEPT ![d] = @ \cup {u}]
  /\ newest' = [newest EXCEPT ![u] = clock']
  /\ raced' = IF sync[d].pc = "working" /\ u \in sync[d].get THEN raced \cup {u} ELSE raced
  /\ UNCHANGED << stamp, mode, once, sync, file, meta, failures, gone, disturbed >>

EditStored(d, u) ==
  /\ saving[d][u] # 0
  /\ local' = [local EXCEPT ![d][u] = Script(saving[d][u], @.modified, @.removed)]
  /\ saving' = [saving EXCEPT ![d][u] = 0]
  /\ UNCHANGED << clock, stamp, mode, once, sync, file, meta, failures, History >>

(* What a sync in progress holds a reference to, and may yet upload. *)
WillUpload(d) == IF sync[d].pc = "listing" THEN sync[d].listed
                 ELSE IF sync[d].pc = "working" THEN sync[d].put ELSE {}

(* Mutant: a script that is not there is removed. *)
RemoveOfNothing(d, u) ==
  /\ Tick
  /\ saving[d][u] = 0
  /\ local' = [local EXCEPT ![d][u] = Script(@.ver, clock', TRUE)]
  /\ dirty' = [dirty EXCEPT ![d] = @ \cup {u}]
  /\ newest' = [newest EXCEPT ![u] = 0]
  /\ disturbed' = (disturbed \/ u \in WillUpload(d))
  /\ UNCHANGED << saving, stamp, mode, once, sync, file, meta, failures, gone, raced >>

(* The user removes a script: MarkRemoved.  A sync that listed it before   *)
(* uploads it once more, as changed now.                                   *)
Remove(d, u) ==
  /\ Tick
  /\ u \in Alive(d) /\ saving[d][u] = 0
  /\ local' = [local EXCEPT ![d][u] = Script(@.ver, clock', TRUE)]
  /\ dirty' = [dirty EXCEPT ![d] = @ \cup {u}]
  /\ newest' = [newest EXCEPT ![u] = 0]
  /\ disturbed' = (disturbed \/ u \in WillUpload(d))
  /\ UNCHANGED << saving, stamp, mode, once, sync, file, meta, failures, gone, raced >>

(* _sync() starts with the mode m: what is local is listed, and the meta   *)
(* file is read.                                                           *)
Start(d, m) ==
  /\ ~Busy(d)
  /\ sync' = [sync EXCEPT ![d] =
       [pc |-> "listing", mode |-> m, listed |-> Alive(d), remote |-> meta]]
  /\ mode' = [mode EXCEPT ![d] = "merge"]
  /\ UNCHANGED << clock, local, saving, stamp, Remote, failures, History >>

AutoSync(d) == Start(d, mode[d]) /\ UNCHANGED once

(* The user asks for a sync, to push or to pull "once".  If one is in       *)
(* progress, the mode stays for the next one.                              *)
SyncStart(d, m) ==
  /\ IF m = "merge" THEN UNCHANGED once ELSE once < MaxOnce /\ once' = once + 1
  /\ \/ Start(d, m)
     \/ /\ Busy(d)
        /\ mode' = [mode EXCEPT ![d] = m]
        /\ UNCHANGED << clock, local, saving, stamp, sync, Remote, failures, History >>

-----------------------------------------------------------------------------
FirstSync(d) == stamp[d] = 0
Outdated(d)  == FirstSync(d) \/ sync[d].remote.timestamp > stamp[d]

(* Mutant: a script that is not in the folder is always uploaded. *)
LocalWinsUnlessInFolder(d, u, info) ==
  \/ sync[d].mode = "push"
  \/ /\ sync[d].mode = "merge"
     /\ IF u \notin sync[d].listed THEN ~Outdated(d)
        ELSE u \in Files => ~FirstSync(d) /\ info[u] < local[d][u].modified

(* compareItems: 1 *)
LocalWins(d, u, info) ==
  \/ sync[d].mode = "push"
  \/ /\ sync[d].mode = "merge"
     /\ IF u \notin sync[d].listed THEN ~Outdated(d)
        ELSE IF u \in Files THEN ~FirstSync(d) /\ info[u] < local[d][u].modified
        ELSE \/ FirstSync(d) \/ ~Outdated(d)
             \/ local[d][u].modified > sync[d].remote.timestamp

(* Mutant: a script that is not in the folder is never removed. *)
RemoteWinsInFolder(d, u, info) ==
  /\ u \in Files
  /\ \/ sync[d].mode = "pull"
     \/ /\ sync[d].mode = "merge"
        /\ IF u \notin sync[d].listed THEN Outdated(d)
           ELSE FirstSync(d) \/ info[u] > local[d][u].modified

(* Mutant: the timestamp of the meta file decides, not that of its entry. *)
RemoteWinsIfOutdated(d, u, info) ==
  \/ sync[d].mode = "pull"
  \/ /\ sync[d].mode = "merge"
     /\ IF u \in Files THEN Outdated(d)
        ELSE u \in sync[d].listed /\ ~LocalWins(d, u, info)

(* compareItems: -1 *)
RemoteWins(d, u, info) ==
  \/ sync[d].mode = "pull"
  \/ /\ sync[d].mode = "merge"
     /\ IF u \notin sync[d].listed THEN Outdated(d)
        ELSE IF u \in Files THEN FirstSync(d) \/ info[u] > local[d][u].modified
        ELSE ~LocalWins(d, u, info)

(* The files are listed, and the device decides.  A file without an entry  *)
(* counts as modified now.  Local scripts are removed at once, and the     *)
(* entries of files that will be removed as well.  Races: what a first     *)
(* sync or a pull overwrites; what is not in the folder and so taken for   *)
(* removed by another device, though it may never have been there; a file  *)
(* without an entry; what was installed since the listing; what is pushed  *)
(* over the removals of others.                                            *)
Plan(d) ==
  LET s       == sync[d]
      now     == clock + 1
      unknown == {u \in Files : s.remote.info[u] = 0}
      info    == [u \in Uris |-> IF u \in unknown THEN now
                                 ELSE IF u \in Files THEN s.remote.info[u] ELSE 0]
      get     == {u \in Files : RemoteWins(d, u, info)}
      put     == {u \in s.listed : LocalWins(d, u, info)}
      del     == {u \in Files \ s.listed : LocalWins(d, u, info)}
      drop    == {u \in s.listed \ Files : RemoteWins(d, u, info)}
      late    == Alive(d) \ s.listed
  IN /\ s.pc = "listing"
     /\ IF unknown \cup drop = {} THEN UNCHANGED clock ELSE Tick
     /\ local' = [local EXCEPT ![d] = [u \in Uris |->
          IF u \in drop THEN Script(@[u].ver, now, TRUE) ELSE @[u]]]
     /\ sync' = [sync EXCEPT ![d] =
          [pc |-> "working", get |-> get, put |-> put, del |-> del, failed |-> FALSE,
           timestamp |-> s.remote.timestamp,
           info |-> [u \in Uris |-> IF u \in put /\ info[u] # 0 THEN local[d][u].modified
                                    ELSE IF u \in del THEN 0 ELSE info[u]],
           changed |-> \/ s.remote.timestamp = 0 \/ put \cup del \cup unknown # {}
                       \/ Cardinality({u \in Uris : s.remote.info[u] # 0}) # Cardinality(Files)]]
     /\ dirty' = [dirty EXCEPT ![d] = late]
     /\ raced' = raced \cup unknown \cup drop \cup (get \cap late)
                       \cup (IF FirstSync(d) \/ s.mode = "pull" THEN get ELSE {})
                       \cup (IF s.mode = "push" THEN put ELSE {})
     /\ UNCHANGED << saving, stamp, mode, once, Remote, failures, newest, gone, disturbed >>

-----------------------------------------------------------------------------
Working(d) == sync[d].pc = "working"

(* The folder changes under a sync of another device. *)
Overlaps(d) == \E e \in Devices \ {d} : Busy(e)

(* What a sync holds once its request for u was answered, or given up, and *)
(* once the meta file is to say that u is of the time t.                   *)
Answered(s, u, ok) ==
  [s EXCEPT !.get = @ \ {u}, !.put = @ \ {u}, !.del = @ \ {u}, !.failed = @ \/ ~ok]

Noted(s, u, t) == [s EXCEPT !.info = [@ EXCEPT ![u] = t]]

(* A request fails, before it took effect or, if `applied`, after. *)
Outcome(ok) == IF ok THEN UNCHANGED failures
               ELSE failures < MaxFailures /\ failures' = failures + 1

(* putLocal: the script is downloaded and parseScript installs it with the *)
(* time the entry has.  There may be no such file any more.  Next to an    *)
(* edit that is being saved there are two saves of one script.             *)
Download(d, u) ==
  /\ Working(d) /\ u \in sync[d].get
  /\ file[u] # 0
  /\ local' = [local EXCEPT ![d][u] = Script(file[u], sync[d].info[u], FALSE)]
  /\ sync' = [sync EXCEPT ![d] = Answered(@, u, TRUE)]
  /\ disturbed' = (disturbed \/ Overlaps(d) \/ saving[d][u] # 0)
  /\ UNCHANGED << clock, saving, stamp, mode, once, Remote, failures, dirty, newest, gone, raced >>

(* Mutant: an upload leaves the entry as it is. *)
UploadLeavesEntry(d, u, ok) ==
  /\ Working(d) /\ u \in sync[d].put
  /\ Outcome(ok)
  /\ file' = [file EXCEPT ![u] = local[d][u].ver]
  /\ sync' = [sync EXCEPT ![d] = Answered(@, u, ok)]
  /\ disturbed' = (disturbed \/ ~ok \/ Overlaps(d) \/ saving[d][u] # 0)
  /\ UNCHANGED << clock, local, saving, stamp, mode, once, meta, dirty, newest, gone, raced >>

(* putRemote: the script as it is now, and when it was modified.  The file *)
(* may be stored though the answer is lost.  A script that is being saved  *)
(* goes with its former code but with the time of the edit, and so looks   *)
(* as if the edit were uploaded.                                           *)
Upload(d, u, ok) ==
  /\ Working(d) /\ u \in sync[d].put
  /\ Outcome(ok)
  /\ file' = [file EXCEPT ![u] = local[d][u].ver]
  /\ sync' = [sync EXCEPT ![d] = Answered(Noted(@, u, local[d][u].modified), u, ok)]
  /\ disturbed' = (disturbed \/ ~ok \/ Overlaps(d) \/ saving[d][u] # 0)
  /\ UNCHANGED << clock, local, saving, stamp, mode, once, meta, dirty, newest, gone, raced >>

(* delRemote *)
RemoveRemote(d, u, ok) ==
  /\ Working(d) /\ u \in sync[d].del
  /\ file[u] # 0
  /\ Outcome(ok)
  /\ file' = [file EXCEPT ![u] = 0]
  /\ gone' = [gone EXCEPT ![u] = @ \cup {file[u]}]
  /\ sync' = [sync EXCEPT ![d] = Answered(@, u, ok)]
  /\ disturbed' = (disturbed \/ ~ok \/ Overlaps(d))
  /\ UNCHANGED << clock, local, saving, stamp, mode, once, meta, dirty, newest, raced >>

(* A request has no effect but that the sync will fail: it is refused, or  *)
(* the file is gone.  The other requests are made all the same.            *)
RequestFails(d, u) ==
  /\ Working(d) /\ u \in sync[d].get \cup sync[d].put \cup sync[d].del
  /\ Outcome(u \notin sync[d].put /\ file[u] = 0)
  /\ sync' = [sync EXCEPT ![d] = Answered(@, u, FALSE)]
  /\ disturbed' = TRUE
  /\ UNCHANGED << clock, local, saving, stamp, mode, once, Remote, dirty, newest, gone, raced >>

(* The meta file or the list of files cannot be read. *)
ListingFails(d) ==
  /\ sync[d].pc = "listing"
  /\ Outcome(FALSE)
  /\ sync' = [sync EXCEPT ![d] = Off]
  /\ UNCHANGED << clock, local, saving, stamp, mode, once, Remote, History >>

(* All requests are answered.  Scripts are put in order, which may change  *)
(* positions, and the timestamp is stored before the meta file is written. *)
(* If a request failed nothing of this happens.                            *)
Finish(d) ==
  /\ Working(d) /\ sync[d].get \cup sync[d].put \cup sync[d].del = {}
  /\ \/ /\ sync[d].failed
        /\ sync' = [sync EXCEPT ![d] = Off]
        /\ UNCHANGED << clock, stamp >>
     \/ /\ ~sync[d].failed /\ ~sync[d].changed
        /\ stamp' = [stamp EXCEPT ![d] = sync[d].timestamp]
        /\ sync' = [sync EXCEPT ![d] = Off]
        /\ UNCHANGED clock
     \/ /\ ~sync[d].failed   \* changed, or sorted
        /\ Tick
        /\ stamp' = [stamp EXCEPT ![d] = clock']
        /\ sync' = [sync EXCEPT ![d] =
             [pc |-> "writing", remote |-> [timestamp |-> clock', info |-> sync[d].info]]]
  /\ UNCHANGED << local, saving, mode, once, Remote, failures, History >>

(* The meta file is written, or not. *)
PutMeta(d) ==
  /\ sync[d].pc = "writing"
  /\ meta' = sync[d].remote
  /\ sync' = [sync EXCEPT ![d] = Off]
  /\ disturbed' = (disturbed \/ Overlaps(d))
  /\ UNCHANGED << clock, local, saving, stamp, mode, once, file, failures, dirty, newest, gone, raced >>

PutMetaFails(d) ==
  /\ sync[d].pc = "writing"
  /\ Outcome(FALSE)
  /\ sync' = [sync EXCEPT ![d] = Off]
  /\ disturbed' = TRUE
  /\ UNCHANGED << clock, local, saving, stamp, mode, once, Remote, dirty, newest, gone, raced >>

Next ==
  \E d \in Devices :
    \/ \E u \in Uris : Edit(d, u) \/ EditBegins(d, u) \/ EditStored(d, u) \/ Remove(d, u)
    \/ AutoSync(d)
    \/ \E m \in Modes : SyncStart(d, m)
    \/ Plan(d)
    \/ \E u \in Uris : Download(d, u) \/ RequestFails(d, u)
    \/ \E u \in Uris, ok \in BOOLEAN : Upload(d, u, ok) \/ RemoveRemote(d, u, ok)
    \/ ListingFails(d)
    \/ Finish(d)
    \/ PutMeta(d) \/ PutMetaFails(d)

Spec == Init /\ [][Next]_vars

-----------------------------------------------------------------------------
Infos   == [Uris -> Time]
Metas   == [timestamp : Time, info : Infos]
Scripts == {NoScript} \cup [ver : Time \ {0}, modified : Time \ {0}, removed : BOOLEAN]

Listings == [pc : {"listing"}, mode : Modes, listed : SUBSET Uris, remote : Metas]
Workings == [pc : {"working"}, get : SUBSET Uris, put : SUBSET Uris, del : SUBSET Uris,
             failed : BOOLEAN, timestamp : Time, info : Infos, changed : BOOLEAN]
Writings == [pc : {"writing"}, remote : Metas]
Syncs    == {Off} \cup Listings \cup Workings \cup Writings

(* Every variable has its type: what is downloaded is a script. *)
TypeOK ==
  /\ clock \in Time
  /\ local \in [Devices -> [Uris -> Scripts]]
  /\ saving \in [Devices -> Infos]
  /\ stamp \in [Devices -> Time]
  /\ mode \in [Devices -> Modes]
  /\ sync \in [Devices -> Syncs]
  /\ file \in Infos
  /\ meta \in Metas
  /\ failures \in 0..MaxFailures
  /\ once \in 0..MaxOnce
  /\ dirty \in [Devices -> SUBSET Uris]
  /\ newest \in Infos
  /\ gone \in [Uris -> SUBSET Time]
  /\ raced \in SUBSET Uris
  /\ disturbed \in BOOLEAN

Quiet == ~disturbed /\ \A d \in Devices : ~Busy(d)

(* When no sync is in progress the meta file tells of every file in the    *)
(* folder which version it holds, and of no other script: the entries that *)
(* a sync changes while it plans, uploads and removes, and writes at its   *)
(* end, keep up with what its requests did (promiseQueue).                 *)
MetaDescribesFiles == Quiet => meta.info = file

(* A device whose timestamp is that of the meta file has the scripts of    *)
(* the folder, in the same versions and with the same times, but for those *)
(* its user changed since its last sync: no sync that stores the timestamp *)
(* has missed an upload, a download or a removal (compareItems).           *)
SyncedAgrees ==
  \A d \in Devices :
    Quiet /\ stamp[d] # 0 /\ stamp[d] = meta.timestamp =>
      \A u \in Uris \ dirty[d] :
        /\ u \in Alive(d) <=> u \in Files
        /\ u \in Files => local[d][u].ver = file[u] /\ local[d][u].modified = meta.info[u]

(* The last edit of a script is never lost: unless it met one of the races *)
(* named in Edit and Plan, it is on some device or in the folder, whatever *)
(* requests fail and however syncs overlap.                                *)
LatestEditSurvives ==
  \A u \in Uris \ raced :
    newest[u] # 0 =>
      \/ file[u] = newest[u]
      \/ \E d \in Devices : u \in Alive(d) /\ newest[u] \in {local[d][u].ver, saving[d][u]}

(* A script that is not in the folder does not come back in a version that *)
(* a sync removed: a device that still has it finds the timestamp newer    *)
(* than the script, and removes the script instead (compareItems).  Once   *)
(* another version came back, be it an older one that a device brings with *)
(* its first sync, the times of the versions decide again.                 *)
DeletedStaysDeleted ==
  [][\A u \in Uris \ raced :
       file[u] = 0 /\ file'[u] # 0 /\ ~disturbed' => file'[u] \notin gone[u]]_vars
=============================================================================
