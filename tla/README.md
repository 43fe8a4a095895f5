# TLA+ models of the userscript manager

This directory holds TLA+ models of the background logic of the extension, the TLC runs that
check them on small instances, and theorems about them that TLAPS proves for every instance.
Paths below are relative to `src/src/` of the repository unless they say otherwise.

## 1. The system

The extension runs user scripts in web pages. It is a JavaScript program in several processes:

* the **background page** (or MV3 service worker), one thread that keeps all state and talks to the
  browser's storage area, the network and the pages through promises, timers and callbacks;
* in every frame of every tab a **content script** and a **page script**, which run the user
  scripts and hold the values a script sees;
* the **options page, popup and confirmation page**, which send commands to the background page.

Within the background page there is no parallelism, but every `await`, timer and message is a
point where anything else may run. Nearly all its hard behaviour comes from that, from pages that
come and go while messages travel, and from a background page that may stop at any time.

| Component | State | Operations | Meets | Hard because |
|---|---|---|---|---|
| Storage cache (`background/utils/storage-cache.js`, `common/cache.js`) | cached entries, `dbKeys`, `valuesToFlush`, the flush timer | `get`, `set`, `remove`, `flush`, daily sweep, `clearStorageCache`, undo of an import | every part that persists anything | answers of the storage area come after later writes; flushes overlap; writes fail; the queue is lost on a crash |
| Script values (`background/utils/values.js`, `injected/web/gm-values.js`) | `openers`, `toCommit`, `toSend`, the commit timer, the broadcast chain; a copy in each page | `UpdateValue`, `SetValueStores`, `commit`, `broadcast`, `addValueOpener`, `clearValueOpener` | storage cache, preinject, pages | five copies of a value; navigation, back/forward cache, crossing messages |
| Sync service (`background/sync/base.js`, `state-machine.js`, `index.js`) | one status, tokens, sessions, timer | `initialize`, `sync`, `autoSync`, `authorize`, redirect, `revoke`, `setConfig` | options, requests | calls overlap, settings change during them, answers are late |
| Sync merge (`_sync` in `background/sync/base.js`) | remote files and meta file, local meta | one pass of comparing, uploading, downloading, deleting | script database, network | several devices without locks; partial failure |
| Concurrency limiter (`common/limit-concurrency.js`) | a pool, a promise per key, times | one call | `background/utils/url.js` | three awaits in a row under contention |
| Script database (`background/utils/db.js`, `script.js`, `update.js`) | `scriptMap`, `aliveScripts`, `removedScripts`, what the storage area has | install, edit, update, recycle bin, remove, vacuum, startup | storage cache, sync, updates | updates race removal and renaming; ids are reused |
| Requests (`background/utils/requests.js`, `offscreen.js`, the page's `requests.js`) | `requests`, `headersToInject`, the queue of events, `idMap` of the page | `HttpRequest`, `AbortRequest`, cleanup by frame | pages, offscreen document | abort during awaits, timeout against a late answer |
| Preinjection (`background/utils/preinject.js`) | injection bags, cached scripts, CSP hints and waiters | `GetInjected`, `InjectionFeedback`, invalidation | storage, values, tester | bags prepared asynchronously become stale |
| Registration with the browser (`background/utils/tabs.js`) | one-shot scripts by tab and their timers, the bridge of the main world | register, clean up by timer, tab and startup, ensure the bridge | browser | registrations outlive the background page |
| Alerts, notifications, options, popup, icon, redirector | lists, maps, timers | small handlers | browser | ordering of an await and an event |
| Dispatch (`background/index.js`, `init.js`) | queue of commands before start | routing | everything | - |
| Injected code, user interfaces, locales, build scripts | page state | - | - | not concurrent, or data |

What makes each of the first nine components correct is stated as properties in section 4; every hazard
is in `PROJECT.json` under `hazards`, at the line where it bites.

## 2. Modules

| Module | Models | Checked by | Proofs |
|---|---|---|---|
| `StorageCache` | `background/utils/storage-cache.js` over `common/cache.js`, and what `db.js` knows of keys at startup | `MCStorageCache`, `StorageCache.cfg` | `StorageProofs` |
| `StorageUndo` | the undo of an import in `storage-cache.js`, on top of `StorageCache` | `MCStorageCache`, `StorageCache.cfg` | `StorageProofs` |
| `KeyedService` | abstract: what a limiter of calls promises | as a property of `LimitConcurrency` | - |
| `LimitConcurrency` | `common/limit-concurrency.js` as `url.js` uses it; implements `KeyedService` | `MCLimitConcurrency`, `LimitConcurrency.cfg` | `LimitConcurrencyProofs` |
| `SyncService` | status machine, service life cycle and calls of sync | `MCSyncService`, `SyncService.cfg` | `SyncServiceProofs` |
| `SyncMerge` | `_sync` on several devices, with the remote folder | `MCSyncMerge`, `SyncMerge.cfg` | `SyncMergeProofs` |
| `ValueStore` | `background/utils/values.js`, the cached values of `preinject.js`, the page side in `gm-values.js` and `cmd-run.js` | `MCValueStore`, `ValueStore.cfg`, `ValueStoreEmpty.cfg` | `ValueStoreProofs` |
| `Requests` | `background/utils/requests.js`, `requests-core.js`, `offscreen.js`, `offscreen/index.js`, the page side in `injected/*/requests.js` | `MCRequests`, `Requests.cfg`, `RequestsText.cfg` | `RequestsProofs` |
| `ScriptDB` | the scripts of `background/utils/db.js` and `script.js`, the checks of `update.js` | `MCScriptDB`, `ScriptDB.cfg` | `ScriptDBProofs` |
| `Preinject` | `background/utils/preinject.js` under manifest version 3 and the asking side in `injected/content/index.js` | `MCPreinject`, `Preinject.cfg`, `PreinjectSkip.cfg` | `InjectionProofs` |
| `ScriptRegistry` | one-shot scripts and the bridge in `background/utils/tabs.js` | `MCScriptRegistry`, `ScriptRegistry.cfg` | `InjectionProofs` |

Everywhere a step is one task of the event loop: from an event to the next `await`, with the
promise jobs that run in between. The names of variables and actions are those of the code where
it has them. Wording, logging, sizes and timings that no property speaks of are left out.

### StorageCache

`disk` is the storage area. It executes calls in the order they are made, so a call takes effect
when made and only its answer is late: `reads` holds the gets in flight with their snapshots,
`awaiting` counts the sets and removes, `lateRemoves` the flushes that still have to remove keys
(`flush` awaits its write before it removes). `cache`, `dbKeys`, `valuesToFlush` and `flushTimer` are
the variables of the code. A key is a value key (`val:<id>`, written behind) or a plain one
(written through). `Finish` is the common end of `set` and `remove`: nothing to write, a write that
will be answered, or one that is rejected. `Expire` is `common/cache.js` dropping an entry, `Sweep` and
`Clear` drop more, `Restart` is a background page that stopped and starts anew.

`last` is what the program last asked of each key. `raced` collects the keys that met a race the
code leaves open; the action that adds a key names the race in a comment. They are: a late answer
that overwrites a newer value; a read of everything that brings a queued key back; a write with
`flushNow` that leaves an older value in the queue; a rejected write; a late removal of a flush; and
a restart with a value in the queue. The invariants speak of all other keys, so they say exactly how
far the code can be relied upon. `stranded` notes that a rejected write skipped `flushLater`.

### StorageUndo

`undo.pc` says how far `undoImport` is: `kept` (the area was read as the import began, `old`), `reading` (the user
asked to undo, the queue was emptied, the area is read again), `removing`, `writing`, `done` (the extension is about to
reload), `broken` (a write was rejected; `undoing` stays set). From `removing` on, `set` and `remove` write
everything at once and schedule nothing (`SetUndoing`, `RemoveUndoing`, `AnsweredUndoing`), while timers, late answers and flushes
go on. The values an undo drops from the queue, and the keys whose newer value its late answer replaces, met a race in the sense
of StorageCache. `touched` is history: the keys that others changed in the area, in the
queue or in the cache since the undo began, and those that the read of the area cannot tell of, because only the cache has them yet or a flush
has still to remove them. A value that waited in the queue as the import began is not in `old`, so an
undo brings back the content before it.

### LimitConcurrency

Each call moves through idle, queued (awaits the call of its key before it), racing (awaits a place),
paused, running, done. Time is the time since an event, capped at the longest delay, as no code asks
for more. `ticket` and `arrivals` are history: the order in which calls were made.

`KeyedService` says what the limiter is for without its promises and times: calls arrive, a call is served
once all earlier ones with its key are done, at most `Max` at a time. `Stage` is the refinement mapping:
queued, racing and paused are all waiting or served, the ticket is the number, and every step of the limiter
is a step of the service or changes nothing there. `ServesInOrder` is the service's specification under it.

### SyncService

`status` is shared by all services; `Moves` is `stateMap`, and a move it does not allow throws. `call`
holds the calls of `prepare` and `sync` in progress, with the await each is in. What `_sync` does in
between is one step with two outcomes. History: `granted` (calls whose own authorization succeeded),
`revoked` (services whose token the user revoked, and to which neither an answer that was awaited at the time nor a new authorization has
brought one back), `late` (the calls that awaited such an answer), `overlapped` (the status was taken from under a call, by `initialize` or by a call without a
token), `stalled` (the promise that should have called `syncLater` was rejected).

### SyncMerge

Several devices share a remote folder with a file per script and the meta file; nothing locks it. `local`,
`stamp` (`localMeta.timestamp`) and `mode` (`syncMode`) are each device's, `file` and `meta` the folder's. A sync
starts (`Start`: local scripts listed, meta file read), decides (`Plan`: files listed, `compareItems` as
`LocalWins` and `RemoteWins`, local scripts removed at once), makes its requests one at a time
(`Download`, `Upload`, `RemoveRemote`), and when all are answered stores the timestamp and writes the meta file
(`Finish`, `PutMeta`). A request may fail with or without effect; the others are made all the same, and then
nothing is stored. A background page that stops during a sync is a sync whose remaining requests fail. The
user edits and removes scripts at any time. An edit during a sync comes in two halves (`EditBegins`, `EditStored`): `parseScript`
sets the time of the script, awaits its former code and stores the new one; `saving` holds what is not stored yet. An upload in
between sends the former code with the time of the edit, so that the edit itself is never uploaded.

All times are of one clock that the devices share, and a version is the time of its edit: clocks that
differ are out of the model. The order of scripts is reduced to `sortScripts` having changed
something or not. Requests are made in any order, which includes the order of the queue. Files that do
not parse, and the duplicates that the Google Drive service looks for, are left out. `Start` is one step, though the code
lists the local scripts and reads the meta file by a request that is queued after (`base.js:272-274`, `441`), and Google Drive lists the
files before (`googledrive.js:62-108`): what an edit or another device does between these reads is not covered.

`raced` collects the scripts that met a race the code leaves open: an edit while the same script is being
downloaded; a first sync or a pull that replaces local scripts; a script that is not in the folder and is
taken for removed elsewhere, though it may never have been uploaded; a file without an entry, which counts as
modified now; a push over removals. `disturbed` notes that a request failed, that two syncs moved scripts at
once, that a script was removed after a sync listed it and before its upload, or that a sync uploaded or downloaded a script that
was just being saved.

### ValueStore

A cell is one key of one script's store. It has up to five copies: `stored` (behind StorageCache),
`injected` (what a page will get when it opens), `record` (`openers[id][tab][frame]`), `local` in the page,
and what messages carry. `FrameSets` is `GM_setValue` in a page and posts `UpdateValue`; the background
commits the record of that page a moment later (`Commit`) and broadcasts (`Broadcast`). A record that its
frame drops while a commit is due lives on: `toCommit` then holds the record instead of the frame,
as the JavaScript reference does. Pages open, leave, perhaps into the back/forward cache, and return.
`latest` is the last value given to a cell in the order the background handled the requests, and
`raced` again collects the cells that met a named race: a commit that lacks a change not broadcast
yet; a change that crosses another on its way; a page that opens between broadcast and commit;
a restored page with old values, or to which another value was sent before it was stored; `SetValueStores` dropping pending commits or values nobody is told of;
an awaited write whose answer patches older values over newer ones.
`Open` clears the openers of the frame and adds those of the new document in one step, though `preinject.js:201-241` awaits in between
(for the hint, at most until its timeout); what is cleared belongs to a document that is no longer shown.

### Requests

A request goes by `engine`: an XMLHttpRequest of a background page, or a fetch in the offscreen document on behalf
of a service worker. `calls` and `aborts` are messages of the page on their way, in any order, as the content
script may still be encoding a body when the abort passes it. `registered`, `injected` and `verified` are `requests`,
`headersToInject` and the values of `verify`; `Clear` is `clearRequest`. `net` is the request itself with its await of the
cookies, `events` the `eventQueue` of `xhrCallbackWrapper` and `stream` what it knows of the response; `msg` is the
`HttpRequested` message whose reply `sequentialize` awaits, and `web` the page's entry of the request. A response is
the sequence 1 .. `Units`, so that a part lost, doubled or out of order shows. The options of a request include whether its page listens to
early events and whether it reads `response` there with a `responseType` set (`reads`): `parseRaw` then drops the parts it has decoded,
and the next one starts a new list (`Replaces`). The frame navigates, and `PageInjected`
(`GetInjected` of the next document) clears what the former one left; the service worker may restart at any time.
`failed` are requests refused, without cookies or without an offscreen document; `broken` those whose chain of promises was
rejected by the content script or ended with a service worker.

### ScriptDB

A script has a record and a code in the storage area, an object in memory, and a place in one of two lists. Each command is
split at its awaits: `parsing` holds the calls of `parseScript` between checking the name and storing, `marking` those of
`MarkRemoved` between writing the flag and moving the script, `checking` the updates in flight. `Restart` rebuilds all that is in memory from the storage
area as `db.js` does, including the choice among scripts of one name. Names and codes are what decides; positions and sizes do
not. A write may be rejected wherever the code makes one: that of a save (`SaveFails`), of the flag (`MarkFails`) and of a removal
(`PurgeFails`). `UpdateScriptInfo` stores a record as memory has it, which may repair what a rejected write left apart. `vacuum` downloads a code that is missing but stores it under its URL, not under the id, so it stays missing.
`raced` collects scripts that met one of the races the code leaves open, each named at its action: two saves of one script,
a save of a script in or on its way to the recycle bin, a restoration next to another one, an update of a script that is
gone, a rejected write of either kind (after which memory and storage differ, until a restart at the latest).

### Preinject

A page is a tab and a kind of frame, the kind standing for the cache key (the URL). A preparation is one object from `prepare`
to its bag: asked (awaits the storage), read, bag. `cache` has one per kind, `scr` is the prepared script that bags of all kinds
share, and `told` how far the watchers of the storage are behind `code`. `hints` and `waiters` are `cspHints` and `cspHintWaiters`,
`skipped` is `skippedTabs` with its phantom. `Quiet` makes a task atomic: while a promise that a call awaits is settled nothing
else moves. Headers may come before, during and after `GetInjected`; documents ask again after a timeout; tabs close while calls wait.
`raced` marks the one race left open: a preparation that had read older code when the watchers were told of newer code ends while
no prepared script is in the cache, and puts its own there, until the cache is emptied again. Such a preparation does no harm while it is under way,
nor when it ends after a newer one.

### ScriptRegistry

`userScripts` and `contentScripts` are what the browser has registered, which outlives the background page; `tracked` and `timers` are
what the background page remembers, which does not. A call of the browser takes effect when it is answered, and a `Restart` may find
it done or not. A content script is registered as code, which browsers may refuse: `Refused` lets that happen at any time, next to the
bounded failures. `job` is the progress of a registration, `startup` that of the cleanup of stale scripts, `removing` the
removals in flight. `ensuring` holds the calls of `ensureMainWorldBridgeRegistration` from the load of the module, `onInstalled` and `onStartup`,
each between listing, unregistering and registering. `stranded` and `bridgeFailed` note calls of the browser that failed.

### How the modules meet

`stored` and `injected` of ValueStore change at once where the code calls `cachedStorageApi.set`, which is right as long as the
cache answers for the key, the subject of StorageCache; the same holds of `stored` and `code` in ScriptDB and of `code` in
Preinject, whose values are ValueStore's `injected`. SyncService takes a whole `_sync` for one step with two outcomes, and
SyncMerge shows what is in it; SyncMerge in turn has one sync per device at a time, which SyncService shows to hold as
long as nothing takes the status away. The downloads of updates in ScriptDB pass through LimitConcurrency, which only delays them.

## 3. Bounds, and why they are enough

* StorageCache and StorageUndo: two value keys and a plain one in two groups that are read and written together, two calls of `set` or
  `remove`, one rejected, one reader, two flushes, an undo at any time. A race
  needs a write, something late and a second write. One value besides "absent" tells an old content from
  a new one in every alternation. Three writes to two keys under two overlapping flushes are beyond five minutes; they are
  covered by the proofs, which depend on none of these bounds. `Resting` keeps the reader from having a read in flight while an import can
  be undone; without it the run takes longer than five minutes, and the proofs hold for any `Resting`, the empty set included.
* LimitConcurrency: five calls on three keys, a pool of two, delays 1 and 2: calls wait both
  for their key and for the pool, and several race for one place. No counter is bounded besides.
* SyncService: two services, of which one has a password, and two calls in progress. Overlap
  needs two calls; a third would do what one of the two can do.
* SyncMerge: two devices, one script, `MaxTime` five, one failed request, one push or pull. An edit, its
  sync, a second edit or a removal, its sync and what the other device then does take five instants (an
  edit, a removal, a written meta file and the removal of a local script take one each). Scripts meet
  only in the timestamps and in the failure of a whole sync; a sync that only sorts, and a failure at any
  point, stand for what other scripts do to this one. Bound in `Edit`: a script
  removed during a sync is not installed again before the sync ends. Bound in `EditBegins`: the halves of an edit are told apart
  only while the device syncs, as nothing else reads a script in between, and an edit or removal of a script waits for its save. The
  constraint `Telling` of the run ends a behaviour once it is disturbed and every script raced: both last for ever, and then all
  properties but the type invariant, which is proved, hold of any state. Two scripts up to the fourth instant were checked
  as well, by changing the configuration.
* `MaxChanges`, `MaxPages` (ValueStore): two changes by pages or the options page, two pages opened
  or restored, a top frame and a subframe, two scripts of which one has two values. A race of values
  needs two changes, or one change and one page. Bound in `Leave`: a page restored from the
  back/forward cache stays until its report is handled.

* Requests: one request, as requests share nothing but the sets they are members of; three parts of a response (a first, a
  middle and a last one), two documents one after another. All kinds and both engines from the start.
* ScriptDB: three ids and two names (two scripts of one name, one of another), two calls of `parseScript` at a time, `MaxOps` six
  commands: install two scripts, move one to the recycle bin and back, and two commands in their way.
* Preinject: two tabs of one kind, two preparations (one in the cache, one replaced), two calls, and `MaxActs` three
  edits, switches, expiries, loads or closings; the run of skipped tabs has a tab with a frame and four.
* ScriptRegistry: two ids, one tab, all three causes, one restart and one failing call. Scripts meet only in one tab's removal and in
  the cleanup at startup. A refused content script is not counted as a failure.

`CHECK_DEADLOCK FALSE` stands in every configuration because the bounds end every behaviour: the
calls are done, or no more writes, changes or pages are allowed. SyncService can also come to rest
with no service chosen.

## 4. What the runs check

**StorageCache.** `ReadsAreCurrent`: what a get would see of a key, through cache, `dbKeys` and storage
area, is its last write. `WritesSettle`: the last write is stored, queued, or a flush is about to
produce it. `FlushIsScheduled`: while a value is queued, a flush is scheduled or a call that will
schedule it awaits its answer, unless a rejected write stranded it. `QueueDrains`: a queued
value finally leaves the queue. `UndoRestores`: when an undo is done, the storage area holds what it held as the import
began, whatever was imported, queued, cached or flushed meanwhile, but for keys that others touched during the undo. The type
invariant of both modules is proved and takes no part in this run.

**LimitConcurrency.** `ServesInOrder`: it implements KeyedService. `SameKeyIsSpaced`: the pause is kept however long the
call queued. `EveryCallEnds`.

**SyncService.** `BusyStatusHasOwner`: a status of activity belongs to a call that will end it, even after
a reset. `SyncRunsAlone` and `SyncIsAuthorized`: unless the status was taken away, a sync runs alone, for
the current service, and after an authorization of its own. `RevokeSticks`: a revoked token comes back only by an answer that was
awaited as it was revoked, which the code lets in and the property exempts, or by a `handleAuth` that succeeds; a call that was under way and
asks only afterwards finds nothing to refresh. `NextSyncIsScheduled`: automatic sync goes
on unless the last attempt threw. `StatusSettles`: no status of activity stays for ever.

**SyncMerge.** `MetaDescribesFiles`: without disturbance the meta file tells exactly which files are in the
folder, and in which version. `SyncedAgrees`: a device with the timestamp of the meta file has exactly the
scripts of the folder, but for what its user changed since. `LatestEditSurvives`: the last edit of a script that
met no race is on some device or in the folder, whatever fails or overlaps. `DeletedStaysDeleted`: no
undisturbed step puts a script that is not in the folder back in a version that was removed from there. It is a property of steps,
not of states, because a removed version may come back over another one: with three devices, one that never synced may bring
an older version of the script to the folder after the removal, and from then on times decide again, so that a third device which still has the
removed, newer version rightly uploads it over the older one. Two devices do not show this; the attempt to prove the property of
states did.

**ValueStore.** `CopiesFollow`: outside the races each copy of a value (in storage, in the openers, in pages, for new pages) is
the last one or the message, timer or broadcast that brings it there is due.
`ScriptsAreTracked`: the scripts of a page have their openers, so that changes made there count.
`CopiesConverge`: when changes end, storage, open pages and later pages agree on the last value.

**Requests.** `ResponseIsWhole`: what a page has of a response is a beginning of it, and with `load` all of it, in whatever parts it
came, except for the cases that `Garbled` names (JSON with early listeners; text that the page reads in early events; through the offscreen document, binary responses and
responses repeated with each event). `LeavesNothingBehind`: a request that is over leaves neither its entry nor its header
injector, at whatever await it was aborted, except for requests whose promises were rejected (`broken`) and for the entries, which stay, of requests refused or
made by the offscreen document: of the latter two it says only that no injector stays.
`PageIsTold`: a page hears how its request ended.

**ScriptDB.** `NamesAreUnique`: no two scripts in use share a name, those being restored included. `RestartFindsTheSame`: what
is in memory is what a restart would rebuild, with the code its metadata comes from, but for scripts in `raced`: a rejected write leaves memory and
storage apart in this code, and the property says that nothing else does outside the races.

**Preinject.** `ChangesReachTheCache`: after the watchers were told of new code, neither bags nor the prepared script in the cache are older, unless a
preparation that had read older code ended first (`raced`).
`StrictPagesAreForced`: a page known to be strict is never answered with scripts for the page realm. `CallsEnd`.

**ScriptRegistry.** `NewOnesSurviveStartup`: the cleanup at startup, which lists first and removes later, spares what this
background page registered. `BridgeIsCurrent`: when all calls that ensure the bridge are over, it is there in its present form, however they
overlap. `OneShotsEnd`: every one-shot user script goes again, unless a removal failed.

**Runs that end in a violation**, each of a sentence the repository says about itself:
*ValueStoreEmpty* (`db.js:408`; a restored page of a script without a store is not tracked, and all other pages lose their openers
too), *PreinjectSkip* (`preinject.js:204` promises to skip the iframes of a skipped page; the next `GetInjected` of the tab, an iframe's
too, forgets the tab and goes on), *RequestsText* (`web/requests.js:114` promises the response "just like native XHR"; text that was read while its parts came is forgotten,
and at load the page has only what came after).

Many hazards of this code are delimited in this way rather than caught: what goes wrong is named by a history variable (`raced`, `stranded`,
`overlapped`, `late`, `stalled`, `disturbed`) at the action where it happens, and the properties say that nothing else goes wrong. The
notes in PROJECT.json say for each hazard whether its failure is caught or exempt.

The models show more that no run states as a violation, because a race is named instead: the comment at `storage-cache.js:10-12`
(calls are processed in sequence, obsolete ones superseded) is not kept by late answers and queued older values; `initialize` may
reset the status under a running sync; `vacuum` does not restore a missing code; the cleanup of one-shot scripts unregisters
content scripts as user scripts (`tabs.js:625`), so that one which a browser accepted stays, although `src/MV3_PARITY_GAPS.md:48` says that
one-shot registrations end with a timer.

### Fairness

Only for what the platform promises. *StorageCache*: timers fire and calls of the storage area are answered,
either way, during an undo too; the undo itself is not assumed to go on. *LimitConcurrency*: settled promises wake their waiters, time passes, and `fn`, a request with a
timeout, ends. *SyncService*: requests are answered or fail, so `_sync`, the token refresh and `finishAuth`
end. *ValueStore*: timers fire, promise jobs run, writes are answered and messages are delivered. *Requests*: messages arrive and are
answered, the browser answers for its cookies, a request ends in some way. *Preinject*: the storage answers, promises settle and timers
fire. *ScriptRegistry*: the browser answers, either way, and timers fire while the background page lives. Nothing
that the user or a page does is fair, and no restart is.

## 5. What is proved

TLAPS checks these for every value of the constants that satisfies the named assumptions (keys of
the two kinds are disjoint, special values differ from ordinary ones, a tab has one top frame, `Max` is at least 1, and so on).

**StorageProofs**, of StorageCache alone: `TypeCorrect`; `FlushScheduled`, inductive with the type invariant; and
`CoherenceInvariant`, from which `ReadsCurrent` and `WritesSettled` follow. The two invariants are not
inductive by themselves: whether a read stays current depends on what an answer in flight will put
into the cache, and whether a write settles on what the flushes under way will still remove.
`Coherence` says for each key without a race that it is visible and settled as last
written, that memory agrees with the queue, and that every read in flight either
holds a current snapshot of the key or knows that it was overtaken. Each action has a lemma that it
keeps one arbitrary key coherent; `Frame` covers the keys an action does not touch.

The same theorems again, with an undo at any time (`UndoTypeCorrect`, `UndoFlushScheduled`, `UndoCoherence`,
`UndoReadsCurrent`, `UndoWritesSettled`): its steps keep `Coherence`, each by one more lemma about one arbitrary key. `UndoRestored` is
`UndoRestores`, from `Progress`: in each phase it says of a key that nobody else touched how the area, the cache and `old` are related (that an
undo that is done has restored says nothing of one that still reads or removes).

**LimitConcurrencyProofs.** `TypeCorrect`; `PoolBounded`, from `PoolExact`: the pool is exactly the
finite set of paused and running calls and has at most `Max` of them; `Implements`, the refinement of KeyedService, where
a call that leaves the queue is served because the order of promises says that none before it is left; `ServedInOrder` and
`KeyPromiseLatest`, from `Order`: tickets are distinct and at most `arrivals`, the promise of a key is
its latest pending call, and a queued call awaits the latest one with its key before it (the order of
service alone is not inductive: it says nothing of whom a queued call awaits); `CallsSpaced`, an action
property, from `Spaced`: the rest of a pause plus the time since a call with the key ended is at least
the delay, as long as no call with another key starts.

**SyncServiceProofs.** `TypeCorrect`; `BusyStatusOwned`, inductive with the type invariant: `Begins` and
`Settles` say what a call does to the status when it begins and when its authorization ends, and
every action is one of them or leaves the calls alone. `RevokedStaysRevoked` needs `RevokedForGood`: that no
revoked token is back does not say who may bring one, so the invariant adds (`OnlyLate`) that of a revoked service only calls which awaited
their answer at the time of the revocation await one. `SyncsRunAlone` and `SyncsAreAuthorized` follow from `Alone`:
while nothing took the status away, there is at most one call or one `handleAuth`, for the current service,
and the status tells which (syncs that run alone say nothing of the calls that are still asking).
`SyncGoesOn` is inductive with `IdleIsQuiet`: before `initialize` no call is in progress, whose end could change
the status.

**ScriptDBProofs.** `TypeCorrect`, together with `Linked` (a call saves a script that is there, and listed ids were given out);
`NamesUnique` and `RestartFinds`, from `Settled`: outside the races at most one call saves a script, a script that no call saves is in
a list exactly when it is stored and known with record and code, and only the command that set a script's flag may move it; a rejected write of the record, the flag or a removal is a race of its script
(that names are unique is not inductive alone: whether a script on its way from one list to the other counts as in use depends on its
flag, and two commands that both carried one would disagree). What happens to a name when a script is saved, moved or rebuilt by a restart
are lemmas of their own.

**SyncMergeProofs.** `TypeCorrect`, together with `Present`: what is listed, saved or to be uploaded is there, and what is to be
downloaded has a time. `EditsSurvive` is `LatestEditSurvives`, for any number of devices, scripts, failures and overlapping syncs, from
`Past` and `Kept`: no time of a script, in the meta file, on a device or in a sync in progress, is later than now or than the last
edit; some device has the last edit, with a time that is not earlier; and no sync is about to download the script to such a
device (that the edit is somewhere is not inductive: whether a sync will overwrite it depends on the times it goes by). Each action has
a lemma on the times it copies and one on who holds the edit. `MetaIsKept`, `SyncsAgree` and `DeletionsStay` are the three properties
of undisturbed syncs, from `Settled`. That the meta file describes the folder between two syncs says nothing of how a sync gets there, so
`Merged` says of each device what holds where its sync is: while it waits (`WaitingInv`: with the timestamp of the folder it
agrees with the folder), once it has listed its scripts (`ListingInv`: only what is new there was left out), while it makes its requests
(`WorkingInv`, `Planned`, `PlannedAlone`: what is not uploaded, downloaded or removed any more is settled) and before it writes the meta
file (`WritingInv`). Behind all of them is that a version which was removed is `Stale` only on a device that has synced before the removal. TLC
checked `Merged` with two devices, with three, and with two scripts before it was proved.

**RequestsProofs.** `TypeCorrect`; `NothingStaysBehind`, from `Unasked` and `Cleared`: what is there to be cleared of a request
is still due, with the exemptions above, that is, its XMLHttpRequest is on its way, or `loadend` is the last event in its queue, or the reply to `loadend` is awaited
(that nothing is left behind at the end says nothing of how the end is reached); and a request that only awaits its cookies has no header
injector yet, so that the one which abort cannot see is the one that `loadend` clears. `PageHasTheWhole` is `ResponseIsWhole`, from `Loads` (load is
due only when all was received), `Reads` and `Late` (whatever an event reads of the response it sends; a page that only listens to the
last events has an empty response or one that load will read), `Arrives` and `Begins` (the message on its way begins where the page's
copy ends, and without one the page has what was read, unless an error emptied the response), and `Answered` for the offscreen
document; that a page has a beginning is not inductive, as it says nothing of the message on its way.

**InjectionProofs.** Of Preinject, `TypeCorrect`, `ChangesReach` and `StrictForced`, from three invariants that the actions keep apart. `StoreInv` is
about preparations and the cache: next to `Newer`, which is the claim itself, it has the types that link a preparation to its place in the cache, and `Off`, that the cache is empty while injection is off, so
that a preparation that ends then leaves nothing behind. `CallsInv` is about calls: what a call was told of its page stays what is
known of that page until the call goes on, because nothing else moves in between (`Quiet`); `StrictForced` is an action property
that follows. `PagesInv` says that a document which may ask has an attempt left.

Of ScriptRegistry, `RegistryTypeCorrect`; `StartupSparesNewOnes`, from `Gated`: a user script passes the cleanup only when that is
done, and until then nothing tracked is a user script (that the lists are disjoint says nothing of a script about to be
registered); `BridgeEndsCurrent`, from `Ensured`: unless a call failed that changes the bridge, it is current or some call has yet to
register it, and that call cannot end before.

**ValueStoreProofs.** `TypeCorrect`; `AllCopiesFollow` is `CopiesFollow` and `PagesAreTracked` is `ScriptsAreTracked`, for any frames, scripts,
values and any number of changes and pages, from `IInv`. That copies follow is not inductive: what a page will show depends on what the messages
on their way to it say, what the store will hold on what is still to be committed, and either on what is due. `BackgroundInv` says of the
background page that a commit is due while one is pending (`CommitDue`) and a broadcast while there are changes to send (`SendDue`), and that
what will be sent is the last value (`ToSendLatest`), next to the parts of `CopiesFollow` about the store, the records and new pages.
`PostedAgree` and `ArrivingAgree` are about the two queues of a page: the last message for a cell in either carries what the sender has,
`PagesStand` says that a frame lives with its top frame, and `PagesFollow`, the part about pages, then follows a value through the queues. TLC
checked `IInv` on two instances first. The attempt to prove it found a case that takes three pages, one more than
`ValueStore.cfg` has: a page that returns from the back/forward cache while another value is on its way to it, which the code then
overtakes with the stored one. It is now among the races.

**Only model-checked:** all liveness properties (`QueueDrains`, `EveryCallEnds`, `StatusSettles`, `CopiesConverge`, `PageIsTold`,
`CallsEnd`, `OneShotsEnd`): the proof system used here handles neither fairness nor ENABLED. Induction over recursive
definitions and RECURSIVE operators are out of its reach too; the modules avoid both.

## 6. What is not modelled, and the plan

Left out of the modelled components: watchers of values and the counters of sizes (StorageCache); the values editor and prerendered
pages (ValueStore); the requests inside a sync and the token formats of the services (SyncService, SyncMerge); uploads, the
splitting of messages in chunks, `blob:` and `data:` URLs and the rewriting of headers (Requests); positions, sorting, sizes,
dependencies, imports and the lookup for a URL (ScriptDB); delayed scripts, requires and resources, Firefox's registration, the matching of
URLs and a restart of the service worker (Preinject); the health check, which registers a script and removes it again only to report
(ScriptRegistry).

Not modelled at all: the options page, popup and confirmation page and the injected API (Vue components and DOM work within one thread, a
large part of the repository's lines), parsing and wrapping of code, locales and build scripts; and the user scripts that lie beside
the extension in the repository, some fifteen thousand lines of other programs that no part of the extension runs. What the models cover
is therefore a small share of all lines and the greater part of those with state that several parties change.

In order of importance, what could come next:

1. Watchers of values in StorageCache (`storage-cache.js:201`).
2. ScriptDB composed with SyncMerge: what a downloaded script meets in `parseScript`, and a script removed or renamed by a sync.
3. Alerts, notifications and options as small modules (`notifications.js:29`).
4. ValueStore over StorageCache instead of `stored`, and an abstract key-value store that StorageCache implements for keys without
   races.
