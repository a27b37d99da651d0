# Formal models of the M4 firmware

TLA+ specifications of the firmware of the M4 e-paper reader (`src/firmware`),
the configurations that model-check them with TLC, and theorems about them
checked by TLAPS. `PROJECT.json` lists the components, the runs, the source
lines each definition models, the known disagreements between the code and its
comments, and the hazards the properties are for.

Paths below are relative to `src/firmware/` unless they begin with `docs/`.

## 1. The system and its parts

The firmware runs on an ESP32-S3 under FreeRTOS. A display task owns the
screens (*activities*); apps, content providers, file transfer and installs run
in tasks of their own and meet the display task through atomics, mutexes,
queues and files on one SD card, which the user may pull and whose power may go
at any moment. Below, **hard** says what makes a part hard to get right; the
last column names the module, or `-`.

| Component (main source) | State and operations | Hard | What makes it correct | Module |
|---|---|---|---|---|
| Install journal file (`src/apps/M4xInstallJournal.cpp`) | one document in primary, `.bak`, `.tmp`; load with repair, save by tmp and two moves, move by copy | power cut or failure between any two SD calls | a document shown or reported saved is not lost; a durable cell | `JournalFile` |
| Install journal records (same file) | a record per package; upsert, remove, find, recoverAll | two packages in one document, failing saves | a reported record stays until removed or recovered | `InstallJournal` |
| Registry (`src/apps/M4xRegistry.cpp`) | the installed apps in primary, `.bak`, `.tmp`; load with heal, save | as the journal, another protocol | a durable cell; a save that returns false left the old list | `RegistryFile` |
| Recovery policy (`src/apps/M4xInstallTxn.h`) | what to do with an open record, when to clear it | one wrong cell of a table only a crash reaches | each decision keeps a whole version | `M4xInstallTxn` |
| Installer (`src/apps/M4xInstaller.cpp`, `AppInstallActivity`, `AppListActivity`) | four directories, record and entry per package; install, recovery, uninstall | power cuts, half removals and copies, a 60 s timeout | what is listed can be started; nothing is lost or comes back | `M4xInstaller` |
| App runtime (`AppRuntimeActivity.cpp`, `src/apps/M4xRuntimePump.h`) | Lua state in an owner task, bounded event queue, native child, exit, stop, join | two tasks share a child pointer without a lock; stop on a full queue | the script's view matches the screen; leaving ends, leaves nothing | `AppRuntime` |
| Plugin reader session (`src/apps/M4PluginReaderSession.h`) | slots of requests and answers, generations | answers of older launches | none is lost to or given to another launch | `PluginReaderSession` |
| Sub-activities and navigation (`ActivityWithSubactivity.cpp`, `src/main.cpp`) | child, pending child, current and deferred activity | requests made from inside the frame that is to go | nothing is freed while it runs, nothing leaks | `ActivityStack` |
| Progressive loader (`src/apps/M4xProgressiveLoader.cpp`) | a download streamed to a file, early open, `.ok` marker | outlives its app; broken connections, cancel, power cuts | partial is never taken for complete | `ProgressiveLoader` |
| Chapter provider and cache (`src/apps/providers/M4NativeProviderManager.cpp`, `M4NativeProviderIo.cpp`, `src/apps/M4ContentProviderSession.h`, `NativeProviderBookActivity.cpp`) | chapter states, work queue, a worker that comes and goes, `.part`, body and marker | requests crossing the worker's reports and its end; commits that fail half-way | what is shown as being fetched is; what is marked is whole | `NativeProvider` |
| Book detail worker (`M4NativeProviderBookDetailAsync.cpp`) | busy and cancel flags, request, snapshot; start, poll, cancel | a new page meets the job of the one before | a result belongs to the page that shows it | `BookDetail` |
| Shelf and discovery (`M4NativeProviderDiscovery.cpp`, `M4NativeProviderIo.cpp`, `src/apps/native/M4NativeAppControllerFactory.cpp`) | rows of the books and the metadata that vouches for them, replaced as a pair; a discovery worker shared by the apps; a page that recovers, indexes and refreshes | two files, two actors, cuts between any two calls | the pair is one generation; what is shown as fresh is what is on the card | `ProviderShelf` |
| UI state store (`src/ui/scene/UiStateStore.h`) | three slots, reader counts, writer gate; acquire, release, tryPublish | lock-free readers against a writer | a pinned snapshot does not change; nobody waits | `UiStateStore` |
| UI action queue (`src/ui/scene/UiSceneActionQueue.h`) | ring of four actions | indexes that wrap, a full ring | first in, first out | - |
| Catalog, login (`src/apps/providers`) | HTTP behind one heavy gate | slow peers | one heavy request at a time | - |
| Memory, power, radio (`MemoryManager.cpp`, `lib/hal/HalPowerManager.cpp`, `src/network/M4NetworkOccupancy.h`) | budgets, lock count and clock mode, radio owners | checks made outside the lock | no low power under a lock | - |
| File transfer, web server, OTA (`src/network`) | sockets, upload files, OTA partition | lost connections | an upload is whole or absent | - |
| Stores of settings, recents, bookmarks (`src/*Store.cpp`) | one file each, rewritten in place | a torn file | - | - |
| Formats, fonts, drawing, drivers, Lua, vendored code | parse, lay out, draw | - | pure functions and hardware | - |

**How they interact.** `AppListActivity::reload` runs `ensureLayout`, which
runs the recovery of every open journal record through five hooks of the
installer; the hooks read and save the registry and move directories.
`AppInstallActivity::doInstall` starts a worker task that runs the same
recovery and then `install`, and polls it for at most 60 s. Both stores sit on
`SDCardManager`, whose `rename` refuses an existing target.

An app started from the list is an `AppRuntimeActivity`: its owner task runs the
script, which asks through `PluginReaderSession` for the native reader or the
chapter list. The owner enters that screen as a child (`ActivityStack` is the
general rule for children), the display task pumps and closes it and posts its
answer back. A script may have a chapter streamed by the progressive loader,
which queues an early and a final open in the same session. The native book
screens need no script: they ask the provider manager for chapters and
`BookDetailAsync` for the book's description, each with a worker of its own; the
page of a provider's app shows the shelf that a third worker, the discovery,
leaves on the card.
Pages of the home screen publish what they draw through `UiStateStore`.

## 2. Modules

| Module | Models | Built on |
|---|---|---|
| `Fate` | which SD calls may fail in a run and how many power cuts are to come, chosen at its start among `Fates` | - |
| `SdFile` | what a small file on the card may hold and what a failing call leaves | `Fate` |
| `DurableCell` | the abstract promise: a cell that holds a document, moves only between documents on offer, and settles when it reports one | - |
| `JournalFile` | the journal's file protocol, one action per SD call | `SdFile`; implements `DurableCell` |
| `InstallJournal` | requests of several packages on that file | `JournalFile` |
| `RegistryFile` | the registry's file protocol | `SdFile`; implements `DurableCell` |
| `M4xInstallTxn` | the recovery policy as operators | - |
| `M4xInstaller` | install, recovery, uninstall and the two screens | `M4xInstallTxn`, `Fate`; the two stores by what they promise |
| `PluginReaderSession` | the slots between script and native screens | - |
| `AppRuntime` | the owner task and the display task of an app | `PluginReaderSession` |
| `ActivityStack` | the global activity and the children below it, with the call stack | - |
| `ProgressiveLoader` | one download session, its files and the opens it queues | `Fate` |
| `NativeProvider` | chapter session, worker task, cache files, book screen | `Fate` |
| `BookDetail` | the detail worker and the book page | - |
| `ProviderShelf` | the discovery worker, the shelf's two files, the shelf page | `Fate`; implements `DurableCell` |
| `LatestSnapshot` | the abstract promise of a snapshot exchange: a look gets the latest publication, which stays as it is until dropped | - |
| `UiStateStore` | the lock-free store of three slots, one action per atomic operation | implements `LatestSnapshot` |
| `MCInstallJournal`, `MCRegistryFile`, `MCInstaller`, `MCProgressiveLoader`, `MCNativeProvider`, `MCProviderShelf` | the cards and values TLC considers | |
| `JournalProofs` | theorems about `JournalFile` and `InstallJournal` | `TLAPS` |
| `InstallerProofs` | theorems about `M4xInstaller` and its recovery policy | `TLAPS` |
| `ActivityProofs` | theorems about `AppRuntime` with its session, and about `ActivityStack` | `TLAPS` |
| `ProviderProofs` | theorems about `NativeProvider` and `BookDetail` | `TLAPS` |
| `RegistryFileProofs`, `UiStateStoreProofs`, `ProgressiveLoaderProofs`, `ProviderShelfProofs` | theorems about the module they are named after | `TLAPS` |

### How state and actions correspond to the code

*`JournalFile`.* `disk` is the three files: absent, torn (created or partly
written: never a JSON document, as `isValidJournalBody` tells) or a whole
document. `pc` is the next SD call of `loadReconciledRaw` or
`durableWriteJournal`; `copy` the stage inside `writeExactFile`,
`copyFileExact` and `renameOrCopy` (remove the target, open it, fill it, remove
the source). The tables `Src`, `Dst`, `OnOk` and `OnFail` say, for each of the
seven writes of the protocol, where data comes from, where it goes and what
follows. `snap`, `body`, `hadPrimary` and `result` are the C++ locals.
`offered` and `possible` are history: the last settled document with those
whose save has begun since, and the ones among them that a load may still
return. A step reads or changes the card in at most one call; a power cut
(`Crash`) keeps `disk` and forgets the locals.

*`InstallJournal`.* `call` is the request, a document is the set of ids it has
a record for, `kept` is history: records reported written and not dropped.

*`RegistryFile`.* The same shape for `M4xRegistry::load` and `save`, whose
protocol differs: load never looks at the tmp and heals the primary in place;
save falls back to writing the primary directly.

*`M4xInstaller`.* A directory is `NoDir` or a pair: its entry script (missing,
half-written, or of a version) and the rest with the manifest, because the
code's checks (`bakProvenUsable`, the check after a restore) look at the entry
alone. `Remove` takes a directory apart manifest first, as
`removeTreeBestEffort` does; `CopyTree` writes over what is there, as
`copyListedFiles` and `extractListed` do. `registry` is the version listed,
`journal` the package's record. Two processes: `ui` (the list, uninstall,
waiting in `doInstall`) and `worker` (`install`); both may run the recovery. A
save of the registry or journal is one step that may fail: the registry then
keeps the old list (`FailedSaveKeepsOld`), the journal either one
(`SaveDurable`); these are what the file models promise.

*`PluginReaderSession`.* Every method of the class holds its mutex, so each is
one action. A slot is the generation of its request or answer, 0 when empty;
requests of other apps, which the class refuses, are left out.

*`AppRuntime`.* `ui` and `own` are the next step of the display task and of the
owner task. `events` is the FreeRTOS queue, which drops its oldest event when
full (`postEvent`). `sub` is the child pointer, with the child's own state (new:
its `onEnter` has not returned) and whether it asked to be closed; `kind`
(`pluginChildKind_`) and `closePending` are members that one task writes and
the other reads without a lock. `started`, `stop`, `done` are the flags of
`M4xRuntimePump.h`, `cancelled` the host's. `ScriptRuns` is all that one call
into Lua may do to this state: queue a reader or a chapter list, begin or pump
a progressive load, open or close a list scene. `panel` is who painted last.
The owner's steps follow `handleEventOnOwner` call by call, because the display
task may move between any two of them; `tryLaunchPluginReader` and
`tryLaunchPluginToc` are take, load, enter, entered. `exit` to `gone` is
`onExit`: close the child, clear the session, `requestStopAndJoin`.

*`ActivityStack`.* All of this runs on one task; the call stack is what makes
it hard, so it is a variable. A frame is an activity and a place in its code;
`Loop`, `Pumped`, `CloseChild`, `FreeChild`, `Replace` are the parts of
`pumpSubActivityFrame`, `Navigate` and `EnterGlobal` the global `exitActivity`
and `enterNewActivity` of `main.cpp`, called from inside a frame. `alive` is the
set of objects; a destructor frees what an object owns. `deferred` is
`deferredDeleteActivity`. `exits` and `entered` count callbacks, `policy` is the
activity whose touch and text policies were applied last, `navs` is history.

*`ProgressiveLoader`.* A body is `Total` units; `buf` is `FileSink::buffer_`,
`card` the body file and marker of each path. `phase` is `phase_`, with
`"Closing"` between `finishOk`'s last open and its marker. `open` is what the
session holds for the display task, `shown` what that task opened. `Begin` is
the whole of `beginChapter` or `beginToc` (cancel, look at the cache, remove
what is there, create), `Receive` of `acceptPayload` (write, flush, publish,
maybe open early), `Finish` and `WriteOkMarker` of `finishOk`. `SwitchApp`
leaves the loader running, as leaving an app does. `cutoff` is history: bodies
without a length whose connection closed early.

*`NativeProvider`.* `status` and `queue` are the content session, `gWorker` and
`gCancel` the manager's globals. `worker` is the step, chapter and attempt of
the worker task in `processWork`, `fetchChapter`, `commitPart` and
`commitTempFile`, one file operation each; `card` the `.part`, body and marker
per chapter. `call` is the provider call the display task is in (`read` the
status, `reset`, `uncancel`, `push`, `kick`), so a request can cross the
worker's report at each of its steps. `ui` and `page` are the book screen:
settle, load, 45 s, cancel, retry, reader, prefetch, next chapter.

*`BookDetail`.* One action per atomic operation or critical section of `start`
and `taskMain`: `gBusy`, `gCancel`, `gRequest`, `gSnapshot` are the globals,
`job` the locals of the worker. A request is a book and a visit; the code
matches the book's ids alone, the properties compare the visit as well.
`recent` is the cover kept for the home screen.

*`ProviderShelf`.* `card` is the six files: rows, metadata, their temporary
files and their backups; a file of rows is the number of the discovery that
wrote it, metadata its schema version. `job` is the next SD call of the worker
in `taskMain`, `commitShelfGeneration` and `commitTempFilesPair`, with the locals
of the commit; most calls are made for the rows and then for the metadata, so
`file` says whose turn it is. `page` is the controller: `look` to `restore` is
`recoverTempFilesPair`, `probe` to `open` the rest of `beginShelfIndex`,
`indexing` and `shown` what `pollAsync` finds; `index` is the generation its
offsets were taken from, `reading` that of its open file, `applied` and
`attempted` the members of those names. `gSnapshot.stamp` is the time of a Ready,
as a number that differs between discoveries. The worker may be at the same time
in its own calls; `OtherApp` has it taken by another app, and `Renew` begins a
request again with a renewed login. A discovery is started by the page's one
attempt (`AutoDiscover`), by the user (`Refresh`), or by WeRead's page when it is
entered or after a login (`StartDefault`), each also while the page indexes or has
not seen the last answer. While a `child` is open the page's loop pumps that alone.
`offered` and `page.behind` are history: the shelves a visit may find, and whether
the code has left this page behind (entered beside its own discovery, told of new
rows while it indexed the old, or its unread answer cleared by a start).

*`UiStateStore`.* `readers[s]` and `access` are the atomics `readers_[s]` and
`accessState_` as a count and a reservation bit; `pc[p]` is the next atomic
operation of `acquire`, `release` or `tryPublish`, `at[p]` the slot it works
on. The copy of a publication into its slot is two steps with a torn value in
between. A reader may stop anywhere and keep its snapshot for ever; a publisher
may find the gate taken, find no free slot, or stop half-way. Steps are taken
one after the other (sequential consistency): every operation that decides
anything is a read-modify-write of one atomic or is ordered by the acquire and
release of `accessState_` around it, and the slot's own bytes are published by
the release of `current_` and read after its acquire.

## 3. Runs

| Run | Question | Result |
|---|---|---|
| `installer` | installs, upgrades, uninstalls and recoveries on four kinds of cards | no copy is lost, what is listed starts, no resurrection; a visit to the list settles every record |
| `journal_cards` | two packages share the journal document on five kinds of cards | reported records and saves stay; where only the power fails the file refines `DurableCell` |
| `registry` | every set of failing kinds of calls with two power cuts | a load after a save returns what the save said; refines `DurableCell` |
| `app_runtime` | owner task, display task, script, child and exit, every interleaving | the six properties below hold |
| `activity_stack` | navigation and children asked for inside running frames | nothing that runs is freed, nothing leaks, policies are those of the visible activity |
| `progressive_loader` | a chapter of one app and the contents of another on four kinds of cards | complete means whole; each app gets its own opens; placeholders end |
| `native_provider` | two chapters, worker and book screen on three kinds of cards | what is being fetched is worked on; cached means whole; loading ends |
| `provider_shelf` | shelf page and discovery worker, with starts at any time, on five kinds of cards and with a user who comes back | offsets are of the rows on the card, with three named exceptions; the pair refines `DurableCell`; a stale shelf is refreshed |
| `book_detail` | four visits to two books | every page gets its own result, and stops waiting |
| `ui_state_store` | three readers, two publishers, three publications, every interleaving | refines `LatestSnapshot`; the first pin succeeds; nobody waits |
| `journal_backup_lost`, `install_timeout` | one statement of the code's comments each | violated: section 6 |

**What the properties say.**

- *Files.* `SaveDurable`: what the next load would return is always a document
  not older than the last save reported done. `Durable`: it is not older than
  one a load has shown either; on a full card that may fail, as `SaveDurable`
  allows. `ImplementsCell`: the files, read through `Recoverable`, behave as one
  atomic cell. `RecordsKept`: the client's view of it. `FailedSaveKeepsOld` and
  `SavedIsLoaded` are what `install` and the recovery hooks read from the
  registry's return value; the first is for cards on which refused renames do
  not come with failing copies (`CardServes`), because after a refused rename
  `save` copies the primary to the bak without looking at the result and then
  removes the primary (`M4xRegistry.cpp:164-167`).
- *Installer.* `CopyKept`, `Launchable`, `EntryMatchesLive`, `NoResurrection`,
  `VisitSettles` and `StagedComplete` are explained at their definitions.
- *App runtime.* `KindMatches`: the display task casts the child it closes by a
  member the owner task writes. `SessionClean`: the queue and the activity are
  freed after the owner's last use, and nothing its last callbacks queued is
  left for the next app. `ToldAfterClose`: the answer is published before the
  child is closed, yet the script hears of it only after. `DisplayKept`: Lua
  never paints over a native screen, scenes of the host apart. `HandoffEnds`: a
  launch in progress, which blocks the Lua display, ends on every path.
  `StopEnds`: leaving ends although the Stop event may be lost.
- *Activities.* `StackAliveOnce`: "it's no longer in any call stack"
  (`main.cpp`), for passes with at most one navigation. `FreedOnlyExited`: no
  activity that was entered is deleted without exactly one `onExit`. `NoLeak`
  and `PolicyOfVisible` compare what is left between two passes.
- *Loader and provider.* `CompleteIsWhole`, `CachedIsWhole`: the marker is
  trusted by the next start. `ShownIsWhole`, `ReaderWhole`: and by the reader
  that has the file open while other requests go on. `PublishedOnCard`: the
  catalog claims no row that is still in the buffer. `AppsOwnOpens`: the loader
  outlives its app. `FetchingIsWorked`: a chapter never stays "fetching" with
  nobody to fetch it. `QueueServed`: a request a live worker can see is taken
  although that worker may be about to leave. `PlaceholderEnds`, `LoadingEnds`,
  `DetailEnds`: the screens stop waiting.
- *Book detail.* `SnapshotIsOwn`, `PageIsOwn`: ids alone are matched, which is
  enough although jobs outlive the pages that started them.
- *Shelf.* `ImplementsCell`: "one recoverable transaction"
  (`M4NativeProviderIo.h`), at every cut of a commit or of a recovery, on cards
  where renames, removals and reads work. `ShownIsCurrent`: rows are read from
  the card by offsets taken earlier, so the two must be of one discovery while
  starts overlap with indexing and with answers. It names where the code does not
  keep this: during a commit, until its answer is taken up, and on the pages
  that `page.behind` marks (section 6). Moreover rows older than the metadata's
  schema are never shown as fresh, unless a page is entered beside its own
  discovery. `StaleIsRefreshed`: the automatic attempt is made once per page, so
  it must not be spent while another app's worker makes it impossible; nothing is
  polled, and nothing promised, while a child is open.
- *State store.* `ImplementsLatest` and `NeverWaits` are the two promises of
  `UiStateStore.h:14-17`, `FirstPin` that of 137-139; two publishers are in the
  model although the comment promises one, because the gate makes the store
  safe for more.

**Bounds and why they are enough.**

- Journal: the lists over two packages, so that one request could lose
  another's record. `Cards`: three power cuts where nothing or only opens and
  writes fail (the first leaves any mixture of files, the second hits the load
  that repairs it, the third what follows), one where renames and removals are
  refused (two do lose documents, section 6), none where reads fail or the
  copies after a refused rename do. The proofs cover any number of documents,
  packages and cuts for the first two.
- Registry: two lists, all 64 sets of failing kinds of calls, two cuts; the
  proofs cover every number.
- Installer: two versions (install, upgrade, refused downgrade); two cuts with
  no failing call and with failing saves and extraction: one leaves an open
  record, the second hits the recovery from it. Refused renames with broken
  copies have no cut, removals that stop half-way have one.
- `app_runtime`: three generations until the app is left (one taken by entering,
  two by requests, so that an old answer meets a newer launch), a queue of two
  events so that it overflows. `activity_stack`: six objects: a stack of
  current, child and grandchild, one deferred, one pending and one being made.
- `progressive_loader`: bodies of three units, a buffer of two (full once, with
  a rest), three requests. Cards: one power cut; opens, removals or writes fail.
- `native_provider`: two chapters (one read while the next is prefetched) and
  three requests; cards that refuse renames and lose the power once, whose
  removals fail, or whose writes fail. `book_detail`: four visits of two books:
  a job of an earlier visit meets later ones of its own and another book.
- `provider_shelf`: three discoveries, so that one of them starts with debris of a
  commit and one with that of its undoing. `Cards`: two cuts where no call fails
  (one leaves a commit open, the second hits its recovery); one where files cannot
  be created or written, renames are refused or removals fail; none where reads
  fail. On a sixth nothing fails, and the user may enter the page again beside its
  own discovery (`"reenter"`).
- `ui_state_store`: three readers pin every slot, or two with one inside
  `acquire`; two publishers contend for the gate; three publications use every
  slot.

**Fairness.** `NeverWaits` has the fairness it needs as a premise, per process: a
reader that keeps being scheduled gets its snapshot whatever the others do, and a
publisher returns. The other liveness properties assume weak fairness of tasks:
FreeRTOS runs every ready task of equal priority in turn, and each poll or
receive has a timeout. `M4xInstaller!FairSpec`: of each task's steps and of
`InstallReturns` (`doInstall` polls every 20 ms). `AppRuntime!FairSpec`: of the
owner task and of the display task's steps within a frame or an exit
(`UiGoesOn`), not of input. `ProgressiveLoader`: of `Pump` (the owner's tick pumps
whatever app runs, and silence runs into the inactivity timeout) and of taking an
open. `NativeProvider`: of the worker, of the display task's calls into the
provider, of the end of the settling time, and of the loading page's look at the
status and its clock. `BookDetail`: of the job (its connections time out), of
`start`, of the poll. `ProviderShelf`: of the worker, of the calls the page makes
within one pass, and of what each pass without a child polls (`Index`, `Sync`,
`AutoDiscover`; `NativeAppActivity.cpp:371-374`). No fairness is assumed of the user, of choices (a download
may always fail) or of power cuts.

**Restrictions of the environment.** With `Env = {}` in `M4xInstaller` the user
does not install the version that is already installed, does not install while a
record is retained, the 60 s timeout does not fire, and an uninstall is not cut
between the registry and its removals. Each is a case where the code does not
keep its promise (section 6), and each is an option of the model so that the
rest can be checked without it. Likewise a cut during a copy that replaces a
refused rename is in no passing run of the installer: a first install's
half-copied `live` is then committed by the recovery. The card that fails removals
is checked with one cut and two versions, which is one upgrade: a second upgrade
over what the first could not remove does lose the app (section 6). `CardServes` and `CardReads`
(registry), `CardWorks` (loader) name the cards a property speaks of; `cutoff`
takes out bodies of unknown length, whose early end the code cannot notice;
`StackAliveOnce` speaks of passes with one navigation. In `ProviderShelf` starts
are not restricted; that a page is entered beside its own discovery is a choice
made with the card (`"reenter"`). Its `ImplementsCell` speaks of cards on which
only opens and writes fail, without that choice: a recovery that runs against a
commit breaks the transaction (section 6).

## 4. Proofs

All theorems hold for every value of the constants that the named assumptions
admit, and for any number of power cuts. Type invariants are proved rather than
run; those of the installer, the stack and the provider are conjuncts of the
inductive invariants below.

*`JournalProofs`*, about the file: `Typing`; `Protected` (`Spec => []ProtocolKept`, if only
opens and writes may fail); `SaveSafe` (`SaveDurable`) under the same
assumption; `Safe` (`Durable`) and `Implements` (`Spec => ImplementsCell`) where
no call fails on any card. `SaveDurable` is not inductive, because it does not say
why a call that destroys a file does no harm. `JournalInv` adds, for each `pc`,
which file holds a whole copy of what is about to be destroyed, that the tmp
being moved is the document being saved, and that the snapshot a load decides
on is what the files still hold. One lemma per action, the write stages first;
the refinement maps each step to an offer, a move between offered documents, a
settlement, or a stutter.

*`JournalProofs`*, about the requests: `JTyping`; `JournalUse` (every behaviour of the requests
is one of `JournalFile`, so its theorems carry over); `RecordsSafe`
(`RecordsKept`, if only opens and writes may fail). `KeptInv` adds that the kept
records are in every document a load may still return, hence in the list a
request loads and in the one it saves.

*`RegistryFileProofs`*, for every `Fates`: `RegistryTyping`, `RegistrySafe`
(`Durable`), `SavedSafe` (`SavedIsLoaded`), `FailedSafe` (`FailedSaveKeepsOld`),
`RegistryImplements` (`ImplementsCell`). `RegistryInv` says where the old list is
at each step of a save: still in force until the new one is.

*`UiStateStoreProofs`*: `StoreTyping`, `StoreSafe`, `FirstPinHolds` (`FirstPin`),
`StoreImplements` (`ImplementsLatest`), for every finite set of readers, any
publishers and publications. `FirstPin` alone is not inductive. `StoreInv` adds
that each counter counts the readers it is meant to (`Counts`: zero then means
that nobody is there), that publishers exclude each other and a reservation has
an owner (`Gate`), that a reader about to pin while a publisher chooses has the
current slot, that the publisher's slot is neither current nor pinned (`Apart`),
and which slots hold whole publications of which generation (`Contents`).

*`InstallerProofs`*: `CopySafe` (`CopyKept`), `LaunchSafe` (`Launchable`),
`ListingSafe` (`EntryMatchesLive`), `RegistrySafe` (`NoResurrection`), with
`Env = {}` and on cards on which renames and removals work (the code copies only
after a rename failed, so nothing is copied there); extractions, journal and
registry saves may fail at will. None of the four is inductive: they
say nothing of an open record. `CardInv` says, for each phase of the record, what
the four directories hold: at rest the listed version is live (`Resting`); while
a record is open, what is listed is whole in at least one of live and bak (`OpenCard`,
`Parted`, `Kept`); once the registry lists the new version that one is live (`Switched`,
`Committed`). Three tables by the next call say how far the locals of whoever is
at work have come and what they have read of the card: `Recovery(p)` for the two
processes that may recover, `Installation` for the worker, `Removal` for an
uninstall. A power cut keeps the card and empties the tables, so `CardInv` alone
carries over it. That the recovery policy answers every record and snapshot,
clears no record it retains, and commits an upgrade only with the new version in
live, is proved for any versions (`PolicyAnswers`, `PolicyCommits`) and evaluated
for two (`PolicyTotal` in `MCInstaller`). The hypothesis of the four is where the
code's promise ends, not a convenience: section 6 has a counterexample on a card
that breaks it, for renames, for removals and for each option of `Env`.

*`ActivityProofs`*, about the runtime: `RuntimeTyping`, `SessionIsClean`,
`ToldSafe`, `KindSafe`, `DisplaySafe`, for any queue length and number of
generations. `RuntimeInv` adds that `done` is set exactly at the owner's end
(`Joined`); that the session is empty once both tasks have cleared it, whichever
was later (`Cleared`); that no more than one generation is taken per task on the
way out (`Bounded`); and that there is no child while the owner is in a step from
which it may call Lua, since only the owner enters one, and that the child's kind
is the recorded one except between its close and its reset (`Children`).

*`ActivityProofs`*, about the stack: `FramesSafe` (`StackAliveOnce`), `FreeSafe`
(`FreedOnlyExited`), `PolicySafe` (`PolicyOfVisible`), `ReachSafe` (`NoLeak`), for
any number of activities, any depth of children and calls and any number of
navigations. `ChainOf` is a least closed set rather than a recursion, so what the
proofs need of chains (unfolding, parents, absence of loops below a root, the one
leaf, what is left after a removal, what a new leaf adds) is proved for every
forest of links by choosing the closed set. `StackInv` then says that the links
are two trees of single parents, of the current and of the deferred activity
(`Linked`, `Rooted`, `Reached`); that a replacement asked for has not run and has
no frame (`Bare`); that no frame is of a descendant of an activity whose frame is
further in, so that what a frame frees below its own object has no frame
(`Nested`); that frames are of the current tree before a pass's first navigation
and alive before its second (`Held`); and what each place in the code implies of
its object (`Runs`), of closes asked for (`Asked`), of the calls of `onExit`
(`ExitedOnce`) and of the policies (`PolicyHeld`).

*`ProviderProofs`*, about the chapters: `FetchingSafe` (`FetchingIsWorked`) on any
card; `CacheSafe` (`CachedIsWhole`) and `ReaderSafe` (`ReaderWhole`), if on no card
both removals and renames fail. `SessionInv` relates the queue, the worker's hands
and the chapter states; that every entry of the queue has a first place, and what
`Without` leaves of a queue, are lemmas (`LeastOf`, from the library's
well-foundedness of the naturals, and facts about sequences). `CacheInv` adds `Sound`: where removal
works, the marker is off while the body changes; where it may fail, renames work,
so that no body is copied in place.

*`ProviderProofs`*, about the details: `DetailTyping`, `SnapshotSafe`, `PageSafe`.
`DetailInv` adds that the busy flag has exactly one holder, a start or a job, and
that job and snapshot carry the same request from start to publication.

*`ProgressiveLoaderProofs`*: `LoaderTyping`, `CompleteSafe` (`CompleteIsWhole`),
`RowsSafe` (`PublishedOnCard`), `ShownSafe` (`ShownIsWhole`), `OpensSafe`
(`AppsOwnOpens`), on every card (the properties name the cards they speak of).
`LoaderInv` adds `Streamed`: the marker is away from the first byte of a download
to its last, file and buffer together are what was read, and a download that
ended well has left the whole body; and `Served`: a chapter opened for good is
complete or about to get its marker.

*`ProviderShelfProofs`*: `ShelfTyping`; `ShelfImplements` (`ImplementsCell`), without a
hypothesis, since the property names the cards it speaks of; `OffsetsSafe`
(`OffsetsMatch`, the half of `ShownIsCurrent` about offsets), if on no card a removal
fails together with a rename or a read; `CurrentSafe` (all of `ShownIsCurrent`), if on
no card anything but opens and writes fails. Starts, children and re-entry are
unrestricted in both. `Apart` says that the busy flag has one holder, and that a page
that visits the files while a discovery of its app is at work is marked behind and was
entered again. `CellInv` says where the two files are: there are no backups but in a
commit, or where a cut left one and no visit has recovered it (`NoDebris`); backed up
metadata never stands beside its original without the rows, so that a recovery
restores both halves or neither (`Sibling`); at each step of commit and recovery,
which half is in which file (`Committing`, `Recovering`); and that the pair as a visit
would recover it is on offer (`Offered`). One lemma per action shows that the pair
stays what it was, except that moving a new file in may make it the discovery's.
`OffsetInv` says that discoveries are numbered in the order they start (`Numbered`); and that for
a page with offsets that is not behind (`Tracks`) its rows are, at each step of the
commit, in the file that step has left them in, or of an answer it has not seen
(`Following`). `FreshInv` adds, where no call moves a file wrongly, that rows read as
fresh stood beside metadata of the current schema.

The assumptions are `ShelfAssumption`, `SdFileAssumption` (the markers are not documents),
`StoreAssumption`, `MaxGenAssumption`, `QueueAssumption`, `NoChildAssumption`,
`MaxActivityAssumption` (there is room for Home), `InstallerAssumption` (an absent
directory is not a tree of files), `DetailAssumption`, `BookAssumption`,
`LoaderAssumption`, and the restrictions on `Fates` and `Env` stated above and in the
theorems.

**Only model-checked:** liveness (`VisitSettles`, `HandoffEnds`, `StopEnds`,
`PlaceholderEnds`, `QueueServed`, `LoadingEnds`, `DetailEnds`, `NeverWaits` and the
shelf's), which the proof system does not reach; the copy fallback of refused
renames in the journal; the installer on cards that refuse renames (with no cut) or
removals (with one), for two versions; on cards that refuse renames, removals or
reads, one kind at a time, that rows of an older schema are not shown as fresh.

## 5. Plan

Done: the two stores, the installer, the runtime with its session, the activity
stack, the loader, the provider's chapters, its shelf, the detail worker, the
state store. In the order of how much depends on each, what is left:

1. Two interleaved upserts of the journal; a registry read failure inside a
   recovery (`src/apps/M4xInstaller.cpp:436`).
2. Home pages that publish to two stores and give up when a reader is inside;
   `UiSceneActionQueue` as a bounded queue with wrapping indexes.
3. Power manager, memory manager, file transfer.
4. Proofs: the installer on cards that refuse renames, without cuts; the half of
   `ShownIsCurrent` about schemas on the cards only model-checked so far.

## 6. Where the code and its comments disagree

Each of these is a violation run whose counterexample is a behaviour of the
code.

- `journal_backup_lost`: promoting a whole tmp runs the ordinary save, which
  begins by removing that tmp. With refused renames and two power cuts the bak
  goes too (`src/apps/M4xInstallJournal.cpp:157`, against the comments at 150
  and 232).
- `install_timeout`: after 60 s the list recovers the install its worker still
  runs (`AppInstallActivity.cpp:139`).

The models reach more, for which there is no run; each is shown by giving the
named definition to TLC with the constants that allow it.

- A journal file that exists but could not be read counts as absent, and the
  next save replaces it (`M4xInstallJournal.cpp:212`, against 387-391):
  `RecordsKept` without its restriction on reads.
- A registry primary that cannot be read is overwritten with the older bak
  (`M4xRegistry.cpp:122`); and a save that follows a heal that failed removes the
  only whole file, the bak, before it has another (`M4xRegistry.cpp:163`).
- `forceFlush` at the end of a download ignores a failed write, so a body cut
  short on a full card gets its marker (`M4xProgressiveLoader.h:139`), although
  `docs/M4_NATIVE_APP_FRAMEWORK.md` says that a partial file must never be treated
  as a complete chapter: `ProgressiveLoader!PartialNeverComplete`.
- Two navigations in one pass free an activity that is still on the call stack
  (`src/main.cpp:417`): `ActivityStack!StackAlive`.
- When both renames and removals fail, a chapter copied over a body whose marker
  could not be removed is trusted after a cut (`M4NativeProviderIo.cpp:437`):
  `CachedIsWhole` on such a card.
- Installing the installed version again makes "the registry lists the new
  version" true before the switch; a cut after the quarantine lets the recovery
  delete the only copy (`src/apps/M4xInstallTxn.h:108`, against 107): `CopyKept`
  with `Env = {"reinstall"}` and two cuts.
- A page entered again while its discovery commits runs the pair's recovery
  against that commit: rows of an older schema end up beside the new metadata and
  are shown as fresh, against
  `src/apps/native/M4NativeAppControllerFactory.cpp:416-417`: the second half of
  `ShownIsCurrent` without its guard, on the card with `"reenter"`.
- A start while the page indexes, or over a Ready it has not seen, has its answer
  swallowed or wiped (lines 398 and 500-501 there): offsets of the old rows are used
  on the new ones, without any fault: `OffsetsMatch` without `~page.behind`. WeRead's
  page makes such a start by itself when it is entered
  (`NativeAppActivity.cpp:131-141`).
- The pair is not one transaction on a card that fails in more ways than the
  passing run's (`M4NativeProviderIo.h:22`): reads that fail with one cut have rows of
  an older schema shown as fresh, removals that fail with renames break
  `OffsetsMatch`, removals that fail with reads break both halves of `ShownIsCurrent`.
- A bak that could not be removed makes the next upgrade's rename of `live` fail, so
  `live` is copied over it (`M4xInstaller.cpp:365-367`); a cut during that copy leaves
  a torn bak whose entry is there, which is all `bakProvenUsable` looks at, and the
  recovery replaces the good `live` by it, against "Prove bak is usable before
  touching live" (line 446): `CopyKept` with `MaxVersion = 3` and a card with
  `"remove"` and one cut. With failing registry saves beside it, a half-removed
  `live` is listed: `EntryMatchesLive`.
- Options of `Env` and `Fates` in the installer: an uninstall cut between its
  steps whose leftovers a later first install's recovery lists as the new
  version (`"partialUninstall"`); a retained record that a new install replaces
  (`"retry"` with a failing registry); a first install promoted by copy and cut
  half-way (a card with `"rename"` and one cut). All three break
  `EntryMatchesLive`.

## 7. Not modelled

The table of section 1 and `PROJECT.json` give the reason for each part. In
short: parsing, layout, drawing and drivers are data transformation or hardware;
HTTP and OTA are calls into vendor code, present in the models as a request that
ends, breaks or times out. In the modelled parts the contents of manifests,
hashes and permissions are abstracted (a package is accepted or refused before
`install` begins), and these are left out: the provider's heavy gate, login
branch, registration of books and reading progress; of the shelf, categories, the
login screens and the reading of single rows; the book detail's jump straight to
reading (`autoStartReading`); the branch of
`queueOpen` for native providers, which the book screens replace; the Lua API
beyond what a call may do to the session, the loader and the scene;
`M4NetworkOccupancy`, owner bits that callbacks of one task set, clear and read,
left with the file transfer service; boot, sleep
and the serial commands of `main.cpp`. A child entered by the owner after the
display task closed its predecessor for the exit, and the use of a child freed
inside its own `onEnter`, are behaviours of `AppRuntime` that no property
forbids: the hazards list names them.
