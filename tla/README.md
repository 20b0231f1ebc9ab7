# Verification of wiiuromm

TLA+ models of the RomM client for Wii and Wii U, the TLC runs that check them
and the TLAPS proofs about them. Paths such as `core/app_core.cpp` are relative
to `src/`. `PROJECT.json` lists components, runs, the source lines of every
definition, hazards, findings and theorems.

## The system

One process, one main loop per console. A frame reads the controllers, applies
at most one action to the record `Status`, advances startup or the ROM index,
advances downloads and draws. Only the Wii has a second thread, which fetches
ROM lists.

| Component | State | Operations | Hard behaviour | What makes it correct |
| --- | --- | --- | --- | --- |
| State machine, `core/app_core.cpp` | `Status`: screen and remembered screens, selections, filter, queue, history, worker flags | `applyAction` (12 actions on 8 screens), `tickDownload` | queue edited under the worker's index; pause; overlay screens; sorting | the index names the active item; no ROM twice; selections in range; Back ends; no tick is lost, no waiting ROM is overtaken |
| Controls, `core/control_schema.cpp` and both main files | keys held in the frame before | keys of three controllers and a pointer to one action | held keys, two sources of edges, a pointer that shares A with a key | a key acts once |
| Configuration, `core/config.cpp` | `AppConfig` | defaults, overrides, validation | an override that fails half-way is used all the same | no startup that waits for the impossible |
| HTTP get and RomM client, `core/http_client.cpp`, `core/api_client.cpp` | none | request, answer, objects and fields of a page | truncated answers, fields found by first match, two rules for the next page | lists are whole |
| Startup with platform filter, `core/runtime_sync.cpp` | stage, page, retry count and delay | one stage step per frame | transient errors in the middle of paging; keys during startup | the catalog is whole; startup ends |
| ROM lists on the main loop, `core/runtime_sync.cpp` | indexed platforms; page, guard, platform of an index | blocking (Wii U), a page per frame (Wii without a thread) | partial lists, guard, completion under a user who moved on | a list that is shown is whole and not replaced |
| ROM index worker, `wii/source/main.cpp` | record shared under a mutex, thread locals | queue, poll, stop; fetch in the thread | interleaving; results dropped or overwritten; stop during a fetch | whole results, no double fetch, answered requests, clean end |
| Real download loop, `core/runtime_sync.cpp` | queue, loop position | one walk through the queue, blocking the frame | erasing while iterating; one failure of several | loses nothing, tries everything, returns |
| Transfer, `core/downloader.cpp`, `core/http_client.cpp` | attempt, status, bytes, output file | `runDownloadQueue`, `streamGet` | retries, error pages, broken connections, full card, power loss | what is reported complete is a ROM; failure leaves no file that the card lets go; attempts bounded |
| Persistence and resume planner, `core/persistence.cpp` | snapshot of the queue, manifests, part files | save, load, plan | writes that break off; dedupe over two files; overlapping parts | no ROM twice; resume behind whole bytes |
| Logger, `core/logger.cpp` | log file, its predecessor, byte count | write, rotate | a card that refuses operations; a count that wraps | files stay bounded |

Interaction is by call, on the shared `Status`: main loop -> `applyAction`,
`stepStartupSync`, `runRealDownloads` -> `runDownloadQueue` -> `streamGet`, which
calls back into the downloader and that into the queue item. The Wii's worker
shares only its record, under one mutex.

## Modules

| Module | Extends, instantiates | Models |
| --- | --- | --- |
| `Positions` | | what a loop that copies or erases some elements of a list leaves of it |
| `AppCore` | `Positions` | `Status`, one variable per field; `Select`, `OpenQueue`, `RemoveSelectedQueueItem`, ... are the handlers of `applyAction`; `TickDownload` is `tickDownload` |
| `DownloadLifecycle` | | abstract: the life of every ROM (absent, waiting, fetching, failed, done) and the worker's promise |
| `HttpGet` | | the error a `get` ends with, from the address, the step that breaks and the status |
| `ApiClient` | `Positions` | a body of an answer to entries and the next page: `PlatformsPage`, `RomsPage` |
| `Config` | `HttpGet` | defaults, `ApplyEnvOverrides`, `ValidateConfig` |
| `PlatformFilter` | `Positions` | `FilteredBy`: the wanted platforms of a list, by name or by the words of the pre-Wii rule |
| `Controls` | `AppCore` | button maps, edges of held keys, pointer and two controllers to one action, the UI reset |
| `StartupSync` | `Controls`, `Config`, `ApiClient`, `PlatformFilter` | both programs up to the first list: `stepStartupSync`, one action per stage and outcome, between key presses |
| `SyncRomIndex` | `AppCore`, `ApiClient` | ROM lists fetched by the main loop: within one frame, or begun by a Select and a page per frame |
| `CatalogContract` | | abstract: a list is known as a whole, only known lists are shown, an open list is not replaced |
| `RealDownloads` | `SyncRomIndex` | the Wii U loop: `Frame` with the blocking index, then `SkipItem`, `BeginItem`, `ItemCompleted`, `ItemFailed`, `Return` of `runRealDownloads` |
| `RomIndexWorker` | | the thread and the record; one action per critical section |
| `WiiMain` | `RealDownloads`, `Controls`, `RomIndexWorker` | the Wii frame: `Point`, `Press`, `Poll`, downloads; worker steps in between, or the synchronous index where the thread could not be created |
| `Downloader` | | `runDownloadQueue` with `streamGet`: request, attempt, connect, body, verdict |
| `FetchContract` | | abstract: what a caller may rely on of `runDownloadQueue` |
| `ResumePlan` | | part files, `PlanResume`, and byte by byte what a plan has to be |
| `QueueStore` | `AppCore` | what saves and loads of queue and manifests make of card and `Status` |
| `Logger` | | the sizes of the two log files under every operation of the logger |
| `CardFiles` | `QueueStore`, `ResumePlan`, `Logger` | sessions over one card, power losses between and during writes |
| `AppCoreProofs`, `LifecycleProofs`, `RomIndexWorkerProofs`, `DownloaderProofs`, `StartupSyncProofs` | the module proved about | theorems |
| `LoopProofs`, `CardFilesProofs` | `WiiMain` with `RealDownloads`, `CardFiles`; `AppCoreProofs` | theorems about compositions |
| `Induction` | `Positions` | lemmas for all of them: numbers, folds, kept positions, concatenation |

Conventions. Indices are 0-based as in the code, sequences 1-based, so item `i`
is `s[i + 1]`. A handler that returns without an effect is no step. Definitions
marked "Variant" are not part of a specification: each is a plausible mistake
in the definition after it, named in `PROJECT.json` under "mutants" together
with the property that it breaks.

Abstractions. Texts, counters that are only displayed, and layout are left
out. A ROM is an id whose title rank and size are constants; a search term is
the set of ROMs it hits. Percent are units up to `Full`. A JSON object is the
sequence of its fields in textual order, because the code finds fields by the
first match of a regular expression; a text is known to the filter by the words
it contains. The worker counts the pages of a list, which `SyncRomIndex` makes
of the server's list by the rules of `ApiClient`; bytes are counted in chunks. Each
network or file operation answers with any of the outcomes that the code tells
apart. The Wii's pointer selects any row that is on the screen. A manifest is
smaller than a sector and so is empty or whole. A row of the snapshot is a whole
item; the URL that the code does not write with it (see Findings) is in no model.

## Runs

| Run | Question | Bounds and why they are enough |
| --- | --- | --- |
| `queue` | Does the worker's index survive every edit of the queue, is no ROM fetched twice, does every step implement `DownloadLifecycle`, is every tick of use and the order of service kept? | 3 ROMs (one before, one at and one after any index), one of them large so that it times out once; `Full` 3, so that pauses and edits fall between ticks; retries make the schedule infinite; ticks of 16 ms (below the minimum step), 20479 ms (the largest step) and 20480 ms (where the step wraps to 0) |
| `screens` | Does Back ever run in a circle, do selections, rows and the open detail hold under filter and sort? | all 12 actions, 2 platforms with 2 ROMs of equal title and 1 ROM, 2 search terms that hit by title and by platform: each overlay is opened from every screen, lists are erased from, filtered and sorted under each selection |
| `transfer` | What does a call of `runDownloadQueue` leave behind? | 2 files, 1 retry, up to 2 chunks; known and unknown sizes, missing URL; a card that refuses any write or removal; power loss anywhere |
| `real_downloads` | Is a list whole before it opens on the Wii U, and does the blocking loop lose, double or miss an item? | a list of 5 objects, 2 to a page, without `next_page`: a page that is full only with an object without id, and a last one beyond the guard of 2; errors at every page; up to 3 ROMs in the queue with any outcome of any transfer |
| `rom_index` | Is the worker right whatever the main loop does? | 3 platforms of 1, 2 and 3 pages, the last beyond the guard of 2 |
| `wii_main` | Do loop, worker or synchronous index, and downloads work together? | 2 platforms with 2 pages and 1 page, 7 keys, pointer, UI reset, with and without the thread |
| `startup` | Is the catalog whole and never empty, does startup end, do keys interfere? | both consoles; 4 servers (1 page, 2 pages, a page beyond the guard of 2, a list at the root; a nested or missing id, a slug or none); 5 environments (none, https, an empty host after an empty first variable, one that does not parse, out of range numbers); 2 retries with a delay that grows; each request breaks at each step |
| `card_files` | Is what survives a power loss taken up right? | 2 ROMs, one worker step per download, every prefix of a snapshot with and without a torn row; 6 part files that overlap, contain one another, touch, leave a hole, are empty or misnamed; lines of 2 and 4 units against a limit of 4, so that a line fits only alone or never |
| `started_settle`, `write_error`, `wii_shown`, `family_fallback` | expected violations, see Findings | |

The numbers of the code (256 pages, 64 pages, 3 retries of 30 frames, 100
percent, 255 attempts, 20000 MB, 4 and 7 rows, 512 KB of log, 2^32) are constants
of the modules with small values in the runs; only `LargeRomMb` keeps its value.
Saturation of the attempt counter is reached with 2 (1 where only the real
downloads run, which do not count attempts), the page guards with 2, the wrap of
the log's count with 16.

Fairness. `queue` and `screens` assume none. The main loops call `tickDownload` only
while there is nothing to download, before startup has ended and after it has failed
(source/main.cpp:355, wii/source/main.cpp:2218); with a queue it is the tests that
call it. So no property says that a download ends. Two say instead that only a lack of
ticks, a pause or Quit can keep it from ending: in every state in which a worker runs
unpaused, a tick settles a ROM or fetches more of one (`TicksSettle`); and while a
ROM waits, nobody gets in front of it and nobody in front goes back in a bounded number of turns
(`WaitingIsFair`), whatever the user retries, removes and re-adds.
`TicksSettle` speaks of ticks shorter than `WrapMs`, 20480 ms: the step is stored in
a `uint8_t`, so a tick of that length is lost, but no caller passes one.
`transfer` and `real_downloads`: the steps of a running call are taken, that is, socket and
file operations return. The sockets have no timeout, so this is an assumption
about the server and not a fact of the code. `rom_index`, `wii_main`: the
thread is scheduled, the main loop goes on, the join is waited for.
`startup`: frames follow one another. `rom_index` does not check for
deadlock, because the worker ends.

What the refinements say. `ImplementsLifecycle`: every step of `AppCore` is a
step or a stutter of `DownloadLifecycle`. `KeepsContract`: `Downloader` implements
`FetchContract`. `ImplementsCatalog` and `WiiImplementsCatalog`: both main loops
implement `CatalogContract`, a list counting as known when it is as long as the
page guard lets it become (on the Wii with its thread: all of it, because the
thread calls the guard a failure). `UsesWorkerAsSpecified`: the Wii main loop
uses the worker only in the ways `RomIndexWorker` allows.

Composition. `StartupSync` ends where `WiiMain` and `RealDownloads` begin. These
start from the initial `Status` with the platform list open. On the Wii the keys
pressed during startup may have left other remembered screens; from those
`screens` shows that Back still leads home.

## What is proved

Every safety and every action property of the passing runs, and every refinement, is
also a theorem, for every value of the constants; of `TicksSettle`, which says ENABLED,
the part that is not about ENABLED.

- `AppCoreProofs`, for any catalog, inputs and tick length. The queue: `TypeCorrect`,
  `WorkerCorrect`, `NoDuplicates` and, from them, the action property `PauseIsKept`.
  None of the three invariants is inductive alone. `ClearPendingAndFailed` takes items
  out by a condition and is only well typed because an idle queue holds nothing but
  pending and failed items, which is `WorkerConsistent`; that needs the types; and a ROM
  that is not in the queue may be enqueued only because everything in the history is
  completed (`CompletedMoves`). `IInv` joins them; `InitInvariant` and `StepInvariant`
  are its two halves, one step per handler. The screens: `SelectionsFit` and
  `EveryRowIsOneRom` rest on the rows being a permutation of the filtered list. The
  comparators of the three sort orders break ties down to the position in the list, so
  they are strict total orders (`StrictOrder`) and every row has a rank of its own.
  `DetailIsKept` follows for a step between two such states. `BackGetsHome` needs
  `ScreensRemembered`: which screens each of the three remembered screens can name.
- `LifecycleProofs`: `AppCoreKeepsLifecycle`, that every step of `AppCore` is a step or
  a stutter of `DownloadLifecycle`. Positions mean nothing to the contract, so the
  argument speaks of the set of items of a queue (`ItemsOf`): by the invariant a ROM has
  at most one item and none once it is in the history, so its stage is the state of that
  item (`StageOfItem`), and who keeps the item keeps the stage (`StageKept`). There is
  one lemma per handler; a tick is one contract step although it settles a ROM, moves it
  and begins the next (`SettleStep`). `WaitingStaysFair`: nobody overtakes a ROM that
  waits. Every handler makes a move of the queue that keeps the order of who was there
  before and puts nobody's turn back (`QuietMove`); the worker then begins the first
  pending item, which is in front of all that go on waiting (`BeginIsFair`). That turns
  end needs how many attempts an item in its state can have made (`AllFit`), which is
  inductive with `IInv`; the hypothesis `MaxAttempts > 1` is needed because a counter
  that saturates at 1 takes every attempt for a first one, and a large ROM would time
  out for ever. `TickGetsNearer`: from every state of `IInv`, a tick below `WrapMs`
  settles a ROM and opens none, or fetches more of the active one.
- `RomIndexWorkerProofs`, for any platforms, page counts and page guard:
  `WorkerTypeCorrect`, `ResultsAreWhole`, `RecordIsTrue`, `NoDoubleFetch`,
  `MutexOutlivesThread`. `WorkerInvariant` joins them with `FetchedInBounds`, which
  makes "no more pages" the same as "all pages". That a publication does not collide
  with a waiting request needs the truth of the record; that the record stays true needs
  the mutex to outlive the thread.
- `LoopProofs`, about both main loops, for any catalog, page size and answers.
  - Downloads: `RealNoDuplicates`, `RunKeepsEveryRom`, `RunReachesEveryRom`, and on the
    Wii `WiiNoDuplicates`, `WiiRunReachesEveryRom`. `IInv` fails here, because an item
    can stay Downloading behind a run (see Findings). `QueueSound` is what is left of it
    without the worker; `Walked` adds that everything behind the position of the loop
    has been tried, which is what an erase followed by no increment keeps true.
  - Screens: `IndexingIsUnseen`. `WiiInvariant` joins the queue with which screens can
    be returned to while an index is under way.
  - The worker inside the loop: `WiiKeepsWorkerContract` (every step of the loop is a
    step of `RomIndexWorker` or leaves its record alone), and so `WiiWorkerIsSound`, the
    worker's own theorems carried over.
  - Lists: `RealKeepsCatalog` and `WiiKeepsCatalog`. First `PagesReach`: n pages,
    fetched by the rules of `ApiClient` from `RomsBody`, are the first n * `PageLimit`
    objects of the server's list without those that have no id, by induction on n. Hence
    what is marked indexed is whole (`RealWhole`, `WiiWhole`) and known lists are the
    indexed ones; a page-by-page index in progress holds the pages so far
    (`IndexUnderWay`); and every list that Back or the end of a run can bring up is
    indexed (`CatalogShown`, which needs `ListReachable`: to speak of the list on the
    screen alone is not inductive).
- `DownloaderProofs`, for any requests, retry limit (negative ones included) and length
  of bodies: `DownloaderTypeCorrect`, `CompleteIsRom`, `FileBelongsToAttempt`,
  `HopelessIsNotRetried`, `FailuresCleanUp`, and `DownloaderKeepsContract`, that
  every step of a call is a step or a stutter of `FetchContract`. `CallInvariant` adds
  what ties the file to the call: from its opening on it holds what this attempt was
  handed, of the kind its status calls for (`FileFollowsAttempt`); a later attempt finds
  no file, or one that the card refused to remove, and has one try left (`AttemptIsDue`); what is still to be done has not been
  reported (`NothingEarly`, which needs that no call asks for a file twice). The
  contract's state is the rest of the queue; `RestFacts` says what its head and its tail
  are.
- `StartupSyncProofs`, for any server, environment and retry limit: `HopelessUrlsFail`,
  `ScreensBelongToStartup`, `HeldKeysActOnce`, and `CatalogsAreWhole`. The last one
  needs `CatalogInvariant`: the page asked for is the one after those taken, in whatever
  stage a failure or a retry leaves it, and what was found are the platforms of exactly
  those pages.
- `CardFilesProofs`. The queue over restarts, for any saves and power losses:
  `CardInvariantHolds`, `NoDuplicatesAfterRestart`, `RestartedWorkerIsConsistent`.
  `CardInvariant` is weaker than `IInv`, since an idle worker can have items of an
  earlier session that are still Downloading, and adds what the card holds: rows of some
  earlier queue without what was completed (`FilesSound`). A load is a fold over rows;
  its lemmas say what one row more preserves. The resume plan: `PlansAreRight`, for any
  part files. Behind the first n of the sorted chunks what the loop counts is what they
  hold or, once there was a gap, some byte in front of a chunk is in none of them
  (`JoinStep`). The log: `LogIsBounded`, for any line lengths, limit and width of the
  count, as long as limit, header and two lines fit in the count. While the stream is
  good the count is the length of the file (`CountIsTrue`). Once it is bad, nothing
  reaches the file whatever the count does, and only a rotation that starts a fresh file
  makes it good again.
- `Induction` holds what these share: induction on numbers, as sets of numbers instead
  of predicates; the steps of a fold; `KeepPositions` by rank, with one position more
  and over a concatenation; bodies of lists put together.

The models write a filter as `KeepPositions` and a sort by rank, where the standard
`SelectSeq` and `SortSeq` would say the same, because the provers cannot expand these
two.

Assumed: only the ASSUMEs of the modules. Most state the types of the constants;
`ServerAssumption` (each page but the last names its successor, and lists are closed)
and `QueuesAssumption` (no call asks for one file twice) say what the server and the
callers do. TLC evaluates all of them in the runs.

Only model-checked, because fairness and ENABLED are beyond the prover: that a tick is
possible wherever `TicksSettle` promises one, and the liveness properties
`CallReturns`, `RunReturns`, `RequestAnswered`, `RequestBecomesList`, `QuitEnds` and `StartupSettles`. The findings
are counterexamples of TLC, and nothing to prove. That an answer breaks off is an
outcome of the request (`Answer`) and not of the server's list, in the theorems as in
the runs.

## Findings

- `started_settle`: `startDownloads` marks the first pending item Downloading,
  `runRealDownloads` handles only pending ones. The first item of every start is
  passed over and stays Downloading; with one ROM in the queue nothing is ever
  downloaded. Since the loop ends in the frame in which it began, the
  DOWNLOADING screen and pause (README.md:172) cannot be reached in the
  applications either; they are reached by `tickDownload`, which the tests use.
- `write_error`: a full card is reported as an unknown error and retried.
- `wii_shown`: the Wii shows and highlights rows of the unsorted list, Select
  takes rows of the sorted and filtered one.
- `family_fallback`: the filter joins family slug and family name with a blank,
  so the test for missing family metadata is never true. Platforms of a server
  without family fields are dropped, although the comment says that their tokens
  decide, and the Wii's startup ends on the error screen.

Met while reading, without a run: README.md:146 lists `+` among the Quit keys of
the Wii Remote, the code maps it to the updater action, which the Wii Remote's
profile does not have (`Controls`, `WpadMap`); docs/PORT_PLAN.md:26 claims that
the queue is restored on boot, but no application calls `loadQueueState` or
`saveQueueState`. If one did, nothing it restores could be downloaded:
`saveQueueState` (core/persistence.cpp:70-78) does not write `rom.downloadUrl`, so
`runRealDownloads` would fail every loaded item with "Missing download URL". The
downloader ignores the error of every removal (core/downloader.cpp:149, 161, 172): on a
failing card what is left of a failed transfer stays under the name of the ROM, which
`OnlyRefusedFilesStay` allows for that case alone.

Not stated anywhere in the repository and therefore not a finding: on the Wii an
index result that arrives late resets the ROM selection on an open detail screen, and
so does the pointer, there and on an empty queue screen (`PointAtRom`,
`PointAtEmptyQueue`).

## Not modelled, and the plan

- `core/session.cpp` (token preflight), `syncCatalogFromApi` and
  `loadConfigFromFile`: called by tests only, without state, and mostly text.
- Titles, sizes and URLs in the answers of the server, credentials, header
  fields: no decision but `Missing download URL`, which `transfer` has, depends
  on them.
- Rendering, the vendored GUI library, the Python harness and the emulator scripts.
- Out of reach of the models: processor time (the backoff loop), a server that
  changes between two pages, sockets that never return, formats, and the memory
  model below the mutex. All shared accesses of the worker's record are under its
  mutex, so its critical sections are atomic.

Next: the real loops as refinements of a lifecycle of their own, like `DownloadLifecycle` but
with a stage for items that stay Downloading; that a snapshot which no write broke brings
back the queue that was saved; the bounds of attempts and percent of the real loop.
