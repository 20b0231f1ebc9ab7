------------------------------ MODULE AppCore ------------------------------
(***************************************************************************)
(* The application state machine of core/app_core.cpp: the Status record,  *)
(* applyAction (what one logical button press does to it) and tickDownload *)
(* (the simulated download worker).  The tests drive the worker; the main  *)
(* loops call tickDownload only while there is nothing to download, before *)
(* startup has ended and after it has failed.                              *)
(*                                                                         *)
(* Status is one VARIABLE per field.  Indices are 0-based, as in the code; *)
(* sequences are 1-based, so item i of the program is s[i + 1] here.  Left *)
(* out: lastMessage and every other text, the diagnostics counters (they   *)
(* are written and displayed, never read), uiBusy and uiFrameCounter.      *)
(***************************************************************************)
EXTENDS Integers, FiniteSets, Sequences, SequencesExt, Positions

CONSTANTS
  Platform,      \* platform ids
  Rom,           \* ROM ids; an id determines title and size
  Catalog,       \* the platforms a session starts with, in API order
  CatalogRoms,   \* [Platform -> Seq(Rom)], the ROM list of each, in API order
  Title,         \* [Rom -> Nat], position of the title in lexicographic order
  SizeMb,        \* [Rom -> Nat]
  NumTerms,      \* number of search terms (the code has 3: Mario, Zelda, Xeno)
  TitleHits,     \* [1..NumTerms -> SUBSET Rom], title or subtitle has the term
  PlatformHits,  \* [1..NumTerms -> SUBSET Platform], platform name has the term
  Inputs,        \* the actions the user may take, a subset of Actions
  Elapsed,       \* the elapsedMs values tickDownload is called with
  Full,          \* a complete download, 100 percent in the code
  FailAt,        \* where a large ROM times out first, 60 percent in the code
  MaxAttempts    \* saturation of the uint8_t attempt counter, 255 in the code

Actions == {"Up", "Down", "Left", "Right", "Select", "OpenSearch",
            "OpenDiagnostics", "OpenUpdater", "OpenQueue", "Back",
            "StartDownload", "Quit"}

Views == {"PLATFORMS", "ROMS", "DETAIL", "QUEUE", "DOWNLOADING",
          "DIAGNOSTICS", "UPDATER", "ERROR"}

ASSUME CatalogAssumption ==
  /\ Catalog \in Seq(Platform)
  /\ CatalogRoms \in [Platform -> Seq(Rom)]
  /\ Title \in [Rom -> Nat]
  /\ SizeMb \in [Rom -> Nat]
  /\ NumTerms \in Nat
  /\ TitleHits \in [1..NumTerms -> SUBSET Rom]
  /\ PlatformHits \in [1..NumTerms -> SUBSET Platform]

ASSUME InputAssumption ==
  /\ Inputs \subseteq Actions
  /\ Elapsed \subseteq Nat

ASSUME PercentAssumption ==
  /\ Full \in Nat \ {0}
  /\ FailAt \in 1..Full
  /\ MaxAttempts \in Nat \ {0}

VARIABLES
  currentView, prevQueueView, prevDiagnosticsView, prevUpdaterView,
  platforms, roms,
  selectedPlatformIndex, selectedRomIndex, selectedQueueIndex,
  searchQuery,              \* 0 is the empty query, k the k-th search term
  romSort,                  \* 0 TitleAsc, 1 SizeAsc, 2 SizeDesc
  downloadQueue, downloadHistory,
  downloadWorkerRunning, downloadPaused, activeDownloadIndex,
  updaterState, currentVersion,
  keepRunning               \* FALSE once Quit was applied: the main loops break

viewVars      == <<currentView, prevQueueView, prevDiagnosticsView, prevUpdaterView>>
catalogVars   == <<platforms, roms>>
selectionVars == <<selectedPlatformIndex, selectedRomIndex, selectedQueueIndex>>
filterVars    == <<searchQuery, romSort>>
queueVars     == <<downloadQueue, downloadHistory>>
workerVars    == <<downloadWorkerRunning, downloadPaused, activeDownloadIndex>>
updaterVars   == <<updaterState, currentVersion>>

vars == <<viewVars, catalogVars, selectionVars, filterVars, queueVars,
          workerVars, updaterVars, keepRunning>>

QueueStates == {"Pending", "Downloading", "Completed", "Failed"}

QueueItem == [rom: Rom, state: QueueStates, progress: 0..Full, attempts: 0..MaxAttempts]

Item(r, state, progress, attempts) ==
  [rom |-> r, state |-> state, progress |-> progress, attempts |-> attempts]

AvailableVersion == "0.2.0"

-----------------------------------------------------------------------------
(* Initial state: makeDefaultStatus, with the catalog a session browses.   *)

InitStatus ==
  /\ currentView = "PLATFORMS"
  /\ prevQueueView = "PLATFORMS"
  /\ prevDiagnosticsView = "PLATFORMS"
  /\ prevUpdaterView = "PLATFORMS"
  /\ selectedPlatformIndex = 0
  /\ selectedRomIndex = 0
  /\ selectedQueueIndex = 0
  /\ searchQuery = 0
  /\ romSort = 0
  /\ downloadQueue = <<>>
  /\ downloadHistory = <<>>
  /\ downloadWorkerRunning = FALSE
  /\ downloadPaused = FALSE
  /\ activeDownloadIndex = -1
  /\ updaterState = "Idle"
  /\ currentVersion = "0.1.0"
  /\ keepRunning = TRUE

Init ==
  /\ InitStatus
  /\ platforms = Catalog
  /\ roms = CatalogRoms

-----------------------------------------------------------------------------
(* The ROM list the user sees.                                             *)

\* clampIndex: idx brought into 0..n-1, and 0 for an empty list of n = 0.
ClampIndex(idx, n) ==
  IF n = 0 \/ idx < 0 THEN 0 ELSE IF idx > n - 1 THEN n - 1 ELSE idx

SelectedPlatform == platforms[ClampIndex(selectedPlatformIndex, Len(platforms)) + 1]

SelectedList == IF platforms = <<>> THEN <<>> ELSE roms[SelectedPlatform]

\* The positions of the selected platform's list that pass the search filter.
VisibleRoms(query) ==
  {i \in DOMAIN SelectedList :
     query # 0 => SelectedList[i] \in TitleHits[query]
                  \/ SelectedPlatform \in PlatformHits[query]}

\* Variant: no tie-break by position.
TitleBeforeNoTieBreak(i, j) == Title[SelectedList[i]] < Title[SelectedList[j]]

\* The comparators of visibleRomIndices: by title, or by size and then title,
\* and by position in the list when the titles are equal.
TitleBefore(i, j) ==
  LET a == Title[SelectedList[i]]  b == Title[SelectedList[j]]
  IN  a < b \/ (a = b /\ i < j)

ShownBefore(i, j, sort) ==
  LET a == SizeMb[SelectedList[i]]  b == SizeMb[SelectedList[j]]
  IN  CASE sort = 0 -> TitleBefore(i, j)
        [] sort = 1 -> a < b \/ (a = b /\ TitleBefore(i, j))
        [] OTHER    -> a > b \/ (a = b /\ TitleBefore(i, j))

\* The 0-based row at which list position i is shown under a sort mode.
RowOf(i, sort) ==
  Cardinality({j \in VisibleRoms(searchQuery) : ShownBefore(j, i, sort)})

\* selectedRom returns ROM r: the visible ROM on the (clamped) selected row.
SelectsRom(r) ==
  \E i \in VisibleRoms(searchQuery) :
    /\ RowOf(i, romSort) = ClampIndex(selectedRomIndex, Cardinality(VisibleRoms(searchQuery)))
    /\ r = SelectedList[i]

NoRomVisible == VisibleRoms(searchQuery) = {}

-----------------------------------------------------------------------------
(* Up, Down: moveSelection.                                                *)

\* Variant: the queue screens move the ROM selection along.
MoveSelectionEverywhere(delta) ==
  /\ selectedRomIndex' = ClampIndex(selectedRomIndex + delta,
                                    Cardinality(VisibleRoms(searchQuery)))
  /\ selectedQueueIndex' = ClampIndex(selectedQueueIndex + delta, Len(downloadQueue))
  /\ UNCHANGED <<viewVars, catalogVars, selectedPlatformIndex, filterVars, queueVars, workerVars,
                 updaterVars, keepRunning>>

MoveSelection(delta) ==
  /\ \/ /\ currentView = "PLATFORMS"
        /\ selectedPlatformIndex' = ClampIndex(selectedPlatformIndex + delta, Len(platforms))
        /\ selectedRomIndex' = 0
        /\ UNCHANGED selectedQueueIndex
     \/ /\ currentView = "ROMS"
        /\ platforms # <<>>
        /\ selectedRomIndex' = ClampIndex(selectedRomIndex + delta,
                                          Cardinality(VisibleRoms(searchQuery)))
        /\ UNCHANGED <<selectedPlatformIndex, selectedQueueIndex>>
     \/ /\ currentView \in {"QUEUE", "DOWNLOADING"}
        /\ selectedQueueIndex' = ClampIndex(selectedQueueIndex + delta, Len(downloadQueue))
        /\ UNCHANGED <<selectedPlatformIndex, selectedRomIndex>>
  /\ UNCHANGED <<viewVars, catalogVars, filterVars, queueVars, workerVars, updaterVars, keepRunning>>

-----------------------------------------------------------------------------
(* Left, Right on the ROM list: cycleSort.  OpenSearch: cycleSearchQuery.  *)

\* Variant: no wrap-around.
CycleSortOpenEnded(delta) ==
  /\ currentView = "ROMS"
  /\ romSort' = romSort + delta
  /\ selectedRomIndex' = ClampIndex(selectedRomIndex, Cardinality(VisibleRoms(searchQuery)))
  /\ UNCHANGED <<viewVars, catalogVars, selectedPlatformIndex, selectedQueueIndex, searchQuery,
                 queueVars, workerVars, updaterVars, keepRunning>>

CycleSort(delta) ==
  /\ currentView = "ROMS"
  /\ romSort' = (romSort + delta) % 3
  /\ selectedRomIndex' = ClampIndex(selectedRomIndex, Cardinality(VisibleRoms(searchQuery)))
  /\ UNCHANGED <<viewVars, catalogVars, selectedPlatformIndex, selectedQueueIndex, searchQuery,
                 queueVars, workerVars, updaterVars, keepRunning>>

CycleSearchQuery ==
  /\ currentView = "ROMS"
  /\ searchQuery' = (searchQuery + 1) % (NumTerms + 1)
  /\ selectedRomIndex' = 0
  /\ UNCHANGED <<viewVars, catalogVars, selectedPlatformIndex, selectedQueueIndex, romSort,
                 queueVars, workerVars, updaterVars, keepRunning>>

-----------------------------------------------------------------------------
(* Left on the queue: removeSelectedQueueItem.  Right: clearPendingAndFailed. *)

\* Variant: no clamp after an erase.
SelectionKeptAfterErase(newQueue) == selectedQueueIndex

\* The queue selection after the queue became newQueue by an erase.
SelectionAfterErase(newQueue) ==
  IF selectedQueueIndex >= Len(newQueue)
  THEN IF newQueue = <<>> THEN 0 ELSE Len(newQueue) - 1
  ELSE selectedQueueIndex

\* Variant: the active index does not follow the erase.
RemoveWithoutReindex ==
  LET idx == ClampIndex(selectedQueueIndex, Len(downloadQueue))
      rest == RemoveAt(downloadQueue, idx + 1)
  IN  /\ currentView = "QUEUE"
      /\ downloadQueue # <<>>
      /\ ~(downloadWorkerRunning /\ idx = activeDownloadIndex)
      /\ downloadQueue' = rest
      /\ selectedQueueIndex' = SelectionAfterErase(rest)
      /\ UNCHANGED <<viewVars, catalogVars, selectedPlatformIndex, selectedRomIndex, filterVars,
                     downloadHistory, workerVars, updaterVars, keepRunning>>

RemoveSelectedQueueItem ==
  LET idx == ClampIndex(selectedQueueIndex, Len(downloadQueue))
      rest == RemoveAt(downloadQueue, idx + 1)
  IN  /\ currentView = "QUEUE"
      /\ downloadQueue # <<>>
      /\ ~(downloadWorkerRunning /\ idx = activeDownloadIndex)
      /\ downloadQueue' = rest
      /\ activeDownloadIndex' = IF activeDownloadIndex > idx THEN activeDownloadIndex - 1
                                                             ELSE activeDownloadIndex
      /\ selectedQueueIndex' = SelectionAfterErase(rest)
      /\ UNCHANGED <<viewVars, catalogVars, selectedPlatformIndex, selectedRomIndex, filterVars,
                     downloadHistory, downloadWorkerRunning, downloadPaused, updaterVars, keepRunning>>

\* Variant: clearing is not refused while the worker runs.
ClearWhileRunning ==
  LET kept == KeepPositions(downloadQueue,
                {i \in DOMAIN downloadQueue : downloadQueue[i].state \notin {"Pending", "Failed"}})
  IN  /\ currentView = "QUEUE"
      /\ downloadQueue' = kept
      /\ selectedQueueIndex' = ClampIndex(selectedQueueIndex, Len(kept))
      /\ UNCHANGED <<viewVars, catalogVars, selectedPlatformIndex, selectedRomIndex, filterVars,
                     downloadHistory, workerVars, updaterVars, keepRunning>>

ClearPendingAndFailed ==
  LET kept == KeepPositions(downloadQueue,
                {i \in DOMAIN downloadQueue : downloadQueue[i].state \notin {"Pending", "Failed"}})
  IN  /\ currentView = "QUEUE"
      /\ ~downloadWorkerRunning
      /\ downloadQueue' = kept
      /\ selectedQueueIndex' = ClampIndex(selectedQueueIndex, Len(kept))
      /\ UNCHANGED <<viewVars, catalogVars, selectedPlatformIndex, selectedRomIndex, filterVars,
                     downloadHistory, workerVars, updaterVars, keepRunning>>

-----------------------------------------------------------------------------
(* Select: one operation per screen.                                       *)

OpenRomList ==
  /\ currentView = "PLATFORMS"
  /\ platforms # <<>>
  /\ currentView' = "ROMS"
  /\ selectedRomIndex' = 0
  /\ UNCHANGED <<prevQueueView, prevDiagnosticsView, prevUpdaterView, catalogVars,
                 selectedPlatformIndex, selectedQueueIndex, filterVars, queueVars, workerVars,
                 updaterVars, keepRunning>>

OpenRomDetail ==
  /\ currentView = "ROMS"
  /\ ~NoRomVisible
  /\ currentView' = "DETAIL"
  /\ UNCHANGED <<prevQueueView, prevDiagnosticsView, prevUpdaterView, catalogVars, selectionVars,
                 filterVars, queueVars, workerVars, updaterVars, keepRunning>>

\* Variant: the history is not consulted.
ExistsInQueueOnly(r) == \E i \in DOMAIN downloadQueue : downloadQueue[i].rom = r

\* existsInQueueOrCompletedHistory
ExistsInQueueOrCompletedHistory(r) ==
  \/ \E i \in DOMAIN downloadQueue : downloadQueue[i].rom = r
  \/ \E i \in DOMAIN downloadHistory :
        downloadHistory[i].rom = r /\ downloadHistory[i].state = "Completed"

NewItem(r) == Item(r, "Pending", 0, 0)

\* enqueueSelectedRom; a duplicate or an empty list leaves DETAIL as it is.
EnqueueSelectedRom ==
  /\ currentView = "DETAIL"
  /\ \E r \in Rom :
       /\ SelectsRom(r)
       /\ ~ExistsInQueueOrCompletedHistory(r)
       /\ downloadQueue' = Append(downloadQueue, NewItem(r))
  /\ selectedQueueIndex' = Len(downloadQueue)
  /\ prevQueueView' = "DETAIL"
  /\ currentView' = "QUEUE"
  /\ UNCHANGED <<prevDiagnosticsView, prevUpdaterView, catalogVars, selectedPlatformIndex,
                 selectedRomIndex, filterVars, downloadHistory, workerVars, updaterVars, keepRunning>>

\* Variant: the attempts are counted afresh.
RetryForgetsAttempts ==
  LET pos == ClampIndex(selectedQueueIndex, Len(downloadQueue)) + 1
  IN  /\ currentView = "QUEUE"
      /\ downloadQueue # <<>>
      /\ downloadQueue[pos].state = "Failed"
      /\ downloadQueue' = [downloadQueue EXCEPT ![pos] = NewItem(@.rom)]
      /\ UNCHANGED <<viewVars, catalogVars, selectionVars, filterVars, downloadHistory, workerVars,
                     updaterVars, keepRunning>>

\* Variant: any selected item is made pending again.
RetryAnySelected ==
  LET pos == ClampIndex(selectedQueueIndex, Len(downloadQueue)) + 1
  IN  /\ currentView = "QUEUE"
      /\ downloadQueue # <<>>
      /\ downloadQueue' = [downloadQueue EXCEPT ![pos] = Item(@.rom, "Pending", 0, @.attempts)]
      /\ UNCHANGED <<viewVars, catalogVars, selectionVars, filterVars, downloadHistory, workerVars,
                     updaterVars, keepRunning>>

RetrySelectedFailed ==
  LET pos == ClampIndex(selectedQueueIndex, Len(downloadQueue)) + 1
  IN  /\ currentView = "QUEUE"
      /\ downloadQueue # <<>>
      /\ downloadQueue[pos].state = "Failed"
      /\ downloadQueue' = [downloadQueue EXCEPT ![pos] = Item(@.rom, "Pending", 0, @.attempts)]
      /\ UNCHANGED <<viewVars, catalogVars, selectionVars, filterVars, downloadHistory, workerVars,
                     updaterVars, keepRunning>>

\* runUpdaterCheck: Checking is left again before the handler returns.
RunUpdaterCheck ==
  /\ updaterState' = IF currentVersion = AvailableVersion THEN "Applied" ELSE "Available"
  /\ UNCHANGED currentVersion

UseUpdater ==
  /\ currentView = "UPDATER"
  /\ \/ updaterState = "Idle" /\ RunUpdaterCheck
     \/ updaterState = "Available" /\ updaterState' = "Applied" /\ currentVersion' = AvailableVersion
  /\ UNCHANGED <<viewVars, catalogVars, selectionVars, filterVars, queueVars, workerVars, keepRunning>>

Select ==
  \/ OpenRomList
  \/ OpenRomDetail
  \/ EnqueueSelectedRom
  \/ RetrySelectedFailed
  \/ UseUpdater

-----------------------------------------------------------------------------
(* Changing screens: OpenDiagnostics, OpenUpdater, OpenQueue, Back, Quit.  *)

OpenDiagnostics ==
  /\ currentView = "PLATFORMS"
  /\ prevDiagnosticsView' = currentView
  /\ currentView' = "DIAGNOSTICS"
  /\ UNCHANGED <<prevQueueView, prevUpdaterView, catalogVars, selectionVars, filterVars, queueVars,
                 workerVars, updaterVars, keepRunning>>

OpenUpdater ==
  \/ /\ currentView = "PLATFORMS"
     /\ prevUpdaterView' = currentView
     /\ currentView' = "UPDATER"
     /\ UNCHANGED <<prevQueueView, prevDiagnosticsView, catalogVars, selectionVars, filterVars,
                    queueVars, workerVars, updaterVars, keepRunning>>
  \/ /\ currentView = "UPDATER"
     /\ RunUpdaterCheck
     /\ UNCHANGED <<viewVars, catalogVars, selectionVars, filterVars, queueVars, workerVars,
                    keepRunning>>

\* Variant: every screen is remembered, the queue screens too.
OpenQueueRememberingAny ==
  /\ prevQueueView' = currentView
  /\ currentView' = "QUEUE"
  /\ UNCHANGED <<prevDiagnosticsView, prevUpdaterView, catalogVars, selectionVars, filterVars,
                 queueVars, workerVars, updaterVars, keepRunning>>

OpenQueue ==
  /\ prevQueueView' = IF currentView \in {"QUEUE", "DOWNLOADING"} THEN prevQueueView
                                                                  ELSE currentView
  /\ currentView' = "QUEUE"
  /\ UNCHANGED <<prevDiagnosticsView, prevUpdaterView, catalogVars, selectionVars, filterVars,
                 queueVars, workerVars, updaterVars, keepRunning>>

\* The screen Back leads to from screen v.
BackTarget(v) ==
  CASE v = "DETAIL"      -> "ROMS"
    [] v = "QUEUE"       -> prevQueueView
    [] v = "DOWNLOADING" -> "QUEUE"
    [] v = "DIAGNOSTICS" -> prevDiagnosticsView
    [] v = "UPDATER"     -> prevUpdaterView
    [] OTHER             -> "PLATFORMS"

Back ==
  /\ currentView' = BackTarget(currentView)
  /\ UNCHANGED <<prevQueueView, prevDiagnosticsView, prevUpdaterView, catalogVars, selectionVars,
                 filterVars, queueVars, workerVars, updaterVars, keepRunning>>

Quit ==
  /\ keepRunning' = FALSE
  /\ UNCHANGED <<viewVars, catalogVars, selectionVars, filterVars, queueVars, workerVars, updaterVars>>

-----------------------------------------------------------------------------
(* The download worker.                                                    *)

PendingPositions(q) == {i \in DOMAIN q : q[i].state = "Pending"}

\* beginDownload: what it makes of an item, and of position i of queue q.
Begun(item) ==
  Item(item.rom, "Downloading", IF item.progress = 0 THEN 1 ELSE item.progress,
       IF item.attempts < MaxAttempts THEN item.attempts + 1 ELSE item.attempts)

Began(q, i) == [q EXCEPT ![i] = Begun(q[i])]

\* beginNextPendingDownload when q has a pending item: the first one begins.
BeginFirstPending(q) ==
  \E i \in PendingPositions(q) :
    /\ \A j \in PendingPositions(q) : i <= j
    /\ downloadQueue' = Began(q, i)
    /\ activeDownloadIndex' = i - 1

\* beginNextPendingDownload when q has none: the worker stops, the queue opens.
StopWorker(q) ==
  /\ downloadQueue' = q
  /\ downloadWorkerRunning' = FALSE
  /\ downloadPaused' = FALSE
  /\ activeDownloadIndex' = -1
  /\ currentView' = "QUEUE"

BeginNextPendingDownload(q) ==
  \/ /\ PendingPositions(q) # {}
     /\ BeginFirstPending(q)
     /\ UNCHANGED <<downloadWorkerRunning, downloadPaused, currentView>>
  \/ /\ PendingPositions(q) = {}
     /\ StopWorker(q)

\* Variant: what is Downloading stays so.
RestartableAsItIs(item) ==
  Item(item.rom, item.state,
       IF item.progress >= Full /\ item.state # "Completed" THEN 0 ELSE item.progress,
       item.attempts)

\* startDownloads first makes every interrupted item startable again.
Restartable(item) ==
  Item(item.rom, IF item.state = "Downloading" THEN "Pending" ELSE item.state,
       IF item.progress >= Full /\ item.state # "Completed" THEN 0 ELSE item.progress,
       item.attempts)

StartDownloads ==
  LET q == [i \in DOMAIN downloadQueue |-> Restartable(downloadQueue[i])]
  IN  /\ currentView = "QUEUE"
      /\ downloadQueue # <<>>
      /\ \/ /\ downloadWorkerRunning
            /\ currentView' = "DOWNLOADING"
            /\ UNCHANGED <<downloadQueue, workerVars>>
         \/ /\ ~downloadWorkerRunning
            /\ PendingPositions(q) # {}
            /\ BeginFirstPending(q)
            /\ downloadWorkerRunning' = TRUE
            /\ downloadPaused' = FALSE
            /\ currentView' = "DOWNLOADING"
         \/ /\ ~downloadWorkerRunning
            /\ PendingPositions(q) = {}
            /\ downloadQueue' = q
            /\ UNCHANGED <<workerVars, currentView>>
      /\ UNCHANGED <<prevQueueView, prevDiagnosticsView, prevUpdaterView, catalogVars,
                     selectionVars, filterVars, downloadHistory, updaterVars, keepRunning>>

PauseOrResume ==
  /\ currentView = "DOWNLOADING"
  /\ downloadWorkerRunning
  /\ downloadPaused' = ~downloadPaused
  /\ UNCHANGED <<viewVars, catalogVars, selectionVars, filterVars, queueVars,
                 downloadWorkerRunning, activeDownloadIndex, updaterVars, keepRunning>>

-----------------------------------------------------------------------------
(* tickDownload: one slice of the simulated worker.                        *)

LargeRomMb == 20000

\* Variant: no minimum step, so a 16 ms frame makes no progress.
StepOfShortFrames(elapsedMs) == (elapsedMs \div 80) % 256

\* max(1, elapsedMs / 80), stored in a uint8_t: a tick of WrapMs is a step of 0.
WrapMs == 256 * 80

StepOf(elapsedMs) == (IF elapsedMs \div 80 > 1 THEN elapsedMs \div 80 ELSE 1) % 256

\* The active item, marked Downloading, after progress of one tick.
Ticked(elapsedMs) ==
  LET item == downloadQueue[activeDownloadIndex + 1]
      sum == item.progress + StepOf(elapsedMs)
  IN  Item(item.rom, "Downloading", IF sum > Full THEN Full ELSE sum, item.attempts)

\* A large ROM fails once, late in its first attempt.
SimulatedTimeout(item) ==
  SizeMb[item.rom] >= LargeRomMb /\ item.attempts = 1 /\ item.progress >= FailAt

WithState(item, state) == Item(item.rom, state, item.progress, item.attempts)

TickProgress(item) ==
  /\ ~SimulatedTimeout(item)
  /\ item.progress < Full
  /\ downloadQueue' = [downloadQueue EXCEPT ![activeDownloadIndex + 1] = item]
  /\ UNCHANGED <<currentView, selectedQueueIndex, downloadHistory, workerVars>>

TickFail(item) ==
  /\ SimulatedTimeout(item)
  /\ BeginNextPendingDownload(
       [downloadQueue EXCEPT ![activeDownloadIndex + 1] = WithState(item, "Failed")])
  /\ UNCHANGED <<selectedQueueIndex, downloadHistory>>

TickComplete(item) ==
  LET rest == RemoveAt(downloadQueue, activeDownloadIndex + 1)
  IN  /\ ~SimulatedTimeout(item)
      /\ item.progress >= Full
      /\ downloadHistory' = Append(downloadHistory, WithState(item, "Completed"))
      /\ selectedQueueIndex' = SelectionAfterErase(rest)
      /\ BeginNextPendingDownload(rest)

TickDownload(elapsedMs) ==
  /\ downloadWorkerRunning
  /\ ~downloadPaused
  /\ IF activeDownloadIndex \in 0..(Len(downloadQueue) - 1)
     THEN LET item == Ticked(elapsedMs)
          IN  TickProgress(item) \/ TickFail(item) \/ TickComplete(item)
     ELSE /\ BeginNextPendingDownload(downloadQueue)
          /\ UNCHANGED <<selectedQueueIndex, downloadHistory>>
  /\ UNCHANGED <<prevQueueView, prevDiagnosticsView, prevUpdaterView, catalogVars,
                 selectedPlatformIndex, selectedRomIndex, filterVars, updaterVars, keepRunning>>

-----------------------------------------------------------------------------
(* applyAction and the specification.                                      *)

ApplyAction(a) ==
  \/ a = "Up" /\ MoveSelection(-1)
  \/ a = "Down" /\ MoveSelection(1)
  \/ a = "Left" /\ (CycleSort(-1) \/ RemoveSelectedQueueItem)
  \/ a = "Right" /\ (CycleSort(1) \/ ClearPendingAndFailed)
  \/ a = "Select" /\ Select
  \/ a = "OpenSearch" /\ CycleSearchQuery
  \/ a = "OpenDiagnostics" /\ OpenDiagnostics
  \/ a = "OpenUpdater" /\ OpenUpdater
  \/ a = "OpenQueue" /\ OpenQueue
  \/ a = "Back" /\ Back
  \/ a = "StartDownload" /\ (StartDownloads \/ PauseOrResume)
  \/ a = "Quit" /\ Quit

Tick == keepRunning /\ \E e \in Elapsed : TickDownload(e)

UserAction == keepRunning /\ \E a \in Inputs : ApplyAction(a)

\* The loop that calls both ends after Quit.
Terminated == ~keepRunning /\ UNCHANGED vars

Next == UserAction \/ Tick \/ Terminated

Spec == Init /\ [][Next]_vars

-----------------------------------------------------------------------------
(* Properties.                                                             *)

\* Types of all fields of Status.
TypeOK ==
  /\ currentView \in Views
  /\ prevQueueView \in Views
  /\ prevDiagnosticsView \in Views
  /\ prevUpdaterView \in Views
  /\ platforms \in Seq(Platform)
  /\ roms \in [Platform -> Seq(Rom)]
  /\ selectedPlatformIndex \in Nat
  /\ selectedRomIndex \in Nat
  /\ selectedQueueIndex \in Nat
  /\ searchQuery \in 0..NumTerms
  /\ romSort \in 0..2
  /\ downloadQueue \in Seq(QueueItem)
  /\ downloadHistory \in Seq(QueueItem)
  /\ downloadWorkerRunning \in BOOLEAN
  /\ downloadPaused \in BOOLEAN
  /\ activeDownloadIndex \in Int
  /\ updaterState \in {"Idle", "Available", "Applied"}
  /\ currentVersion \in {"0.1.0", AvailableVersion}
  /\ keepRunning \in BOOLEAN

\* While the worker runs, activeDownloadIndex names the one item that is being
\* downloaded; while it does not, nothing is.  Removal of other items, retries,
\* failures and completions all shift or replace what the index points to.
WorkerConsistent ==
  IF downloadWorkerRunning
  THEN /\ activeDownloadIndex \in 0..(Len(downloadQueue) - 1)
       /\ \A i \in DOMAIN downloadQueue :
            downloadQueue[i].state = "Downloading" <=> i = activeDownloadIndex + 1
  ELSE /\ activeDownloadIndex = -1
       /\ ~downloadPaused
       /\ \A i \in DOMAIN downloadQueue : downloadQueue[i].state # "Downloading"

\* No ROM is ever downloaded twice in a session: a ROM occurs at most once in
\* the queue and the history together (existsInQueueOrCompletedHistory).
NoDuplicateDownloads ==
  /\ \A i, j \in DOMAIN downloadQueue : downloadQueue[i].rom = downloadQueue[j].rom => i = j
  /\ \A i, j \in DOMAIN downloadHistory : downloadHistory[i].rom = downloadHistory[j].rom => i = j
  /\ \A i \in DOMAIN downloadQueue, j \in DOMAIN downloadHistory :
        downloadQueue[i].rom # downloadHistory[j].rom

\* The three selection indices stay inside the lists they index, whichever of
\* sorting, searching, erasing and completing changed those lists.
SelectionInRange ==
  /\ selectedPlatformIndex = ClampIndex(selectedPlatformIndex, Len(platforms))
  /\ selectedRomIndex = ClampIndex(selectedRomIndex, Cardinality(VisibleRoms(searchQuery)))
  /\ selectedQueueIndex = ClampIndex(selectedQueueIndex, Len(downloadQueue))

\* Under every sort mode the comparators of visibleRomIndices put the visible
\* ROMs on distinct rows, so that every row selects exactly one ROM.
RowsAreDistinct ==
  \A sort \in 0..2 : \A i, j \in VisibleRoms(searchQuery) :
     RowOf(i, sort) = RowOf(j, sort) => i = j

\* How many times Back has to be pressed on a screen to reach PLATFORMS.
ScreenDepth(v) ==
  CASE v = "PLATFORMS" -> 0 [] v = "DETAIL" -> 2 [] v \in {"QUEUE", "DOWNLOADING"} -> 4 [] OTHER -> 1

HomeDistance ==
  CASE currentView = "QUEUE"       -> 1 + ScreenDepth(prevQueueView)
    [] currentView = "DOWNLOADING" -> 2 + ScreenDepth(prevQueueView)
    [] OTHER                       -> ScreenDepth(currentView)

\* Back always gets nearer to the platform list: no chain of remembered
\* screens (prevQueueView, prevDiagnosticsView, prevUpdaterView) ever loops.
BackLeadsHome == [][Back => currentView = "PLATFORMS" \/ HomeDistance' < HomeDistance]_vars

\* The screens from which Back leads to the DETAIL screen, and DETAIL itself.
DetailOpen ==
  currentView = "DETAIL" \/ (currentView \in {"QUEUE", "DOWNLOADING"} /\ prevQueueView = "DETAIL")

\* As long as the DETAIL screen is open or can be returned to, it shows the
\* same ROM, the one a further Select would enqueue.
DetailKeepsItsRom ==
  [][DetailOpen /\ DetailOpen' => \A r \in Rom : SelectsRom(r)' = SelectsRom(r)]_vars

\* The active item, as a set of at most one element.
ActiveItem == {downloadQueue[i] : i \in DOMAIN downloadQueue \cap {activeDownloadIndex + 1}}

\* While downloads are paused nothing touches the active item, though the
\* items around it may be removed, added and retried.
PauseHolds ==
  [][downloadPaused /\ downloadPaused' => downloadWorkerRunning' /\ ActiveItem' = ActiveItem]_vars

\* Refinement: the queue with its positions implements the lifecycle of every ROM.
StageOf(r) ==
  LET inQueue == {i \in DOMAIN downloadQueue : downloadQueue[i].rom = r}
  IN  IF \E i \in DOMAIN downloadHistory : downloadHistory[i].rom = r THEN "done"
      ELSE IF inQueue = {} THEN "absent"
      ELSE LET item == downloadQueue[CHOOSE i \in inQueue : TRUE]
           IN  CASE item.state = "Pending"     -> "waiting"
                 [] item.state = "Downloading" -> "fetching"
                 [] item.state = "Failed"      -> "failed"
                 [] OTHER                      -> "done"

Lifecycle == INSTANCE DownloadLifecycle
               WITH stage <- [r \in Rom |-> StageOf(r)], running <- downloadWorkerRunning

\* Every step of the application is a step of DownloadLifecycle or leaves it alone.
ImplementsLifecycle == Lifecycle!Spec

Fetching(r) == \E i \in DOMAIN downloadQueue :
                  downloadQueue[i].rom = r /\ downloadQueue[i].state = "Downloading"

Waiting(r) == \E i \in DOMAIN downloadQueue :
                  downloadQueue[i].rom = r /\ downloadQueue[i].state = "Pending"

\* The ROMs the worker has still to settle.
OpenRoms == {r \in Rom : Fetching(r) \/ Waiting(r)}

\* A step that settles a ROM and opens none, or fetches more of the active one.
GetsNearer ==
  \/ OpenRoms' \subseteq OpenRoms /\ OpenRoms' # OpenRoms
  \/ /\ OpenRoms' = OpenRoms
     /\ activeDownloadIndex' = activeDownloadIndex
     /\ downloadQueue'[activeDownloadIndex + 1].progress
           > downloadQueue[activeDownloadIndex + 1].progress

\* No tick is lost, however short its frame: in every state in which a worker is
\* running and not paused, a tick shorter than the wrap of its step can settle a ROM
\* or fetch more of one.  Nothing is assumed of when tickDownload is called.
TicksSettle ==
  keepRunning /\ downloadWorkerRunning /\ ~downloadPaused =>
    \A e \in Elapsed : e < WrapMs => ENABLED (TickDownload(e) /\ GetsNearer)

\* The ROMs in front of r in the queue.
Ahead(r) ==
  {q \in Rom : \E i, j \in DOMAIN downloadQueue :
     i < j /\ downloadQueue[i].rom = q /\ downloadQueue[j].rom = r}

\* How far an item has come on its way through the worker, retries included.
Turn(item) ==
  3 * item.attempts - (CASE item.state = "Pending" -> 0 [] item.state = "Downloading" -> 2 [] OTHER -> 1)

\* The second attempt of a large ROM, which does not time out.
LastTurn == 4

\* No waiting ROM starves behind others, however the user retries, removes and
\* re-adds ROMs: as long as it waits nobody gets in front of it or is begun from
\* behind it, and those in front come to the end of their turns, each retry
\* bringing an item nearer to an attempt that does not fail.
WaitingIsFair ==
  [][\A r \in Rom : Waiting(r) /\ Waiting(r)' =>
       /\ Ahead(r)' \subseteq Ahead(r)
       /\ \A q \in Rom : Fetching(q)' /\ ~Fetching(q) => q \in Ahead(r)
       /\ \A i \in DOMAIN downloadQueue, j \in DOMAIN downloadQueue' :
            downloadQueue'[j].rom = downloadQueue[i].rom =>
              Turn(downloadQueue'[j]) \in Turn(downloadQueue[i])..LastTurn]_vars
=============================================================================
