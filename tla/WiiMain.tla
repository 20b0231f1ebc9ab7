------------------------------ MODULE WiiMain ------------------------------
(***************************************************************************)
(* The main loop of the Wii application (wii/source/main.cpp) once startup *)
(* has finished with a network, composed of the state machine (AppCore),   *)
(* the real downloads (RealDownloads) and the two ways to fetch ROM lists: *)
(* the asynchronous worker (RomIndexWorker), whose thread runs between any *)
(* two steps of the loop, and the pages per frame of SyncRomIndex when the *)
(* thread could not be started.  A frame is: the pointer, one press, one   *)
(* poll of the worker or one page, and runRealDownloads if the downloads   *)
(* were started.                                                           *)
(***************************************************************************)
EXTENDS RealDownloads, Controls

CONSTANTS
  LeftPage,     \* platform rows on the screen, 4 in the code
  RightPage     \* ROM or queue rows on the screen, 7 in the code

VARIABLES
  asyncIndexReady,   \* the worker's thread could be started; never changed
  stopRequested, busy, jobQueued, activePlatformId, request, result,
  thread, job, fetched, mutex

\* callPhase has three more values here: "pointed" after the pointer moved,
\* "poll" after the press, "ended" after the loop was left.
W == INSTANCE RomIndexWorker WITH PlatformId <- Platform, Pages <- PagesOf

workerRecord == <<stopRequested, busy, jobQueued, activePlatformId, request, result,
                  thread, job, fetched, mutex>>

wiiVars == <<realVars, asyncIndexReady, workerRecord>>

WiiInit ==
  /\ IndexInit
  /\ callPhase = "input"
  /\ idx = 0
  /\ asyncIndexReady \in BOOLEAN
  /\ W!WorkerInit

-----------------------------------------------------------------------------
(* The pointer: applyPointerNavigation.                                    *)

\* computeListStartIndex: the first of the page rows that are on the screen.
ListStart(selected, n, page) ==
  IF n <= page THEN 0
  ELSE IF selected < page - 1 THEN 0
  ELSE IF selected - (page - 1) > n - page THEN n - page
  ELSE selected - (page - 1)

\* The rows the pointer can select: those on the screen, and by the arrows of
\* the scroll bar the ones next to the selected row.
PointerRows(selected, n, page) ==
  {i \in 0..(n - 1) :
     \/ i \in ListStart(selected, n, page)..(ListStart(selected, n, page) + page - 1)
     \/ i \in {selected - 1, selected + 1}}

PointAtPlatform ==
  /\ currentView = "PLATFORMS"
  /\ \E i \in PointerRows(selectedPlatformIndex, Len(platforms), LeftPage) \ {selectedPlatformIndex} :
       selectedPlatformIndex' = i
  /\ selectedRomIndex' = 0
  /\ UNCHANGED selectedQueueIndex

PointAtQueueItem ==
  /\ currentView \in {"QUEUE", "DOWNLOADING"}
  /\ downloadQueue # <<>>
  /\ selectedQueueIndex' \in PointerRows(ClampIndex(selectedQueueIndex, Len(downloadQueue)),
                                         Len(downloadQueue), RightPage)
  /\ UNCHANGED <<selectedPlatformIndex, selectedRomIndex>>

\* With an empty queue the pointer moves the row of the ROM list that is not shown:
\* to the first row over the pane, by one with an arrow.
PointAtEmptyQueue ==
  /\ currentView \in {"QUEUE", "DOWNLOADING"}
  /\ downloadQueue = <<>>
  /\ platforms # <<>>
  /\ selectedRomIndex' \in
       {0} \cup {ClampIndex(selectedRomIndex + delta, Len(SelectedList)) : delta \in {-1, 1}}
  /\ UNCHANGED <<selectedPlatformIndex, selectedQueueIndex>>

\* On every other screen, with the rows of the unsorted and unfiltered list.
PointAtRom ==
  /\ currentView \notin {"QUEUE", "DOWNLOADING"}
  /\ selectedRomIndex' \in PointerRows(ClampIndex(selectedRomIndex, Len(SelectedList)),
                                       Len(SelectedList), RightPage)
  /\ UNCHANGED <<selectedPlatformIndex, selectedQueueIndex>>

Point ==
  /\ callPhase = "input"
  /\ keepRunning
  /\ PointAtPlatform \/ PointAtQueueItem \/ PointAtEmptyQueue \/ PointAtRom
  /\ callPhase' = "pointed"
  /\ UNCHANGED <<viewVars, catalogVars, filterVars, queueVars, workerVars, updaterVars, keepRunning,
                 idx, indexVars, workerRecord>>

-----------------------------------------------------------------------------
(* The press.                                                              *)

\* queueSelectedPlatformRomIndexAsync: the ROM list opens only for a platform
\* that is indexed.
QueueSelectedPlatform ==
  /\ platforms # <<>>
  /\ \/ /\ SelectedPlatform \in indexed
        /\ currentView' = "ROMS"
        /\ selectedRomIndex' = 0
        /\ UNCHANGED workerRecord
     \/ /\ SelectedPlatform \notin indexed
        /\ W!QueueJob(SelectedPlatform)
        /\ selectedRomIndex' = 0
        /\ UNCHANGED currentView
     \/ /\ SelectedPlatform \notin indexed
        /\ W!InProgress(SelectedPlatform)
        /\ UNCHANGED <<currentView, selectedRomIndex, workerRecord>>
  /\ UNCHANGED <<roms, indexVars>>

\* Select on the platform list, in place of applyAction.
SelectPlatform ==
  /\ "Select" \in Inputs
  /\ currentView = "PLATFORMS"
  /\ IF asyncIndexReady THEN QueueSelectedPlatform
                        ELSE BeginSelectedPlatformRomIndex /\ UNCHANGED workerRecord
  /\ UNCHANGED <<prevQueueView, prevDiagnosticsView, prevUpdaterView, platforms,
                 selectedPlatformIndex, selectedQueueIndex, filterVars, queueVars, workerVars,
                 updaterVars, keepRunning>>

NoPress == UNCHANGED <<vars, indexVars, workerRecord>>

Press ==
  /\ callPhase \in {"input", "pointed"}
  /\ keepRunning
  /\ \/ SelectPlatform
     \/ OtherPress /\ UNCHANGED workerRecord
     \/ UiReset /\ UNCHANGED <<indexVars, workerRecord>>
     \/ NoPress
  /\ callPhase' = IF keepRunning' THEN "poll" ELSE "ended"
  /\ UNCHANGED idx

-----------------------------------------------------------------------------
(* The poll: pollPlatformRomIndexAsyncResult.                              *)

NothingToTake ==
  /\ ~result.ready
  /\ UNCHANGED <<vars, indexVars, workerRecord>>

DropFailure ==
  /\ result.ready
  /\ ~result.success
  /\ W!TakeResult
  /\ UNCHANGED <<vars, indexVars>>

\* Variant: the ROM list opens whatever is selected by now.
InstallAndOpen ==
  /\ result.ready
  /\ result.success
  /\ W!TakeResult
  /\ roms' = [roms EXCEPT ![result.platform] = FirstPages(result.platform, result.pages)]
  /\ indexed' = indexed \cup {result.platform}
  /\ selectedRomIndex' = 0
  /\ currentView' = "ROMS"
  /\ UNCHANGED <<prevQueueView, prevDiagnosticsView, prevUpdaterView, platforms,
                 selectedPlatformIndex, selectedQueueIndex, filterVars, queueVars, workerVars,
                 updaterVars, keepRunning, romIndex>>

\* The list is installed; the ROM list opens if its platform is still selected.
\* The ROM selection is reset either way.
InstallResult ==
  /\ result.ready
  /\ result.success
  /\ W!TakeResult
  /\ roms' = [roms EXCEPT ![result.platform] = FirstPages(result.platform, result.pages)]
  /\ indexed' = indexed \cup {result.platform}
  /\ selectedRomIndex' = 0
  /\ currentView' = IF SelectedPlatform = result.platform THEN "ROMS" ELSE currentView
  /\ UNCHANGED <<prevQueueView, prevDiagnosticsView, prevUpdaterView, platforms,
                 selectedPlatformIndex, selectedQueueIndex, filterVars, queueVars, workerVars,
                 updaterVars, keepRunning, romIndex>>

PollResult == NothingToTake \/ DropFailure \/ InstallResult

\* Without a worker the frame fetches the next page of the active index itself.
StepIndex ==
  /\ StepPlatformRomIndex
  /\ UNCHANGED <<prevQueueView, prevDiagnosticsView, prevUpdaterView, platforms,
                 selectedQueueIndex, filterVars, queueVars, workerVars, updaterVars, keepRunning,
                 workerRecord>>

\* After that the frame ends with runRealDownloads.
Poll ==
  /\ callPhase = "poll"
  /\ IF asyncIndexReady THEN PollResult ELSE StepIndex
  /\ callPhase' = IF downloadWorkerRunning /\ ~downloadPaused THEN "scan" ELSE "input"
  /\ idx' = 0

Download == RunRealDownloads /\ UNCHANGED workerRecord

-----------------------------------------------------------------------------
(* After the loop: shutdownAsyncRomIndexWorker.                            *)

\* Variant: the application ends without stopping the worker.
EndWithoutStop ==
  /\ callPhase = "ended"
  /\ UNCHANGED wiiVars

\* Variant: the exit path does not wait for the thread.
ShutdownWithoutJoin ==
  /\ callPhase = "ended"
  /\ asyncIndexReady
  /\ (~stopRequested /\ W!RequestStop) \/ W!DestroyAtOnce
  /\ UNCHANGED realVars

Shutdown ==
  /\ callPhase = "ended"
  /\ asyncIndexReady
  /\ (~stopRequested /\ W!RequestStop) \/ W!JoinAndDestroy
  /\ UNCHANGED realVars

WorkerThread == asyncIndexReady /\ W!ThreadStep /\ UNCHANGED realVars

LoopEnded == callPhase = "ended" /\ (asyncIndexReady => mutex = "destroyed")

Ended == LoopEnded /\ UNCHANGED wiiVars

MainLoop == Point \/ Press \/ Poll \/ Download \/ Shutdown

WiiNext == (MainLoop \/ WorkerThread \/ Ended) /\ UNCHANGED asyncIndexReady

WiiSpec == WiiInit /\ [][WiiNext]_wiiVars

\* The loop goes on, with or without presses; the thread is scheduled and its
\* fetches return; transfers return.
WiiFairSpec ==
  /\ WiiSpec
  /\ WF_wiiVars((Press \/ Poll \/ Download \/ Shutdown) /\ UNCHANGED asyncIndexReady)
  /\ WF_wiiVars(WorkerThread /\ UNCHANGED asyncIndexReady)

-----------------------------------------------------------------------------
(* Properties.                                                             *)

\* Refinement: with the worker a list is known when all of it is there.
WiiKnownLists ==
  {p \in indexed : roms[p] = IF asyncIndexReady THEN WholeList[p] ELSE ListToGuard[p]}

WiiLists == INSTANCE CatalogContract WITH known <- WiiKnownLists, shown <- ShownPlatform

\* "Opening ROM view is deferred until index completion" (main.cpp): a ROM list
\* or detail is only ever on the screen when the list is whole, and an open list
\* is not replaced by another one, whatever was selected while the index was
\* under way, wherever Back leads, and however many fetches failed half-way,
\* were dropped or were overtaken by another request.
WiiImplementsCatalog == WiiLists!Spec

\* As long as the loop itself fetches a list, no list is open or can be returned
\* to: its end opens a list and resets the ROM selection, and neither happens
\* under a user who is looking at another list or at a ROM.
NoListOpenWhileIndexing ==
  romIndex.active =>
    /\ currentView \notin {"ROMS", "DETAIL"}
    /\ currentView \in {"QUEUE", "DOWNLOADING"} => prevQueueView \notin {"ROMS", "DETAIL"}

\* Refinement: the loop uses the worker only in the ways RomIndexWorker allows.
UsesWorkerAsSpecified == W!WorkerSpec

Queues(p) == ~(jobQueued /\ request = p) /\ (jobQueued /\ request = p)'

\* A user who does not ask again and again gets an answer: the platform asked
\* for is indexed, or its fetch failed, unless another one was asked for or the
\* user quit.  Without the worker even asking again and again does no harm.
RequestBecomesList ==
  \A p \in Platform :
    /\ <>[][~\E q \in Platform : Queues(q)]_wiiVars =>
         ((jobQueued /\ request = p)
            ~> \/ p \in indexed
               \/ result.ready /\ ~result.success /\ result.platform = p
               \/ request # p
               \/ ~keepRunning)
    /\ (romIndex.active /\ romIndex.platformId = p)
         ~> (~romIndex.active \/ romIndex.platformId # p \/ ~keepRunning)

\* Quit, at any moment of a fetch, is followed by the end of the loop, of the
\* thread and of the mutex.
QuitEnds == ~keepRunning ~> LoopEnded

\* What the screen shows as the selected ROM: a row of the list as it came.
ShownRom == SelectedList[ClampIndex(selectedRomIndex, Len(SelectedList)) + 1]

\* The ROM shown as selected is the one Select enqueues, under every search
\* filter and sort mode (README.md, "Implemented Next 10", 1 and 2).
ShownRomIsEnqueued ==
  currentView \in {"ROMS", "DETAIL"} /\ ~NoRomVisible => SelectsRom(ShownRom)
=============================================================================
