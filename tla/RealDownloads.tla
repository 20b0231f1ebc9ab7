--------------------------- MODULE RealDownloads ---------------------------
(***************************************************************************)
(* The main loop of the Wii U application (source/main.cpp) once startup   *)
(* has finished with a network.  A frame applies at most one key press, of *)
(* which Select on the platform list first fetches the list it opens, and  *)
(* then calls runRealDownloads of core/runtime_sync.cpp, which blocks the  *)
(* loop until it has walked through the queue.  Each transfer is a call of *)
(* runDownloadQueue (module Downloader) seen from outside: it reports one  *)
(* outcome.  tickDownload is not called any more.                          *)
(***************************************************************************)
EXTENDS SyncRomIndex

VARIABLES
  callPhase,   \* "input" outside of runRealDownloads, "scan" in its loop, "fetch" in a transfer
  idx          \* the loop's queue position, 0-based as in the code

realVars == <<vars, indexVars, callPhase, idx>>

RealInit ==
  /\ IndexInit
  /\ callPhase = "input"
  /\ idx = 0

-----------------------------------------------------------------------------
(* The frame.                                                              *)

\* Select on the platform list: the list is fetched, and opens unless that failed.
SelectAndIndex ==
  /\ "Select" \in Inputs
  /\ currentView = "PLATFORMS"
  /\ platforms # <<>>
  /\ \/ /\ IndexSelectedPlatformRoms(SelectedPlatform, TRUE)
        /\ currentView' = "ROMS"
        /\ selectedRomIndex' = 0
     \/ /\ IndexSelectedPlatformRoms(SelectedPlatform, FALSE)
        /\ UNCHANGED <<currentView, selectedRomIndex>>
  /\ UNCHANGED <<prevQueueView, prevDiagnosticsView, prevUpdaterView, platforms,
                 selectedPlatformIndex, selectedQueueIndex, filterVars, queueVars, workerVars,
                 updaterVars, keepRunning, romIndex>>

OtherPress ==
  /\ \E a \in Inputs : ~(a = "Select" /\ currentView = "PLATFORMS") /\ ApplyAction(a)
  /\ UNCHANGED indexVars

\* One key press, then runRealDownloads: it returns at once unless the worker
\* was started and is not paused.
Frame ==
  /\ callPhase = "input"
  /\ keepRunning
  /\ SelectAndIndex \/ OtherPress
  /\ callPhase' = IF keepRunning' /\ downloadWorkerRunning' /\ ~downloadPaused' THEN "scan"
                                                                               ELSE "input"
  /\ idx' = 0

-----------------------------------------------------------------------------
(* runRealDownloads.                                                       *)

AtItem == idx < Len(downloadQueue)

\* Variant: the loop does not move on past an item that is not pending.
SkipItemInPlace ==
  /\ callPhase = "scan"
  /\ AtItem
  /\ downloadQueue[idx + 1].state # "Pending"
  /\ UNCHANGED realVars

SkipItem ==
  /\ callPhase = "scan"
  /\ AtItem
  /\ downloadQueue[idx + 1].state # "Pending"
  /\ idx' = idx + 1
  /\ UNCHANGED <<vars, indexVars, callPhase>>

BeginItem ==
  /\ callPhase = "scan"
  /\ AtItem
  /\ downloadQueue[idx + 1].state = "Pending"
  /\ downloadQueue' = [downloadQueue EXCEPT
                         ![idx + 1] = Item(@.rom, "Downloading", 1, @.attempts)]
  /\ callPhase' = "fetch"
  /\ UNCHANGED <<viewVars, indexVars, catalogVars, selectionVars, filterVars, downloadHistory, workerVars,
                 updaterVars, keepRunning, idx>>

\* Variant: the loop moves on although the erase shifted the next item down.
ItemCompletedAndSkip ==
  /\ callPhase = "fetch"
  /\ downloadHistory' = Append(downloadHistory,
       Item(downloadQueue[idx + 1].rom, "Completed", Full, downloadQueue[idx + 1].attempts))
  /\ downloadQueue' = RemoveAt(downloadQueue, idx + 1)
  /\ callPhase' = "scan"
  /\ idx' = idx + 1
  /\ UNCHANGED <<viewVars, indexVars, catalogVars, selectionVars, filterVars, workerVars, updaterVars,
                 keepRunning>>

\* runDownloadQueue returned true; the observer has marked the item completed.
ItemCompleted ==
  /\ callPhase = "fetch"
  /\ downloadHistory' = Append(downloadHistory,
       Item(downloadQueue[idx + 1].rom, "Completed", Full, downloadQueue[idx + 1].attempts))
  /\ downloadQueue' = RemoveAt(downloadQueue, idx + 1)
  /\ callPhase' = "scan"
  /\ UNCHANGED <<viewVars, indexVars, catalogVars, selectionVars, filterVars, workerVars, updaterVars,
                 keepRunning, idx>>

\* Variant: what failed is thrown away.
ItemFailedAndErased ==
  /\ callPhase = "fetch"
  /\ downloadQueue' = RemoveAt(downloadQueue, idx + 1)
  /\ callPhase' = "scan"
  /\ UNCHANGED <<viewVars, indexVars, catalogVars, selectionVars, filterVars, downloadHistory, workerVars,
                 updaterVars, keepRunning, idx>>

\* runDownloadQueue returned false.
ItemFailed ==
  /\ callPhase = "fetch"
  /\ downloadQueue' = [downloadQueue EXCEPT ![idx + 1] = Item(@.rom, "Failed", 0, @.attempts)]
  /\ callPhase' = "scan"
  /\ idx' = idx + 1
  /\ UNCHANGED <<viewVars, indexVars, catalogVars, selectionVars, filterVars, downloadHistory, workerVars,
                 updaterVars, keepRunning>>

\* The end of the loop: the worker stops, the queue screen opens.  (The early
\* return for an empty queue cannot be taken: the worker is only started with
\* a queue that is not empty, in the same frame.)
Return ==
  /\ callPhase = "scan"
  /\ ~AtItem
  /\ downloadWorkerRunning' = FALSE
  /\ downloadPaused' = FALSE
  /\ activeDownloadIndex' = -1
  /\ currentView' = "QUEUE"
  /\ selectedQueueIndex' = SelectionAfterErase(downloadQueue)
  /\ callPhase' = "input"
  /\ idx' = 0
  /\ UNCHANGED <<indexVars, prevQueueView, prevDiagnosticsView, prevUpdaterView, catalogVars,
                 selectedPlatformIndex, selectedRomIndex, filterVars, queueVars, updaterVars,
                 keepRunning>>

RunRealDownloads == SkipItem \/ BeginItem \/ ItemCompleted \/ ItemFailed \/ Return

RealNext ==
  \/ Frame
  \/ RunRealDownloads
  \/ Terminated /\ UNCHANGED <<indexVars, callPhase, idx>>

RealSpec == RealInit /\ [][RealNext]_realVars

\* The loop is the only thread, and every transfer returns (CallReturns of
\* module Downloader); nothing obliges the user.
RealFairSpec == RealSpec /\ WF_realVars(RunRealDownloads)

-----------------------------------------------------------------------------
(* Properties.                                                             *)

Known(r) ==
  \/ \E i \in DOMAIN downloadQueue : downloadQueue[i].rom = r
  \/ \E i \in DOMAIN downloadHistory : downloadHistory[i].rom = r

\* A run of the queue loses no ROM: what was in the queue or the history when
\* runRealDownloads was called is there when it returns, erases included.
RunLosesNothing ==
  [][callPhase # "input" => \A r \in Rom : Known(r) => Known(r)']_realVars

\* A run tries every waiting ROM: when runRealDownloads returns none is left
\* pending, although the loop erases items from the queue it walks through.
RunTriesEverything ==
  [][callPhase = "scan" /\ callPhase' = "input" => PendingPositions(downloadQueue) = {}]_realVars

\* The application takes input again after every start of the downloads.
RunReturns == callPhase # "input" ~> callPhase = "input"

\* Refinement: a platform whose list is as long as it will get counts as known.
KnownLists ==
  {p \in indexed : roms[p] = ListToGuard[p]}

Lists == INSTANCE CatalogContract WITH known <- KnownLists, shown <- ShownPlatform

\* Fetched within the frame that opens it, a ROM list is whole whenever it or a
\* ROM of it is on the screen, however often the fetch failed half-way before
\* and whichever screens and platforms the user went to in between.
ImplementsCatalog == Lists!Spec

\* When the worker has stopped nothing is left half-way: a download that was
\* started has completed or failed (core_state_test.cpp, after tickUntilIdle:
\* "worker should stop after completion", "queue should be empty after completion").
StartedDownloadsSettle ==
  callPhase = "input" /\ ~downloadWorkerRunning =>
    \A i \in DOMAIN downloadQueue : downloadQueue[i].state # "Downloading"
=============================================================================
