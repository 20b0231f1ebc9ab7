----------------------------- MODULE LoopProofs -----------------------------
(***************************************************************************)
(* Proofs about the two main loops that download for real: RealDownloads   *)
(* on the Wii U and WiiMain on the Wii, for every catalog, every page size *)
(* and every set of inputs.  IInv of AppCore is no invariant here, because *)
(* an item can stay "Downloading" behind a run (StartedDownloadsSettle),   *)
(* so the invariant of the queue is QueueSound, without the worker.  The   *)
(* second half shows that both loops keep CatalogContract's promise about  *)
(* ROM lists, from what fetching a list page by page amounts to.           *)
(***************************************************************************)
EXTENDS WiiMain, AppCoreProofs

\* How far runRealDownloads has walked: what is behind it has been tried.
Walked ==
  /\ callPhase = "scan" => idx \in 0..Len(downloadQueue)
  /\ callPhase = "fetch" => idx \in 0..(Len(downloadQueue) - 1)
  /\ callPhase \in {"scan", "fetch"} => \A i \in 1..idx : downloadQueue[i].state # "Pending"

LoopInvariant == QueueSound /\ Walked

-----------------------------------------------------------------------------
(* What a run does to the queue: runRealDownloads.                         *)

\* The item at the loop's position.
LEMMA AtItemFacts ==
  ASSUME QueueSound, idx \in 0..(Len(downloadQueue) - 1)
  PROVE  /\ idx + 1 \in DOMAIN downloadQueue
         /\ idx + 1 \in 1..Len(downloadQueue)
         /\ downloadQueue[idx + 1] \in QueueItem
         /\ Len(downloadQueue) \in Nat
BY DEF QueueSound

\* The item at the loop's position, with another state.
LEMMA MarkedItem ==
  ASSUME QueueSound, idx \in 0..(Len(downloadQueue) - 1),
         NEW state \in {"Downloading", "Failed"}, NEW progress \in 0..Full
  PROVE  \E item \in QueueItem :
           /\ item.rom = downloadQueue[idx + 1].rom
           /\ item.state \in {"Downloading", "Failed"}
           /\ item = Item(downloadQueue[idx + 1].rom, state, progress, downloadQueue[idx + 1].attempts)
BY AtItemFacts DEF Item, QueueItem, QueueStates

\* An item that is marked Downloading or Failed stays in its place.
LEMMA MarkItem ==
  ASSUME LoopInvariant, idx \in 0..(Len(downloadQueue) - 1), \A i \in 1..idx : downloadQueue[i].state # "Pending",
         NEW item \in QueueItem, item.rom = downloadQueue[idx + 1].rom, item.state \in {"Downloading", "Failed"},
         downloadQueue' = [downloadQueue EXCEPT ![idx + 1] = item],
         UNCHANGED <<downloadHistory, selectedQueueIndex>>
  PROVE  /\ QueueSound'
         /\ Len(downloadQueue') = Len(downloadQueue)
         /\ DOMAIN downloadQueue' = DOMAIN downloadQueue
         /\ \A i \in DOMAIN downloadQueue : downloadQueue'[i].rom = downloadQueue[i].rom
         /\ \A i \in 1..(idx + 1) : downloadQueue'[i].state # "Pending"
<1>1. QueueSound
  BY DEF LoopInvariant
<1>2. idx + 1 \in DOMAIN downloadQueue /\ item.state # "Completed"
  BY <1>1, AtItemFacts
<1>3. downloadQueue \in Seq(QueueItem) /\ Clean(downloadQueue, downloadHistory)
  BY <1>1 DEF QueueSound
<1>4. /\ downloadQueue' \in Seq(QueueItem)
      /\ Len(downloadQueue') = Len(downloadQueue)
      /\ DOMAIN downloadQueue' = DOMAIN downloadQueue
      /\ \A i \in DOMAIN downloadQueue : downloadQueue'[i] = IF i = idx + 1 THEN item ELSE downloadQueue[i]
      /\ Clean(downloadQueue', downloadHistory)
  <2> DEFINE k == idx + 1
             new == [downloadQueue EXCEPT ![k] = item]
  <2>1. k \in DOMAIN downloadQueue /\ item.rom = downloadQueue[k].rom /\ downloadQueue' = new
    BY <1>2
  <2> HIDE DEF k
  <2>2. /\ new \in Seq(QueueItem)
        /\ Len(new) = Len(downloadQueue)
        /\ DOMAIN new = DOMAIN downloadQueue
        /\ \A i \in DOMAIN downloadQueue : new[i] = IF i = k THEN item ELSE downloadQueue[i]
        /\ Clean(new, downloadHistory)
    BY ONLY <1>2, <1>3, <2>1, ReplaceClean
  <2> HIDE DEF new
  <2> QED BY <2>1, <2>2 DEF k
<1>5. \A i \in 1..(idx + 1) : downloadQueue'[i].state # "Pending"
  <2>1. \A i \in 1..(idx + 1) : i \in DOMAIN downloadQueue /\ (i = idx + 1 \/ i \in 1..idx)
    BY <1>1, AtItemFacts DEF QueueSound
  <2> QED BY <1>2, <1>4, <2>1
<1> QED BY <1>1, <1>2, <1>4, <1>5 DEF QueueSound

\* An item that completed goes from the queue into the history.
LEMMA CompleteItem ==
  ASSUME LoopInvariant, callPhase = "fetch", ItemCompleted
  PROVE  /\ LoopInvariant'
         /\ \A r \in Rom : Known(r) => Known(r)'
<1> DEFINE old == downloadQueue[idx + 1]
           done == Item(old.rom, "Completed", Full, old.attempts)
           rest == RemoveAt(downloadQueue, idx + 1)
<1>1. /\ downloadHistory' = Append(downloadHistory, done)
      /\ downloadQueue' = rest
      /\ callPhase' = "scan"
      /\ UNCHANGED <<selectedQueueIndex, idx>>
  BY DEF ItemCompleted, selectionVars
<1>2. /\ QueueSound
      /\ idx \in 0..(Len(downloadQueue) - 1)
      /\ \A i \in 1..idx : downloadQueue[i].state # "Pending"
  BY DEF LoopInvariant, Walked
<1>3. /\ idx + 1 \in DOMAIN downloadQueue
      /\ idx + 1 \in 1..Len(downloadQueue)
      /\ old \in QueueItem
      /\ Len(downloadQueue) \in Nat
  BY <1>2, AtItemFacts
<1>4. done \in QueueItem /\ done.rom = old.rom /\ done.state = "Completed"
  BY <1>3, PercentAssumption DEF Item, QueueItem, QueueStates, PercentAssumption
<1> HIDE DEF done
<1>5. /\ rest \in Seq(QueueItem)
      /\ Len(rest) = Len(downloadQueue) - 1
      /\ \A j \in 1..(Len(downloadQueue) - 1) :
           rest[j] = IF j < idx + 1 THEN downloadQueue[j] ELSE downloadQueue[j + 1]
  BY <1>2, <1>3, RemoveAtFacts DEF QueueSound
<1>6. Clean(rest, downloadHistory)
  BY <1>2, <1>3, RemoveClean DEF QueueSound
<1> HIDE DEF rest
<1>7. DOMAIN rest = 1..(Len(downloadQueue) - 1) /\ DOMAIN downloadQueue = 1..Len(downloadQueue)
  BY <1>2, <1>5 DEF QueueSound
<1>8. \A j \in DOMAIN rest : rest[j].rom # old.rom
  <2> TAKE j \in DOMAIN rest
  <2> DEFINE a == IF j < idx + 1 THEN j ELSE j + 1
  <2>1. a \in DOMAIN downloadQueue /\ a # idx + 1
    BY <1>2, <1>3, <1>7
  <2>2. rest[j] = downloadQueue[a]
    BY <1>5, <1>7
  <2> HIDE DEF a
  <2> QED BY <1>2, <1>3, <2>1, <2>2 DEF QueueSound, Clean
<1>9. /\ downloadHistory' \in Seq(QueueItem)
      /\ \A i \in DOMAIN downloadHistory : i \in DOMAIN downloadHistory' /\ downloadHistory'[i] = downloadHistory[i]
      /\ Len(downloadHistory) + 1 \in DOMAIN downloadHistory'
      /\ downloadHistory'[Len(downloadHistory) + 1] = done
      /\ \A i \in DOMAIN downloadHistory' :
           i \in DOMAIN downloadHistory \/ (i = Len(downloadHistory) + 1 /\ i \notin DOMAIN downloadHistory)
  BY <1>1, <1>2, <1>4 DEF QueueSound
<1>10. \A i \in DOMAIN downloadHistory : downloadHistory[i].rom # old.rom
  BY <1>2, <1>3 DEF QueueSound, Clean
<1>11. Clean(rest, downloadHistory')
  BY <1>4, <1>6, <1>8, <1>9, <1>10 DEF Clean
<1>12. QueueSound'
  BY <1>1, <1>2, <1>5, <1>9, <1>11 DEF QueueSound
<1>13. Walked'
  <2>1. idx' \in 0..Len(downloadQueue')
    BY <1>1, <1>2, <1>3, <1>5
  <2>2. \A i \in 1..idx : i \in 1..(Len(downloadQueue) - 1) /\ i < idx + 1
    BY <1>2, <1>3
  <2>3. \A i \in 1..idx' : downloadQueue'[i].state # "Pending"
    BY <1>1, <1>2, <1>5, <2>2
  <2> QED BY <1>1, <2>1, <2>3 DEF Walked
<1>14. ASSUME NEW r \in Rom, Known(r) PROVE Known(r)'
  <2>1. CASE \E i \in DOMAIN downloadHistory : downloadHistory[i].rom = r
    BY <1>9, <2>1 DEF Known
  <2>2. CASE r = old.rom
    BY <1>4, <1>9, <2>2 DEF Known
  <2>3. CASE \E i \in DOMAIN downloadQueue : downloadQueue[i].rom = r /\ i # idx + 1
    <3>1. PICK i \in DOMAIN downloadQueue : downloadQueue[i].rom = r /\ i # idx + 1
      BY <2>3
    <3> DEFINE b == IF i < idx + 1 THEN i ELSE i - 1
    <3>2. b \in DOMAIN rest /\ rest[b] = downloadQueue[i]
      BY <1>2, <1>3, <1>5, <1>7, <3>1
    <3> HIDE DEF b
    <3> QED BY <1>1, <3>1, <3>2 DEF Known
  <2> QED BY <1>14, <2>1, <2>2, <2>3 DEF Known
<1> QED BY <1>12, <1>13, <1>14 DEF LoopInvariant

\* Every step of a run keeps the queue sound and loses no ROM, and the run ends
\* with nothing pending.
LEMMA RunStep ==
  ASSUME LoopInvariant, RunRealDownloads
  PROVE  /\ LoopInvariant'
         /\ \A r \in Rom : Known(r) => Known(r)'
         /\ callPhase = "scan" /\ callPhase' = "input" => PendingPositions(downloadQueue) = {}
<1>1. CASE SkipItem
  <2>1. /\ callPhase = "scan" /\ callPhase' = "scan"
        /\ idx < Len(downloadQueue) /\ downloadQueue[idx + 1].state # "Pending"
        /\ idx' = idx + 1
        /\ UNCHANGED <<downloadQueue, downloadHistory, selectedQueueIndex>>
    BY <1>1 DEF SkipItem, AtItem, vars, queueVars, selectionVars
  <2>2. /\ idx \in 0..Len(downloadQueue) /\ Len(downloadQueue) \in Nat
        /\ \A i \in 1..idx : downloadQueue[i].state # "Pending"
    BY <2>1 DEF LoopInvariant, Walked, QueueSound
  <2>3. idx' \in 0..Len(downloadQueue) /\ \A i \in 1..idx' : i = idx + 1 \/ i \in 1..idx
    BY <2>1, <2>2
  <2>4. Walked'
    BY <2>1, <2>2, <2>3 DEF Walked
  <2>5. QueueSound'
    BY <2>1 DEF LoopInvariant, QueueSound
  <2> QED BY <2>1, <2>4, <2>5 DEF LoopInvariant, Known
<1>2. CASE BeginItem
  <2>1. /\ callPhase = "scan" /\ callPhase' = "fetch"
        /\ idx < Len(downloadQueue)
        /\ downloadQueue' = [downloadQueue EXCEPT ![idx + 1] = Item(@.rom, "Downloading", 1, @.attempts)]
        /\ UNCHANGED <<downloadHistory, selectedQueueIndex, idx>>
    BY <1>2 DEF BeginItem, AtItem, selectionVars
  <2>2. /\ idx \in 0..(Len(downloadQueue) - 1)
        /\ \A i \in 1..idx : downloadQueue[i].state # "Pending"
    BY <2>1 DEF LoopInvariant, Walked, QueueSound
  <2>3. 1 \in 0..Full
    BY PercentAssumption DEF PercentAssumption
  <2>4. PICK item \in QueueItem :
           /\ item.rom = downloadQueue[idx + 1].rom
           /\ item.state \in {"Downloading", "Failed"}
           /\ item = Item(downloadQueue[idx + 1].rom, "Downloading", 1, downloadQueue[idx + 1].attempts)
    BY <2>2, <2>3, MarkedItem DEF LoopInvariant
  <2>5. downloadQueue' = [downloadQueue EXCEPT ![idx + 1] = item]
    BY <2>1, <2>4
  <2>6. /\ QueueSound'
        /\ Len(downloadQueue') = Len(downloadQueue)
        /\ DOMAIN downloadQueue' = DOMAIN downloadQueue
        /\ \A i \in DOMAIN downloadQueue : downloadQueue'[i].rom = downloadQueue[i].rom
        /\ \A i \in 1..(idx + 1) : downloadQueue'[i].state # "Pending"
    BY <2>1, <2>2, <2>4, <2>5, MarkItem
  <2>7. Walked'
    BY <2>1, <2>2, <2>6 DEF Walked
  <2> QED BY <2>1, <2>6, <2>7 DEF LoopInvariant, Known
<1>3. CASE ItemCompleted
  <2>1. callPhase = "fetch"
    BY <1>3 DEF ItemCompleted
  <2> QED BY <1>3, <2>1, CompleteItem
<1>4. CASE ItemFailed
  <2>1. /\ callPhase = "fetch" /\ callPhase' = "scan"
        /\ downloadQueue' = [downloadQueue EXCEPT ![idx + 1] = Item(@.rom, "Failed", 0, @.attempts)]
        /\ idx' = idx + 1
        /\ UNCHANGED <<downloadHistory, selectedQueueIndex>>
    BY <1>4 DEF ItemFailed, selectionVars
  <2>2. /\ idx \in 0..(Len(downloadQueue) - 1)
        /\ \A i \in 1..idx : downloadQueue[i].state # "Pending"
    BY <2>1 DEF LoopInvariant, Walked
  <2>3. 0 \in 0..Full
    BY PercentAssumption DEF PercentAssumption
  <2>4. PICK item \in QueueItem :
           /\ item.rom = downloadQueue[idx + 1].rom
           /\ item.state \in {"Downloading", "Failed"}
           /\ item = Item(downloadQueue[idx + 1].rom, "Failed", 0, downloadQueue[idx + 1].attempts)
    BY <2>2, <2>3, MarkedItem DEF LoopInvariant
  <2>5. downloadQueue' = [downloadQueue EXCEPT ![idx + 1] = item]
    BY <2>1, <2>4
  <2>6. /\ QueueSound'
        /\ Len(downloadQueue') = Len(downloadQueue)
        /\ DOMAIN downloadQueue' = DOMAIN downloadQueue
        /\ \A i \in DOMAIN downloadQueue : downloadQueue'[i].rom = downloadQueue[i].rom
        /\ \A i \in 1..(idx + 1) : downloadQueue'[i].state # "Pending"
    BY <2>1, <2>2, <2>4, <2>5, MarkItem
  <2>7. idx' \in 0..Len(downloadQueue')
    BY <2>1, <2>2, <2>6
  <2>8. Walked'
    BY <2>1, <2>6, <2>7 DEF Walked
  <2> QED BY <2>1, <2>6, <2>8 DEF LoopInvariant, Known
<1>5. CASE Return
  <2>1. /\ callPhase = "scan" /\ callPhase' = "input"
        /\ ~(idx < Len(downloadQueue))
        /\ selectedQueueIndex' = SelectionAfterErase(downloadQueue)
        /\ UNCHANGED <<downloadQueue, downloadHistory>>
    BY <1>5 DEF Return, AtItem, queueVars
  <2>2. idx \in 0..Len(downloadQueue) /\ \A i \in 1..idx : downloadQueue[i].state # "Pending"
    BY <2>1 DEF LoopInvariant, Walked
  <2>3. DOMAIN downloadQueue = 1..idx
    BY <2>1, <2>2 DEF LoopInvariant, QueueSound
  <2>4. PendingPositions(downloadQueue) = {}
    BY <2>2, <2>3 DEF PendingPositions
  <2>5. selectedQueueIndex' \in Nat
    BY <2>1, SelectionAfterEraseFacts DEF LoopInvariant, QueueSound
  <2>6. QueueSound' /\ Walked'
    BY <2>1, <2>5 DEF LoopInvariant, QueueSound, Walked
  <2> QED BY <2>1, <2>4, <2>6 DEF LoopInvariant, Known
<1> QED BY <1>1, <1>2, <1>3, <1>4, <1>5 DEF RunRealDownloads

-----------------------------------------------------------------------------
(* The Wii U loop.                                                         *)

\* The queue starts empty.
LEMMA RealInitSound == RealInit => LoopInvariant
<1> SUFFICES ASSUME RealInit
             PROVE  LoopInvariant
  OBVIOUS
<1>1. /\ downloadQueue = <<>> /\ downloadHistory = <<>> /\ selectedQueueIndex = 0
      /\ callPhase = "input"
  BY DEF RealInit, IndexInit, InitStatus
<1> QED BY <1>1 DEF LoopInvariant, QueueSound, Clean, Walked

\* A press keeps the queue sound.
LEMMA FrameStep ==
  ASSUME LoopInvariant, Frame
  PROVE  LoopInvariant'
<1>1. QueueSound'
  <2>1. CASE SelectAndIndex
    BY <2>1 DEF SelectAndIndex, queueVars, LoopInvariant, QueueSound
  <2>2. CASE OtherPress
    BY <2>2, PressSound DEF OtherPress, LoopInvariant
  <2> QED BY <2>1, <2>2 DEF Frame
<1>2. idx' = 0 /\ callPhase' # "fetch"
  BY DEF Frame
<1>3. Len(downloadQueue') \in Nat
  BY <1>1 DEF QueueSound
<1> QED BY <1>1, <1>2, <1>3 DEF LoopInvariant, Walked

\* A step that leaves the loop alone keeps its invariant.
LEMMA LoopUntouched ==
  LoopInvariant /\ UNCHANGED realVars => LoopInvariant'
BY DEF LoopInvariant, QueueSound, Walked, realVars, vars, queueVars, selectionVars

\* So does every step of the Wii U loop.
LEMMA RealStep == LoopInvariant /\ [RealNext]_realVars => LoopInvariant'
<1> SUFFICES ASSUME LoopInvariant, [RealNext]_realVars
             PROVE  LoopInvariant'
  OBVIOUS
<1>1. CASE Frame
  BY <1>1, FrameStep
<1>2. CASE RunRealDownloads
  BY <1>2, RunStep
<1>3. CASE Terminated /\ UNCHANGED <<indexVars, callPhase, idx>>
  BY <1>3, LoopUntouched DEF Terminated, realVars
<1>4. CASE UNCHANGED realVars
  BY <1>4, LoopUntouched
<1> QED BY <1>1, <1>2, <1>3, <1>4 DEF RealNext

\* The queue stays sound and the walk through it tries everything it passes.
THEOREM RealInvariant == RealSpec => []LoopInvariant
BY RealInitSound, RealStep, PTL DEF RealSpec

\* On the Wii U too no ROM is ever downloaded twice, although a run can leave
\* an item "Downloading" behind and clearing the queue then keeps that item.
THEOREM RealNoDuplicates == RealSpec => []NoDuplicateDownloads
<1>1. LoopInvariant => NoDuplicateDownloads
  BY DEF LoopInvariant, QueueSound, Clean, NoDuplicateDownloads
<1> QED BY <1>1, RealInvariant, PTL

\* A run of runRealDownloads loses no ROM, however long the queue is and
\* whichever of its items complete and are erased while it is walked through.
THEOREM RunKeepsEveryRom == RealSpec => RunLosesNothing
<1>1. ASSUME LoopInvariant, RealNext, callPhase # "input"
      PROVE  \A r \in Rom : Known(r) => Known(r)'
  <2>1. CASE RunRealDownloads
    BY <1>1, <2>1, RunStep
  <2>2. CASE Terminated
    BY <2>2 DEF Terminated, vars, queueVars, Known
  <2> QED BY <1>1, <2>1, <2>2 DEF RealNext, Frame
<1>2. LoopInvariant /\ [RealNext]_realVars =>
        [callPhase # "input" => \A r \in Rom : Known(r) => Known(r)']_realVars
  BY <1>1
<1> QED BY <1>2, RealInvariant, PTL DEF RealSpec, RunLosesNothing

\* A run leaves no waiting ROM untried: what is behind the position of the walk
\* is not pending, and an erase does not move the position.
THEOREM RunReachesEveryRom == RealSpec => RunTriesEverything
<1>1. ASSUME LoopInvariant, RealNext, callPhase = "scan", callPhase' = "input"
      PROVE  PendingPositions(downloadQueue) = {}
  BY <1>1, RunStep DEF RealNext, Frame
<1>2. LoopInvariant /\ [RealNext]_realVars =>
        [callPhase = "scan" /\ callPhase' = "input" => PendingPositions(downloadQueue) = {}]_realVars
  BY <1>1
<1> QED BY <1>2, RealInvariant, PTL DEF RealSpec, RunTriesEverything

-----------------------------------------------------------------------------
(* The Wii loop: screens, downloads and the two ways to index.             *)

\* The downloads are never under way while input is taken, nor paused; and when
\* they start while a list is being fetched, they start from the queue screens.
DownloadsBetweenInputs ==
  /\ ~downloadPaused
  /\ callPhase \in {"input", "pointed", "ended"} => ~downloadWorkerRunning
  /\ callPhase \in {"scan", "fetch"} => downloadWorkerRunning
  /\ downloadWorkerRunning /\ romIndex.active => currentView \in {"QUEUE", "DOWNLOADING"}

\* What is indexed is a platform of the catalog, and the worker and its mutex
\* are there as long as the loop runs.
IndexersInPlace ==
  /\ platforms = Catalog
  /\ selectedPlatformIndex \in Nat
  /\ romIndex.active => \E i \in DOMAIN platforms : platforms[i] = romIndex.platformId
  /\ asyncIndexReady => ~romIndex.active
  /\ callPhase # "ended" => mutex = "live" /\ ~stopRequested

ScreensSound == ScreensRemembered /\ NoListOpenWhileIndexing /\ DownloadsBetweenInputs

WiiInvariant == LoopInvariant /\ ScreensSound /\ IndexersInPlace

\* Any press but Select on the platform list: no list opens where none is open
\* or can be returned to, and downloads start on their own screen.
LEMMA OtherPressScreens ==
  ASSUME ScreensSound, keepRunning, OtherPress, ~downloadWorkerRunning
  PROVE  /\ ScreensRemembered'
         /\ NoListOpenWhileIndexing'
         /\ ~downloadPaused'
         /\ downloadWorkerRunning' => currentView' = "DOWNLOADING"
         /\ ~keepRunning' => ~downloadWorkerRunning'
<1>1. PICK a \in Inputs : ~(a = "Select" /\ currentView = "PLATFORMS") /\ ApplyAction(a)
  BY DEF OtherPress
<1>2. ScreensRemembered'
  <2>1. UserAction
    BY <1>1 DEF UserAction
  <2> QED BY <2>1, RememberedStep DEF ScreensSound, Next
<1>3. romIndex' = romIndex
  BY DEF OtherPress, indexVars
<1> DEFINE Kept == UNCHANGED <<currentView, prevQueueView, workerVars>>
           Goal == /\ NoListOpenWhileIndexing'
                   /\ ~downloadPaused'
                   /\ downloadWorkerRunning' => currentView' = "DOWNLOADING"
                   /\ ~keepRunning' => ~downloadWorkerRunning'
<1>4. Kept => Goal
  BY <1>3 DEF ScreensSound, NoListOpenWhileIndexing, DownloadsBetweenInputs, workerVars
<1>5. ASSUME UNCHANGED workerVars,
             \/ currentView' \notin {"ROMS", "DETAIL", "QUEUE", "DOWNLOADING"}
             \/ currentView' = "QUEUE" /\ prevQueueView' = prevQueueView /\ currentView \in {"QUEUE", "DOWNLOADING"}
             \/ currentView' = "QUEUE" /\ prevQueueView' = currentView
             \/ currentView \in {"ROMS", "DETAIL"}
             \/ currentView' = prevQueueView /\ currentView = "QUEUE"
      PROVE  Goal
  BY <1>3, <1>5 DEF ScreensSound, NoListOpenWhileIndexing, DownloadsBetweenInputs, workerVars, ScreensRemembered
<1>6. CASE \/ MoveSelection(-1) \/ MoveSelection(1) \/ CycleSort(-1) \/ CycleSort(1) \/ CycleSearchQuery
           \/ ClearPendingAndFailed \/ RetrySelectedFailed \/ UseUpdater \/ Quit
  <2>1. Kept
    BY <1>6 DEF MoveSelection, CycleSort, CycleSearchQuery, ClearPendingAndFailed, RetrySelectedFailed, UseUpdater,
                Quit, viewVars
  <2> HIDE DEF Kept, Goal
  <2>2. Goal
    BY <1>4, <2>1
  <2> QED BY <1>2, <2>2 DEF Goal
<1>7. CASE RemoveSelectedQueueItem
  BY <1>2, <1>3, <1>7 DEF RemoveSelectedQueueItem, ScreensSound, NoListOpenWhileIndexing, DownloadsBetweenInputs,
                          viewVars
<1>8. CASE OpenRomDetail \/ EnqueueSelectedRom \/ OpenDiagnostics \/ OpenUpdater \/ OpenQueue \/ Back
  <2>1. /\ UNCHANGED workerVars
        /\ \/ currentView' \notin {"ROMS", "DETAIL", "QUEUE", "DOWNLOADING"}
           \/ currentView' = "QUEUE" /\ prevQueueView' = prevQueueView /\ currentView \in {"QUEUE", "DOWNLOADING"}
           \/ currentView' = "QUEUE" /\ prevQueueView' = currentView
           \/ currentView \in {"ROMS", "DETAIL"}
           \/ currentView' = prevQueueView /\ currentView = "QUEUE"
    BY <1>8 DEF OpenRomDetail, EnqueueSelectedRom, OpenDiagnostics, OpenUpdater, OpenQueue, Back, BackTarget,
                ScreensSound, ScreensRemembered, viewVars
  <2> HIDE DEF Kept, Goal
  <2>2. Goal
    BY <1>5, <2>1
  <2> QED BY <1>2, <2>2 DEF Goal
<1>9. CASE StartDownloads
  BY <1>2, <1>3, <1>9 DEF StartDownloads, ScreensSound, NoListOpenWhileIndexing, DownloadsBetweenInputs, workerVars
<1>10. CASE PauseOrResume
  BY <1>10 DEF PauseOrResume
<1>11. ~OpenRomList \/ a # "Select"
  BY <1>1 DEF OpenRomList
<1> QED BY <1>1, <1>6, <1>7, <1>8, <1>9, <1>10, <1>11 DEF ApplyAction, Select

\* No press changes the catalog, and the platform selection stays a number.
LEMMA OtherPressCatalog ==
  ASSUME platforms \in Seq(Platform), selectedPlatformIndex \in Nat, OtherPress
  PROVE  UNCHANGED platforms /\ selectedPlatformIndex' \in Nat
<1>1. PICK a \in Inputs : ApplyAction(a)
  BY DEF OtherPress
<1>2. ASSUME NEW d \in {-1, 1}, MoveSelection(d)
      PROVE  UNCHANGED platforms /\ selectedPlatformIndex' \in Nat
  <2>1. selectedPlatformIndex + d \in Int /\ Len(platforms) \in Nat
    OBVIOUS
  <2> QED BY <1>2, <2>1, ClampFacts DEF MoveSelection, catalogVars
<1>3. CASE MoveSelection(-1) \/ MoveSelection(1)
  BY <1>2, <1>3
<1>4. CASE CycleSort(-1) \/ CycleSort(1) \/ CycleSearchQuery \/ RemoveSelectedQueueItem \/ ClearPendingAndFailed
  BY <1>4 DEF CycleSort, CycleSearchQuery, RemoveSelectedQueueItem, ClearPendingAndFailed, catalogVars
<1>5. CASE Select
  BY <1>5 DEF Select, OpenRomList, OpenRomDetail, EnqueueSelectedRom, RetrySelectedFailed, UseUpdater,
              catalogVars, selectionVars
<1>6. CASE \/ OpenDiagnostics \/ OpenUpdater \/ OpenQueue \/ Back \/ Quit \/ StartDownloads \/ PauseOrResume
  BY <1>6 DEF OpenDiagnostics, OpenUpdater, OpenQueue, Back, Quit, StartDownloads, PauseOrResume,
              catalogVars, selectionVars
<1> QED BY <1>1, <1>3, <1>4, <1>5, <1>6 DEF ApplyAction

\* The platform that Select asks for is one of the catalog.
LEMMA SelectedPlatformFacts ==
  ASSUME platforms \in Seq(Platform), platforms # <<>>, selectedPlatformIndex \in Nat
  PROVE  /\ SelectedPlatform \in Platform
         /\ \E i \in DOMAIN platforms : platforms[i] = SelectedPlatform
<1>1. Len(platforms) \in Nat \ {0} /\ selectedPlatformIndex \in Int
  OBVIOUS
<1>2. ClampIndex(selectedPlatformIndex, Len(platforms)) + 1 \in 1..Len(platforms)
  BY <1>1, ClampFacts
<1>3. ClampIndex(selectedPlatformIndex, Len(platforms)) + 1 \in DOMAIN platforms
  BY <1>2
<1> QED BY <1>3 DEF SelectedPlatform

\* The pointer moves a selection and nothing else.
LEMMA PointStep ==
  ASSUME WiiInvariant, Point, UNCHANGED asyncIndexReady
  PROVE  WiiInvariant'
<1>1. /\ callPhase = "input" /\ callPhase' = "pointed"
      /\ UNCHANGED <<viewVars, catalogVars, queueVars, workerVars, romIndex, stopRequested, mutex, idx>>
  BY DEF Point, indexVars, workerRecord
<1>2. selectedQueueIndex' \in Nat /\ selectedPlatformIndex' \in Nat
  <2>1. \A s, n, page : PointerRows(s, n, page) \subseteq Nat
    BY DEF PointerRows
  <2> QED BY <2>1 DEF Point, PointAtPlatform, PointAtQueueItem, PointAtEmptyQueue, PointAtRom, WiiInvariant, LoopInvariant, QueueSound,
                      IndexersInPlace
<1>3. LoopInvariant'
  BY <1>1, <1>2 DEF WiiInvariant, LoopInvariant, QueueSound, Walked, queueVars
<1>4. ScreensSound'
  BY <1>1 DEF WiiInvariant, ScreensSound, ScreensRemembered, NoListOpenWhileIndexing, DownloadsBetweenInputs,
              viewVars, workerVars
<1>5. IndexersInPlace'
  BY <1>1, <1>2 DEF WiiInvariant, IndexersInPlace, catalogVars
<1> QED BY <1>3, <1>4, <1>5 DEF WiiInvariant

\* Select on the platform list starts or queues an index only of a platform of
\* the catalog.
LEMMA SelectPlatformStep ==
  ASSUME WiiInvariant, SelectPlatform, UNCHANGED asyncIndexReady
  PROVE  /\ QueueSound' /\ ScreensRemembered' /\ NoListOpenWhileIndexing'
         /\ UNCHANGED <<workerVars, platforms, selectedPlatformIndex, stopRequested, mutex, keepRunning>>
         /\ romIndex'.active => \E i \in DOMAIN platforms : platforms[i] = romIndex'.platformId
         /\ asyncIndexReady => ~romIndex'.active
<1>1. /\ currentView = "PLATFORMS"
      /\ UNCHANGED <<prevQueueView, prevDiagnosticsView, prevUpdaterView, platforms, selectedPlatformIndex,
                     selectedQueueIndex, queueVars, workerVars, keepRunning>>
  BY DEF SelectPlatform
<1>2. QueueSound' /\ ScreensRemembered'
  BY <1>1 DEF WiiInvariant, LoopInvariant, QueueSound, ScreensSound, ScreensRemembered, queueVars
<1>3. CASE asyncIndexReady
  <2>1. QueueSelectedPlatform
    BY <1>3 DEF SelectPlatform
  <2>2. UNCHANGED <<romIndex, stopRequested, mutex>>
    BY <2>1 DEF QueueSelectedPlatform, indexVars, workerRecord, W!QueueJob
  <2> QED BY <1>1, <1>2, <1>3, <2>2 DEF WiiInvariant, IndexersInPlace, NoListOpenWhileIndexing
<1>4. CASE ~asyncIndexReady
  <2>1. BeginSelectedPlatformRomIndex /\ UNCHANGED <<stopRequested, mutex>>
    BY <1>4 DEF SelectPlatform, workerRecord
  <2>2. CASE OpenIndexed
    BY <1>1, <1>2, <1>4, <2>1, <2>2 DEF OpenIndexed, NoIndex, NoListOpenWhileIndexing
  <2>3. CASE AlreadyIndexing
    BY <1>1, <1>2, <1>4, <2>1, <2>3 DEF AlreadyIndexing, NoListOpenWhileIndexing, WiiInvariant, IndexersInPlace
  <2>4. CASE StartIndex
    <3>1. \E i \in DOMAIN platforms : platforms[i] = SelectedPlatform
      BY <2>1, SelectedPlatformFacts, CatalogAssumption
         DEF BeginSelectedPlatformRomIndex, WiiInvariant, IndexersInPlace, CatalogAssumption
    <3> QED BY <1>1, <1>2, <1>4, <2>1, <2>4, <3>1 DEF StartIndex, NoListOpenWhileIndexing
  <2> QED BY <2>1, <2>2, <2>3, <2>4 DEF BeginSelectedPlatformRomIndex
<1> QED BY <1>3, <1>4

\* A press keeps the invariant.
LEMMA PressStep ==
  ASSUME WiiInvariant, Press, UNCHANGED asyncIndexReady
  PROVE  WiiInvariant'
<1>1. /\ callPhase \in {"input", "pointed"} /\ keepRunning
      /\ callPhase' = IF keepRunning' THEN "poll" ELSE "ended"
      /\ ~downloadWorkerRunning
      /\ platforms \in Seq(Platform) /\ selectedPlatformIndex \in Nat
  BY CatalogAssumption DEF Press, WiiInvariant, ScreensSound, DownloadsBetweenInputs, IndexersInPlace, CatalogAssumption
<1> DEFINE Goal == /\ QueueSound' /\ ScreensRemembered' /\ NoListOpenWhileIndexing'
                   /\ ~downloadPaused'
                   /\ downloadWorkerRunning' => currentView' = "DOWNLOADING"
                   /\ ~keepRunning' => ~downloadWorkerRunning'
                   /\ UNCHANGED <<platforms, stopRequested, mutex>>
                   /\ selectedPlatformIndex' \in Nat
                   /\ romIndex'.active => \E i \in DOMAIN platforms : platforms[i] = romIndex'.platformId
                   /\ asyncIndexReady => ~romIndex'.active
<1>2. ASSUME SelectPlatform PROVE Goal
  <2>1. /\ QueueSound' /\ ScreensRemembered' /\ NoListOpenWhileIndexing'
        /\ UNCHANGED <<workerVars, platforms, selectedPlatformIndex, stopRequested, mutex, keepRunning>>
        /\ romIndex'.active => \E i \in DOMAIN platforms : platforms[i] = romIndex'.platformId
        /\ asyncIndexReady => ~romIndex'.active
    BY <1>2, SelectPlatformStep
  <2>2. ~downloadPaused
    BY DEF WiiInvariant, ScreensSound, DownloadsBetweenInputs
  <2> QED BY <1>1, <2>1, <2>2 DEF workerVars
<1>3. ASSUME OtherPress, UNCHANGED workerRecord PROVE Goal
  <2>1. QueueSound'
    BY <1>3, PressSound DEF OtherPress, WiiInvariant, LoopInvariant
  <2>2. /\ ScreensRemembered' /\ NoListOpenWhileIndexing'
        /\ ~downloadPaused'
        /\ downloadWorkerRunning' => currentView' = "DOWNLOADING"
        /\ ~keepRunning' => ~downloadWorkerRunning'
    BY <1>1, <1>3, OtherPressScreens DEF WiiInvariant
  <2>3. UNCHANGED platforms /\ selectedPlatformIndex' \in Nat
    BY <1>1, <1>3, OtherPressCatalog
  <2>4. UNCHANGED <<romIndex, stopRequested, mutex>>
    BY <1>3 DEF OtherPress, indexVars, workerRecord
  <2> QED BY <2>1, <2>2, <2>3, <2>4 DEF WiiInvariant, IndexersInPlace
<1>4. ASSUME UiReset \/ UNCHANGED vars, UNCHANGED <<indexVars, workerRecord>> PROVE Goal
  <2>1. UNCHANGED <<queueVars, workerVars, platforms, keepRunning, romIndex, stopRequested, mutex>>
    BY <1>4 DEF UiReset, vars, catalogVars, indexVars, workerRecord
  <2>2. /\ selectedQueueIndex' \in Nat /\ selectedPlatformIndex' \in Nat
        /\ ScreensRemembered' /\ NoListOpenWhileIndexing'
    BY <1>4, <2>1 DEF UiReset, vars, viewVars, selectionVars, WiiInvariant, LoopInvariant, QueueSound, ScreensSound,
                      ScreensRemembered, NoListOpenWhileIndexing, IndexersInPlace
  <2>3. QueueSound'
    BY <2>1, <2>2 DEF WiiInvariant, LoopInvariant, QueueSound, queueVars
  <2> QED BY <1>1, <2>1, <2>2, <2>3 DEF WiiInvariant, ScreensSound, DownloadsBetweenInputs, IndexersInPlace, workerVars
<1>5. Goal
  BY <1>2, <1>3, <1>4 DEF Press, NoPress
<1> HIDE DEF Goal
<1>6. LoopInvariant'
  BY <1>1, <1>5 DEF Goal, LoopInvariant, Walked
<1>7. ScreensSound'
  BY <1>1, <1>5 DEF Goal, ScreensSound, DownloadsBetweenInputs
<1>8. IndexersInPlace'
  BY <1>1, <1>5 DEF Goal, WiiInvariant, IndexersInPlace
<1> QED BY <1>6, <1>7, <1>8 DEF WiiInvariant

\* A poll opens a list only when no index is under way any more.
LEMMA PollStep ==
  ASSUME WiiInvariant, Poll, UNCHANGED asyncIndexReady
  PROVE  WiiInvariant'
<1>1. /\ callPhase = "poll" /\ idx' = 0
      /\ callPhase' = IF downloadWorkerRunning /\ ~downloadPaused THEN "scan" ELSE "input"
  BY DEF Poll
<1> DEFINE Goal == /\ UNCHANGED <<queueVars, selectedQueueIndex, workerVars, platforms, stopRequested, mutex,
                                  prevQueueView, prevDiagnosticsView, prevUpdaterView>>
                   /\ selectedPlatformIndex' \in Nat
                   /\ romIndex'.active => /\ romIndex.active
                                          /\ romIndex'.platformId = romIndex.platformId
                                          /\ UNCHANGED currentView
<1>2. ASSUME asyncIndexReady PROVE Goal
  <2>1. PollResult
    BY <1>2 DEF Poll
  <2>2. UNCHANGED <<queueVars, selectedQueueIndex, workerVars, platforms, stopRequested, mutex,
                    prevQueueView, prevDiagnosticsView, prevUpdaterView, selectedPlatformIndex, romIndex>>
    BY <2>1 DEF PollResult, NothingToTake, DropFailure, InstallResult, W!TakeResult, vars, viewVars, catalogVars,
                selectionVars, indexVars, workerRecord
  <2> QED BY <1>2, <2>2 DEF WiiInvariant, IndexersInPlace
<1>3. ASSUME ~asyncIndexReady PROVE Goal
  <2>1. /\ StepPlatformRomIndex
        /\ UNCHANGED <<prevQueueView, prevDiagnosticsView, prevUpdaterView, platforms,
                       selectedQueueIndex, queueVars, workerVars, stopRequested, mutex>>
    BY <1>3 DEF Poll, StepIndex, workerRecord
  <2>2. selectedPlatformIndex \in Nat
    BY DEF WiiInvariant, IndexersInPlace
  <2>3. CASE ~romIndex.active /\ UNCHANGED <<roms, indexVars, currentView, selectedPlatformIndex, selectedRomIndex>>
    BY <2>1, <2>2, <2>3 DEF indexVars
  <2>4. CASE IndexPage
    <3>1. romIndex.active /\ UNCHANGED <<currentView, selectedPlatformIndex>>
      BY <2>4 DEF IndexPage
    <3>2. romIndex'.platformId = romIndex.platformId
      BY <2>4 DEF IndexPage
    <3> QED BY <2>1, <2>2, <3>1, <3>2
  <2>5. CASE IndexEnds
    <3>1. romIndex.active /\ selectedPlatformIndex' = PlatformRow(romIndex.platformId)
      BY <2>5 DEF IndexEnds
    <3>2. \E i \in DOMAIN platforms : platforms[i] = romIndex.platformId
      BY <3>1 DEF WiiInvariant, IndexersInPlace
    <3>3. DOMAIN platforms \subseteq Nat \ {0}
      BY CatalogAssumption DEF WiiInvariant, IndexersInPlace, CatalogAssumption
    <3>4. selectedPlatformIndex' \in Nat
      BY <3>1, <3>2, <3>3 DEF PlatformRow
    <3>5. ~romIndex'.active
      BY <2>5 DEF IndexEnds
    <3> QED BY <2>1, <3>4, <3>5
  <2>6. CASE IndexFails
    <3>1. ~romIndex'.active /\ UNCHANGED selectedPlatformIndex
      BY <2>6 DEF IndexFails
    <3> QED BY <2>1, <2>2, <3>1
  <2> QED BY <2>1, <2>3, <2>4, <2>5, <2>6 DEF StepPlatformRomIndex
<1>4. Goal
  BY <1>2, <1>3
<1> HIDE DEF Goal
<1>5. LoopInvariant'
  <2>1. Len(downloadQueue') \in Nat
    BY <1>4 DEF Goal, queueVars, WiiInvariant, LoopInvariant, QueueSound
  <2> QED BY <1>1, <1>4, <2>1 DEF Goal, queueVars, WiiInvariant, LoopInvariant, QueueSound, Walked
<1>6. ScreensSound'
  BY <1>1, <1>4 DEF Goal, WiiInvariant, ScreensSound, ScreensRemembered, NoListOpenWhileIndexing,
                    DownloadsBetweenInputs, workerVars
<1>7. IndexersInPlace'
  BY <1>1, <1>4 DEF Goal, WiiInvariant, IndexersInPlace
<1> QED BY <1>5, <1>6, <1>7 DEF WiiInvariant

\* So does a run of the downloads.
LEMMA DownloadStep ==
  ASSUME WiiInvariant, Download, UNCHANGED asyncIndexReady
  PROVE  WiiInvariant'
<1>1. RunRealDownloads /\ UNCHANGED <<stopRequested, mutex>>
  BY DEF Download, workerRecord
<1>2. LoopInvariant'
  BY <1>1, RunStep DEF WiiInvariant
<1>3. /\ callPhase \in {"scan", "fetch"}
      /\ UNCHANGED <<romIndex, platforms, selectedPlatformIndex, prevQueueView, prevDiagnosticsView, prevUpdaterView>>
      /\ \/ callPhase' \in {"scan", "fetch"} /\ UNCHANGED <<currentView, workerVars>>
         \/ /\ callPhase' = "input" /\ currentView' = "QUEUE"
            /\ downloadWorkerRunning' = FALSE /\ downloadPaused' = FALSE
  BY <1>1 DEF RunRealDownloads, SkipItem, BeginItem, ItemCompleted, ItemFailed, Return, vars, indexVars, viewVars,
              catalogVars, selectionVars
<1>4. ScreensSound'
  BY <1>3 DEF WiiInvariant, ScreensSound, ScreensRemembered, NoListOpenWhileIndexing, DownloadsBetweenInputs,
              workerVars
<1>5. IndexersInPlace'
  BY <1>1, <1>3 DEF WiiInvariant, IndexersInPlace
<1> QED BY <1>2, <1>4, <1>5 DEF WiiInvariant

\* The worker's thread and the end of the worker leave the loop's state alone.
LEMMA WorkerSideStep ==
  ASSUME WiiInvariant, Shutdown \/ WorkerThread \/ UNCHANGED wiiVars, UNCHANGED asyncIndexReady
  PROVE  WiiInvariant'
<1>1. UNCHANGED realVars
  BY DEF Shutdown, WorkerThread, wiiVars
<1>2. callPhase = "ended" \/ UNCHANGED <<stopRequested, mutex>>
  BY DEF Shutdown, WorkerThread, wiiVars, workerRecord, W!ThreadStep, W!ThreadExits, W!TakeJob, W!FetchPage,
         W!FetchFails, W!Finish, W!Publish, W!recordVars
<1>3. LoopInvariant'
  BY <1>1, LoopUntouched DEF WiiInvariant
<1>4. ScreensSound' /\ IndexersInPlace'
  BY <1>1, <1>2 DEF WiiInvariant, ScreensSound, ScreensRemembered, NoListOpenWhileIndexing, DownloadsBetweenInputs,
                    IndexersInPlace, realVars, vars, viewVars, catalogVars, selectionVars, workerVars, indexVars
<1> QED BY <1>3, <1>4 DEF WiiInvariant

\* The loop starts on the platform list, with nothing under way.
LEMMA WiiInitInvariant == WiiInit => WiiInvariant
<1> SUFFICES ASSUME WiiInit
             PROVE  WiiInvariant
  OBVIOUS
<1>1. LoopInvariant
  BY RealInitSound DEF WiiInit, RealInit
<1>2. /\ currentView = "PLATFORMS" /\ ScreensRemembered
      /\ downloadPaused = FALSE /\ downloadWorkerRunning = FALSE
      /\ callPhase = "input" /\ selectedPlatformIndex = 0 /\ platforms = Catalog
      /\ romIndex.active = FALSE
      /\ mutex = "live" /\ stopRequested = FALSE
  BY DEF WiiInit, IndexInit, InitStatus, ScreensRemembered, NoIndex, W!WorkerInit
<1>3. ScreensSound /\ IndexersInPlace
  BY <1>2 DEF ScreensSound, NoListOpenWhileIndexing, DownloadsBetweenInputs, IndexersInPlace
<1> QED BY <1>1, <1>3 DEF WiiInvariant

\* Every step of the Wii loop and of the worker keeps the invariant.
LEMMA WiiStep == WiiInvariant /\ [WiiNext]_wiiVars => WiiInvariant'
<1> SUFFICES ASSUME WiiInvariant, [WiiNext]_wiiVars
             PROVE  WiiInvariant'
  OBVIOUS
<1>1. UNCHANGED asyncIndexReady
  BY DEF WiiNext, wiiVars
<1>2. CASE UNCHANGED wiiVars
  BY <1>1, <1>2, WorkerSideStep
<1>3. CASE WiiNext
  BY <1>1, <1>3, PointStep, PressStep, PollStep, DownloadStep, WorkerSideStep DEF WiiNext, MainLoop, Ended
<1> QED BY <1>2, <1>3

\* The screens, the queue and the two ways to index stay consistent on the Wii.
THEOREM WiiInvariantHolds == WiiSpec => []WiiInvariant
BY WiiInitInvariant, WiiStep, PTL DEF WiiSpec

\* The list that the loop fetches page by page never opens under a user who is
\* looking at another list or a ROM, nor under one who can go back to one.
THEOREM IndexingIsUnseen == WiiSpec => []NoListOpenWhileIndexing
BY WiiInvariantHolds, PTL DEF WiiInvariant, ScreensSound

\* No ROM is downloaded twice on the Wii either.
THEOREM WiiNoDuplicates == WiiSpec => []NoDuplicateDownloads
<1>1. WiiInvariant => NoDuplicateDownloads
  BY DEF WiiInvariant, LoopInvariant, QueueSound, Clean, NoDuplicateDownloads
<1> QED BY <1>1, WiiInvariantHolds, PTL

\* A run on the Wii leaves no waiting ROM untried.
THEOREM WiiRunReachesEveryRom == WiiSpec => RunTriesEverything
<1>1. ASSUME WiiInvariant, WiiNext, callPhase = "scan", callPhase' = "input"
      PROVE  PendingPositions(downloadQueue) = {}
  <2>1. RunRealDownloads
    BY <1>1 DEF WiiNext, MainLoop, Point, Press, Poll, Download, Shutdown, WorkerThread, Ended, LoopEnded, realVars
  <2> QED BY <1>1, <2>1, RunStep DEF WiiInvariant
<1>2. WiiInvariant /\ [WiiNext]_wiiVars =>
        [callPhase = "scan" /\ callPhase' = "input" => PendingPositions(downloadQueue) = {}]_realVars
  BY <1>1 DEF wiiVars
<1> QED BY <1>2, WiiInvariantHolds, PTL DEF WiiSpec, RunTriesEverything

\* The loop's frames use the worker's record only as RomIndexWorker allows: they
\* queue platforms of the catalog, take results that are there, and touch
\* nothing once the worker was told to stop.
THEOREM WiiKeepsWorkerContract == WiiSpec => UsesWorkerAsSpecified
<1>1. WiiInit => W!WorkerInit
  BY DEF WiiInit
<1>2. ASSUME WiiInvariant, [WiiNext]_wiiVars
      PROVE  [W!WorkerNext]_(W!workerRecord)
  <2>1. CASE UNCHANGED workerRecord
    BY <2>1 DEF workerRecord, W!workerRecord, W!recordVars, W!threadVars
  <2>2. CASE WorkerThread \/ Shutdown
    BY <2>2 DEF WorkerThread, Shutdown, W!WorkerNext, W!MainStep
  <2>3. CASE Press
    <3>1. UNCHANGED workerRecord \/ (platforms # <<>> /\ W!QueueJob(SelectedPlatform))
      BY <2>3 DEF Press, SelectPlatform, QueueSelectedPlatform, NoPress
    <3>2. CASE platforms # <<>> /\ W!QueueJob(SelectedPlatform)
      <4>1. SelectedPlatform \in Platform
        BY <1>2, <3>2, SelectedPlatformFacts, CatalogAssumption DEF WiiInvariant, IndexersInPlace, CatalogAssumption
      <4>2. mutex = "live" /\ ~stopRequested
        BY <1>2, <2>3 DEF Press, WiiInvariant, IndexersInPlace
      <4> QED BY <3>2, <4>1, <4>2 DEF W!WorkerNext, W!MainStep
    <3> QED BY <2>1, <3>1, <3>2
  <2>4. CASE Poll
    <3>1. UNCHANGED workerRecord \/ W!TakeResult
      BY <2>4 DEF Poll, PollResult, NothingToTake, DropFailure, InstallResult, StepIndex
    <3>2. mutex = "live" /\ ~stopRequested
      BY <1>2, <2>4 DEF Poll, WiiInvariant, IndexersInPlace
    <3> QED BY <2>1, <3>1, <3>2 DEF W!WorkerNext, W!MainStep
  <2> QED BY <1>2, <2>1, <2>2, <2>3, <2>4 DEF WiiNext, MainLoop, Point, Download, Ended, wiiVars
<1> QED BY <1>1, <1>2, WiiInvariantHolds, PTL DEF WiiSpec, UsesWorkerAsSpecified, W!WorkerSpec

-----------------------------------------------------------------------------
(* The pages of a list: RomsPage of the API client, page after page.        *)

\* The positions among the first m of a list whose ROM has an id.
NamedIn(list, m) == {i \in 1..m : list[i] \notin Nameless}

\* The object of a ROM has its id, unless the server left that out.
LEMMA RomObjectFacts ==
  ASSUME NEW r
  PROVE  /\ HasId(RomObject(r)) <=> r \notin Nameless
         /\ r \notin Nameless => IdOf(RomObject(r)) = r
<1>1. CASE r \in Nameless
  <2>1. RomObject(r) = <<>>
    BY <1>1 DEF RomObject
  <2>2. ~HasId(<<>>)
    BY DEF HasId, Has, FieldAt, SelectInSeq
  <2> QED BY <1>1, <2>1, <2>2
<1>2. CASE r \notin Nameless
  <2> DEFINE o == <<Field("id", "number", r)>>
  <2>1. /\ RomObject(r) = o /\ Len(o) = 1 /\ o[1].key = "id" /\ o[1].kind = "number" /\ o[1].value = r
    BY <1>2 DEF RomObject, Field
  <2> HIDE DEF o
  <2>2. {i \in 1..Len(o) : o[i].key = "id" /\ o[i].kind = "string"} = {}
    BY <2>1
  <2>3. {i \in 1..Len(o) : o[i].key = "id" /\ o[i].kind = "number"} = {1}
    BY <2>1
  <2>4. Min({1}) = 1
    BY DEF Min
  <2>5. ~Has(o, "id", "string") /\ FieldAt(o, "id", "number") = 1
    BY <2>2, <2>3, <2>4 DEF Has, FieldAt, SelectInSeq
  <2> QED BY <1>2, <2>1, <2>5 DEF HasId, IdOf, Has, ValueOf
<1> QED BY <1>1, <1>2

\* A stretch of a list.
LEMMA StretchFacts ==
  ASSUME NEW S, NEW list \in Seq(S), NEW first \in Nat, NEW m \in Nat, first + m <= Len(list)
  PROVE  /\ Len(SubSeq(list, first + 1, first + m)) = m
         /\ DOMAIN SubSeq(list, first + 1, first + m) = 1..m
         /\ \A j \in 1..m : SubSeq(list, first + 1, first + m)[j] = list[first + j]
<1>1. /\ Len(SubSeq(list, first + 1, first + m)) = m
      /\ DOMAIN SubSeq(list, first + 1, first + m) = 1..m
  OBVIOUS
<1>2. \A j \in 1..m : SubSeq(list, first + 1, first + m)[j] = list[first + j]
  OBVIOUS
<1> QED BY <1>1, <1>2

\* The entries of a page are the ROMs with an id of its stretch of the list.
LEMMA PageEntries ==
  ASSUME NEW p \in Platform, NEW n \in Nat, NEW first, first = n * PageLimit, first <= Len(CatalogRoms[p]),
         NEW m, m = Smaller(first + PageLimit, Len(CatalogRoms[p])) - first
  PROVE  /\ m \in 0..PageLimit /\ first + m = Smaller(first + PageLimit, Len(CatalogRoms[p]))
         /\ FetchRomsPage(p, n + 1).items
              = KeepPositions(Behind(CatalogRoms[p], first, m), NamedIn(Behind(CatalogRoms[p], first, m), m))
         /\ FetchRomsPage(p, n + 1).next
              = IF (IF NamesNextPage THEN first + PageLimit < Len(CatalogRoms[p]) ELSE m = PageLimit)
                THEN n + 2 ELSE 0
<1> DEFINE list == CatalogRoms[p]
           rows == SubSeq(list, first + 1, Smaller(first + PageLimit, Len(list)))
           objects == [i \in DOMAIN rows |-> RomObject(rows[i])]
           keep == NamedIn(Behind(list, first, m), m)
           named == IF NamesNextPage THEN (IF first + PageLimit < Len(list) THEN n + 2 ELSE 0) ELSE NoNextPage
           body == [array |-> "items", objects |-> objects, next |-> named, cut |-> "no"]
<1>1. PageLimit \in Nat \ {0} /\ list \in Seq(Rom) /\ Len(list) \in Nat /\ first \in Nat
  BY IndexAssumption, CatalogAssumption DEF IndexAssumption, CatalogAssumption
<1>2. m \in 0..PageLimit /\ first + m = Smaller(first + PageLimit, Len(list)) /\ first + m <= Len(list)
  BY <1>1 DEF Smaller
<1>3. RomsOffset(n + 1, PageLimit) = first
  <2>1. CASE n = 0
    BY <1>1, <2>1 DEF RomsOffset
  <2>2. CASE n # 0
    BY <1>1, <2>2 DEF RomsOffset
  <2> QED BY <2>1, <2>2
<1>4. first \div PageLimit = n
  BY <1>1
<1>5. FetchRomsPage(p, n + 1) = RomsPage(body, n + 1, PageLimit)
  BY <1>3, <1>4 DEF FetchRomsPage, RomsBody
<1>6. DOMAIN rows = 1..m /\ Len(rows) = m /\ \A j \in 1..m : rows[j] = list[first + j]
  <2>1. rows = SubSeq(list, first + 1, first + m)
    BY <1>2
  <2>2. m \in Nat
    BY <1>1, <1>2
  <2>3. list \in Seq(Rom) /\ first \in Nat /\ first + m <= Len(list)
    BY <1>1, <1>2
  <2> HIDE DEF list, rows
  <2>4. /\ Len(SubSeq(list, first + 1, first + m)) = m
        /\ DOMAIN SubSeq(list, first + 1, first + m) = 1..m
        /\ \A j \in 1..m : SubSeq(list, first + 1, first + m)[j] = list[first + j]
    BY ONLY <2>2, <2>3, StretchFacts
  <2> QED BY ONLY <2>1, <2>4
<1> HIDE DEF rows, list
<1>7. DOMAIN objects = 1..m /\ \A j \in 1..m : objects[j] = RomObject(list[first + j])
  BY <1>6
<1> HIDE DEF objects
<1>8. Len(objects) = m
  BY <1>2, <1>7
<1>13. keep = {j \in 1..m : list[first + j] \notin Nameless}
  BY DEF NamedIn, Behind
<1> HIDE DEF keep
<1>9. {j \in DOMAIN objects : HasId(objects[j])} = keep
  BY <1>7, <1>13, RomObjectFacts
<1> DEFINE kept == KeepPositions(objects, keep)
<1>10. FetchRomsPage(p, n + 1).items = [i \in DOMAIN kept |-> IdOf(kept[i])]
  <2>1. /\ body.objects = objects
        /\ FetchRomsPage(p, n + 1).items
             = [i \in DOMAIN WithId(body.objects) |-> IdOf(WithId(body.objects)[i])]
    BY <1>5 DEF RomsPage, ListIsClosed, Page
  <2> HIDE DEF body
  <2> QED BY <1>9, <2>1 DEF WithId
<1>11. FetchRomsPage(p, n + 1).next
         = IF (IF NamesNextPage THEN first + PageLimit < Len(list) ELSE m = PageLimit) THEN n + 2 ELSE 0
  <2>1. FetchRomsPage(p, n + 1).next
          = IF named # NoNextPage THEN named ELSE IF Len(objects) = PageLimit THEN n + 1 + 1 ELSE 0
    BY <1>5 DEF RomsPage, ListIsClosed, NextPageOf, Page
  <2>2. n + 2 # NoNextPage /\ 0 # NoNextPage /\ n + 1 + 1 = n + 2
    BY DEF NoNextPage
  <2>3. NamesNextPage \in BOOLEAN
    BY IndexAssumption DEF IndexAssumption
  <2> QED BY <1>8, <2>1, <2>2, <2>3
<1>12. [i \in DOMAIN kept |-> IdOf(kept[i])] = KeepPositions(Behind(list, first, m), keep)
  <2>1. keep \in SUBSET Nat /\ keep \subseteq 1..m
    BY <1>13
  <2>7. m \in Int /\ IsFiniteSet(1..m)
    BY <1>2, FS_Interval
  <2>2. IsFiniteSet(keep)
    BY <2>1, <2>7, FS_Subset
  <2> DEFINE ids == [j \in 1..m |-> IdOf(objects[j])]
  <2>3. PICK at : ComeFrom(at, objects, keep)
    BY <2>1, <2>2, KeptElements
  <2>4. \A j \in keep : ids[j] = Behind(list, first, m)[j]
    BY <1>7, <1>13, RomObjectFacts DEF Behind
  <2>5. KeepPositions(ids, keep) = KeepPositions(Behind(list, first, m), keep)
    <3> HIDE DEF ids
    <3> QED BY <2>1, <2>2, <2>4, KeepSame
  <2>6. [i \in DOMAIN kept |-> IdOf(kept[i])] = KeepPositions(ids, keep)
    <3> DEFINE c == Cardinality(keep)
               to == [k \in 1..c |-> CHOOSE i \in keep : RankIn(keep, i) = k]
    <3>1. \A k \in 1..c : \E i \in keep : RankIn(keep, i) = k
      BY <2>1, <2>2, RankIsPosition
    <3>2. kept = [k \in 1..c |-> objects[to[k]]] /\ KeepPositions(ids, keep) = [k \in 1..c |-> ids[to[k]]]
      BY DEF KeepPositions, RankIn
    <3> HIDE DEF c
    <3>3. \A k \in 1..c : to[k] \in 1..m
      BY <2>1, <3>1
    <3> HIDE DEF to, kept
    <3>4. \A k \in 1..c : ids[to[k]] = IdOf(objects[to[k]])
      BY <3>3
    <3> QED BY <3>2, <3>4
  <2> QED BY <2>5, <2>6
<1> QED BY <1>1, <1>2, <1>10, <1>11, <1>12 DEF list, keep

\* What n pages amount to: the list up to there, and the page after it.
Reached(p, n) ==
  [list |-> ListUpTo(p, n * PageLimit),
   next |-> IF \/ n = 0
               \/ n * PageLimit < Len(CatalogRoms[p])
               \/ ~NamesNextPage /\ n * PageLimit = Len(CatalogRoms[p])
            THEN n + 1 ELSE 0]

\* The numbers that paging counts with.
LEMMA PagingFacts ==
  ASSUME NEW p \in Platform, NEW n \in Nat
  PROVE  /\ PageLimit \in Nat \ {0} /\ n * PageLimit \in Nat
         /\ (n + 1) * PageLimit = n * PageLimit + PageLimit
         /\ CatalogRoms[p] \in Seq(Rom) /\ Len(CatalogRoms[p]) \in Nat
BY IndexAssumption, CatalogAssumption DEF IndexAssumption, CatalogAssumption

\* The ROMs with an id of a stretch and of the one behind it.
LEMMA StretchesJoin ==
  ASSUME NEW S, NEW list \in Seq(S), NEW first \in Nat, NEW m \in Nat, first + m <= Len(list)
  PROVE  KeepPositions(list, NamedIn(list, first + m))
           = Joined(KeepPositions(list, NamedIn(list, first)),
                    KeepPositions(Behind(list, first, m), NamedIn(Behind(list, first, m), m)))
<1> DEFINE before == NamedIn(list, first)
           keep == NamedIn(Behind(list, first, m), m)
<1>1. before \in SUBSET (1..first) /\ keep \in SUBSET (1..m)
  BY DEF NamedIn
<1>2. keep = {j \in 1..m : list[first + j] \notin Nameless}
  BY DEF NamedIn, Behind
<1>3. \A i \in 1..(first + m) : i \in 1..first \/ \E j \in 1..m : i = first + j
  <2> TAKE i \in 1..(first + m)
  <2>1. CASE i <= first
    BY <2>1
  <2>2. CASE ~(i <= first)
    <3>1. i - first \in 1..m /\ i = first + (i - first)
      BY <2>2
    <3> QED BY <3>1
  <2> QED BY <2>1, <2>2
<1>4. /\ \A i \in 1..first : i \in 1..(first + m)
      /\ \A j \in 1..m : first + j \in 1..(first + m)
      /\ \A i \in 1..(first + m) : list[i] \in S
  OBVIOUS
<1>5. NamedIn(list, first + m) = before \cup PlacesBehind(first, keep)
  BY <1>2, <1>3, <1>4 DEF NamedIn, PlacesBehind
<1>6. \A i \in before : list[i] \in S
  BY <1>1, <1>4
<1>7. \A j \in keep : list[first + j] \in S
  BY <1>1, <1>4
<1> HIDE DEF before, keep
<1>8. KeepPositions(list, before \cup PlacesBehind(first, keep))
        = Joined(KeepPositions(list, before), KeepPositions(Behind(list, first, m), keep))
  BY <1>1, <1>6, <1>7, KeepJoined
<1> QED BY <1>5, <1>8 DEF before, keep

\* Another page takes the list one page further.
LEMMA PageStep ==
  ASSUME NEW p \in Platform, NEW n \in Nat
  PROVE  OnePageMore(p, Reached(p, n)) = Reached(p, n + 1)
<1> DEFINE list == CatalogRoms[p]
           first == n * PageLimit
           m == Smaller(first + PageLimit, Len(list)) - first
           tail == KeepPositions(Behind(list, first, m), NamedIn(Behind(list, first, m), m))
<1>1. PageLimit \in Nat \ {0} /\ list \in Seq(Rom) /\ Len(list) \in Nat /\ first \in Nat
      /\ (n + 1) * PageLimit = first + PageLimit
  BY PagingFacts
<1>2. CASE Reached(p, n).next = 0
  <2>1. n # 0 /\ first >= Len(list)
    BY <1>1, <1>2 DEF Reached
  <2>2. Smaller(first, Len(list)) = Len(list) /\ Smaller(first + PageLimit, Len(list)) = Len(list)
    BY <1>1, <2>1 DEF Smaller
  <2>3. ListUpTo(p, (n + 1) * PageLimit) = ListUpTo(p, n * PageLimit)
    BY <1>1, <2>2 DEF ListUpTo
  <2>4. ~(n + 1 = 0) /\ ~((n + 1) * PageLimit < Len(list)) /\ (n + 1) * PageLimit # Len(list)
    BY <1>1, <2>1
  <2> HIDE DEF list, first
  <2>5. Reached(p, n + 1) = [list |-> ListUpTo(p, n * PageLimit), next |-> 0]
    BY <2>3, <2>4 DEF Reached, list
  <2>6. Reached(p, n) = [list |-> ListUpTo(p, n * PageLimit), next |-> 0]
    BY <1>2 DEF Reached
  <2> QED BY <1>2, <2>5, <2>6 DEF OnePageMore
<1>3. CASE Reached(p, n).next # 0
  <2>1. first <= Len(list) /\ Reached(p, n).next = n + 1
    BY <1>1, <1>3 DEF Reached
  <2>2. /\ m \in 0..PageLimit /\ first + m = Smaller(first + PageLimit, Len(list))
        /\ FetchRomsPage(p, n + 1).items = tail
        /\ FetchRomsPage(p, n + 1).next
             = IF (IF NamesNextPage THEN first + PageLimit < Len(list) ELSE m = PageLimit) THEN n + 2 ELSE 0
    <3>1. first = n * PageLimit /\ first <= Len(CatalogRoms[p])
          /\ m = Smaller(first + PageLimit, Len(CatalogRoms[p])) - first
      BY <2>1
    <3> HIDE DEF first, m
    <3> QED BY <3>1, PageEntries
  <2>3. m = PageLimit <=> first + PageLimit <= Len(list)
    BY <1>1 DEF Smaller
  <2> HIDE DEF list, first, m
  <2>4. FetchRomsPage(p, n + 1).next = Reached(p, n + 1).next
    <3>1. Reached(p, n + 1).next = IF \/ first + PageLimit < Len(list)
                                      \/ ~NamesNextPage /\ first + PageLimit = Len(list)
                                   THEN n + 2 ELSE 0
      BY <1>1 DEF Reached, list
    <3>2. NamesNextPage \in BOOLEAN
      BY IndexAssumption DEF IndexAssumption
    <3> QED BY <1>1, <2>2, <2>3, <3>1, <3>2
  <2>5. Smaller(first, Len(list)) = first
    BY <1>1, <2>1 DEF Smaller
  <2>6. ListUpTo(p, n * PageLimit) = KeepPositions(list, NamedIn(list, first))
    BY <2>5 DEF ListUpTo, NamedIn, list, first
  <2>7. ListUpTo(p, (n + 1) * PageLimit) = KeepPositions(list, NamedIn(list, first + m))
    BY <1>1, <2>2 DEF ListUpTo, NamedIn, list
  <2>8. m \in Nat /\ first + m <= Len(list)
    BY <1>1, <2>1, <2>2 DEF Smaller
  <2>9. KeepPositions(list, NamedIn(list, first + m)) = Joined(KeepPositions(list, NamedIn(list, first)), tail)
    BY <1>1, <2>8, StretchesJoin
  <2>12. ListUpTo(p, (n + 1) * PageLimit) = Reached(p, n).list \o FetchRomsPage(p, n + 1).items
    BY <2>2, <2>6, <2>7, <2>9 DEF Reached, Joined
  <2>13. OnePageMore(p, Reached(p, n))
           = [list |-> Reached(p, n).list \o FetchRomsPage(p, n + 1).items, next |-> FetchRomsPage(p, n + 1).next]
    BY <1>3, <2>1 DEF OnePageMore
  <2>14. Reached(p, n + 1) = [list |-> ListUpTo(p, (n + 1) * PageLimit), next |-> Reached(p, n + 1).next]
    BY DEF Reached
  <2> QED BY <2>4, <2>12, <2>13, <2>14
<1> QED BY <1>2, <1>3

\* Before the first page.
LEMMA NothingReached ==
  ASSUME NEW p \in Platform
  PROVE  Reached(p, 0) = [list |-> <<>>, next |-> 1]
<1>1. 0 * PageLimit = 0 /\ Smaller(0, Len(CatalogRoms[p])) = 0
  <2>1. PageLimit \in Nat /\ Len(CatalogRoms[p]) \in Nat
    BY PagingFacts
  <2> QED BY <2>1 DEF Smaller
<1>2. {i \in 1..0 : CatalogRoms[p][i] \notin Nameless} = {}
  OBVIOUS
<1>3. ListUpTo(p, 0 * PageLimit) = <<>>
  BY <1>1, <1>2, KeepNone DEF ListUpTo
<1> QED BY <1>3 DEF Reached

\* The pages one after the other lead there.
LEMMA PagesReach ==
  ASSUME NEW p \in Platform
  PROVE  \A n \in 0..(PageGuard + 1) : AfterPages[p][n] = Reached(p, n)
<1> DEFINE base == [list |-> <<>>, next |-> 1]
           Follows(f) == f = [n \in 0..(PageGuard + 1) |-> IF n = 0 THEN base ELSE OnePageMore(p, f[n - 1])]
           after == CHOOSE f : Follows(f)
           closed == [n \in 0..(PageGuard + 1) |-> Reached(p, n)]
           T == {n \in 0..(PageGuard + 1) : after[n] = Reached(p, n)}
<1>1. \A n \in 0..(PageGuard + 1) : AfterPages[p][n] = after[n]
  <2>1. AfterPages[p] = [n \in 0..(PageGuard + 1) |-> after[n]]
    BY DEF AfterPages
  <2> HIDE DEF after
  <2> QED BY <2>1
<1>2. PageGuard \in Nat \ {0}
  BY IndexAssumption DEF IndexAssumption
<1>3. Reached(p, 0) = base
  BY NothingReached
<1> HIDE DEF base
<1>4. Follows(closed)
  <2>1. ASSUME NEW n \in 0..(PageGuard + 1), n # 0
        PROVE  Reached(p, n) = OnePageMore(p, closed[n - 1])
    <3>1. n - 1 \in 0..(PageGuard + 1) /\ n - 1 \in Nat /\ (n - 1) + 1 = n
      BY <1>2, <2>1
    <3>2. closed[n - 1] = Reached(p, n - 1)
      BY <3>1
    <3> HIDE DEF closed
    <3> QED BY <3>1, <3>2, PageStep
  <2>2. closed = [n \in 0..(PageGuard + 1) |-> IF n = 0 THEN base ELSE OnePageMore(p, closed[n - 1])]
    BY <1>3, <2>1
  <2> QED BY <2>2
<1> HIDE DEF closed
<1>5. Follows(after)
  <2> HIDE DEF Follows
  <2> QED BY <1>4
<1> HIDE DEF after
<1>6. 0 \in T
  BY <1>2, <1>3, <1>5
<1>7. ASSUME NEW n \in 0..((PageGuard + 1) - 1), n \in T
      PROVE  n + 1 \in T
  <2>1. n + 1 \in 0..(PageGuard + 1) /\ n \in Nat /\ n + 1 # 0 /\ (n + 1) - 1 = n
    BY <1>2
  <2>2. after[n + 1] = OnePageMore(p, after[n])
    BY <1>5, <2>1
  <2> QED BY <1>7, <2>1, <2>2, PageStep
<1> HIDE DEF T
<1>8. PageGuard + 1 \in Nat
  BY <1>2
<1>9. \A n \in 0..(PageGuard + 1) : n \in T
  BY <1>6, <1>7, <1>8, InductionUpTo
<1> QED BY <1>1, <1>9 DEF T

-----------------------------------------------------------------------------
(* When a list is whole.                                                   *)

\* Every platform has a number of pages: the first page without a successor, or
\* one more than the guard allows.
LEMMA PagesFacts ==
  ASSUME NEW p \in Platform
  PROVE  /\ PagesOf[p] \in 1..(PageGuard + 1)
         /\ PagesOf[p] <= PageGuard => AfterPages[p][PagesOf[p]].next = 0
         /\ PageGuard \in Nat \ {0}
<1> DEFINE LastPages == {k \in 1..PageGuard : AfterPages[p][k].next = 0}
<1>1. PageGuard \in Nat \ {0}
  BY IndexAssumption DEF IndexAssumption
<1>2. \E n \in 1..(PageGuard + 1) :
        /\ n <= PageGuard => AfterPages[p][n].next = 0
        /\ \A k \in 1..(n - 1) : AfterPages[p][k].next # 0
  <2>1. CASE LastPages = {}
    <3>1. PageGuard + 1 \in 1..(PageGuard + 1) /\ ~(PageGuard + 1 <= PageGuard)
      BY <1>1
    <3>2. \A k \in 1..((PageGuard + 1) - 1) : AfterPages[p][k].next # 0
      BY <1>1, <2>1
    <3> QED BY <3>1, <3>2
  <2>2. CASE LastPages # {}
    <3>1. LastPages \in SUBSET Nat
      OBVIOUS
    <3>2. PICK n \in LastPages : \A k \in LastPages : n <= k
      BY <2>2, <3>1, LeastNumber
    <3>3. n \in 1..(PageGuard + 1) /\ AfterPages[p][n].next = 0
      BY <1>1, <3>2
    <3>4. \A k \in 1..(n - 1) : k \in 1..PageGuard /\ k \in Nat /\ ~(n <= k)
      BY <1>1, <3>2
    <3>5. \A k \in 1..(n - 1) : AfterPages[p][k].next # 0
      BY <3>2, <3>4
    <3> QED BY <3>3, <3>5
  <2> QED BY <2>1, <2>2
<1> DEFINE n == CHOOSE n \in 1..(PageGuard + 1) :
                  /\ n <= PageGuard => AfterPages[p][n].next = 0
                  /\ \A k \in 1..(n - 1) : AfterPages[p][k].next # 0
<1>3. n \in 1..(PageGuard + 1) /\ (n <= PageGuard => AfterPages[p][n].next = 0)
  BY <1>2
<1>4. PagesOf[p] = n
  BY DEF PagesOf
<1> HIDE DEF n
<1> QED BY <1>1, <1>3, <1>4

\* Behind the end of the list nothing is added to it.
LEMMA ListEnds ==
  ASSUME NEW p \in Platform, NEW a \in Nat, NEW b \in Nat,
         a >= Len(CatalogRoms[p]), b >= Len(CatalogRoms[p])
  PROVE  ListUpTo(p, a) = ListUpTo(p, b)
<1>1. Len(CatalogRoms[p]) \in Nat
  BY PagingFacts
<1>2. Smaller(a, Len(CatalogRoms[p])) = Smaller(b, Len(CatalogRoms[p]))
  BY <1>1 DEF Smaller
<1> QED BY <1>2 DEF ListUpTo

\* After a page without a successor the list is there to its end.
LEMMA LastPageFacts ==
  ASSUME NEW p \in Platform, NEW n \in 0..(PageGuard + 1)
  PROVE  /\ FirstPages(p, n) = ListUpTo(p, n * PageLimit)
         /\ AfterPages[p][n].next = 0 => n * PageLimit >= Len(CatalogRoms[p])
         /\ AfterPages[p][n].next # 0 /\ n <= PageGuard =>
              AfterPages[p][n + 1] = OnePageMore(p, AfterPages[p][n])
<1>1. PageGuard \in Nat \ {0} /\ n \in Nat
  BY IndexAssumption DEF IndexAssumption
<1>2. AfterPages[p][n] = Reached(p, n)
  BY PagesReach
<1>3. Reached(p, n).next = 0 => n * PageLimit >= Len(CatalogRoms[p])
  <2>1. n * PageLimit \in Nat /\ Len(CatalogRoms[p]) \in Nat /\ n + 1 # 0
    BY <1>1, PagingFacts
  <2> QED BY <1>1, <2>1 DEF Reached
<1>4. ASSUME n <= PageGuard
      PROVE  AfterPages[p][n + 1] = OnePageMore(p, AfterPages[p][n])
  <2>1. n + 1 \in 0..(PageGuard + 1)
    BY <1>1, <1>4
  <2> QED BY <1>1, <1>2, <2>1, PagesReach, PageStep
<1>5. FirstPages(p, n) = ListUpTo(p, n * PageLimit)
  BY <1>2 DEF FirstPages, Reached
<1> QED BY <1>2, <1>3, <1>4, <1>5

\* All pages of a platform, up to the guard, are its list up to there; and its
\* whole list if the guard is not reached.
LEMMA AllPages ==
  ASSUME NEW p \in Platform
  PROVE  /\ FirstPages(p, Smaller(PagesOf[p], PageGuard)) = ListUpTo(p, PageGuard * PageLimit)
         /\ PagesOf[p] <= PageGuard => FirstPages(p, PagesOf[p]) = ListUpTo(p, Len(CatalogRoms[p]))
<1> DEFINE n == PagesOf[p]
<1>1. /\ n \in 1..(PageGuard + 1) /\ PageGuard \in Nat \ {0}
      /\ n <= PageGuard => AfterPages[p][n].next = 0
  BY PagesFacts
<1> HIDE DEF n
<1>2. n \in Nat /\ n \in 0..(PageGuard + 1) /\ PageGuard \in 0..(PageGuard + 1)
  BY <1>1
<1>3. Len(CatalogRoms[p]) \in Nat /\ n * PageLimit \in Nat /\ PageGuard * PageLimit \in Nat /\ PageLimit \in Nat
  BY <1>1, <1>2, PagingFacts
<1>4. CASE n <= PageGuard
  <2>1. FirstPages(p, n) = ListUpTo(p, n * PageLimit) /\ n * PageLimit >= Len(CatalogRoms[p])
    BY <1>1, <1>2, <1>4, LastPageFacts
  <2>2. n * PageLimit <= PageGuard * PageLimit
    BY <1>1, <1>2, <1>3, <1>4
  <2>3. PageGuard * PageLimit >= Len(CatalogRoms[p])
    BY <1>3, <2>1, <2>2
  <2>4. Smaller(n, PageGuard) = n
    BY <1>1, <1>4 DEF Smaller
  <2> QED BY <1>3, <2>1, <2>3, <2>4, ListEnds DEF n
<1>5. CASE ~(n <= PageGuard)
  <2>1. Smaller(n, PageGuard) = PageGuard
    BY <1>1, <1>5 DEF Smaller
  <2> QED BY <1>2, <1>5, <2>1, LastPageFacts DEF n
<1> QED BY <1>4, <1>5

\* A list that is fetched page by page has one page more after each.
LEMMA NextOfPages ==
  ASSUME NEW p \in Platform, NEW g \in 0..(PageGuard - 1), AfterPages[p][g].next # 0,
         NEW page, page = FetchRomsPage(p, AfterPages[p][g].next)
  PROVE  AfterPages[p][g + 1] = [list |-> FirstPages(p, g) \o page.items, next |-> page.next]
<1>1. PageGuard \in Nat \ {0} /\ g <= PageGuard /\ g \in 0..(PageGuard + 1)
  BY IndexAssumption DEF IndexAssumption
<1> QED BY <1>1, LastPageFacts DEF OnePageMore, FirstPages

\* It is whole up to the guard when it ends.
LEMMA LastOfPages ==
  ASSUME NEW p \in Platform, NEW g \in 0..(PageGuard - 1), AfterPages[p][g].next # 0,
         NEW page, page = FetchRomsPage(p, AfterPages[p][g].next),
         page.next = 0 \/ g + 1 >= PageGuard
  PROVE  FirstPages(p, g) \o page.items = ListUpTo(p, PageGuard * PageLimit)
<1>1. PageGuard \in Nat \ {0} /\ g \in Nat /\ g + 1 \in 0..(PageGuard + 1) /\ g + 1 \in Nat
  BY IndexAssumption DEF IndexAssumption
<1>2. AfterPages[p][g + 1] = [list |-> FirstPages(p, g) \o page.items, next |-> page.next]
  BY NextOfPages
<1>3. FirstPages(p, g) \o page.items = ListUpTo(p, (g + 1) * PageLimit)
  <2>1. FirstPages(p, g + 1) = ListUpTo(p, (g + 1) * PageLimit)
    BY <1>1, LastPageFacts
  <2>2. FirstPages(p, g + 1) = AfterPages[p][g + 1].list
    BY DEF FirstPages
  <2> QED BY <1>2, <2>1, <2>2
<1>4. CASE page.next = 0
  <2>1. (g + 1) * PageLimit >= Len(CatalogRoms[p])
    BY <1>1, <1>2, <1>4, LastPageFacts
  <2>2. Len(CatalogRoms[p]) \in Nat /\ (g + 1) * PageLimit \in Nat /\ PageGuard * PageLimit \in Nat
        /\ PageLimit \in Nat
    BY <1>1, PagingFacts
  <2>3. (g + 1) * PageLimit <= PageGuard * PageLimit
    BY <1>1, <2>2
  <2>4. PageGuard * PageLimit >= Len(CatalogRoms[p])
    BY <2>1, <2>2, <2>3
  <2> QED BY <1>3, <2>1, <2>2, <2>4, ListEnds
<1>5. CASE g + 1 >= PageGuard
  <2>1. g + 1 = PageGuard
    BY <1>1, <1>5
  <2> QED BY <1>3, <2>1
<1> QED BY <1>4, <1>5

-----------------------------------------------------------------------------
(* What the worker's own theorems say of the Wii application.              *)

WP == INSTANCE RomIndexWorkerProofs WITH PlatformId <- Platform, Pages <- PagesOf

\* The assumption RomIndexWorker makes of the numbers of pages.
LEMMA PagesTyped == PagesOf \in [Platform -> Nat \ {0}]
<1>1. \A p \in Platform : PagesOf[p] \in Nat \ {0}
  BY PagesFacts
<1> QED BY <1>1 DEF PagesOf

\* Both instances of RomIndexWorker are the same specification.
LEMMA SameWorker ==
  /\ W!WorkerInit => WP!WorkerInit
  /\ [W!WorkerNext]_(W!workerRecord) => [WP!WorkerNext]_(WP!workerRecord)
<1>1. W!WorkerInit => WP!WorkerInit
  BY DEF W!WorkerInit, WP!WorkerInit, W!NoResult, WP!NoResult
<1>2. W!ThreadStep => WP!ThreadStep
  BY DEF W!ThreadStep, W!ThreadExits, W!TakeJob, W!FetchPage, W!FetchFails, W!Finish, W!Publish, W!Result,
         W!MorePages, W!recordVars,
         WP!ThreadStep, WP!ThreadExits, WP!TakeJob, WP!FetchPage, WP!FetchFails, WP!Finish, WP!Publish, WP!Result,
         WP!MorePages, WP!recordVars
<1>3. W!MainStep => WP!MainStep
  BY DEF W!MainStep, W!InProgress, W!QueueJob, W!TakeResult, W!RequestStop, W!JoinAndDestroy, W!NoResult,
         W!threadVars,
         WP!MainStep, WP!InProgress, WP!QueueJob, WP!TakeResult, WP!RequestStop, WP!JoinAndDestroy, WP!NoResult,
         WP!threadVars
<1>4. UNCHANGED W!workerRecord => UNCHANGED WP!workerRecord
  BY DEF W!workerRecord, W!recordVars, W!threadVars, WP!workerRecord, WP!recordVars, WP!threadVars
<1> QED BY <1>1, <1>2, <1>3, <1>4 DEF W!WorkerNext, WP!WorkerNext

\* In the whole application, with every screen, download and request of the
\* user, a successful result holds all pages of its platform, and the mutex is
\* not destroyed before the thread has ended.
THEOREM WiiWorkerIsSound == WiiSpec => [](W!WorkerTypeOK /\ W!ResultIsWhole /\ W!NoThreadAfterShutdown)
<1>1. WP!WorkerAssumption
  BY PagesTyped, IndexAssumption DEF WP!WorkerAssumption, IndexAssumption
<1>2. /\ WP!WorkerSpec => []WP!WorkerTypeOK
      /\ WP!WorkerSpec => []WP!NoThreadAfterShutdown
      /\ WP!WorkerSpec => []WP!ResultIsWhole
  BY <1>1, WP!WorkerTypeCorrect, WP!MutexOutlivesThread, WP!ResultsAreWhole
<1>3. W!WorkerSpec => WP!WorkerSpec
  BY SameWorker, PTL DEF W!WorkerSpec, WP!WorkerSpec
<1>4. WP!WorkerTypeOK /\ WP!NoThreadAfterShutdown /\ WP!ResultIsWhole
        => W!WorkerTypeOK /\ W!ResultIsWhole /\ W!NoThreadAfterShutdown
  BY DEF WP!WorkerTypeOK, W!WorkerTypeOK, WP!NoThreadAfterShutdown, W!NoThreadAfterShutdown, WP!ResultIsWhole,
         W!ResultIsWhole
<1> QED BY <1>2, <1>3, <1>4, WiiKeepsWorkerContract, PTL DEF UsesWorkerAsSpecified

-----------------------------------------------------------------------------
(* The lists that are known and the list that is shown: CatalogContract.    *)

\* A ROM list or a ROM is on the screen, or Back or the end of the downloads
\* can bring it there.
ListReachable ==
  \/ currentView \in {"ROMS", "DETAIL"}
  \/ (currentView \in {"QUEUE", "DOWNLOADING"} \/ downloadWorkerRunning) /\ prevQueueView \in {"ROMS", "DETAIL"}

\* What is reachable has been indexed.
CatalogShown ==
  /\ platforms = Catalog
  /\ selectedPlatformIndex \in Nat
  /\ indexed \subseteq Platform
  /\ DOMAIN roms = Platform
  /\ ListReachable => SelectedPlatform \in indexed

\* The catalog's promise, with what is indexed in place of the whole lists.
IndexedLists == INSTANCE CatalogContract WITH known <- indexed, shown <- ShownPlatform

CatalogStep == [IndexedLists!Next]_<<indexed, ShownPlatform>>

\* The steps of the catalog, as what they do to what is indexed and shown.
LEMMA CatalogMoves ==
  ASSUME NEW p \in Platform,
         \/ UNCHANGED <<indexed, ShownPlatform>>
         \/ UNCHANGED indexed /\ ShownPlatform' = NoPlatform
         \/ UNCHANGED indexed /\ ShownPlatform = NoPlatform /\ ShownPlatform' = p /\ p \in indexed
         \/ /\ indexed' = indexed \cup {p}
            /\ ShownPlatform' = ShownPlatform \/ (ShownPlatform = NoPlatform /\ ShownPlatform' = p)
  PROVE  CatalogStep
<1>1. CASE p \in indexed /\ indexed' = indexed \cup {p}
  <2>1. indexed' = indexed
    BY <1>1
  <2> QED BY <1>1, <2>1 DEF CatalogStep, IndexedLists!Next, IndexedLists!Show, IndexedLists!Leave
<1>2. CASE ~(p \in indexed /\ indexed' = indexed \cup {p})
  BY <1>2 DEF CatalogStep, IndexedLists!Next, IndexedLists!Show, IndexedLists!Learn, IndexedLists!Leave
<1> QED BY <1>1, <1>2

\* Where no other list becomes reachable, the catalog's promise is kept.
LEMMA ListStays ==
  ASSUME CatalogShown, UNCHANGED <<platforms, indexed>>, DOMAIN roms' = Platform,
         \/ UNCHANGED selectedPlatformIndex /\ (ListReachable' => ListReachable)
         \/ selectedPlatformIndex' \in Nat /\ ~ListReachable'
  PROVE  CatalogShown' /\ CatalogStep
<1>1. CASE UNCHANGED selectedPlatformIndex /\ (ListReachable' => ListReachable)
  <2>1. SelectedPlatform' = SelectedPlatform
    BY <1>1 DEF SelectedPlatform
  <2>2. CatalogShown'
    BY <1>1, <2>1 DEF CatalogShown
  <2>3. currentView' \in {"ROMS", "DETAIL"} => SelectedPlatform \in indexed /\ SelectedPlatform \in Platform
    BY <2>1, <2>2 DEF CatalogShown, ListReachable
  <2>4. CASE ShownPlatform' = NoPlatform
    BY <2>2, <2>4 DEF CatalogStep, IndexedLists!Next, IndexedLists!Leave
  <2>5. CASE ShownPlatform' # NoPlatform
    <3>1. ShownPlatform' = SelectedPlatform /\ currentView' \in {"ROMS", "DETAIL"}
      BY <2>1, <2>5 DEF ShownPlatform
    <3>2. ShownPlatform \in {NoPlatform, SelectedPlatform}
      BY DEF ShownPlatform
    <3>3. SelectedPlatform \in Platform /\ SelectedPlatform \in indexed
      BY <2>3, <3>1
    <3> QED BY <2>2, <3>1, <3>2, <3>3, CatalogMoves
  <2> QED BY <2>2, <2>4, <2>5
<1>2. CASE selectedPlatformIndex' \in Nat /\ ~ListReachable'
  <2>1. CatalogShown'
    BY <1>2 DEF CatalogShown
  <2>2. ShownPlatform' = NoPlatform
    BY <1>2 DEF ListReachable, ShownPlatform
  <2> QED BY <2>1, <2>2 DEF CatalogStep, IndexedLists!Next, IndexedLists!Leave
<1> QED BY <1>1, <1>2

\* A list opens that is indexed by now, and none other was open.
LEMMA ListOpens ==
  ASSUME CatalogShown, NEW p \in Platform,
         SelectedPlatform' = p, selectedPlatformIndex' \in Nat, currentView' = "ROMS",
         UNCHANGED platforms, DOMAIN roms' = Platform, indexed' = indexed \cup {p},
         ShownPlatform = NoPlatform \/ ShownPlatform = p
  PROVE  CatalogShown' /\ CatalogStep
<1>1. CatalogShown'
  BY DEF CatalogShown
<1>2. ShownPlatform' = p
  BY DEF ShownPlatform
<1> QED BY <1>1, <1>2, CatalogMoves

\* A list becomes known under whatever is on the screen.
LEMMA ListArrives ==
  ASSUME CatalogShown, NEW p \in Platform,
         UNCHANGED <<platforms, selectedPlatformIndex, currentView, prevQueueView, downloadWorkerRunning>>,
         DOMAIN roms' = Platform, indexed' = indexed \cup {p}
  PROVE  CatalogShown' /\ CatalogStep
<1>1. SelectedPlatform' = SelectedPlatform
  BY DEF SelectedPlatform
<1>2. CatalogShown'
  BY <1>1 DEF CatalogShown, ListReachable
<1>3. ShownPlatform' = ShownPlatform
  BY <1>1 DEF ShownPlatform
<1> QED BY <1>2, <1>3, CatalogMoves

\* A press other than Select on the platform list opens no list that was not
\* reachable, and the platform is selected only where none is.
LEMMA PressCatalog ==
  ASSUME CatalogShown, ScreensSound, keepRunning, OtherPress, ~downloadWorkerRunning
  PROVE  /\ CatalogShown' /\ CatalogStep
         /\ UNCHANGED <<roms, indexed, romIndex>>
<1>1. PICK a \in Inputs : ~(a = "Select" /\ currentView = "PLATFORMS") /\ ApplyAction(a)
  BY DEF OtherPress
<1>2. UNCHANGED <<indexed, romIndex>>
  BY DEF OtherPress, indexVars
<1>3. platforms \in Seq(Platform) /\ selectedPlatformIndex \in Nat
  BY CatalogAssumption DEF CatalogShown, CatalogAssumption
<1>4. UNCHANGED platforms /\ selectedPlatformIndex' \in Nat
  BY <1>3, OtherPressCatalog
<1> DEFINE Kept == UNCHANGED <<roms, selectedPlatformIndex, currentView, prevQueueView, downloadWorkerRunning>>
           Goal == /\ UNCHANGED roms
                   /\ \/ UNCHANGED selectedPlatformIndex /\ (ListReachable' => ListReachable)
                      \/ ~ListReachable'
<1>5. Kept => Goal
  BY DEF ListReachable
<1>6. ASSUME MoveSelection(-1) \/ MoveSelection(1) PROVE Goal
  <2>1. CASE currentView = "PLATFORMS"
    <3>1. UNCHANGED <<roms, currentView, downloadWorkerRunning>>
      BY <1>6 DEF MoveSelection, viewVars, catalogVars, workerVars
    <3> QED BY <2>1, <3>1 DEF ListReachable
  <2>2. CASE currentView # "PLATFORMS"
    <3>1. Kept
      BY <1>6, <2>2 DEF MoveSelection, viewVars, catalogVars, workerVars
    <3> QED BY <1>5, <3>1
  <2> QED BY <2>1, <2>2
<1>7. ASSUME \/ CycleSort(-1) \/ CycleSort(1) \/ CycleSearchQuery \/ RemoveSelectedQueueItem
             \/ ClearPendingAndFailed \/ RetrySelectedFailed \/ UseUpdater \/ Quit \/ PauseOrResume
      PROVE  Goal
  <2>1. Kept
    BY <1>7 DEF CycleSort, CycleSearchQuery, RemoveSelectedQueueItem, ClearPendingAndFailed, RetrySelectedFailed,
                UseUpdater, Quit, PauseOrResume, viewVars, catalogVars, workerVars, selectionVars
  <2> QED BY <1>5, <2>1
<1>8. ASSUME OpenRomDetail \/ EnqueueSelectedRom \/ OpenDiagnostics \/ OpenUpdater \/ OpenQueue \/ Back
      PROVE  Goal
  <2>1. UNCHANGED <<roms, selectedPlatformIndex, downloadWorkerRunning>>
    BY <1>8 DEF OpenRomDetail, EnqueueSelectedRom, OpenDiagnostics, OpenUpdater, OpenQueue, Back, catalogVars,
                selectionVars, workerVars
  <2>2. \/ currentView' \notin {"ROMS", "DETAIL", "QUEUE", "DOWNLOADING"}
        \/ UNCHANGED prevQueueView /\ currentView \in {"QUEUE", "DOWNLOADING"}
             /\ currentView' \in {"QUEUE", "DOWNLOADING", prevQueueView}
        \/ currentView' = "QUEUE" /\ prevQueueView' = currentView
        \/ currentView \in {"ROMS", "DETAIL"}
    BY <1>8 DEF OpenRomDetail, EnqueueSelectedRom, OpenDiagnostics, OpenUpdater, OpenQueue, Back, BackTarget,
                ScreensSound, ScreensRemembered, viewVars
  <2>3. ListReachable' => ListReachable
    BY <2>1, <2>2 DEF ListReachable
  <2> QED BY <2>1, <2>3
<1>9. ASSUME StartDownloads PROVE Goal
  <2>1. UNCHANGED <<roms, selectedPlatformIndex, prevQueueView>> /\ currentView = "QUEUE"
    BY <1>9 DEF StartDownloads, catalogVars, selectionVars
  <2>2. currentView' \in {"QUEUE", "DOWNLOADING"}
    BY <1>9 DEF StartDownloads
  <2> QED BY <2>1, <2>2 DEF ListReachable
<1>10. ~OpenRomList \/ a # "Select"
  BY <1>1 DEF OpenRomList
<1> HIDE DEF Goal, Kept
<1>11. Goal
  BY <1>1, <1>6, <1>7, <1>8, <1>9, <1>10 DEF ApplyAction, Select
<1>12. DOMAIN roms' = Platform
  BY <1>11 DEF Goal, CatalogShown
<1> QED BY <1>2, <1>4, <1>11, <1>12, ListStays DEF Goal

\* A run ends on the queue, from where only what was reachable is reachable.
LEMMA RunCatalog ==
  ASSUME CatalogShown, RunRealDownloads, downloadWorkerRunning
  PROVE  /\ CatalogShown' /\ CatalogStep
         /\ UNCHANGED <<roms, indexed, romIndex>>
<1>1. /\ UNCHANGED <<catalogVars, indexVars, selectedPlatformIndex, prevQueueView>>
      /\ currentView' \in {currentView, "QUEUE"}
  BY DEF RunRealDownloads, SkipItem, BeginItem, ItemCompleted, ItemFailed, Return, vars, viewVars, selectionVars
<1>2. ListReachable' => ListReachable
  BY <1>1 DEF ListReachable
<1> QED BY <1>1, <1>2, ListStays DEF CatalogShown, catalogVars, indexVars

-----------------------------------------------------------------------------
(* The Wii U: a list is fetched in the frame that opens it.                 *)

\* What is indexed is as long as it will get.
RealWhole == \A p \in indexed : roms[p] = ListUpTo(p, PageGuard * PageLimit)

\* No press comes while the downloads run.
RealCatalogInvariant ==
  /\ ScreensSound
  /\ callPhase = "input" <=> ~downloadWorkerRunning
  /\ callPhase \in {"input", "scan", "fetch"}
  /\ ~romIndex.active
  /\ CatalogShown
  /\ RealWhole

\* Nothing is indexed and nothing shown at first.
LEMMA RealCatalogInit == RealInit => RealCatalogInvariant /\ Lists!Init
<1> SUFFICES ASSUME RealInit
             PROVE  RealCatalogInvariant /\ Lists!Init
  OBVIOUS
<1>1. /\ currentView = "PLATFORMS" /\ ScreensRemembered
      /\ downloadPaused = FALSE /\ downloadWorkerRunning = FALSE
      /\ callPhase = "input" /\ selectedPlatformIndex = 0 /\ platforms = Catalog
      /\ romIndex.active = FALSE /\ indexed = {} /\ DOMAIN roms = Platform
  BY DEF RealInit, IndexInit, InitStatus, ScreensRemembered, NoIndex
<1>2. ScreensSound /\ CatalogShown /\ RealWhole
  BY <1>1 DEF ScreensSound, NoListOpenWhileIndexing, DownloadsBetweenInputs, CatalogShown, ListReachable, RealWhole
<1>3. Lists!Init
  BY <1>1 DEF Lists!Init, KnownLists, ShownPlatform
<1> QED BY <1>1, <1>2, <1>3 DEF RealCatalogInvariant

\* Select on the platform list.
LEMMA SelectCatalog ==
  ASSUME RealCatalogInvariant, SelectAndIndex, ~downloadWorkerRunning
  PROVE  CatalogShown' /\ RealWhole' /\ CatalogStep
<1>1. /\ currentView = "PLATFORMS" /\ platforms # <<>>
      /\ UNCHANGED <<platforms, selectedPlatformIndex, prevQueueView, downloadWorkerRunning>>
  BY DEF SelectAndIndex, workerVars
<1>2. /\ platforms \in Seq(Platform) /\ selectedPlatformIndex \in Nat
      /\ CatalogShown /\ RealWhole /\ DOMAIN roms = Platform
  BY CatalogAssumption DEF RealCatalogInvariant, CatalogShown, CatalogAssumption
<1> DEFINE p == SelectedPlatform
<1>3. p \in Platform /\ p' = p
  BY <1>1, <1>2, SelectedPlatformFacts DEF SelectedPlatform
<1>4. ShownPlatform = NoPlatform
  BY <1>1 DEF ShownPlatform
<1>5. ASSUME IndexSelectedPlatformRoms(p, TRUE), currentView' = "ROMS"
      PROVE  CatalogShown' /\ RealWhole' /\ CatalogStep
  <2>1. DOMAIN roms' = Platform /\ indexed' = indexed \cup {p}
    BY <1>2, <1>5 DEF IndexSelectedPlatformRoms
  <2>2. RealWhole'
    <3>1. CASE p \in indexed
      BY <1>2, <1>5, <3>1 DEF IndexSelectedPlatformRoms, RealWhole
    <3>2. CASE p \notin indexed
      <4>1. roms' = [roms EXCEPT ![p] = FirstPages(p, Smaller(PagesOf[p], PageGuard))]
        BY <1>5, <3>2 DEF IndexSelectedPlatformRoms
      <4>2. FirstPages(p, Smaller(PagesOf[p], PageGuard)) = ListUpTo(p, PageGuard * PageLimit)
        BY <1>3, AllPages
      <4> QED BY <1>2, <1>3, <2>1, <4>1, <4>2 DEF RealWhole, CatalogShown
    <3> QED BY <3>1, <3>2
  <2> QED BY <1>1, <1>2, <1>3, <1>4, <1>5, <2>1, <2>2, ListOpens
<1>6. ASSUME IndexSelectedPlatformRoms(p, FALSE), UNCHANGED currentView
      PROVE  CatalogShown' /\ RealWhole' /\ CatalogStep
  <2>1. p \notin indexed /\ UNCHANGED indexed
    BY <1>6 DEF IndexSelectedPlatformRoms
  <2>2. PICK n : roms' = [roms EXCEPT ![p] = FirstPages(p, n)]
    BY <1>6, <2>1 DEF IndexSelectedPlatformRoms
  <2>3. DOMAIN roms' = Platform /\ \A q \in indexed : roms'[q] = roms[q]
    BY <1>2, <2>1, <2>2 DEF CatalogShown
  <2>4. RealWhole'
    BY <1>2, <2>1, <2>3 DEF RealWhole
  <2>5. ListReachable' => ListReachable
    BY <1>1, <1>6 DEF ListReachable
  <2> QED BY <1>1, <1>2, <2>1, <2>3, <2>4, <2>5, ListStays
<1> QED BY <1>5, <1>6 DEF SelectAndIndex

\* Every step of the Wii U loop keeps the invariant and the promise.
LEMMA RealCatalogStep ==
  ASSUME RealCatalogInvariant, [RealNext]_realVars
  PROVE  RealCatalogInvariant' /\ CatalogStep
<1>1. CASE Frame
  <2>1. /\ callPhase = "input" /\ keepRunning /\ ~downloadWorkerRunning
        /\ callPhase' = IF keepRunning' /\ downloadWorkerRunning' /\ ~downloadPaused' THEN "scan" ELSE "input"
    BY <1>1 DEF Frame, RealCatalogInvariant
  <2>2. CASE SelectAndIndex
    <3>1. CatalogShown' /\ RealWhole' /\ CatalogStep
      BY <2>1, <2>2, SelectCatalog
    <3>2. UNCHANGED <<workerVars, romIndex, prevQueueView, prevDiagnosticsView, prevUpdaterView, keepRunning>>
      BY <2>2 DEF SelectAndIndex
    <3>3. ScreensSound'
      BY <2>1, <3>2 DEF RealCatalogInvariant, ScreensSound, ScreensRemembered, NoListOpenWhileIndexing,
                        DownloadsBetweenInputs, workerVars
    <3> QED BY <2>1, <3>1, <3>2, <3>3 DEF RealCatalogInvariant, workerVars
  <2>3. CASE OtherPress
    <3>1. /\ CatalogShown' /\ CatalogStep
          /\ UNCHANGED <<roms, indexed, romIndex>>
      BY <2>1, <2>3, PressCatalog DEF RealCatalogInvariant
    <3>2. /\ ScreensRemembered' /\ NoListOpenWhileIndexing' /\ ~downloadPaused'
          /\ ~keepRunning' => ~downloadWorkerRunning'
          /\ downloadWorkerRunning' => currentView' = "DOWNLOADING"
      BY <2>1, <2>3, OtherPressScreens DEF RealCatalogInvariant
    <3>3. callPhase' = "input" <=> ~downloadWorkerRunning'
      BY <2>1, <3>2
    <3>4. ScreensSound'
      BY <2>1, <3>1, <3>2 DEF RealCatalogInvariant, ScreensSound, DownloadsBetweenInputs
    <3>5. RealWhole'
      BY <3>1 DEF RealCatalogInvariant, RealWhole
    <3> QED BY <2>1, <3>1, <3>3, <3>4, <3>5 DEF RealCatalogInvariant
  <2> QED BY <1>1, <2>2, <2>3 DEF Frame
<1>2. CASE RunRealDownloads
  <2>1. callPhase \in {"scan", "fetch"} /\ downloadWorkerRunning
    BY <1>2 DEF RealCatalogInvariant, RunRealDownloads, SkipItem, BeginItem, ItemCompleted, ItemFailed, Return
  <2>2. /\ CatalogShown' /\ CatalogStep
        /\ UNCHANGED <<roms, indexed, romIndex>>
    BY <1>2, <2>1, RunCatalog DEF RealCatalogInvariant
  <2>3. /\ UNCHANGED <<prevQueueView, prevDiagnosticsView, prevUpdaterView>>
        /\ \/ callPhase' \in {"scan", "fetch"} /\ UNCHANGED <<currentView, workerVars>>
           \/ /\ callPhase' = "input" /\ currentView' = "QUEUE"
              /\ downloadWorkerRunning' = FALSE /\ downloadPaused' = FALSE
    BY <1>2 DEF RunRealDownloads, SkipItem, BeginItem, ItemCompleted, ItemFailed, Return, vars, indexVars, viewVars,
                catalogVars, selectionVars
  <2>5. ~romIndex'.active /\ ~downloadPaused /\ ScreensRemembered
    BY <2>2 DEF RealCatalogInvariant, ScreensSound, DownloadsBetweenInputs
  <2>6. ~downloadPaused' /\ (downloadWorkerRunning' <=> callPhase' \in {"scan", "fetch"})
    <3>1. CASE callPhase' \in {"scan", "fetch"} /\ UNCHANGED <<currentView, workerVars>>
      <4>1. UNCHANGED <<downloadWorkerRunning, downloadPaused>>
        BY <3>1 DEF workerVars
      <4>2. downloadWorkerRunning' /\ ~downloadPaused'
        BY <2>1, <2>5, <4>1
      <4> QED BY <3>1, <4>2
    <3>2. CASE callPhase' = "input" /\ downloadWorkerRunning' = FALSE /\ downloadPaused' = FALSE
      BY <3>2
    <3> QED BY <2>3, <3>1, <3>2
  <2>7. callPhase' \in {"scan", "fetch", "input"}
    BY <2>3
  <2>8. DownloadsBetweenInputs'
    BY <2>5, <2>6, <2>7 DEF DownloadsBetweenInputs
  <2>4. ScreensSound'
    BY <2>3, <2>5, <2>8 DEF ScreensSound, ScreensRemembered, NoListOpenWhileIndexing
  <2> QED BY <2>1, <2>2, <2>3, <2>4 DEF RealCatalogInvariant, RealWhole, workerVars
<1>3. CASE UNCHANGED realVars \/ (Terminated /\ UNCHANGED <<indexVars, callPhase, idx>>)
  <2>1. UNCHANGED <<viewVars, catalogVars, selectionVars, workerVars, indexVars, callPhase>>
    BY <1>3 DEF realVars, vars, Terminated
  <2>2. CatalogShown' /\ CatalogStep
    BY <2>1, ListStays DEF RealCatalogInvariant, CatalogShown, ListReachable, viewVars, catalogVars, selectionVars,
                           workerVars, indexVars
  <2> QED BY <2>1, <2>2 DEF RealCatalogInvariant, RealWhole, ScreensSound, ScreensRemembered, viewVars, catalogVars,
                            NoListOpenWhileIndexing, DownloadsBetweenInputs, workerVars, indexVars
<1> QED BY <1>1, <1>2, <1>3 DEF RealNext

\* On the Wii U the lists keep CatalogContract's promise: what is indexed is
\* whole up to the page guard, whatever failed before, and nothing else is shown.
THEOREM RealKeepsCatalog == RealSpec => ImplementsCatalog
<1>1. ASSUME RealCatalogInvariant, RealCatalogInvariant', CatalogStep
      PROVE  [Lists!Next]_<<KnownLists, ShownPlatform>>
  <2>1. KnownLists = indexed /\ KnownLists' = indexed'
    <3>1. /\ CatalogShown /\ RealWhole
          /\ CatalogShown' /\ RealWhole'
      BY <1>1 DEF RealCatalogInvariant
    <3>2. \A p \in indexed : roms[p] = ListToGuard[p]
      BY <3>1 DEF CatalogShown, RealWhole, ListToGuard
    <3>3. \A p \in indexed' : roms'[p] = ListToGuard[p]
      BY <3>1 DEF CatalogShown, RealWhole, ListToGuard
    <3> QED BY <3>2, <3>3 DEF KnownLists
  <2> QED BY <1>1, <2>1 DEF CatalogStep, IndexedLists!Next, IndexedLists!Learn, IndexedLists!Show, IndexedLists!Leave,
                            Lists!Next, Lists!Learn, Lists!Show, Lists!Leave
<1>2. RealCatalogInvariant /\ [RealNext]_realVars =>
        RealCatalogInvariant' /\ [Lists!Next]_<<KnownLists, ShownPlatform>>
  BY <1>1, RealCatalogStep
<1> QED BY <1>2, RealCatalogInit, PTL DEF RealSpec, ImplementsCatalog, Lists!Spec

-----------------------------------------------------------------------------
(* The Wii: lists come from the worker, or page by page from the frames.    *)

\* What is indexed is all there, with the worker; as long as it will get,
\* without it.
WiiWhole ==
  \A p \in indexed : roms[p] = ListUpTo(p, IF asyncIndexReady THEN Len(CatalogRoms[p])
                                                              ELSE PageGuard * PageLimit)

\* The index of the frames is of a platform that is not indexed yet, holds the
\* pages so far, and has a page to fetch.
IndexUnderWay ==
  /\ DOMAIN romIndex = {"active", "platformId", "romPage", "romGuard"}
  /\ romIndex.active =>
       /\ romIndex.platformId \in Platform \ indexed
       /\ romIndex.romGuard \in 0..(PageGuard - 1)
       /\ roms[romIndex.platformId] = FirstPages(romIndex.platformId, romIndex.romGuard)
       /\ romIndex.romPage = AfterPages[romIndex.platformId][romIndex.romGuard].next
       /\ romIndex.romPage # 0

WiiCatalogInvariant == CatalogShown /\ WiiWhole /\ IndexUnderWay

\* What the other parts of the application guarantee.
WiiSurroundings == WiiInvariant /\ W!WorkerTypeOK /\ W!ResultIsWhole

\* Nothing is indexed and nothing shown at first, on the Wii.
LEMMA WiiCatalogInit == WiiInit => WiiCatalogInvariant /\ WiiLists!Init
<1> SUFFICES ASSUME WiiInit
             PROVE  WiiCatalogInvariant /\ WiiLists!Init
  OBVIOUS
<1>1. /\ currentView = "PLATFORMS" /\ downloadWorkerRunning = FALSE
      /\ selectedPlatformIndex = 0 /\ platforms = Catalog
      /\ romIndex = NoIndex /\ indexed = {} /\ DOMAIN roms = Platform
  BY DEF WiiInit, IndexInit, InitStatus
<1>2. CatalogShown /\ WiiWhole /\ IndexUnderWay
  BY <1>1 DEF CatalogShown, ListReachable, WiiWhole, IndexUnderWay, NoIndex
<1>3. WiiLists!Init
  BY <1>1 DEF WiiLists!Init, WiiKnownLists, ShownPlatform
<1> QED BY <1>2, <1>3 DEF WiiCatalogInvariant

\* A step that leaves the lists and the index alone.
LEMMA ListsUntouched ==
  ASSUME WiiCatalogInvariant, UNCHANGED <<roms, indexed, romIndex, asyncIndexReady>>
  PROVE  WiiWhole' /\ IndexUnderWay' /\ DOMAIN roms' = Platform
BY DEF WiiCatalogInvariant, WiiWhole, IndexUnderWay, CatalogShown

\* The pointer selects a platform only where no list is reachable.
LEMMA PointCatalog ==
  ASSUME WiiSurroundings, WiiCatalogInvariant, Point, UNCHANGED asyncIndexReady
  PROVE  WiiCatalogInvariant' /\ CatalogStep
<1>1. /\ UNCHANGED <<currentView, prevQueueView, downloadWorkerRunning, platforms, roms, indexed, romIndex>>
      /\ ~downloadWorkerRunning
  BY DEF Point, viewVars, catalogVars, workerVars, indexVars, WiiSurroundings, WiiInvariant, ScreensSound,
         DownloadsBetweenInputs
<1>2. selectedPlatformIndex' \in Nat
  <2>1. WiiInvariant'
    BY PointStep DEF WiiSurroundings
  <2> QED BY <2>1 DEF WiiInvariant, IndexersInPlace
<1>3. UNCHANGED selectedPlatformIndex \/ currentView = "PLATFORMS"
  BY DEF Point, PointAtPlatform, PointAtQueueItem, PointAtEmptyQueue, PointAtRom
<1>4. \/ UNCHANGED selectedPlatformIndex /\ (ListReachable' => ListReachable)
      \/ selectedPlatformIndex' \in Nat /\ ~ListReachable'
  BY <1>1, <1>2, <1>3 DEF ListReachable
<1>5. WiiWhole' /\ IndexUnderWay' /\ DOMAIN roms' = Platform
  BY <1>1, ListsUntouched
<1> QED BY <1>1, <1>4, <1>5, ListStays DEF WiiCatalogInvariant

\* Select on the platform list, with the worker and without.
LEMMA SelectPlatformCatalog ==
  ASSUME WiiSurroundings, WiiCatalogInvariant, SelectPlatform, UNCHANGED asyncIndexReady
  PROVE  WiiCatalogInvariant' /\ CatalogStep
<1>1. /\ currentView = "PLATFORMS" /\ platforms # <<>>
      /\ UNCHANGED <<platforms, selectedPlatformIndex, prevQueueView, downloadWorkerRunning>>
  BY DEF SelectPlatform, workerVars, QueueSelectedPlatform, BeginSelectedPlatformRomIndex
<1>2. /\ platforms \in Seq(Platform) /\ selectedPlatformIndex \in Nat
      /\ CatalogShown /\ WiiWhole /\ IndexUnderWay /\ DOMAIN roms = Platform
  BY CatalogAssumption DEF WiiCatalogInvariant, CatalogShown, CatalogAssumption
<1> DEFINE p == SelectedPlatform
<1>3. p \in Platform /\ p' = p
  BY <1>1, <1>2, SelectedPlatformFacts DEF SelectedPlatform
<1>4. ShownPlatform = NoPlatform
  BY <1>1 DEF ShownPlatform
<1>5. ASSUME p \in indexed, currentView' = "ROMS", UNCHANGED <<roms, indexed>>, IndexUnderWay'
      PROVE  WiiCatalogInvariant' /\ CatalogStep
  <2>1. DOMAIN roms' = Platform /\ indexed' = indexed \cup {p}
    BY <1>2, <1>5
  <2>2. WiiWhole'
    BY <1>2, <1>5 DEF WiiWhole
  <2>3. CatalogShown' /\ CatalogStep
    BY <1>1, <1>2, <1>3, <1>4, <1>5, <2>1, ListOpens
  <2> QED BY <1>5, <2>2, <2>3 DEF WiiCatalogInvariant
<1>6. ASSUME UNCHANGED <<currentView, roms, indexed, romIndex>>
      PROVE  WiiCatalogInvariant' /\ CatalogStep
  <2>1. WiiWhole' /\ IndexUnderWay' /\ DOMAIN roms' = Platform
    BY <1>6, ListsUntouched
  <2>2. ListReachable' => ListReachable
    BY <1>1, <1>6 DEF ListReachable
  <2> QED BY <1>1, <1>2, <1>6, <2>1, <2>2, ListStays DEF WiiCatalogInvariant
<1>7. CASE asyncIndexReady
  <2>1. QueueSelectedPlatform
    BY <1>7 DEF SelectPlatform
  <2>2. UNCHANGED <<roms, indexed, romIndex>>
    BY <2>1 DEF QueueSelectedPlatform, indexVars
  <2>3. (p \in indexed /\ currentView' = "ROMS") \/ UNCHANGED currentView
    BY <2>1 DEF QueueSelectedPlatform
  <2>4. IndexUnderWay'
    BY <2>2, ListsUntouched
  <2> QED BY <1>5, <1>6, <2>2, <2>3, <2>4
<1>8. CASE ~asyncIndexReady
  <2>1. BeginSelectedPlatformRomIndex /\ UNCHANGED indexed
    BY <1>8 DEF SelectPlatform, BeginSelectedPlatformRomIndex
  <2>2. CASE OpenIndexed
    <3>1. IndexUnderWay'
      BY <2>2 DEF OpenIndexed, IndexUnderWay, NoIndex
    <3> QED BY <1>5, <2>1, <2>2, <3>1 DEF OpenIndexed
  <2>3. CASE AlreadyIndexing
    BY <1>6, <2>1, <2>3 DEF AlreadyIndexing
  <2>4. CASE StartIndex
    <3>1. /\ p \notin indexed
          /\ romIndex' = [active |-> TRUE, platformId |-> p, romPage |-> 1, romGuard |-> 0]
          /\ roms' = [roms EXCEPT ![p] = <<>>]
          /\ UNCHANGED currentView
      BY <2>4 DEF StartIndex
    <3>2. DOMAIN roms' = Platform /\ roms'[p] = <<>> /\ \A q \in indexed : roms'[q] = roms[q]
      BY <1>2, <1>3, <3>1
    <3>3. WiiWhole'
      BY <1>2, <2>1, <3>2 DEF WiiWhole
    <3>4. PageGuard \in Nat \ {0} /\ 0 \in 0..(PageGuard - 1) /\ 0 \in 0..(PageGuard + 1)
      BY IndexAssumption DEF IndexAssumption
    <3>5. AfterPages[p][0] = [list |-> <<>>, next |-> 1]
      BY <1>3, <3>4, PagesReach, NothingReached
    <3>6. IndexUnderWay'
      BY <1>3, <2>1, <3>1, <3>2, <3>4, <3>5 DEF IndexUnderWay, FirstPages
    <3>7. ListReachable' => ListReachable
      BY <1>1, <3>1 DEF ListReachable
    <3> QED BY <1>1, <1>2, <2>1, <3>2, <3>3, <3>6, <3>7, ListStays DEF WiiCatalogInvariant
  <2> QED BY <2>1, <2>2, <2>3, <2>4 DEF BeginSelectedPlatformRomIndex
<1> QED BY <1>7, <1>8

\* A press keeps the promise on the Wii.
LEMMA PressCatalogWii ==
  ASSUME WiiSurroundings, WiiCatalogInvariant, Press, UNCHANGED asyncIndexReady
  PROVE  WiiCatalogInvariant' /\ CatalogStep
<1>1. keepRunning /\ ~downloadWorkerRunning /\ ScreensSound /\ CatalogShown
  BY DEF Press, WiiSurroundings, WiiInvariant, ScreensSound, DownloadsBetweenInputs, WiiCatalogInvariant
<1>2. CASE SelectPlatform
  BY <1>2, SelectPlatformCatalog
<1>3. CASE OtherPress
  <2>1. /\ CatalogShown' /\ CatalogStep
        /\ UNCHANGED <<roms, indexed, romIndex>>
    BY <1>1, <1>3, PressCatalog
  <2> QED BY <2>1, ListsUntouched DEF WiiCatalogInvariant
<1>4. CASE UiReset /\ UNCHANGED indexVars
  <2>1. UNCHANGED <<platforms, roms, indexed, romIndex, downloadWorkerRunning>>
    BY <1>4 DEF UiReset, catalogVars, workerVars, indexVars
  <2>2. selectedPlatformIndex' \in Nat /\ ~ListReachable'
    BY <1>1, <1>4, <2>1 DEF UiReset, ListReachable
  <2>3. WiiWhole' /\ IndexUnderWay' /\ DOMAIN roms' = Platform
    BY <2>1, ListsUntouched
  <2> QED BY <1>1, <2>1, <2>2, <2>3, ListStays DEF WiiCatalogInvariant
<1>5. CASE NoPress
  <2>1. UNCHANGED <<platforms, roms, indexed, romIndex, selectedPlatformIndex, currentView, prevQueueView,
                    downloadWorkerRunning>>
    BY <1>5 DEF NoPress, vars, viewVars, catalogVars, selectionVars, workerVars, indexVars
  <2>2. ListReachable' => ListReachable
    BY <2>1 DEF ListReachable
  <2>3. WiiWhole' /\ IndexUnderWay' /\ DOMAIN roms' = Platform
    BY <2>1, ListsUntouched
  <2> QED BY <1>1, <2>1, <2>2, <2>3, ListStays DEF WiiCatalogInvariant
<1> QED BY <1>2, <1>3, <1>4, <1>5 DEF Press

\* A result that is taken makes its platform's list whole; it opens only if that
\* platform is selected, and then no other list was open.
LEMMA InstallCatalog ==
  ASSUME WiiSurroundings, WiiCatalogInvariant, InstallResult, asyncIndexReady, UNCHANGED asyncIndexReady
  PROVE  WiiCatalogInvariant' /\ CatalogStep
<1> DEFINE p == result.platform
<1>1. /\ roms' = [roms EXCEPT ![p] = FirstPages(p, result.pages)]
      /\ indexed' = indexed \cup {p}
      /\ UNCHANGED <<platforms, selectedPlatformIndex, prevQueueView, downloadWorkerRunning, romIndex>>
      /\ currentView' = IF SelectedPlatform = p THEN "ROMS" ELSE currentView
  BY DEF InstallResult, workerVars
<1>2. /\ CatalogShown /\ WiiWhole /\ IndexUnderWay /\ DOMAIN roms = Platform
      /\ ~romIndex.active
      /\ selectedPlatformIndex \in Nat
  BY DEF WiiCatalogInvariant, CatalogShown, WiiSurroundings, WiiInvariant, IndexersInPlace
<1>3. p \in Platform /\ result.pages = PagesOf[p] /\ PagesOf[p] <= PageGuard
  <2>1. result.ready /\ result.success
    BY DEF InstallResult
  <2>2. p \in Platform /\ result.pages = PagesOf[p]
    BY <2>1 DEF WiiSurroundings, W!ResultIsWhole
  <2>3. result.pages \in 0..PageGuard
    BY DEF WiiSurroundings, W!WorkerTypeOK
  <2> QED BY <2>2, <2>3
<1>4. FirstPages(p, result.pages) = ListUpTo(p, Len(CatalogRoms[p]))
  BY <1>3, AllPages
<1> HIDE DEF p
<1>5. DOMAIN roms' = Platform
  BY <1>1, <1>2
<1>6. \A q \in indexed' : roms'[q] = ListUpTo(q, Len(CatalogRoms[q]))
  BY <1>1, <1>2, <1>3, <1>4 DEF WiiWhole, CatalogShown
<1>7. WiiWhole' /\ IndexUnderWay'
  BY <1>1, <1>2, <1>6 DEF WiiWhole, IndexUnderWay
<1>8. CatalogShown' /\ CatalogStep
  <2>1. CASE SelectedPlatform = p
    <3>1. SelectedPlatform' = p
      BY <1>1, <2>1 DEF SelectedPlatform
    <3>2. ShownPlatform = NoPlatform \/ ShownPlatform = p
      BY <2>1 DEF ShownPlatform
    <3> QED BY <1>1, <1>2, <1>3, <1>5, <2>1, <3>1, <3>2, ListOpens
  <2>2. CASE SelectedPlatform # p
    BY <1>1, <1>2, <1>3, <1>5, <2>2, ListArrives
  <2> QED BY <2>1, <2>2
<1> QED BY <1>7, <1>8 DEF WiiCatalogInvariant

\* A page that is not the last leaves one to fetch.
LEMMA IndexPageCatalog ==
  ASSUME WiiCatalogInvariant, IndexPage, UNCHANGED <<platforms, prevQueueView, downloadWorkerRunning>>,
         UNCHANGED asyncIndexReady
  PROVE  WiiCatalogInvariant' /\ CatalogStep
<1> DEFINE p == romIndex.platformId
           g == romIndex.romGuard
           page == FetchRomsPage(p, romIndex.romPage)
<1>1. /\ romIndex.active /\ page.next # 0 /\ g + 1 < PageGuard
      /\ roms' = [roms EXCEPT ![p] = roms[p] \o page.items]
      /\ romIndex' = [romIndex EXCEPT !.romPage = page.next, !.romGuard = g + 1]
      /\ UNCHANGED <<indexed, currentView, selectedPlatformIndex>>
  BY DEF IndexPage
<1>2. /\ CatalogShown /\ WiiWhole /\ DOMAIN roms = Platform
      /\ p \in Platform \ indexed /\ g \in 0..(PageGuard - 1)
      /\ roms[p] = FirstPages(p, g)
      /\ romIndex.romPage = AfterPages[p][g].next /\ AfterPages[p][g].next # 0
      /\ DOMAIN romIndex = {"active", "platformId", "romPage", "romGuard"}
  BY <1>1 DEF WiiCatalogInvariant, CatalogShown, IndexUnderWay
<1>3. AfterPages[p][g + 1] = [list |-> FirstPages(p, g) \o page.items, next |-> page.next]
  <2>1. p \in Platform /\ page = FetchRomsPage(p, AfterPages[p][g].next)
    BY <1>2
  <2> HIDE DEF p, g, page
  <2>2. g \in 0..(PageGuard - 1) /\ AfterPages[p][g].next # 0
    BY <1>2
  <2> QED BY ONLY <2>1, <2>2, NextOfPages
<1>4. /\ romIndex'.active = romIndex.active /\ romIndex'.platformId = p
      /\ romIndex'.romPage = page.next /\ romIndex'.romGuard = g + 1
      /\ DOMAIN romIndex' = DOMAIN romIndex
  <2> HIDE DEF page
  <2> QED BY <1>1, <1>2
<1> HIDE DEF p, g, page
<1>5. DOMAIN roms' = Platform /\ roms'[p] = FirstPages(p, g + 1) /\ \A q \in indexed : roms'[q] = roms[q]
  <2>3. FirstPages(p, g + 1) = AfterPages[p][g + 1].list
    BY DEF FirstPages
  <2>1. FirstPages(p, g + 1) = FirstPages(p, g) \o page.items
    BY <1>3, <2>3
  <2>2. roms'[p] = roms[p] \o page.items
    BY <1>1, <1>2
  <2> QED BY <1>1, <1>2, <2>1, <2>2 DEF CatalogShown
<1>6. g + 1 \in 0..(PageGuard - 1)
  BY <1>1, <1>2, IndexAssumption DEF IndexAssumption
<1>7. WiiWhole'
  BY <1>1, <1>2, <1>5 DEF WiiWhole
<1>8. IndexUnderWay'
  <2>1. romIndex'.romPage = AfterPages[p][g + 1].next /\ romIndex'.romPage # 0
    BY <1>1, <1>3, <1>4
  <2> QED BY <1>1, <1>2, <1>4, <1>5, <1>6, <2>1 DEF IndexUnderWay
<1>9. ListReachable' => ListReachable
  BY <1>1 DEF ListReachable
<1> QED BY <1>1, <1>2, <1>5, <1>7, <1>8, <1>9, ListStays DEF WiiCatalogInvariant

\* The row of a platform of the catalog selects it.
LEMMA RowSelects ==
  ASSUME platforms \in Seq(Platform), NEW p, \E i \in DOMAIN platforms : platforms[i] = p,
         UNCHANGED platforms, selectedPlatformIndex' = PlatformRow(p)
  PROVE  selectedPlatformIndex' \in Nat /\ SelectedPlatform' = p
<1> DEFINE i == CHOOSE i \in DOMAIN platforms : platforms[i] = p
<1>1. i \in 1..Len(platforms) /\ platforms[i] = p /\ Len(platforms) \in Nat
  OBVIOUS
<1>2. selectedPlatformIndex' = i - 1
  BY DEF PlatformRow
<1> HIDE DEF i
<1>3. ClampIndex(i - 1, Len(platforms)) = i - 1 /\ (i - 1) + 1 = i
  BY <1>1 DEF ClampIndex
<1> QED BY <1>1, <1>2, <1>3 DEF SelectedPlatform

\* The last page makes the list as long as it will get, and opens it where no
\* list is open.
LEMMA IndexEndsCatalog ==
  ASSUME WiiSurroundings, WiiCatalogInvariant, IndexEnds, ~asyncIndexReady,
         UNCHANGED <<platforms, prevQueueView, downloadWorkerRunning>>, UNCHANGED asyncIndexReady
  PROVE  WiiCatalogInvariant' /\ CatalogStep
<1> DEFINE p == romIndex.platformId
           g == romIndex.romGuard
           page == FetchRomsPage(p, romIndex.romPage)
<1>1. /\ romIndex.active /\ (page.next = 0 \/ g + 1 >= PageGuard)
      /\ roms' = [roms EXCEPT ![p] = roms[p] \o page.items]
      /\ indexed' = indexed \cup {p}
      /\ romIndex' = [romIndex EXCEPT !.active = FALSE, !.romPage = page.next, !.romGuard = g + 1]
      /\ selectedPlatformIndex' = PlatformRow(p) /\ currentView' = "ROMS"
  BY DEF IndexEnds
<1>2. /\ CatalogShown /\ WiiWhole /\ DOMAIN roms = Platform
      /\ p \in Platform \ indexed /\ g \in 0..(PageGuard - 1)
      /\ roms[p] = FirstPages(p, g)
      /\ romIndex.romPage = AfterPages[p][g].next /\ AfterPages[p][g].next # 0
      /\ DOMAIN romIndex = {"active", "platformId", "romPage", "romGuard"}
  BY <1>1 DEF WiiCatalogInvariant, CatalogShown, IndexUnderWay
<1>3. FirstPages(p, g) \o page.items = ListUpTo(p, PageGuard * PageLimit)
  <2>1. p \in Platform /\ page = FetchRomsPage(p, AfterPages[p][g].next)
    BY <1>2
  <2> HIDE DEF p, g, page
  <2>2. g \in 0..(PageGuard - 1) /\ AfterPages[p][g].next # 0
    BY <1>2
  <2>3. page.next = 0 \/ g + 1 >= PageGuard
    BY <1>1
  <2> QED BY ONLY <2>1, <2>2, <2>3, LastOfPages
<1>4. ~romIndex'.active /\ DOMAIN romIndex' = DOMAIN romIndex
  <2> HIDE DEF page
  <2> QED BY <1>1, <1>2
<1>5. platforms \in Seq(Platform) /\ \E i \in DOMAIN platforms : platforms[i] = p
  BY <1>1, CatalogAssumption DEF WiiSurroundings, WiiInvariant, IndexersInPlace, CatalogAssumption
<1>6. ShownPlatform = NoPlatform
  BY <1>1 DEF WiiSurroundings, WiiInvariant, ScreensSound, NoListOpenWhileIndexing, ShownPlatform
<1> HIDE DEF p, g, page
<1>7. selectedPlatformIndex' \in Nat /\ SelectedPlatform' = p
  BY <1>1, <1>5, RowSelects
<1>8. DOMAIN roms' = Platform /\ roms'[p] = roms[p] \o page.items
  BY <1>1, <1>2
<1>9. WiiWhole'
  BY <1>1, <1>2, <1>3, <1>8 DEF WiiWhole, CatalogShown
<1>10. IndexUnderWay'
  BY <1>2, <1>4 DEF IndexUnderWay
<1>11. CatalogShown' /\ CatalogStep
  BY <1>1, <1>2, <1>6, <1>7, <1>8, ListOpens
<1> QED BY <1>9, <1>10, <1>11 DEF WiiCatalogInvariant

\* So does a poll of the worker, or a page of the frame.
LEMMA PollCatalog ==
  ASSUME WiiSurroundings, WiiCatalogInvariant, Poll, UNCHANGED asyncIndexReady
  PROVE  WiiCatalogInvariant' /\ CatalogStep
<1>1. ASSUME UNCHANGED <<platforms, roms, indexed, selectedPlatformIndex, currentView, prevQueueView,
                         downloadWorkerRunning>>,
             IndexUnderWay'
      PROVE  WiiCatalogInvariant' /\ CatalogStep
  <2>1. CatalogShown /\ WiiWhole /\ DOMAIN roms' = Platform
    BY <1>1 DEF WiiCatalogInvariant, CatalogShown
  <2>2. WiiWhole'
    BY <1>1, <2>1 DEF WiiWhole
  <2>3. ListReachable' => ListReachable
    BY <1>1 DEF ListReachable
  <2> QED BY <1>1, <2>1, <2>2, <2>3, ListStays DEF WiiCatalogInvariant
<1>2. CASE asyncIndexReady
  <2>1. CASE InstallResult
    BY <1>2, <2>1, InstallCatalog
  <2>2. CASE NothingToTake \/ DropFailure
    <3>1. UNCHANGED <<platforms, roms, indexed, romIndex, selectedPlatformIndex, currentView, prevQueueView,
                      downloadWorkerRunning>>
      BY <2>2 DEF NothingToTake, DropFailure, vars, viewVars, catalogVars, selectionVars, workerVars, indexVars
    <3>2. IndexUnderWay'
      BY <3>1, ListsUntouched
    <3> QED BY <1>1, <3>1, <3>2
  <2> QED BY <1>2, <2>1, <2>2 DEF Poll, PollResult
<1>3. CASE ~asyncIndexReady
  <2>1. StepPlatformRomIndex /\ UNCHANGED <<platforms, prevQueueView, downloadWorkerRunning>>
    BY <1>3 DEF Poll, StepIndex, workerVars
  <2>2. CASE IndexPage
    BY <2>1, <2>2, IndexPageCatalog
  <2>3. CASE IndexEnds
    BY <1>3, <2>1, <2>3, IndexEndsCatalog
  <2>4. CASE IndexFails
    <3>1. /\ UNCHANGED <<roms, indexed, currentView, selectedPlatformIndex>>
          /\ romIndex' = [romIndex EXCEPT !.active = FALSE]
      BY <2>4 DEF IndexFails
    <3>2. DOMAIN romIndex = {"active", "platformId", "romPage", "romGuard"}
      BY DEF WiiCatalogInvariant, IndexUnderWay
    <3>3. ~romIndex'.active /\ DOMAIN romIndex' = DOMAIN romIndex
      BY <3>1, <3>2
    <3>4. IndexUnderWay'
      BY <3>2, <3>3 DEF IndexUnderWay
    <3> QED BY <1>1, <2>1, <3>1, <3>4
  <2>5. CASE UNCHANGED <<roms, indexVars, currentView, selectedPlatformIndex, selectedRomIndex>>
    <3>1. UNCHANGED <<roms, indexed, romIndex, currentView, selectedPlatformIndex>>
      BY <2>5 DEF indexVars
    <3>2. IndexUnderWay'
      BY <3>1, ListsUntouched
    <3> QED BY <1>1, <2>1, <3>1, <3>2
  <2> QED BY <2>1, <2>2, <2>3, <2>4, <2>5 DEF StepPlatformRomIndex
<1> QED BY <1>2, <1>3

\* Every step of the Wii application keeps the invariant and the promise.
LEMMA WiiCatalogStep ==
  ASSUME WiiSurroundings, WiiCatalogInvariant, [WiiNext]_wiiVars
  PROVE  WiiCatalogInvariant' /\ CatalogStep /\ UNCHANGED asyncIndexReady
<1>1. UNCHANGED asyncIndexReady
  BY DEF WiiNext, wiiVars
<1>2. CASE Download
  <2>1. RunRealDownloads /\ downloadWorkerRunning
    BY <1>2 DEF Download, RunRealDownloads, SkipItem, BeginItem, ItemCompleted, ItemFailed, Return, WiiSurroundings,
                WiiInvariant, ScreensSound, DownloadsBetweenInputs
  <2>2. /\ CatalogShown' /\ CatalogStep
        /\ UNCHANGED <<roms, indexed, romIndex>>
    BY <2>1, RunCatalog DEF WiiCatalogInvariant
  <2> QED BY <1>1, <2>2, ListsUntouched DEF WiiCatalogInvariant
<1>3. CASE UNCHANGED realVars
  <2>1. UNCHANGED <<platforms, roms, indexed, romIndex, selectedPlatformIndex, currentView, prevQueueView,
                    downloadWorkerRunning>>
    BY <1>3 DEF realVars, vars, viewVars, catalogVars, selectionVars, workerVars, indexVars
  <2>2. ListReachable' => ListReachable
    BY <2>1 DEF ListReachable
  <2>3. WiiWhole' /\ IndexUnderWay' /\ DOMAIN roms' = Platform
    BY <1>1, <2>1, ListsUntouched
  <2> QED BY <1>1, <2>1, <2>2, <2>3, ListStays DEF WiiCatalogInvariant
<1>4. CASE Shutdown \/ WorkerThread \/ Ended \/ UNCHANGED wiiVars
  BY <1>3, <1>4 DEF Shutdown, WorkerThread, Ended, wiiVars
<1>5. CASE Point \/ Press \/ Poll
  BY <1>1, <1>5, PointCatalog, PressCatalogWii, PollCatalog
<1> QED BY <1>2, <1>4, <1>5 DEF WiiNext, MainLoop

\* Where what is known is what is indexed, the promise is the same.
LEMMA WiiListsStep ==
  ASSUME WiiCatalogInvariant, WiiCatalogInvariant', CatalogStep, UNCHANGED asyncIndexReady
  PROVE  [WiiLists!Next]_<<WiiKnownLists, ShownPlatform>>
<1>1. WiiKnownLists = indexed /\ WiiKnownLists' = indexed'
  <2>1. \A p \in indexed : roms[p] = IF asyncIndexReady THEN WholeList[p] ELSE ListToGuard[p]
    BY DEF WiiCatalogInvariant, CatalogShown, WiiWhole, WholeList, ListToGuard
  <2>2. \A p \in indexed' : roms'[p] = IF asyncIndexReady' THEN WholeList[p] ELSE ListToGuard[p]
    BY DEF WiiCatalogInvariant, CatalogShown, WiiWhole, WholeList, ListToGuard
  <2> QED BY <2>1, <2>2 DEF WiiKnownLists
<1> QED BY <1>1 DEF CatalogStep, IndexedLists!Next, IndexedLists!Learn, IndexedLists!Show, IndexedLists!Leave,
                    WiiLists!Next, WiiLists!Learn, WiiLists!Show, WiiLists!Leave

\* On the Wii the lists keep CatalogContract's promise, with the worker and
\* without it: a list is only shown when it is whole, and an open list is never
\* replaced, whatever was selected while its pages came in.
THEOREM WiiKeepsCatalog == WiiSpec => WiiImplementsCatalog
<1>1. WiiSurroundings /\ WiiCatalogInvariant /\ [WiiNext]_wiiVars =>
        WiiCatalogInvariant' /\ [WiiLists!Next]_<<WiiKnownLists, ShownPlatform>>
  BY WiiCatalogStep, WiiListsStep
<1>2. WiiSpec => []WiiSurroundings
  BY WiiInvariantHolds, WiiWorkerIsSound, PTL DEF WiiSurroundings
<1> QED BY <1>1, <1>2, WiiCatalogInit, PTL DEF WiiSpec, WiiImplementsCatalog, WiiLists!Spec
=============================================================================
