--------------------------- MODULE AppCoreProofs ---------------------------
(***************************************************************************)
(* Invariants of AppCore for every catalog, every set of inputs and every  *)
(* tick length.  Neither the type invariant nor the properties of the      *)
(* download queue are inductive alone: what clearPendingAndFailed leaves   *)
(* is typed only because an idle queue holds nothing but pending and       *)
(* failed items, and no ROM is enqueued twice only because the history     *)
(* holds nothing but completed ones.  IInv joins them.  What the screens   *)
(* show, the selections and the rows of the ROM list, is at the end.       *)
(***************************************************************************)
EXTENDS AppCore, Induction, TLAPS, FiniteSetTheorems, SequenceTheorems

\* Nothing completed stays in the queue; everything in the history is completed.
CompletedMoves ==
  /\ \A i \in DOMAIN downloadQueue : downloadQueue[i].state # "Completed"
  /\ \A i \in DOMAIN downloadHistory : downloadHistory[i].state = "Completed"

IInv == TypeOK /\ WorkerConsistent /\ NoDuplicateDownloads /\ CompletedMoves

-----------------------------------------------------------------------------
(* Lemmas about the operators of the model.                                *)

\* RemoveAt, the erase of one queue position, shifts the later items down.
LEMMA RemoveAtFacts ==
  ASSUME NEW S, NEW s \in Seq(S), NEW i \in 1..Len(s)
  PROVE  /\ RemoveAt(s, i) \in Seq(S)
         /\ Len(RemoveAt(s, i)) = Len(s) - 1
         /\ \A j \in 1..(Len(s) - 1) : RemoveAt(s, i)[j] = IF j < i THEN s[j] ELSE s[j + 1]
<1> DEFINE left == SubSeq(s, 1, i - 1)
           right == SubSeq(s, i + 1, Len(s))
<1>1. /\ left \in Seq(S)
      /\ Len(left) = i - 1
      /\ \A j \in 1..(i - 1) : left[j] = s[j]
  <2>1. \A j \in 1..(i - 1) : s[j] \in S
    OBVIOUS
  <2> QED BY <2>1
<1>2. /\ right \in Seq(S)
      /\ Len(right) = Len(s) - i
      /\ \A j \in i..(Len(s) - 1) : right[j - (i - 1)] = s[j + 1]
  OBVIOUS
<1>3. /\ left \o right \in Seq(S)
      /\ Len(left \o right) = Len(left) + Len(right)
      /\ \A j \in 1..(Len(left) + Len(right)) :
           (left \o right)[j] = IF j <= Len(left) THEN left[j] ELSE right[j - Len(left)]
  <2> HIDE DEF left, right
  <2> QED BY <1>1, <1>2, ConcatProperties
<1>4. RemoveAt(s, i) = left \o right
  BY DEF RemoveAt
<1> HIDE DEF left, right
<1>5. Len(left) + Len(right) = Len(s) - 1
  BY <1>1, <1>2
<1>6. ASSUME NEW j \in 1..(Len(s) - 1)
      PROVE  (left \o right)[j] = IF j < i THEN s[j] ELSE s[j + 1]
  <2>1. CASE j < i
    <3>1. j \in 1..(i - 1) /\ j <= Len(left)
      BY <1>1, <2>1
    <3> QED BY <1>1, <1>3, <1>5, <2>1, <3>1
  <2>2. CASE ~(j < i)
    <3>1. j \in i..(Len(s) - 1) /\ ~(j <= Len(left))
      BY <1>1, <2>2
    <3>2. right[j - Len(left)] = s[j + 1]
      BY <1>1, <1>2, <3>1
    <3> QED BY <1>3, <1>5, <2>2, <3>1, <3>2
  <2> QED BY <2>1, <2>2
<1> QED BY <1>3, <1>4, <1>5, <1>6

\* A clamped index is a natural number, and a position of a non-empty list.
LEMMA ClampFacts ==
  ASSUME NEW idx \in Int, NEW n \in Nat
  PROVE  /\ ClampIndex(idx, n) \in Nat
         /\ n # 0 => ClampIndex(idx, n) + 1 \in 1..n
BY DEF ClampIndex

\* The filtered ROM list is finite.
LEMMA VisibleFinite ==
  ASSUME TypeOK
  PROVE  /\ SelectedList \in Seq(Rom)
         /\ Cardinality(VisibleRoms(searchQuery)) \in Nat
<1>1. SelectedList \in Seq(Rom)
  <2>1. CASE platforms = <<>>
    BY <2>1 DEF SelectedList
  <2>2. CASE platforms # <<>>
    <3>1. Len(platforms) \in Nat \ {0}
      BY <2>2 DEF TypeOK
    <3>2. selectedPlatformIndex \in Int /\ Len(platforms) # 0
      BY <3>1 DEF TypeOK
    <3>3. ClampIndex(selectedPlatformIndex, Len(platforms)) + 1 \in 1..Len(platforms)
      BY <3>1, <3>2, ClampFacts
    <3>4. SelectedPlatform \in Platform
      BY <3>3 DEF TypeOK, SelectedPlatform
    <3> QED BY <2>2, <3>4 DEF TypeOK, SelectedList
  <2> QED BY <2>1, <2>2
<1>2. IsFiniteSet(1..Len(SelectedList))
  BY <1>1, FS_Interval
<1>3. VisibleRoms(searchQuery) \subseteq 1..Len(SelectedList)
  BY <1>1 DEF VisibleRoms
<1>4. IsFiniteSet(VisibleRoms(searchQuery))
  BY <1>2, <1>3, FS_Subset
<1>5. Cardinality(VisibleRoms(searchQuery)) \in Nat
  BY <1>4, FS_CardinalityType
<1> QED BY <1>1, <1>5

-----------------------------------------------------------------------------
(* Steps that leave the queue and the worker alone.                        *)

\* The queue's part of IInv only reads the queue, the history and the worker.
LEMMA QueueUntouched ==
  ASSUME IInv, UNCHANGED <<queueVars, workerVars>>
  PROVE  WorkerConsistent' /\ NoDuplicateDownloads' /\ CompletedMoves'
BY DEF IInv, WorkerConsistent, NoDuplicateDownloads, CompletedMoves, queueVars, workerVars

LEMMA MoveSelectionTyped ==
  ASSUME TypeOK, NEW delta \in {-1, 1}, MoveSelection(delta)
  PROVE  TypeOK' /\ UNCHANGED <<queueVars, workerVars>>
<1>1. TypeOK
  OBVIOUS
<1>2. UNCHANGED <<viewVars, catalogVars, filterVars, queueVars, workerVars, updaterVars, keepRunning>>
  BY DEF MoveSelection
<1>3. /\ selectedPlatformIndex' \in Nat
      /\ selectedRomIndex' \in Nat
      /\ selectedQueueIndex' \in Nat
  <2>1. CASE currentView = "PLATFORMS"
    <3>1. selectedPlatformIndex + delta \in Int /\ Len(platforms) \in Nat
      BY <1>1 DEF TypeOK
    <3> QED BY <1>1, <2>1, <3>1, ClampFacts DEF MoveSelection, TypeOK
  <2>2. CASE currentView = "ROMS"
    <3>1. selectedRomIndex + delta \in Int
      BY <1>1 DEF TypeOK
    <3> QED BY <1>1, <2>2, <3>1, ClampFacts, VisibleFinite DEF MoveSelection, TypeOK
  <2>3. CASE currentView \in {"QUEUE", "DOWNLOADING"}
    <3>1. selectedQueueIndex + delta \in Int /\ Len(downloadQueue) \in Nat
      BY <1>1 DEF TypeOK
    <3> QED BY <1>1, <2>3, <3>1, ClampFacts DEF MoveSelection, TypeOK
  <2> QED BY <2>1, <2>2, <2>3 DEF MoveSelection
<1>4. TypeOK'
  BY <1>1, <1>2, <1>3 DEF TypeOK, viewVars, catalogVars, filterVars, queueVars, workerVars, updaterVars
<1> QED BY <1>2, <1>4

LEMMA FilterTyped ==
  ASSUME TypeOK, CycleSort(-1) \/ CycleSort(1) \/ CycleSearchQuery
  PROVE  TypeOK' /\ UNCHANGED <<queueVars, workerVars>>
<1>1. TypeOK
  OBVIOUS
<1>2. /\ UNCHANGED <<viewVars, catalogVars, selectedPlatformIndex, selectedQueueIndex,
                     queueVars, workerVars, updaterVars, keepRunning>>
      /\ selectedRomIndex' \in Nat
      /\ searchQuery' \in 0..NumTerms
      /\ romSort' \in 0..2
  <2>1. selectedRomIndex \in Int
    BY <1>1 DEF TypeOK
  <2>2. ClampIndex(selectedRomIndex, Cardinality(VisibleRoms(searchQuery))) \in Nat
    BY <1>1, <2>1, ClampFacts, VisibleFinite
  <2>3. CASE CycleSort(-1) \/ CycleSort(1)
    <3>1. (romSort + (-1)) % 3 \in 0..2 /\ (romSort + 1) % 3 \in 0..2
      BY <1>1 DEF TypeOK
    <3>2. /\ romSort' = (romSort + (-1)) % 3 \/ romSort' = (romSort + 1) % 3
          /\ selectedRomIndex' = ClampIndex(selectedRomIndex, Cardinality(VisibleRoms(searchQuery)))
          /\ UNCHANGED <<viewVars, catalogVars, selectedPlatformIndex, selectedQueueIndex,
                         searchQuery, queueVars, workerVars, updaterVars, keepRunning>>
      BY <2>3 DEF CycleSort
    <3>3. searchQuery \in 0..NumTerms
      BY <1>1 DEF TypeOK
    <3> QED BY <2>2, <3>1, <3>2, <3>3
  <2>4. CASE CycleSearchQuery
    BY <1>1, <2>4, CatalogAssumption DEF CycleSearchQuery, TypeOK, CatalogAssumption
  <2> QED BY <2>3, <2>4
<1>3. TypeOK'
  BY <1>1, <1>2 DEF TypeOK, viewVars, catalogVars, queueVars, workerVars, updaterVars
<1> QED BY <1>2, <1>3

\* The actions that only change screens, the updater or the running flag.
ScreenAction ==
  \/ OpenRomList \/ OpenRomDetail \/ UseUpdater
  \/ OpenDiagnostics \/ OpenUpdater \/ OpenQueue \/ Back \/ Quit \/ PauseOrResume

LEMMA ScreenTyped ==
  ASSUME TypeOK, ScreenAction
  PROVE  /\ TypeOK'
         /\ UNCHANGED <<queueVars, downloadWorkerRunning, activeDownloadIndex>>
         /\ downloadWorkerRunning \/ UNCHANGED downloadPaused
<1> USE DEF viewVars, catalogVars, selectionVars, filterVars, queueVars, workerVars, updaterVars
<1>1. CASE OpenRomList
  BY <1>1 DEF OpenRomList, TypeOK, Views
<1>2. CASE OpenRomDetail
  BY <1>2 DEF OpenRomDetail, TypeOK, Views
<1>3. CASE UseUpdater
  BY <1>3 DEF UseUpdater, TypeOK, RunUpdaterCheck, AvailableVersion
<1>4. CASE OpenDiagnostics
  BY <1>4 DEF OpenDiagnostics, TypeOK, Views
<1>5. CASE OpenUpdater
  BY <1>5 DEF OpenUpdater, TypeOK, RunUpdaterCheck, Views, AvailableVersion
<1>6. CASE OpenQueue
  BY <1>6 DEF OpenQueue, TypeOK, Views
<1>7. CASE Back
  <2>1. BackTarget(currentView) \in Views
    BY DEF BackTarget, TypeOK, Views
  <2> QED BY <1>7, <2>1 DEF Back, TypeOK
<1>8. CASE Quit
  BY <1>8 DEF Quit, TypeOK
<1>9. CASE PauseOrResume
  BY <1>9 DEF PauseOrResume, TypeOK
<1> QED BY <1>1, <1>2, <1>3, <1>4, <1>5, <1>6, <1>7, <1>8, <1>9 DEF ScreenAction

\* The same for the invariant: of the worker only the pause changes, while it runs.
LEMMA QuietStep ==
  ASSUME IInv,
         \/ MoveSelection(-1) \/ MoveSelection(1)
         \/ CycleSort(-1) \/ CycleSort(1) \/ CycleSearchQuery
         \/ ScreenAction
  PROVE  IInv'
<1>1. /\ TypeOK'
      /\ UNCHANGED <<queueVars, downloadWorkerRunning, activeDownloadIndex>>
      /\ downloadWorkerRunning \/ UNCHANGED downloadPaused
  BY MoveSelectionTyped, FilterTyped, ScreenTyped DEF IInv, workerVars
<1> QED BY <1>1 DEF IInv, WorkerConsistent, NoDuplicateDownloads, CompletedMoves, queueVars

-----------------------------------------------------------------------------
(* Queues in general: what the operations below preserve.                  *)

\* Queue q and history h hold every ROM at most once, unfinished and completed.
Clean(q, h) ==
  /\ \A i, j \in DOMAIN q : q[i].rom = q[j].rom => i = j
  /\ \A i, j \in DOMAIN h : h[i].rom = h[j].rom => i = j
  /\ \A i \in DOMAIN q, j \in DOMAIN h : q[i].rom # h[j].rom
  /\ \A i \in DOMAIN q : q[i].state # "Completed"
  /\ \A i \in DOMAIN h : h[i].state = "Completed"

NoneFetched(q) == \A i \in DOMAIN q : q[i].state # "Downloading"

\* In queue q exactly position k is being downloaded.
OnlyFetched(q, k) == \A i \in DOMAIN q : q[i].state = "Downloading" <=> i = k

LEMMA CleanState ==
  NoDuplicateDownloads /\ CompletedMoves => Clean(downloadQueue, downloadHistory)
BY DEF Clean, NoDuplicateDownloads, CompletedMoves

\* beginDownload on a queue in which nothing is being downloaded.
LEMMA BeganFacts ==
  ASSUME NEW q \in Seq(QueueItem), NEW h, Clean(q, h), NoneFetched(q), NEW k \in DOMAIN q
  PROVE  /\ Began(q, k) \in Seq(QueueItem)
         /\ Len(Began(q, k)) = Len(q)
         /\ Clean(Began(q, k), h)
         /\ OnlyFetched(Began(q, k), k)
<1> DEFINE item == Begun(q[k])
<1>1. q[k] \in QueueItem
  OBVIOUS
<1>2. item \in QueueItem
  BY <1>1, PercentAssumption DEF Begun, Item, QueueItem, QueueStates, PercentAssumption
<1>3. Began(q, k) = [q EXCEPT ![k] = item]
  BY DEF Began
<1>4. item.rom = q[k].rom /\ item.state = "Downloading"
  BY DEF Begun, Item
<1> HIDE DEF item
<1>5. Began(q, k) \in Seq(QueueItem) /\ DOMAIN Began(q, k) = DOMAIN q /\ Len(Began(q, k)) = Len(q)
  BY <1>2, <1>3
<1>6. \A i \in DOMAIN q : Began(q, k)[i] = IF i = k THEN item ELSE q[i]
  BY <1>3
<1>7. \A i \in DOMAIN q : Began(q, k)[i].rom = q[i].rom
  BY <1>4, <1>6
<1>8. Clean(Began(q, k), h)
  BY <1>4, <1>5, <1>6, <1>7 DEF Clean
<1>9. OnlyFetched(Began(q, k), k)
  BY <1>4, <1>5, <1>6 DEF OnlyFetched, NoneFetched
<1> QED BY <1>5, <1>8, <1>9

LEMMA BeginFirstPendingFacts ==
  ASSUME NEW q \in Seq(QueueItem), NEW h, Clean(q, h), NoneFetched(q), BeginFirstPending(q)
  PROVE  /\ downloadQueue' \in Seq(QueueItem)
         /\ activeDownloadIndex' \in 0..(Len(downloadQueue') - 1)
         /\ OnlyFetched(downloadQueue', activeDownloadIndex' + 1)
         /\ Clean(downloadQueue', h)
<1>1. PICK k \in DOMAIN q : downloadQueue' = Began(q, k) /\ activeDownloadIndex' = k - 1
  BY DEF BeginFirstPending, PendingPositions
<1>2. k \in 1..Len(q) /\ Len(q) \in Nat
  OBVIOUS
<1>3. activeDownloadIndex' + 1 = k
  BY <1>1, <1>2
<1> QED BY <1>1, <1>2, <1>3, BeganFacts

\* beginNextPendingDownload, called when the active item has settled.
LEMMA BeginNextFacts ==
  ASSUME NEW q \in Seq(QueueItem), NEW h, Clean(q, h), NoneFetched(q),
         downloadWorkerRunning = TRUE, downloadPaused = FALSE, currentView \in Views,
         BeginNextPendingDownload(q), downloadHistory' = h
  PROVE  /\ downloadQueue' \in Seq(QueueItem)
         /\ downloadWorkerRunning' \in BOOLEAN
         /\ downloadPaused' \in BOOLEAN
         /\ activeDownloadIndex' \in Int
         /\ currentView' \in Views
         /\ WorkerConsistent'
         /\ NoDuplicateDownloads'
         /\ CompletedMoves'
<1>1. CASE /\ BeginFirstPending(q)
           /\ UNCHANGED <<downloadWorkerRunning, downloadPaused, currentView>>
  <2>1. /\ downloadQueue' \in Seq(QueueItem)
        /\ activeDownloadIndex' \in 0..(Len(downloadQueue') - 1)
        /\ OnlyFetched(downloadQueue', activeDownloadIndex' + 1)
        /\ Clean(downloadQueue', h)
    BY <1>1, BeginFirstPendingFacts
  <2>2. WorkerConsistent'
    BY <1>1, <2>1 DEF WorkerConsistent, OnlyFetched
  <2>3. NoDuplicateDownloads' /\ CompletedMoves'
    BY <2>1 DEF Clean, NoDuplicateDownloads, CompletedMoves
  <2>4. activeDownloadIndex' \in Int
    BY <2>1
  <2> QED BY <1>1, <2>1, <2>2, <2>3, <2>4, Zenon
<1>2. CASE StopWorker(q)
  <2>1. WorkerConsistent'
    BY <1>2 DEF StopWorker, WorkerConsistent, NoneFetched
  <2>2. NoDuplicateDownloads' /\ CompletedMoves'
    BY <1>2 DEF StopWorker, Clean, NoDuplicateDownloads, CompletedMoves
  <2>3. activeDownloadIndex' \in Int /\ currentView' \in Views /\ downloadQueue' \in Seq(QueueItem)
    BY <1>2 DEF StopWorker, Views
  <2>4. downloadWorkerRunning' = FALSE /\ downloadPaused' = FALSE
    BY <1>2 DEF StopWorker
  <2> QED BY <2>1, <2>2, <2>3, <2>4, Zenon
<1> QED BY <1>1, <1>2 DEF BeginNextPendingDownload

-----------------------------------------------------------------------------
(* Steps that edit the queue.                                              *)

LEMMA SelectionAfterEraseFacts ==
  ASSUME selectedQueueIndex \in Nat, NEW q \in Seq(QueueItem)
  PROVE  SelectionAfterErase(q) \in Nat
<1>1. Len(q) \in Nat /\ (q # <<>> => Len(q) > 0)
  OBVIOUS
<1> QED BY <1>1 DEF SelectionAfterErase

\* Erasing one position keeps a queue clean.
LEMMA RemoveClean ==
  ASSUME NEW q \in Seq(QueueItem), NEW h, Clean(q, h), NEW k \in 1..Len(q)
  PROVE  Clean(RemoveAt(q, k), h)
<1>1. /\ RemoveAt(q, k) \in Seq(QueueItem)
      /\ Len(RemoveAt(q, k)) = Len(q) - 1
      /\ \A j \in 1..(Len(q) - 1) : RemoveAt(q, k)[j] = IF j < k THEN q[j] ELSE q[j + 1]
  BY RemoveAtFacts
<1>2. DOMAIN RemoveAt(q, k) = 1..(Len(q) - 1) /\ DOMAIN q = 1..Len(q) /\ Len(q) \in Nat
  BY <1>1
<1>3. ASSUME NEW i \in DOMAIN RemoveAt(q, k), NEW j \in DOMAIN RemoveAt(q, k),
             RemoveAt(q, k)[i].rom = RemoveAt(q, k)[j].rom
      PROVE  i = j
  <2> DEFINE a == IF i < k THEN i ELSE i + 1
             b == IF j < k THEN j ELSE j + 1
  <2>1. a \in 1..Len(q) /\ b \in 1..Len(q) /\ (a = b => i = j)
    BY <1>2
  <2>2. RemoveAt(q, k)[i] = q[a] /\ RemoveAt(q, k)[j] = q[b]
    BY <1>1, <1>2
  <2> HIDE DEF a, b
  <2>3. a = b
    BY <1>2, <1>3, <2>1, <2>2 DEF Clean
  <2> QED BY <2>1, <2>3
<1>4. ASSUME NEW i \in DOMAIN RemoveAt(q, k)
      PROVE  \E a \in DOMAIN q : RemoveAt(q, k)[i] = q[a]
  <2>1. i \in 1..Len(q) /\ i + 1 \in 1..Len(q)
    BY <1>2
  <2> QED BY <1>1, <1>2, <2>1
<1> HIDE DEF RemoveAt
<1> QED BY <1>3, <1>4 DEF Clean

LEMMA RemoveStep ==
  ASSUME IInv, RemoveSelectedQueueItem
  PROVE  IInv'
<1> DEFINE idx == ClampIndex(selectedQueueIndex, Len(downloadQueue))
           rest == RemoveAt(downloadQueue, idx + 1)
<1>1. TypeOK /\ WorkerConsistent /\ Clean(downloadQueue, downloadHistory)
  BY CleanState DEF IInv
<1>2. /\ downloadQueue # <<>>
      /\ ~(downloadWorkerRunning /\ idx = activeDownloadIndex)
      /\ downloadQueue' = rest
      /\ activeDownloadIndex' = IF activeDownloadIndex > idx THEN activeDownloadIndex - 1
                                                             ELSE activeDownloadIndex
      /\ selectedQueueIndex' = SelectionAfterErase(rest)
      /\ UNCHANGED <<viewVars, catalogVars, selectedPlatformIndex, selectedRomIndex, filterVars,
                     downloadHistory, downloadWorkerRunning, downloadPaused, updaterVars, keepRunning>>
  BY DEF RemoveSelectedQueueItem
<1>3. downloadQueue \in Seq(QueueItem) /\ Len(downloadQueue) \in Nat \ {0}
  BY <1>1, <1>2 DEF TypeOK
<1>4. idx \in Nat /\ idx + 1 \in 1..Len(downloadQueue)
  <2>1. selectedQueueIndex \in Int
    BY <1>1 DEF TypeOK
  <2> QED BY <1>3, <2>1, ClampFacts
<1> HIDE DEF idx
<1>5. /\ rest \in Seq(QueueItem)
      /\ Len(rest) = Len(downloadQueue) - 1
      /\ \A j \in 1..(Len(downloadQueue) - 1) :
           rest[j] = IF j < idx + 1 THEN downloadQueue[j] ELSE downloadQueue[j + 1]
  BY <1>3, <1>4, RemoveAtFacts
<1>6. Clean(rest, downloadHistory)
  BY <1>1, <1>3, <1>4, RemoveClean
<1> HIDE DEF rest
<1>7. NoDuplicateDownloads' /\ CompletedMoves'
  BY <1>2, <1>6 DEF Clean, NoDuplicateDownloads, CompletedMoves
<1>8. WorkerConsistent'
  <2>1. DOMAIN rest = 1..(Len(downloadQueue) - 1) /\ DOMAIN downloadQueue = 1..Len(downloadQueue)
    BY <1>3, <1>5
  <2>2. CASE downloadWorkerRunning
    <3>1. /\ activeDownloadIndex \in 0..(Len(downloadQueue) - 1)
          /\ activeDownloadIndex # idx
          /\ \A i \in DOMAIN downloadQueue :
               downloadQueue[i].state = "Downloading" <=> i = activeDownloadIndex + 1
      BY <1>1, <1>2, <2>2 DEF WorkerConsistent
    <3>2. activeDownloadIndex' \in 0..(Len(rest) - 1)
      BY <1>2, <1>3, <1>4, <1>5, <3>1
    <3>3. ASSUME NEW i \in DOMAIN rest
          PROVE  rest[i].state = "Downloading" <=> i = activeDownloadIndex' + 1
      <4> DEFINE a == IF i < idx + 1 THEN i ELSE i + 1
      <4>1. a \in 1..Len(downloadQueue)
        BY <1>3, <2>1
      <4>2. rest[i] = downloadQueue[a]
        BY <1>5, <2>1
      <4>3. a = activeDownloadIndex + 1 <=> i = activeDownloadIndex' + 1
        BY <1>2, <1>3, <1>4, <2>1, <3>1
      <4> HIDE DEF a
      <4> QED BY <2>1, <3>1, <4>1, <4>2, <4>3
    <3> QED BY <1>2, <2>2, <3>2, <3>3 DEF WorkerConsistent
  <2>3. CASE ~downloadWorkerRunning
    <3>1. /\ activeDownloadIndex = -1 /\ ~downloadPaused
          /\ \A i \in DOMAIN downloadQueue : downloadQueue[i].state # "Downloading"
      BY <1>1, <2>3 DEF WorkerConsistent
    <3>2. activeDownloadIndex' = -1
      BY <1>2, <1>4, <3>1
    <3>3. \A i \in DOMAIN rest : \E a \in DOMAIN downloadQueue : rest[i] = downloadQueue[a]
      <4> TAKE i \in DOMAIN rest
      <4>1. i \in DOMAIN downloadQueue /\ i + 1 \in DOMAIN downloadQueue
        BY <1>3, <2>1
      <4> QED BY <1>5, <2>1, <4>1
    <3> QED BY <1>2, <2>3, <3>1, <3>2, <3>3 DEF WorkerConsistent
  <2> QED BY <2>2, <2>3
<1>9. selectedQueueIndex' \in Nat /\ activeDownloadIndex' \in Int
  <2>1. selectedQueueIndex \in Nat /\ activeDownloadIndex \in Int
    BY <1>1 DEF TypeOK
  <2> QED BY <1>2, <1>4, <1>5, <2>1, SelectionAfterEraseFacts
<1>10. TypeOK'
  BY <1>1, <1>2, <1>5, <1>9 DEF TypeOK, viewVars, catalogVars, filterVars, updaterVars
<1> QED BY <1>7, <1>8, <1>10 DEF IInv

\* An idle queue holds pending and failed items only, so clearing empties it.
LEMMA ClearStep ==
  ASSUME IInv, ClearPendingAndFailed
  PROVE  IInv'
<1>1. TypeOK /\ WorkerConsistent /\ NoDuplicateDownloads /\ CompletedMoves
  BY DEF IInv
<1>2. {i \in DOMAIN downloadQueue : downloadQueue[i].state \notin {"Pending", "Failed"}} = {}
  <2>1. ~downloadWorkerRunning
    BY DEF ClearPendingAndFailed
  <2>2. \A i \in DOMAIN downloadQueue :
           downloadQueue[i].state \in QueueStates \ {"Downloading", "Completed"}
    <3> TAKE i \in DOMAIN downloadQueue
    <3>1. downloadQueue[i] \in QueueItem
      BY <1>1 DEF TypeOK
    <3>2. downloadQueue[i].state \in QueueStates
      BY <3>1 DEF QueueItem
    <3>3. downloadQueue[i].state # "Downloading" /\ downloadQueue[i].state # "Completed"
      BY <1>1, <2>1 DEF WorkerConsistent, CompletedMoves
    <3> QED BY <3>2, <3>3
  <2> QED BY <2>2 DEF QueueStates
<1>3. /\ downloadQueue' = <<>>
      /\ selectedQueueIndex' = ClampIndex(selectedQueueIndex, 0)
      /\ UNCHANGED <<viewVars, catalogVars, selectedPlatformIndex, selectedRomIndex, filterVars,
                     downloadHistory, workerVars, updaterVars, keepRunning>>
  <2> DEFINE kept == KeepPositions(downloadQueue,
                {i \in DOMAIN downloadQueue : downloadQueue[i].state \notin {"Pending", "Failed"}})
  <2>1. kept = <<>>
    BY <1>2, KeepNone
  <2>2. /\ downloadQueue' = kept
        /\ selectedQueueIndex' = ClampIndex(selectedQueueIndex, Len(kept))
        /\ UNCHANGED <<viewVars, catalogVars, selectedPlatformIndex, selectedRomIndex, filterVars,
                       downloadHistory, workerVars, updaterVars, keepRunning>>
    BY DEF ClearPendingAndFailed
  <2> HIDE DEF kept
  <2> QED BY <2>1, <2>2
<1>4. selectedQueueIndex' = 0
  BY <1>3 DEF ClampIndex
<1>5. TypeOK'
  BY <1>1, <1>3, <1>4 DEF TypeOK, viewVars, catalogVars, filterVars, workerVars, updaterVars
<1>6. ~downloadWorkerRunning
  BY DEF ClearPendingAndFailed
<1>7. WorkerConsistent' /\ NoDuplicateDownloads' /\ CompletedMoves'
  BY <1>1, <1>3, <1>6 DEF WorkerConsistent, NoDuplicateDownloads, CompletedMoves, workerVars
<1> QED BY <1>5, <1>7 DEF IInv

\* Enqueueing a ROM that is in neither the queue nor the history.
LEMMA EnqueueFacts ==
  ASSUME NEW q \in Seq(QueueItem), NEW h, Clean(q, h), NEW r \in Rom,
         \A i \in DOMAIN q : q[i].rom # r, \A i \in DOMAIN h : h[i].rom # r
  PROVE  LET new == Append(q, NewItem(r))
         IN  /\ new \in Seq(QueueItem)
             /\ Len(new) = Len(q) + 1
             /\ \A i \in DOMAIN new : \/ i \in DOMAIN q /\ new[i] = q[i]
                                      \/ i = Len(q) + 1 /\ new[i] = NewItem(r)
             /\ Clean(new, h)
<1> DEFINE new == Append(q, NewItem(r))
<1>1. /\ NewItem(r) \in QueueItem
      /\ NewItem(r).rom = r
      /\ NewItem(r).state = "Pending"
  BY PercentAssumption DEF NewItem, Item, QueueItem, QueueStates, PercentAssumption
<1>2. /\ new \in Seq(QueueItem)
      /\ Len(new) = Len(q) + 1
      /\ DOMAIN new = 1..(Len(q) + 1)
      /\ \A i \in 1..Len(q) : new[i] = q[i]
      /\ new[Len(q) + 1] = NewItem(r)
  BY <1>1
<1> HIDE DEF new
<1>3. DOMAIN q = 1..Len(q) /\ Len(q) \in Nat
  OBVIOUS
<1>4. \A i \in DOMAIN new : \/ i \in DOMAIN q /\ new[i] = q[i]
                            \/ i = Len(q) + 1 /\ i \notin DOMAIN q /\ new[i] = NewItem(r)
  BY <1>2, <1>3
<1>5. Clean(new, h)
  BY <1>1, <1>4 DEF Clean
<1> QED BY <1>2, <1>4, <1>5 DEF new

LEMMA EnqueueStep ==
  ASSUME IInv, EnqueueSelectedRom
  PROVE  IInv'
<1>1. TypeOK /\ WorkerConsistent /\ Clean(downloadQueue, downloadHistory) /\ CompletedMoves
  BY CleanState DEF IInv
<1>2. PICK r \in Rom : /\ ~ExistsInQueueOrCompletedHistory(r)
                       /\ downloadQueue' = Append(downloadQueue, NewItem(r))
  BY DEF EnqueueSelectedRom
<1>3. /\ selectedQueueIndex' = Len(downloadQueue)
      /\ prevQueueView' = "DETAIL"
      /\ currentView' = "QUEUE"
      /\ UNCHANGED <<prevDiagnosticsView, prevUpdaterView, catalogVars, selectedPlatformIndex,
                     selectedRomIndex, filterVars, downloadHistory, workerVars, updaterVars, keepRunning>>
  BY DEF EnqueueSelectedRom
<1>4. NewItem(r).state = "Pending"
  BY DEF NewItem, Item
<1>5. downloadQueue \in Seq(QueueItem) /\ Len(downloadQueue) \in Nat
  BY <1>1 DEF TypeOK
<1>6. /\ \A i \in DOMAIN downloadQueue : downloadQueue[i].rom # r
      /\ \A i \in DOMAIN downloadHistory : downloadHistory[i].rom # r
  BY <1>1, <1>2 DEF ExistsInQueueOrCompletedHistory, CompletedMoves
<1>7. /\ downloadQueue' \in Seq(QueueItem)
      /\ Len(downloadQueue') = Len(downloadQueue) + 1
      /\ \A i \in DOMAIN downloadQueue' :
           \/ i \in DOMAIN downloadQueue /\ downloadQueue'[i] = downloadQueue[i]
           \/ i = Len(downloadQueue) + 1 /\ downloadQueue'[i] = NewItem(r)
      /\ Clean(downloadQueue', downloadHistory)
  BY <1>1, <1>2, <1>5, <1>6, EnqueueFacts
<1>8. Clean(downloadQueue', downloadHistory)
  BY <1>7
<1>9. NoDuplicateDownloads' /\ CompletedMoves'
  BY <1>3, <1>8 DEF Clean, NoDuplicateDownloads, CompletedMoves
<1>10. WorkerConsistent'
  <2>1. \A i \in DOMAIN downloadQueue' :
           \/ i \in DOMAIN downloadQueue /\ downloadQueue'[i] = downloadQueue[i]
           \/ i = Len(downloadQueue) + 1 /\ downloadQueue'[i].state = "Pending"
    BY <1>4, <1>7
  <2>2. CASE downloadWorkerRunning
    <3>1. /\ activeDownloadIndex \in 0..(Len(downloadQueue) - 1)
          /\ \A i \in DOMAIN downloadQueue :
               downloadQueue[i].state = "Downloading" <=> i = activeDownloadIndex + 1
      BY <1>1, <2>2 DEF WorkerConsistent
    <3>2. /\ activeDownloadIndex \in 0..(Len(downloadQueue') - 1)
          /\ activeDownloadIndex + 1 # Len(downloadQueue) + 1
      BY <1>5, <1>7, <3>1
    <3> QED BY <1>3, <2>1, <2>2, <3>1, <3>2 DEF WorkerConsistent, workerVars
  <2>3. CASE ~downloadWorkerRunning
    BY <1>1, <1>3, <2>1, <2>3 DEF WorkerConsistent, workerVars
  <2> QED BY <2>2, <2>3
<1>11. TypeOK'
  BY <1>1, <1>3, <1>5, <1>7 DEF TypeOK, Views, viewVars, catalogVars, filterVars, workerVars, updaterVars
<1> QED BY <1>9, <1>10, <1>11 DEF IInv

\* Replacing position k by an unfinished item of the same ROM.
LEMMA ReplaceClean ==
  ASSUME NEW q \in Seq(QueueItem), NEW h, Clean(q, h), NEW k \in DOMAIN q,
         NEW item \in QueueItem, item.rom = q[k].rom, item.state # "Completed"
  PROVE  /\ [q EXCEPT ![k] = item] \in Seq(QueueItem)
         /\ Len([q EXCEPT ![k] = item]) = Len(q)
         /\ DOMAIN [q EXCEPT ![k] = item] = DOMAIN q
         /\ \A i \in DOMAIN q : [q EXCEPT ![k] = item][i] = IF i = k THEN item ELSE q[i]
         /\ Clean([q EXCEPT ![k] = item], h)
<1> DEFINE new == [q EXCEPT ![k] = item]
<1>1. /\ new \in Seq(QueueItem)
      /\ Len(new) = Len(q)
      /\ DOMAIN new = DOMAIN q
      /\ \A i \in DOMAIN q : new[i] = IF i = k THEN item ELSE q[i]
  OBVIOUS
<1> HIDE DEF new
<1>2. \A i \in DOMAIN q : new[i].rom = q[i].rom
  BY <1>1
<1>3. Clean(new, h)
  BY <1>1, <1>2 DEF Clean
<1> QED BY <1>1, <1>3 DEF new

LEMMA RetryStep ==
  ASSUME IInv, RetrySelectedFailed
  PROVE  IInv'
<1> DEFINE pos == ClampIndex(selectedQueueIndex, Len(downloadQueue)) + 1
           item == Item(downloadQueue[pos].rom, "Pending", 0, downloadQueue[pos].attempts)
<1>1. TypeOK /\ WorkerConsistent /\ Clean(downloadQueue, downloadHistory)
  BY CleanState DEF IInv
<1>2. /\ downloadQueue # <<>>
      /\ downloadQueue[pos].state = "Failed"
      /\ downloadQueue' = [downloadQueue EXCEPT ![pos] = item]
      /\ UNCHANGED <<viewVars, catalogVars, selectionVars, filterVars, downloadHistory, workerVars,
                     updaterVars, keepRunning>>
  BY DEF RetrySelectedFailed
<1>3. pos \in 1..Len(downloadQueue) /\ downloadQueue \in Seq(QueueItem)
  <2>1. selectedQueueIndex \in Int /\ Len(downloadQueue) \in Nat \ {0}
    BY <1>1, <1>2 DEF TypeOK
  <2> QED BY <1>1, <2>1, ClampFacts DEF TypeOK
<1> HIDE DEF pos
<1>4. pos \in DOMAIN downloadQueue /\ downloadQueue[pos] \in QueueItem
  BY <1>3
<1>5. item \in QueueItem /\ item.rom = downloadQueue[pos].rom /\ item.state = "Pending"
  BY <1>4, PercentAssumption DEF Item, QueueItem, QueueStates, PercentAssumption
<1> HIDE DEF item
<1>6. /\ downloadQueue' \in Seq(QueueItem)
      /\ Len(downloadQueue') = Len(downloadQueue)
      /\ DOMAIN downloadQueue' = DOMAIN downloadQueue
      /\ \A i \in DOMAIN downloadQueue : downloadQueue'[i] = IF i = pos THEN item ELSE downloadQueue[i]
      /\ Clean(downloadQueue', downloadHistory)
  BY <1>1, <1>2, <1>3, <1>4, <1>5, ReplaceClean
<1>7. NoDuplicateDownloads' /\ CompletedMoves'
  BY <1>2, <1>6 DEF Clean, NoDuplicateDownloads, CompletedMoves
<1>8. \A i \in DOMAIN downloadQueue :
         downloadQueue'[i].state = "Downloading" <=> downloadQueue[i].state = "Downloading"
  BY <1>2, <1>5, <1>6
<1>9. WorkerConsistent'
  BY <1>1, <1>2, <1>6, <1>8 DEF WorkerConsistent, workerVars
<1>10. TypeOK'
  BY <1>1, <1>2, <1>6 DEF TypeOK, viewVars, catalogVars, selectionVars, filterVars, workerVars, updaterVars
<1> QED BY <1>7, <1>9, <1>10 DEF IInv

-----------------------------------------------------------------------------
(* Steps of the download worker.                                           *)

\* What startDownloads makes of a queue: nothing in it is being downloaded.
LEMMA RestartableFacts ==
  ASSUME NEW queue \in Seq(QueueItem), NEW h, Clean(queue, h)
  PROVE  LET q == [i \in DOMAIN queue |-> Restartable(queue[i])]
         IN  q \in Seq(QueueItem) /\ Clean(q, h) /\ NoneFetched(q)
<1> DEFINE q == [i \in DOMAIN queue |-> Restartable(queue[i])]
<1>1. \A i \in DOMAIN queue : queue[i] \in QueueItem
  OBVIOUS
<1>2. \A item \in QueueItem :
        /\ Restartable(item) \in QueueItem
        /\ Restartable(item).rom = item.rom
        /\ Restartable(item).state # "Downloading"
        /\ item.state # "Completed" => Restartable(item).state # "Completed"
  BY PercentAssumption DEF Restartable, Item, QueueItem, QueueStates, PercentAssumption
<1>3. /\ DOMAIN q = DOMAIN queue
      /\ \A i \in DOMAIN queue : q[i] = Restartable(queue[i])
  OBVIOUS
<1>4. q \in Seq(QueueItem)
  <2>1. DOMAIN queue = 1..Len(queue) /\ Len(queue) \in Nat
    OBVIOUS
  <2>2. q \in [1..Len(queue) -> QueueItem]
    BY <1>1, <1>2, <2>1
  <2> HIDE DEF q
  <2> QED BY <2>1, <2>2
<1> HIDE DEF q
<1>5. Clean(q, h)
  BY <1>1, <1>2, <1>3 DEF Clean
<1>6. NoneFetched(q)
  BY <1>1, <1>2, <1>3 DEF NoneFetched
<1> QED BY <1>4, <1>5, <1>6 DEF q

LEMMA StartStep ==
  ASSUME IInv, StartDownloads
  PROVE  IInv'
<1> DEFINE q == [i \in DOMAIN downloadQueue |-> Restartable(downloadQueue[i])]
<1>1. TypeOK /\ WorkerConsistent /\ NoDuplicateDownloads /\ CompletedMoves
  BY DEF IInv
<1>2. UNCHANGED <<prevQueueView, prevDiagnosticsView, prevUpdaterView, catalogVars,
                  selectionVars, filterVars, downloadHistory, updaterVars, keepRunning>>
  BY DEF StartDownloads
<1>3. \/ /\ downloadWorkerRunning
         /\ currentView' = "DOWNLOADING"
         /\ UNCHANGED <<downloadQueue, workerVars>>
      \/ /\ ~downloadWorkerRunning
         /\ BeginFirstPending(q)
         /\ downloadWorkerRunning' = TRUE
         /\ downloadPaused' = FALSE
         /\ currentView' = "DOWNLOADING"
      \/ /\ ~downloadWorkerRunning
         /\ downloadQueue' = q
         /\ UNCHANGED <<workerVars, currentView>>
  BY DEF StartDownloads
<1>4. /\ q \in Seq(QueueItem)
      /\ Clean(q, downloadHistory)
      /\ NoneFetched(q)
  BY <1>1, CleanState, RestartableFacts DEF TypeOK
<1> HIDE DEF q
<1>5. CASE /\ downloadWorkerRunning
           /\ currentView' = "DOWNLOADING"
           /\ UNCHANGED <<downloadQueue, workerVars>>
  <2>1. TypeOK'
    BY <1>1, <1>2, <1>5 DEF TypeOK, Views, catalogVars, selectionVars, filterVars, workerVars, updaterVars
  <2> QED BY <1>2, <1>5, <2>1, QueueUntouched DEF IInv, queueVars
<1>6. CASE /\ ~downloadWorkerRunning
           /\ BeginFirstPending(q)
           /\ downloadWorkerRunning' = TRUE
           /\ downloadPaused' = FALSE
           /\ currentView' = "DOWNLOADING"
  <2>1. /\ downloadQueue' \in Seq(QueueItem)
        /\ activeDownloadIndex' \in 0..(Len(downloadQueue') - 1)
        /\ OnlyFetched(downloadQueue', activeDownloadIndex' + 1)
        /\ Clean(downloadQueue', downloadHistory)
    BY <1>4, <1>6, BeginFirstPendingFacts
  <2>2. downloadQueue' \in Seq(QueueItem) /\ activeDownloadIndex' \in Int
    BY <2>1
  <2>3. TypeOK'
    <3>1. /\ downloadWorkerRunning' \in BOOLEAN
          /\ downloadPaused' \in BOOLEAN
          /\ currentView' \in Views
      BY <1>6 DEF Views
    <3> QED BY <1>1, <1>2, <2>2, <3>1 DEF TypeOK, catalogVars, selectionVars, filterVars, updaterVars
  <2>4. WorkerConsistent'
    BY <1>6, <2>1 DEF WorkerConsistent, OnlyFetched
  <2>5. NoDuplicateDownloads' /\ CompletedMoves'
    BY <1>2, <2>1 DEF Clean, NoDuplicateDownloads, CompletedMoves
  <2> QED BY <2>3, <2>4, <2>5 DEF IInv
<1>7. CASE /\ ~downloadWorkerRunning
           /\ downloadQueue' = q
           /\ UNCHANGED <<workerVars, currentView>>
  <2>1. TypeOK'
    BY <1>1, <1>2, <1>4, <1>7 DEF TypeOK, catalogVars, selectionVars, filterVars, workerVars, updaterVars
  <2>2. WorkerConsistent'
    BY <1>1, <1>4, <1>7 DEF WorkerConsistent, NoneFetched, workerVars
  <2>3. NoDuplicateDownloads' /\ CompletedMoves'
    BY <1>2, <1>4, <1>7 DEF Clean, NoDuplicateDownloads, CompletedMoves
  <2> QED BY <2>1, <2>2, <2>3 DEF IInv
<1> QED BY <1>3, <1>5, <1>6, <1>7

\* One tick advances an item within the bounds of its percentage.
LEMMA TickedFacts ==
  ASSUME TypeOK, NEW e \in Nat, activeDownloadIndex + 1 \in DOMAIN downloadQueue
  PROVE  /\ Ticked(e) \in QueueItem
         /\ Ticked(e).rom = downloadQueue[activeDownloadIndex + 1].rom
         /\ Ticked(e).state = "Downloading"
<1> DEFINE old == downloadQueue[activeDownloadIndex + 1]
<1>1. old \in QueueItem
  BY DEF TypeOK
<1> HIDE DEF old
<1>2. StepOf(e) \in Nat
  BY DEF StepOf
<1>3. old.progress \in 0..Full /\ old.attempts \in 0..MaxAttempts /\ old.rom \in Rom
  BY <1>1 DEF QueueItem
<1>4. (IF old.progress + StepOf(e) > Full THEN Full ELSE old.progress + StepOf(e)) \in 0..Full
  BY <1>2, <1>3, PercentAssumption DEF PercentAssumption
<1>5. Ticked(e) = Item(old.rom, "Downloading",
                       IF old.progress + StepOf(e) > Full THEN Full ELSE old.progress + StepOf(e),
                       old.attempts)
  BY DEF Ticked, old
<1>6. Ticked(e) \in QueueItem /\ Ticked(e).rom = old.rom /\ Ticked(e).state = "Downloading"
  BY <1>3, <1>4, <1>5 DEF Item, QueueItem, QueueStates
<1> QED BY <1>6 DEF old

LEMMA WithStateFacts ==
  ASSUME NEW item \in QueueItem, NEW state \in QueueStates
  PROVE  /\ WithState(item, state) \in QueueItem
         /\ WithState(item, state).rom = item.rom
         /\ WithState(item, state).state = state
BY DEF WithState, Item, QueueItem

LEMMA TickStep ==
  ASSUME IInv, NEW e \in Elapsed, TickDownload(e)
  PROVE  IInv'
<1> DEFINE k == activeDownloadIndex + 1
           item == Ticked(e)
<1>1. TypeOK /\ WorkerConsistent /\ Clean(downloadQueue, downloadHistory)
  BY CleanState DEF IInv
<1>2. /\ downloadWorkerRunning = TRUE
      /\ downloadPaused = FALSE
      /\ UNCHANGED <<prevQueueView, prevDiagnosticsView, prevUpdaterView, catalogVars,
                     selectedPlatformIndex, selectedRomIndex, filterVars, updaterVars, keepRunning>>
  BY <1>1 DEF TickDownload, TypeOK
<1>3. /\ activeDownloadIndex \in 0..(Len(downloadQueue) - 1)
      /\ OnlyFetched(downloadQueue, k)
  BY <1>1, <1>2 DEF WorkerConsistent, OnlyFetched
<1>4. downloadQueue \in Seq(QueueItem) /\ k \in 1..Len(downloadQueue) /\ k \in DOMAIN downloadQueue
  BY <1>1, <1>3 DEF TypeOK
<1>5. TickProgress(item) \/ TickFail(item) \/ TickComplete(item)
  BY <1>3 DEF TickDownload
<1>6. item \in QueueItem /\ item.rom = downloadQueue[k].rom /\ item.state = "Downloading"
  BY <1>1, <1>4, TickedFacts, InputAssumption DEF InputAssumption
<1> HIDE DEF item, k
<1>7. CASE TickProgress(item)
  <2>1. /\ downloadQueue' = [downloadQueue EXCEPT ![k] = item]
        /\ UNCHANGED <<currentView, selectedQueueIndex, downloadHistory, workerVars>>
    BY <1>7 DEF TickProgress, k
  <2>2. /\ downloadQueue' \in Seq(QueueItem)
        /\ Len(downloadQueue') = Len(downloadQueue)
        /\ DOMAIN downloadQueue' = DOMAIN downloadQueue
        /\ \A i \in DOMAIN downloadQueue : downloadQueue'[i] = IF i = k THEN item ELSE downloadQueue[i]
        /\ Clean(downloadQueue', downloadHistory)
    BY <1>1, <1>4, <1>6, <2>1, ReplaceClean
  <2>3. TypeOK'
    BY <1>1, <1>2, <2>1, <2>2 DEF TypeOK, catalogVars, filterVars, workerVars, updaterVars
  <2>4. NoDuplicateDownloads' /\ CompletedMoves'
    BY <2>1, <2>2 DEF Clean, NoDuplicateDownloads, CompletedMoves
  <2>5. WorkerConsistent'
    BY <1>2, <1>3, <1>6, <2>1, <2>2 DEF WorkerConsistent, OnlyFetched, workerVars, k
  <2> QED BY <2>3, <2>4, <2>5 DEF IInv
<1>8. CASE TickFail(item)
  <2> DEFINE failed == WithState(item, "Failed")
             q == [downloadQueue EXCEPT ![k] = failed]
  <2>1. /\ BeginNextPendingDownload(q)
        /\ UNCHANGED <<selectedQueueIndex, downloadHistory>>
    BY <1>8 DEF TickFail, k
  <2>2. failed \in QueueItem /\ failed.rom = downloadQueue[k].rom /\ failed.state = "Failed"
    BY <1>6, WithStateFacts DEF QueueStates
  <2> HIDE DEF failed
  <2>3. /\ q \in Seq(QueueItem)
        /\ DOMAIN q = DOMAIN downloadQueue
        /\ \A i \in DOMAIN downloadQueue : q[i] = IF i = k THEN failed ELSE downloadQueue[i]
        /\ Clean(q, downloadHistory)
    BY <1>1, <1>4, <2>2, ReplaceClean
  <2> HIDE DEF q
  <2>4. NoneFetched(q)
    BY <1>3, <2>2, <2>3 DEF NoneFetched, OnlyFetched
  <2>5. /\ downloadQueue' \in Seq(QueueItem)
        /\ downloadWorkerRunning' \in BOOLEAN
        /\ downloadPaused' \in BOOLEAN
        /\ activeDownloadIndex' \in Int
        /\ currentView' \in Views
        /\ WorkerConsistent' /\ NoDuplicateDownloads' /\ CompletedMoves'
    <3>1. currentView \in Views
      BY <1>1 DEF TypeOK
    <3> QED BY <1>2, <2>1, <2>3, <2>4, <3>1, BeginNextFacts
  <2>6. TypeOK'
    BY <1>1, <1>2, <2>1, <2>5 DEF TypeOK, catalogVars, filterVars, updaterVars
  <2> QED BY <2>5, <2>6 DEF IInv
<1>9. CASE TickComplete(item)
  <2> DEFINE done == WithState(item, "Completed")
             rest == RemoveAt(downloadQueue, k)
             h == Append(downloadHistory, done)
  <2>1. /\ downloadHistory' = h
        /\ selectedQueueIndex' = SelectionAfterErase(rest)
        /\ BeginNextPendingDownload(rest)
    BY <1>9 DEF TickComplete, k
  <2>2. done \in QueueItem /\ done.rom = downloadQueue[k].rom /\ done.state = "Completed"
    BY <1>6, WithStateFacts DEF QueueStates
  <2> HIDE DEF done
  <2>3. /\ rest \in Seq(QueueItem)
        /\ Len(rest) = Len(downloadQueue) - 1
        /\ \A j \in 1..(Len(downloadQueue) - 1) :
             rest[j] = IF j < k THEN downloadQueue[j] ELSE downloadQueue[j + 1]
    BY <1>4, RemoveAtFacts
  <2>4. Clean(rest, downloadHistory)
    BY <1>1, <1>4, RemoveClean
  <2> HIDE DEF rest
  <2>5. \A i \in DOMAIN rest : \E a \in DOMAIN downloadQueue : a # k /\ rest[i] = downloadQueue[a]
    <3>1. /\ DOMAIN rest = 1..(Len(downloadQueue) - 1)
          /\ DOMAIN downloadQueue = 1..Len(downloadQueue)
          /\ Len(downloadQueue) \in Nat
      BY <1>4, <2>3
    <3> TAKE i \in DOMAIN rest
    <3> DEFINE a == IF i < k THEN i ELSE i + 1
    <3>2. a \in DOMAIN downloadQueue /\ a # k
      BY <1>4, <3>1
    <3>3. rest[i] = downloadQueue[a]
      BY <2>3, <3>1
    <3> HIDE DEF a
    <3> QED BY <3>2, <3>3
  <2>6. NoneFetched(rest)
    BY <1>3, <2>5 DEF NoneFetched, OnlyFetched
  <2>7. \A i \in DOMAIN rest : rest[i].rom # done.rom
    BY <1>1, <1>4, <2>2, <2>5 DEF Clean
  <2>8. h \in Seq(QueueItem) /\ Clean(rest, h)
    <3>1. downloadHistory \in Seq(QueueItem) /\ Len(downloadHistory) \in Nat
      BY <1>1 DEF TypeOK
    <3>2. /\ h \in Seq(QueueItem)
          /\ DOMAIN h = 1..(Len(downloadHistory) + 1)
          /\ DOMAIN downloadHistory = 1..Len(downloadHistory)
          /\ \A i \in 1..Len(downloadHistory) : h[i] = downloadHistory[i]
          /\ h[Len(downloadHistory) + 1] = done
      BY <2>2, <3>1
    <3> HIDE DEF h
    <3>3. \A i \in DOMAIN h :
             \/ i \in DOMAIN downloadHistory /\ h[i] = downloadHistory[i]
             \/ i = Len(downloadHistory) + 1 /\ h[i] = done
      BY <3>1, <3>2
    <3>4. \A j \in DOMAIN downloadHistory : downloadHistory[j].rom # done.rom
      BY <1>1, <1>4, <2>2 DEF Clean
    <3>5. \A i, j \in DOMAIN h : h[i].rom = h[j].rom => i = j
      BY <2>4, <3>3, <3>4 DEF Clean
    <3>6. \A i \in DOMAIN h : h[i].state = "Completed"
      BY <2>2, <2>4, <3>3 DEF Clean
    <3>7. \A i \in DOMAIN rest, j \in DOMAIN h : rest[i].rom # h[j].rom
      BY <2>4, <2>7, <3>3 DEF Clean
    <3> QED BY <2>4, <3>2, <3>5, <3>6, <3>7 DEF Clean
  <2> HIDE DEF h
  <2>9. /\ downloadQueue' \in Seq(QueueItem)
        /\ downloadWorkerRunning' \in BOOLEAN
        /\ downloadPaused' \in BOOLEAN
        /\ activeDownloadIndex' \in Int
        /\ currentView' \in Views
        /\ WorkerConsistent' /\ NoDuplicateDownloads' /\ CompletedMoves'
    <3>1. currentView \in Views
      BY <1>1 DEF TypeOK
    <3> QED BY <1>2, <2>1, <2>3, <2>6, <2>8, <3>1, BeginNextFacts
  <2>10. selectedQueueIndex' \in Nat
    BY <1>1, <2>1, <2>3, SelectionAfterEraseFacts DEF TypeOK
  <2>11. TypeOK'
    BY <1>1, <1>2, <2>1, <2>8, <2>9, <2>10 DEF TypeOK, catalogVars, filterVars, updaterVars
  <2> QED BY <2>9, <2>11 DEF IInv
<1> QED BY <1>5, <1>7, <1>8, <1>9

-----------------------------------------------------------------------------
(* What a press does to the queue, whether or not the worker has its item. *)

\* The queue and the history are typed and hold every ROM at most once.
QueueSound ==
  /\ downloadQueue \in Seq(QueueItem)
  /\ downloadHistory \in Seq(QueueItem)
  /\ selectedQueueIndex \in Nat
  /\ Clean(downloadQueue, downloadHistory)

LEMMA RemoveSound ==
  ASSUME QueueSound, RemoveSelectedQueueItem
  PROVE  QueueSound'
<1> DEFINE pos == ClampIndex(selectedQueueIndex, Len(downloadQueue)) + 1
           rest == RemoveAt(downloadQueue, pos)
<1>1. /\ downloadQueue # <<>>
      /\ downloadQueue' = rest
      /\ selectedQueueIndex' = SelectionAfterErase(rest)
      /\ downloadHistory' = downloadHistory
  BY DEF RemoveSelectedQueueItem
<1>2. pos \in 1..Len(downloadQueue)
  <2>1. selectedQueueIndex \in Int /\ Len(downloadQueue) \in Nat \ {0}
    BY <1>1 DEF QueueSound
  <2> QED BY <2>1, ClampFacts
<1> HIDE DEF pos
<1>3. rest \in Seq(QueueItem) /\ Clean(rest, downloadHistory)
  BY <1>2, RemoveAtFacts, RemoveClean DEF QueueSound
<1> HIDE DEF rest
<1>4. selectedQueueIndex' \in Nat
  BY <1>1, <1>3, SelectionAfterEraseFacts DEF QueueSound
<1> QED BY <1>1, <1>3, <1>4 DEF QueueSound

\* Here clearing does not always empty the queue: what stayed "Downloading" is kept.
LEMMA ClearSound ==
  ASSUME QueueSound, ClearPendingAndFailed
  PROVE  QueueSound'
<1> DEFINE keep == {i \in DOMAIN downloadQueue : downloadQueue[i].state \notin {"Pending", "Failed"}}
           kept == KeepPositions(downloadQueue, keep)
<1>1. /\ downloadQueue' = kept
      /\ selectedQueueIndex' = ClampIndex(selectedQueueIndex, Len(kept))
      /\ downloadHistory' = downloadHistory
  BY DEF ClearPendingAndFailed
<1>2. keep \in SUBSET DOMAIN downloadQueue
  OBVIOUS
<1> HIDE DEF keep
<1>3. /\ kept \in Seq(QueueItem)
      /\ \E at \in [DOMAIN kept -> keep] :
           /\ \A k \in DOMAIN kept : kept[k] = downloadQueue[at[k]]
           /\ \A k, l \in DOMAIN kept : at[k] = at[l] => k = l
  BY <1>2, KeepPositionsFacts DEF QueueSound
<1> HIDE DEF kept
<1>4. Clean(kept, downloadHistory)
  <2>1. PICK at \in [DOMAIN kept -> keep] :
           /\ \A k \in DOMAIN kept : kept[k] = downloadQueue[at[k]]
           /\ \A k, l \in DOMAIN kept : at[k] = at[l] => k = l
    BY <1>3
  <2>2. \A k \in DOMAIN kept : at[k] \in DOMAIN downloadQueue
    BY <1>2
  <2> QED BY <2>1, <2>2 DEF Clean, QueueSound
<1>5. selectedQueueIndex' \in Nat
  BY <1>1, <1>3, ClampFacts DEF QueueSound
<1> QED BY <1>1, <1>3, <1>4, <1>5 DEF QueueSound

LEMMA EnqueueSound ==
  ASSUME QueueSound, EnqueueSelectedRom
  PROVE  QueueSound'
<1>1. PICK r \in Rom : /\ ~ExistsInQueueOrCompletedHistory(r)
                       /\ downloadQueue' = Append(downloadQueue, NewItem(r))
  BY DEF EnqueueSelectedRom
<1>2. selectedQueueIndex' = Len(downloadQueue) /\ downloadHistory' = downloadHistory
  BY DEF EnqueueSelectedRom
<1>3. /\ \A i \in DOMAIN downloadQueue : downloadQueue[i].rom # r
      /\ \A i \in DOMAIN downloadHistory : downloadHistory[i].rom # r
  BY <1>1 DEF ExistsInQueueOrCompletedHistory, QueueSound, Clean
<1>4. downloadQueue' \in Seq(QueueItem) /\ Clean(downloadQueue', downloadHistory)
  BY <1>1, <1>3, EnqueueFacts DEF QueueSound
<1> QED BY <1>2, <1>4 DEF QueueSound

LEMMA RetrySound ==
  ASSUME QueueSound, RetrySelectedFailed
  PROVE  QueueSound'
<1> DEFINE pos == ClampIndex(selectedQueueIndex, Len(downloadQueue)) + 1
           item == Item(downloadQueue[pos].rom, "Pending", 0, downloadQueue[pos].attempts)
<1>1. /\ downloadQueue # <<>>
      /\ downloadQueue' = [downloadQueue EXCEPT ![pos] = item]
      /\ UNCHANGED <<downloadHistory, selectedQueueIndex>>
  BY DEF RetrySelectedFailed, selectionVars
<1>2. pos \in DOMAIN downloadQueue
  <2>1. selectedQueueIndex \in Int /\ Len(downloadQueue) \in Nat \ {0}
    BY <1>1 DEF QueueSound
  <2>2. pos \in 1..Len(downloadQueue)
    BY <2>1, ClampFacts
  <2> HIDE DEF pos
  <2> QED BY <2>2 DEF QueueSound
<1> HIDE DEF pos
<1>3. item \in QueueItem /\ item.rom = downloadQueue[pos].rom /\ item.state = "Pending"
  <2>1. downloadQueue[pos] \in QueueItem
    BY <1>2 DEF QueueSound
  <2> QED BY <2>1, PercentAssumption DEF Item, QueueItem, QueueStates, PercentAssumption
<1> HIDE DEF item
<1>4. downloadQueue' \in Seq(QueueItem) /\ Clean(downloadQueue', downloadHistory)
  BY <1>1, <1>2, <1>3, ReplaceClean DEF QueueSound
<1> QED BY <1>1, <1>4 DEF QueueSound

LEMMA StartSound ==
  ASSUME QueueSound, StartDownloads
  PROVE  QueueSound'
<1> DEFINE q == [i \in DOMAIN downloadQueue |-> Restartable(downloadQueue[i])]
<1>1. UNCHANGED <<downloadHistory, selectedQueueIndex>>
  BY DEF StartDownloads, selectionVars
<1>2. UNCHANGED downloadQueue \/ downloadQueue' = q \/ BeginFirstPending(q)
  BY DEF StartDownloads
<1>3. q \in Seq(QueueItem) /\ Clean(q, downloadHistory) /\ NoneFetched(q)
  BY RestartableFacts DEF QueueSound
<1> HIDE DEF q
<1>4. BeginFirstPending(q) => downloadQueue' \in Seq(QueueItem) /\ Clean(downloadQueue', downloadHistory)
  BY <1>3, BeginFirstPendingFacts
<1> QED BY <1>1, <1>2, <1>3, <1>4 DEF QueueSound

LEMMA PressSound ==
  ASSUME QueueSound, NEW a \in Inputs, ApplyAction(a)
  PROVE  QueueSound'
<1>1. ASSUME UNCHANGED <<queueVars, selectedQueueIndex>> PROVE QueueSound'
  BY <1>1 DEF QueueSound, queueVars
<1>2. ASSUME NEW d \in {-1, 1}, MoveSelection(d) PROVE QueueSound'
  <2>1. /\ UNCHANGED queueVars
        /\ \/ UNCHANGED selectedQueueIndex
           \/ selectedQueueIndex' = ClampIndex(selectedQueueIndex + d, Len(downloadQueue))
    BY <1>2 DEF MoveSelection
  <2>2. selectedQueueIndex + d \in Int /\ Len(downloadQueue) \in Nat
    BY DEF QueueSound
  <2>3. selectedQueueIndex' \in Nat
    BY <2>1, <2>2, ClampFacts DEF QueueSound
  <2> QED BY <2>1, <2>3 DEF QueueSound, queueVars
<1>3. ASSUME NEW d \in {-1, 1}, CycleSort(d) PROVE QueueSound'
  BY <1>1, <1>3 DEF CycleSort, queueVars
<1>4. CASE Select
  BY <1>1, <1>4, EnqueueSound, RetrySound
     DEF Select, OpenRomList, OpenRomDetail, UseUpdater, queueVars, selectionVars
<1>5. CASE CycleSearchQuery \/ OpenDiagnostics \/ OpenUpdater \/ OpenQueue \/ Back \/ Quit \/ PauseOrResume
  BY <1>1, <1>5 DEF CycleSearchQuery, OpenDiagnostics, OpenUpdater, OpenQueue, Back, Quit, PauseOrResume,
                    queueVars, selectionVars
<1>6. MoveSelection(-1) \/ MoveSelection(1) \/ CycleSort(-1) \/ CycleSort(1) => QueueSound'
  BY <1>2, <1>3
<1> QED BY <1>4, <1>5, <1>6, RemoveSound, ClearSound, StartSound DEF ApplyAction

-----------------------------------------------------------------------------
(* A pause.                                                                *)

\* The item at one position of a queue, as PauseHolds compares it.
ItemAt(q, a) == {q[i] : i \in DOMAIN q \cap {a + 1}}

LEMMA ItemAtFacts ==
  ASSUME NEW q, NEW a, a + 1 \in DOMAIN q
  PROVE  ItemAt(q, a) = {q[a + 1]}
BY DEF ItemAt

\* While downloads are paused the worker runs and has its item.
LEMMA PausedFacts ==
  ASSUME IInv, downloadPaused
  PROVE  /\ downloadWorkerRunning
         /\ downloadQueue \in Seq(QueueItem) /\ Len(downloadQueue) \in Nat
         /\ DOMAIN downloadQueue = 1..Len(downloadQueue)
         /\ activeDownloadIndex \in 0..(Len(downloadQueue) - 1)
         /\ activeDownloadIndex + 1 \in DOMAIN downloadQueue
         /\ downloadQueue[activeDownloadIndex + 1].state = "Downloading"
         /\ ActiveItem = {downloadQueue[activeDownloadIndex + 1]}
<1>1. downloadWorkerRunning
  BY DEF IInv, WorkerConsistent
<1>2. downloadQueue \in Seq(QueueItem) /\ activeDownloadIndex \in 0..(Len(downloadQueue) - 1)
  BY <1>1 DEF IInv, TypeOK, WorkerConsistent
<1>3. /\ Len(downloadQueue) \in Nat /\ DOMAIN downloadQueue = 1..Len(downloadQueue)
      /\ activeDownloadIndex + 1 \in DOMAIN downloadQueue
  BY <1>2
<1>4. downloadQueue[activeDownloadIndex + 1].state = "Downloading"
  BY <1>1, <1>3 DEF IInv, WorkerConsistent
<1>5. ActiveItem = {downloadQueue[activeDownloadIndex + 1]}
  BY <1>3, ItemAtFacts DEF ActiveItem, ItemAt
<1> QED BY <1>1, <1>2, <1>3, <1>4, <1>5

\* The worker goes on with the same item at its new position.
LEMMA SameItem ==
  ASSUME IInv, downloadPaused, downloadWorkerRunning',
         activeDownloadIndex' + 1 \in DOMAIN downloadQueue',
         downloadQueue'[activeDownloadIndex' + 1] = downloadQueue[activeDownloadIndex + 1]
  PROVE  downloadWorkerRunning' /\ ActiveItem' = ActiveItem
<1>1. ActiveItem = {downloadQueue[activeDownloadIndex + 1]}
  BY PausedFacts
<1>2. ItemAt(downloadQueue', activeDownloadIndex') = {downloadQueue'[activeDownloadIndex' + 1]}
  BY ItemAtFacts
<1>3. ActiveItem' = {downloadQueue'[activeDownloadIndex' + 1]}
  BY <1>2 DEF ItemAt, ActiveItem
<1> QED BY <1>1, <1>3

LEMMA PauseRemove ==
  ASSUME IInv, downloadPaused, RemoveSelectedQueueItem
  PROVE  downloadWorkerRunning' /\ ActiveItem' = ActiveItem
<1> DEFINE idx == ClampIndex(selectedQueueIndex, Len(downloadQueue))
           rest == RemoveAt(downloadQueue, idx + 1)
           a == activeDownloadIndex
<1>1. /\ downloadQueue # <<>>
      /\ ~(downloadWorkerRunning /\ idx = activeDownloadIndex)
      /\ downloadQueue' = rest
      /\ activeDownloadIndex' = IF a > idx THEN a - 1 ELSE a
      /\ downloadWorkerRunning' = downloadWorkerRunning
  BY DEF RemoveSelectedQueueItem
<1>2. /\ downloadWorkerRunning /\ a \in 0..(Len(downloadQueue) - 1)
      /\ downloadQueue \in Seq(QueueItem) /\ Len(downloadQueue) \in Nat
  BY PausedFacts
<1>3. idx \in Nat /\ idx + 1 \in 1..Len(downloadQueue) /\ idx # a
  <2>1. selectedQueueIndex \in Int
    BY DEF IInv, TypeOK
  <2> QED BY <1>1, <1>2, <2>1, ClampFacts
<1> HIDE DEF idx
<1>4. /\ rest \in Seq(QueueItem)
      /\ Len(rest) = Len(downloadQueue) - 1
      /\ \A j \in 1..(Len(downloadQueue) - 1) :
           rest[j] = IF j < idx + 1 THEN downloadQueue[j] ELSE downloadQueue[j + 1]
  BY <1>2, <1>3, RemoveAtFacts
<1> HIDE DEF rest
<1>5. CASE a > idx
  <2>1. activeDownloadIndex' + 1 = a /\ a \in 1..(Len(downloadQueue) - 1) /\ ~(a < idx + 1)
    BY <1>1, <1>2, <1>3, <1>5
  <2>2. rest[a] = downloadQueue[a + 1] /\ a \in DOMAIN rest
    BY <1>4, <2>1
  <2> QED BY <1>1, <1>2, <2>1, <2>2, SameItem
<1>6. CASE ~(a > idx)
  <2>1. activeDownloadIndex' + 1 = a + 1 /\ a + 1 \in 1..(Len(downloadQueue) - 1) /\ a + 1 < idx + 1
    BY <1>1, <1>2, <1>3, <1>6
  <2>2. rest[a + 1] = downloadQueue[a + 1] /\ a + 1 \in DOMAIN rest
    BY <1>4, <2>1
  <2> QED BY <1>1, <1>2, <2>1, <2>2, SameItem
<1> QED BY <1>5, <1>6

LEMMA PauseStep ==
  ASSUME IInv, Next, downloadPaused, downloadPaused'
  PROVE  downloadWorkerRunning' /\ ActiveItem' = ActiveItem
<1>1. /\ downloadWorkerRunning
      /\ downloadQueue \in Seq(QueueItem) /\ Len(downloadQueue) \in Nat
      /\ DOMAIN downloadQueue = 1..Len(downloadQueue)
      /\ activeDownloadIndex \in 0..(Len(downloadQueue) - 1)
      /\ activeDownloadIndex + 1 \in DOMAIN downloadQueue
      /\ downloadQueue[activeDownloadIndex + 1].state = "Downloading"
  BY PausedFacts
<1>2. CASE UNCHANGED <<downloadQueue, activeDownloadIndex, downloadWorkerRunning>>
  BY <1>1, <1>2, SameItem
<1>3. CASE EnqueueSelectedRom
  <2>1. PICK r \in Rom : downloadQueue' = Append(downloadQueue, NewItem(r))
    BY <1>3 DEF EnqueueSelectedRom
  <2>2. NewItem(r) \in QueueItem
    BY PercentAssumption DEF NewItem, Item, QueueItem, QueueStates, PercentAssumption
  <2>3. /\ \A i \in 1..Len(downloadQueue) : downloadQueue'[i] = downloadQueue[i]
        /\ DOMAIN downloadQueue' = 1..(Len(downloadQueue) + 1)
    BY <1>1, <2>1, <2>2
  <2>4. activeDownloadIndex + 1 \in DOMAIN downloadQueue'
    BY <1>1, <2>3
  <2>5. UNCHANGED workerVars
    BY <1>3 DEF EnqueueSelectedRom
  <2> QED BY <1>1, <2>3, <2>4, <2>5, SameItem DEF workerVars
<1>4. CASE RetrySelectedFailed
  <2> DEFINE pos == ClampIndex(selectedQueueIndex, Len(downloadQueue)) + 1
             item == Item(downloadQueue[pos].rom, "Pending", 0, downloadQueue[pos].attempts)
  <2>1. /\ downloadQueue[pos].state = "Failed"
        /\ downloadQueue' = [downloadQueue EXCEPT ![pos] = item]
        /\ UNCHANGED workerVars
    BY <1>4 DEF RetrySelectedFailed
  <2> HIDE DEF pos, item
  <2>2. /\ DOMAIN downloadQueue' = DOMAIN downloadQueue
        /\ downloadQueue'[activeDownloadIndex + 1] = downloadQueue[activeDownloadIndex + 1]
    BY <1>1, <2>1
  <2> QED BY <1>1, <2>1, <2>2, SameItem DEF workerVars
<1>5. ASSUME UserAction PROVE downloadWorkerRunning' /\ ActiveItem' = ActiveItem
  <2> PICK act \in Inputs : ApplyAction(act)
    BY <1>5 DEF UserAction
  <2>1. CASE MoveSelection(-1) \/ MoveSelection(1) \/ CycleSort(-1) \/ CycleSort(1) \/ CycleSearchQuery
    BY <1>2, <2>1 DEF MoveSelection, CycleSort, CycleSearchQuery, queueVars, workerVars
  <2>2. CASE ClearPendingAndFailed
    BY <1>1, <2>2 DEF ClearPendingAndFailed
  <2>3. CASE StartDownloads
    BY <1>1, <1>2, <2>3 DEF StartDownloads, workerVars
  <2>4. CASE ScreenAction
    BY <1>2, <2>4 DEF ScreenAction, OpenRomList, OpenRomDetail, UseUpdater, OpenDiagnostics, OpenUpdater,
                      OpenQueue, Back, Quit, PauseOrResume, queueVars, workerVars
  <2>5. CASE RemoveSelectedQueueItem
    BY <2>5, PauseRemove
  <2> QED BY <1>3, <1>4, <2>1, <2>2, <2>3, <2>4, <2>5 DEF ApplyAction, Select, ScreenAction
<1>6. CASE Tick
  BY <1>6 DEF Tick, TickDownload
<1>7. CASE Terminated
  BY <1>2, <1>7 DEF Terminated, vars, queueVars, workerVars
<1> QED BY <1>5, <1>6, <1>7 DEF Next

-----------------------------------------------------------------------------
(* The theorems.                                                           *)

\* The default status satisfies the invariant, whatever the catalog.
LEMMA InitInvariant == Init => IInv
<1> SUFFICES ASSUME Init PROVE IInv
  OBVIOUS
<1>1. TypeOK
  <2>1. /\ searchQuery \in 0..NumTerms
        /\ romSort \in 0..2
        /\ activeDownloadIndex \in Int
        /\ selectedPlatformIndex \in Nat /\ selectedRomIndex \in Nat /\ selectedQueueIndex \in Nat
        /\ downloadQueue \in Seq(QueueItem)
        /\ downloadHistory \in Seq(QueueItem)
    BY CatalogAssumption DEF Init, InitStatus, CatalogAssumption
  <2>2. platforms \in Seq(Platform) /\ roms \in [Platform -> Seq(Rom)]
    BY CatalogAssumption DEF Init, CatalogAssumption
  <2>3. /\ currentView \in Views /\ prevQueueView \in Views
        /\ prevDiagnosticsView \in Views /\ prevUpdaterView \in Views
        /\ updaterState \in {"Idle", "Available", "Applied"}
        /\ currentVersion \in {"0.1.0", AvailableVersion}
        /\ downloadWorkerRunning \in BOOLEAN
        /\ downloadPaused \in BOOLEAN
        /\ keepRunning \in BOOLEAN
    BY DEF Init, InitStatus, Views
  <2> QED BY <2>1, <2>2, <2>3 DEF TypeOK
<1>2. WorkerConsistent /\ NoDuplicateDownloads /\ CompletedMoves
  BY DEF Init, InitStatus, WorkerConsistent, NoDuplicateDownloads, CompletedMoves
<1> QED BY <1>1, <1>2 DEF IInv

\* Every key press and every tick preserves the invariant.
LEMMA StepInvariant == IInv /\ [Next]_vars => IInv'
<1> SUFFICES ASSUME IInv, [Next]_vars PROVE IInv'
  OBVIOUS
<1>1. CASE UserAction
  <2> PICK a \in Inputs : ApplyAction(a)
    BY <1>1 DEF UserAction
  <2>1. CASE MoveSelection(-1) \/ MoveSelection(1)
    BY <2>1, QuietStep
  <2>2. CASE CycleSort(-1) \/ CycleSort(1) \/ CycleSearchQuery
    BY <2>2, QuietStep
  <2>3. CASE RemoveSelectedQueueItem
    BY <2>3, RemoveStep
  <2>4. CASE ClearPendingAndFailed
    BY <2>4, ClearStep
  <2>5. CASE EnqueueSelectedRom
    BY <2>5, EnqueueStep
  <2>6. CASE RetrySelectedFailed
    BY <2>6, RetryStep
  <2>7. CASE StartDownloads
    BY <2>7, StartStep
  <2>8. CASE ScreenAction
    BY <2>8, QuietStep
  <2> QED BY <2>1, <2>2, <2>3, <2>4, <2>5, <2>6, <2>7, <2>8 DEF ApplyAction, Select, ScreenAction
<1>2. CASE Tick
  BY <1>2, TickStep DEF Tick
<1>3. CASE UNCHANGED vars
  <2>1. TypeOK'
    BY <1>3 DEF IInv, TypeOK, vars, viewVars, catalogVars, selectionVars, filterVars, queueVars,
                workerVars, updaterVars
  <2> QED BY <1>3, <2>1, QueueUntouched DEF IInv, vars
<1> QED BY <1>1, <1>2, <1>3 DEF Next, Terminated

\* The inductive invariant holds throughout every session (applyAction and
\* tickDownload in any order).
THEOREM InvariantHolds == Spec => []IInv
BY InitInvariant, StepInvariant, PTL DEF Spec

\* Every field of Status keeps its type, for every catalog and tick length.
THEOREM TypeCorrect == Spec => []TypeOK
BY InvariantHolds, PTL DEF IInv

\* The active index names the one item being downloaded, whatever the user
\* removes, retries, adds and clears while the worker runs.
THEOREM WorkerCorrect == Spec => []WorkerConsistent
BY InvariantHolds, PTL DEF IInv

\* A pause leaves the active item alone, whatever happens to the queue around it.
THEOREM PauseIsKept == Spec => PauseHolds
<1>1. IInv /\ [Next]_vars =>
        [downloadPaused /\ downloadPaused' => downloadWorkerRunning' /\ ActiveItem' = ActiveItem]_vars
  BY PauseStep
<1> QED BY <1>1, InvariantHolds, PTL DEF Spec, PauseHolds

\* No ROM is downloaded twice in a session.
THEOREM NoDuplicates == Spec => []NoDuplicateDownloads
BY InvariantHolds, PTL DEF IInv

-----------------------------------------------------------------------------
(* The rows of the ROM list.                                               *)

\* Under every sort mode the comparator orders the visible positions strictly.
LEMMA StrictOrder ==
  ASSUME TypeOK, NEW sort \in 0..2
  PROVE  LET V == VisibleRoms(searchQuery)
         IN  /\ \A i \in V : ~ShownBefore(i, i, sort)
             /\ \A i, j \in V : i # j => ShownBefore(i, j, sort) \/ ShownBefore(j, i, sort)
             /\ \A i, j, k \in V :
                  ShownBefore(i, j, sort) /\ ShownBefore(j, k, sort) => ShownBefore(i, k, sort)
<1> DEFINE V == VisibleRoms(searchQuery)
           t(i) == Title[SelectedList[i]]
           z(i) == SizeMb[SelectedList[i]]
<1>1. \A i \in V : i \in Nat /\ t(i) \in Nat /\ z(i) \in Nat
  <2>1. SelectedList \in Seq(Rom)
    BY VisibleFinite
  <2>2. \A i \in V : i \in DOMAIN SelectedList
    BY DEF VisibleRoms
  <2>3. \A i \in V : i \in Nat /\ SelectedList[i] \in Rom
    BY <2>1, <2>2
  <2> QED BY <2>3, CatalogAssumption DEF CatalogAssumption
<1>2. \A i, j : TitleBefore(i, j) <=> t(i) < t(j) \/ (t(i) = t(j) /\ i < j)
  BY DEF TitleBefore
<1>3. \A i, j : ShownBefore(i, j, sort) <=>
        \/ sort = 0 /\ TitleBefore(i, j)
        \/ sort = 1 /\ (z(i) < z(j) \/ (z(i) = z(j) /\ TitleBefore(i, j)))
        \/ sort \notin {0, 1} /\ (z(i) > z(j) \/ (z(i) = z(j) /\ TitleBefore(i, j)))
  BY DEF ShownBefore
<1> HIDE DEF V, t, z
<1>4. \A i \in V : ~ShownBefore(i, i, sort)
  BY <1>1, <1>2, <1>3
<1>5. \A i, j \in V : i # j => ShownBefore(i, j, sort) \/ ShownBefore(j, i, sort)
  BY <1>1, <1>2, <1>3
<1>6. ASSUME NEW i \in V, NEW j \in V, NEW k \in V, ShownBefore(i, j, sort), ShownBefore(j, k, sort)
      PROVE  ShownBefore(i, k, sort)
  <2>1. TitleBefore(i, j) /\ TitleBefore(j, k) => TitleBefore(i, k)
    BY <1>1, <1>2
  <2> QED BY <1>1, <1>3, <1>6, <2>1
<1> QED BY <1>4, <1>5, <1>6 DEF V

LEMMA DistinctRows == TypeOK => RowsAreDistinct
<1> SUFFICES ASSUME TypeOK, NEW sort \in 0..2,
                    NEW i \in VisibleRoms(searchQuery), NEW j \in VisibleRoms(searchQuery),
                    RowOf(i, sort) = RowOf(j, sort)
             PROVE  i = j
  BY DEF RowsAreDistinct
<1> DEFINE V == VisibleRoms(searchQuery)
           Above(k) == {l \in V : ShownBefore(l, k, sort)}
<1>1. IsFiniteSet(V)
  <2>1. SelectedList \in Seq(Rom)
    BY VisibleFinite
  <2>2. V \subseteq 1..Len(SelectedList) /\ Len(SelectedList) \in Nat
    BY <2>1 DEF VisibleRoms
  <2>3. IsFiniteSet(1..Len(SelectedList))
    BY <2>2, FS_Interval
  <2> HIDE DEF V
  <2> QED BY <2>2, <2>3, FS_Subset
<1>2. /\ \A a \in V : ~ShownBefore(a, a, sort)
      /\ \A a, b \in V : a # b => ShownBefore(a, b, sort) \/ ShownBefore(b, a, sort)
      /\ \A a, b, c \in V : ShownBefore(a, b, sort) /\ ShownBefore(b, c, sort) => ShownBefore(a, c, sort)
  BY StrictOrder
<1>3. Cardinality(Above(i)) = Cardinality(Above(j))
  BY DEF RowOf
<1>4. ASSUME NEW a \in V, NEW b \in V, ShownBefore(a, b, sort), Cardinality(Above(a)) = Cardinality(Above(b))
      PROVE  FALSE
  <2>1. Above(a) \subseteq Above(b) /\ a \in Above(b) /\ a \notin Above(a)
    BY <1>2, <1>4
  <2>2. IsFiniteSet(Above(b))
    <3>1. Above(b) \subseteq V
      OBVIOUS
    <3> HIDE DEF Above, V
    <3> QED BY <1>1, <3>1, FS_Subset
  <2> HIDE DEF Above
  <2>3. Above(a) = Above(b)
    BY <1>4, <2>1, <2>2, FS_Subset
  <2> QED BY <2>1, <2>3
<1> HIDE DEF V, Above
<1> QED BY <1>2, <1>3, <1>4 DEF V

-----------------------------------------------------------------------------
(* The selections.                                                         *)

LEMMA ClampAgain ==
  /\ \A n \in Nat : ClampIndex(0, n) = 0
  /\ \A i \in Int, n \in Nat : ClampIndex(ClampIndex(i, n), n) = ClampIndex(i, n)
BY DEF ClampIndex

\* The ROM selection and what it selects from only change on the platform list,
\* where it starts again, and on the ROM list, where it is clamped.
LEMMA RomSelectionStep ==
  ASSUME TypeOK, [Next]_vars
  PROVE  \/ UNCHANGED <<catalogVars, selectedPlatformIndex, selectedRomIndex, filterVars>>
         \/ /\ currentView \in {"PLATFORMS", "ROMS"}
            /\ selectedRomIndex' = 0
         \/ /\ currentView = "ROMS"
            /\ UNCHANGED <<catalogVars, selectedPlatformIndex, searchQuery>>
            /\ \E i \in Int : selectedRomIndex' = ClampIndex(i, Cardinality(VisibleRoms(searchQuery)))
<1> DEFINE Goal ==
         \/ UNCHANGED <<catalogVars, selectedPlatformIndex, selectedRomIndex, filterVars>>
         \/ /\ currentView \in {"PLATFORMS", "ROMS"}
            /\ selectedRomIndex' = 0
         \/ /\ currentView = "ROMS"
            /\ UNCHANGED <<catalogVars, selectedPlatformIndex, searchQuery>>
            /\ \E i \in Int : selectedRomIndex' = ClampIndex(i, Cardinality(VisibleRoms(searchQuery)))
<1>0. selectedRomIndex \in Int
  BY DEF TypeOK
<1>1. ASSUME NEW d \in {-1, 1}, MoveSelection(d) PROVE Goal
  <2>1. selectedRomIndex + d \in Int
    BY <1>0
  <2> QED BY <1>1, <2>1 DEF MoveSelection, catalogVars, filterVars
<1>2. ASSUME NEW d \in {-1, 1}, CycleSort(d) PROVE Goal
  BY <1>0, <1>2 DEF CycleSort, catalogVars
<1>3. CASE CycleSearchQuery
  BY <1>3 DEF CycleSearchQuery
<1>4. CASE Select
  BY <1>4 DEF Select, OpenRomList, OpenRomDetail, EnqueueSelectedRom, RetrySelectedFailed, UseUpdater,
              RunUpdaterCheck, catalogVars, selectionVars, filterVars
<1>5. CASE RemoveSelectedQueueItem \/ ClearPendingAndFailed
  BY <1>5 DEF RemoveSelectedQueueItem, ClearPendingAndFailed, catalogVars, filterVars
<1>6. CASE OpenDiagnostics \/ OpenUpdater \/ OpenQueue \/ Back \/ Quit
  BY <1>6 DEF OpenDiagnostics, OpenUpdater, OpenQueue, Back, Quit, catalogVars, selectionVars, filterVars
<1>7. CASE StartDownloads \/ PauseOrResume
  BY <1>7 DEF StartDownloads, PauseOrResume, catalogVars, selectionVars, filterVars
<1>8. CASE Tick
  BY <1>8 DEF Tick, TickDownload, catalogVars, filterVars
<1>9. CASE Terminated \/ UNCHANGED vars
  BY <1>9 DEF Terminated, vars, selectionVars
<1>10. CASE UserAction
  <2>1. MoveSelection(-1) \/ MoveSelection(1) \/ CycleSort(-1) \/ CycleSort(1) => Goal
    BY <1>1, <1>2
  <2>2. PICK a \in Inputs : ApplyAction(a)
    BY <1>10 DEF UserAction
  <2> QED BY <1>3, <1>4, <1>5, <1>6, <1>7, <2>1, <2>2 DEF ApplyAction
<1> QED BY <1>8, <1>9, <1>10 DEF Next

LEMMA VisibleCount == TypeOK => Cardinality(VisibleRoms(searchQuery)) \in Nat
BY VisibleFinite

LEMMA RomSelectionInRange ==
  ASSUME TypeOK, TypeOK', [Next]_vars,
         selectedRomIndex = ClampIndex(selectedRomIndex, Cardinality(VisibleRoms(searchQuery)))
  PROVE  (selectedRomIndex = ClampIndex(selectedRomIndex, Cardinality(VisibleRoms(searchQuery))))'
<1>1. Cardinality(VisibleRoms(searchQuery)) \in Nat
  BY VisibleFinite
<1>2. TypeOK' => (Cardinality(VisibleRoms(searchQuery)) \in Nat)'
  BY VisibleCount, PTL
<1>3. (Cardinality(VisibleRoms(searchQuery)))' \in Nat
  BY <1>2
<1>4. CASE UNCHANGED <<catalogVars, selectedPlatformIndex, searchQuery>>
  <2>1. UNCHANGED Cardinality(VisibleRoms(searchQuery))
    BY <1>4 DEF VisibleRoms, SelectedList, SelectedPlatform, catalogVars
  <2>2. CASE selectedRomIndex' = selectedRomIndex
    BY <2>1, <2>2 DEF ClampIndex
  <2>3. CASE selectedRomIndex' = 0
    BY <2>3, <1>3 DEF ClampIndex
  <2>4. ASSUME NEW i \in Int, selectedRomIndex' = ClampIndex(i, Cardinality(VisibleRoms(searchQuery)))
        PROVE  (selectedRomIndex = ClampIndex(selectedRomIndex, Cardinality(VisibleRoms(searchQuery))))'
    BY <1>1, <2>1, <2>4 DEF ClampIndex
  <2> QED BY <2>2, <2>3, <2>4, RomSelectionStep DEF filterVars
<1>5. CASE selectedRomIndex' = 0
  BY <1>3, <1>5 DEF ClampIndex
<1> QED BY <1>4, <1>5, RomSelectionStep DEF filterVars

\* The queue selection follows every change of the queue.
LEMMA QueueSelectionStep ==
  ASSUME IInv, IInv', [Next]_vars,
         selectedQueueIndex = ClampIndex(selectedQueueIndex, Len(downloadQueue))
  PROVE  (selectedQueueIndex = ClampIndex(selectedQueueIndex, Len(downloadQueue)))'
<1> DEFINE Goal == selectedQueueIndex' = ClampIndex(selectedQueueIndex', Len(downloadQueue'))
<1>0. /\ downloadQueue \in Seq(QueueItem) /\ Len(downloadQueue) \in Nat
      /\ downloadQueue' \in Seq(QueueItem) /\ Len(downloadQueue') \in Nat
      /\ selectedQueueIndex \in Nat
  BY DEF IInv, TypeOK
<1>1. CASE UNCHANGED <<selectedQueueIndex, downloadQueue>>
  BY <1>1
<1>2. ASSUME Len(downloadQueue') = Len(downloadQueue), UNCHANGED selectedQueueIndex
      PROVE  Goal
  BY <1>2
<1>3. ASSUME NEW d \in {-1, 1}, MoveSelection(d) PROVE Goal
  <2>1. selectedQueueIndex + d \in Int
    BY <1>0
  <2> QED BY <1>0, <1>3, <2>1, ClampAgain DEF MoveSelection, queueVars
<1>4. CASE RemoveSelectedQueueItem
  BY <1>0, <1>4 DEF RemoveSelectedQueueItem, SelectionAfterErase, ClampIndex
<1>5. CASE ClearPendingAndFailed
  BY <1>0, <1>5, ClampAgain DEF ClearPendingAndFailed
<1>6. CASE EnqueueSelectedRom
  <2>1. Len(downloadQueue') = Len(downloadQueue) + 1 /\ selectedQueueIndex' = Len(downloadQueue)
    BY <1>0, <1>6 DEF EnqueueSelectedRom
  <2> QED BY <1>0, <2>1 DEF ClampIndex
<1>7. CASE RetrySelectedFailed
  BY <1>0, <1>2, <1>7 DEF RetrySelectedFailed, selectionVars
<1>8. ASSUME NEW q \in Seq(QueueItem), BeginFirstPending(q) PROVE Len(downloadQueue') = Len(q)
  BY <1>8 DEF BeginFirstPending, Began
<1>9. CASE StartDownloads
  <2> DEFINE q == [i \in DOMAIN downloadQueue |-> Restartable(downloadQueue[i])]
  <2>1. DOMAIN q = 1..Len(downloadQueue)
    BY <1>0
  <2>2. /\ downloadQueue' = downloadQueue \/ downloadQueue' = q \/ \E i : downloadQueue' = Began(q, i)
        /\ UNCHANGED selectedQueueIndex
    BY <1>9 DEF StartDownloads, BeginFirstPending, selectionVars
  <2> HIDE DEF q
  <2>3. DOMAIN downloadQueue' = 1..Len(downloadQueue)
    BY <1>0, <2>1, <2>2 DEF Began
  <2>4. Len(downloadQueue') = Len(downloadQueue)
    BY <1>0, <2>3
  <2> QED BY <1>2, <2>2, <2>4
<1>10. ASSUME NEW e \in Elapsed, TickDownload(e) PROVE Goal
  <2> DEFINE k == activeDownloadIndex + 1
             rest == RemoveAt(downloadQueue, k)
             item == Ticked(e)
  <2>1. k \in DOMAIN downloadQueue /\ activeDownloadIndex \in 0..(Len(downloadQueue) - 1)
    <3>1. activeDownloadIndex \in 0..(Len(downloadQueue) - 1)
      BY <1>10 DEF TickDownload, IInv, WorkerConsistent, TypeOK
    <3> QED BY <1>0, <3>1
  <2>2. TickProgress(item) \/ TickFail(item) \/ TickComplete(item)
    BY <1>10, <2>1 DEF TickDownload
  <2>3. ASSUME NEW q, BeginNextPendingDownload(q) PROVE DOMAIN downloadQueue' = DOMAIN q
    BY <2>3 DEF BeginNextPendingDownload, BeginFirstPending, StopWorker, Began
  <2> HIDE DEF k, item
  <2>4. CASE TickProgress(item) \/ TickFail(item)
    <3>1. DOMAIN downloadQueue' = DOMAIN downloadQueue /\ UNCHANGED selectedQueueIndex
      BY <2>3, <2>4 DEF TickProgress, TickFail
    <3>2. Len(downloadQueue') = Len(downloadQueue)
      BY <1>0, <3>1
    <3> QED BY <1>2, <3>1, <3>2
  <2>5. CASE TickComplete(item)
    <3>1. selectedQueueIndex' = SelectionAfterErase(rest) /\ DOMAIN downloadQueue' = DOMAIN rest
      BY <2>3, <2>5 DEF TickComplete, k
    <3>2. rest \in Seq(QueueItem)
      BY <1>0, <2>1, RemoveAtFacts
    <3> HIDE DEF rest
    <3>3. Len(downloadQueue') = Len(rest) /\ Len(rest) \in Nat /\ (rest = <<>> <=> Len(rest) = 0)
      BY <1>0, <3>1, <3>2
    <3> QED BY <1>0, <3>1, <3>3 DEF SelectionAfterErase, ClampIndex
  <2> QED BY <2>2, <2>4, <2>5
<1>11. CASE UserAction
  <2>1. PICK a \in Inputs : ApplyAction(a)
    BY <1>11 DEF UserAction
  <2>2. CASE MoveSelection(-1) \/ MoveSelection(1)
    BY <1>3, <2>2
  <2>3. CASE CycleSort(-1) \/ CycleSort(1) \/ CycleSearchQuery \/ ScreenAction
    BY <1>1, <2>3
       DEF CycleSort, CycleSearchQuery, ScreenAction, OpenRomList, OpenRomDetail, UseUpdater, RunUpdaterCheck,
           OpenDiagnostics, OpenUpdater, OpenQueue, Back, Quit, PauseOrResume, queueVars, selectionVars
  <2> QED BY <1>4, <1>5, <1>6, <1>7, <1>9, <2>1, <2>2, <2>3 DEF ApplyAction, Select, ScreenAction
<1>12. CASE Terminated \/ UNCHANGED vars
  BY <1>1, <1>12 DEF Terminated, vars, selectionVars, queueVars
<1> QED BY <1>10, <1>11, <1>12 DEF Next, Tick

LEMMA PlatformSelectionStep ==
  ASSUME TypeOK, [Next]_vars,
         selectedPlatformIndex = ClampIndex(selectedPlatformIndex, Len(platforms))
  PROVE  (selectedPlatformIndex = ClampIndex(selectedPlatformIndex, Len(platforms)))'
<1>1. CASE UNCHANGED <<catalogVars, selectedPlatformIndex>>
  BY <1>1 DEF catalogVars
<1>2. ASSUME NEW d \in {-1, 1}, MoveSelection(d)
      PROVE  selectedPlatformIndex' = ClampIndex(selectedPlatformIndex', Len(platforms'))
  <2>1. selectedPlatformIndex + d \in Int /\ Len(platforms) \in Nat
    BY DEF TypeOK
  <2> QED BY <1>2, <2>1, ClampAgain DEF MoveSelection, catalogVars
<1>3. CASE MoveSelection(-1) \/ MoveSelection(1)
  BY <1>2, <1>3
<1>4. CASE \/ CycleSort(-1) \/ CycleSort(1) \/ CycleSearchQuery \/ RemoveSelectedQueueItem \/ ClearPendingAndFailed
           \/ Select \/ OpenDiagnostics \/ OpenUpdater \/ OpenQueue \/ Back \/ Quit
           \/ StartDownloads \/ PauseOrResume \/ Tick \/ Terminated \/ UNCHANGED vars
  BY <1>1, <1>4
     DEF CycleSort, CycleSearchQuery, RemoveSelectedQueueItem, ClearPendingAndFailed, Select, OpenRomList,
         OpenRomDetail, EnqueueSelectedRom, RetrySelectedFailed, UseUpdater, RunUpdaterCheck, OpenDiagnostics,
         OpenUpdater, OpenQueue, Back, Quit, StartDownloads, PauseOrResume, Tick, TickDownload, Terminated, vars,
         catalogVars, selectionVars
<1>5. CASE UserAction
  <2>1. PICK a \in Inputs : ApplyAction(a)
    BY <1>5 DEF UserAction
  <2> QED BY <1>3, <1>4, <2>1 DEF ApplyAction
<1> QED BY <1>4, <1>5 DEF Next

\* The selections stay inside the lists they index: moveSelection, cycleSort and
\* the erases clamp them, and nothing else shortens a list.
THEOREM SelectionsFit == Spec => []SelectionInRange
<1>1. Init => SelectionInRange
  <2>1. Init => TypeOK
    BY InitInvariant DEF IInv
  <2>2. TypeOK => /\ Len(platforms) \in Nat /\ Len(downloadQueue) \in Nat
                  /\ Cardinality(VisibleRoms(searchQuery)) \in Nat
    BY VisibleCount DEF TypeOK
  <2> QED BY <2>1, <2>2, ClampAgain DEF Init, InitStatus, SelectionInRange
<1>2. IInv /\ IInv' /\ SelectionInRange /\ [Next]_vars => SelectionInRange'
  BY PlatformSelectionStep, RomSelectionInRange, QueueSelectionStep DEF SelectionInRange, IInv
<1> QED BY <1>1, <1>2, InvariantHolds, PTL DEF Spec

\* Whatever is sorted and searched, every row of the list selects one ROM
\* (the comparators of visibleRomIndices are strict orders).
THEOREM EveryRowIsOneRom == Spec => []RowsAreDistinct
BY DistinctRows, TypeCorrect, PTL

-----------------------------------------------------------------------------
(* The screens.                                                            *)

\* As long as DETAIL is open or can be returned to, neither the ROM selection
\* nor the list behind it changes.
THEOREM DetailIsKept == Spec => DetailKeepsItsRom
<1>1. ASSUME TypeOK, [Next]_vars, DetailOpen
      PROVE  \A r \in Rom : SelectsRom(r)' = SelectsRom(r)
  <2>1. UNCHANGED <<catalogVars, selectedPlatformIndex, selectedRomIndex, filterVars>>
    BY <1>1, RomSelectionStep DEF DetailOpen
  <2> QED BY <2>1 DEF SelectsRom, RowOf, VisibleRoms, ShownBefore, TitleBefore, SelectedList, SelectedPlatform,
                      catalogVars, filterVars
<1>2. TypeOK /\ [Next]_vars =>
        [DetailOpen /\ DetailOpen' => \A r \in Rom : SelectsRom(r)' = SelectsRom(r)]_vars
  BY <1>1
<1> QED BY <1>2, TypeCorrect, PTL DEF Spec, DetailKeepsItsRom

\* Remembered screens are never the queue screens, and those of the side screens
\* are the platform list.
ScreensRemembered ==
  /\ prevQueueView \notin {"QUEUE", "DOWNLOADING"}
  /\ prevDiagnosticsView = "PLATFORMS"
  /\ prevUpdaterView = "PLATFORMS"

LEMMA RememberedStep == ScreensRemembered /\ [Next]_vars => ScreensRemembered'
<1> SUFFICES ASSUME ScreensRemembered, [Next]_vars
             PROVE  ScreensRemembered'
  OBVIOUS
<1>1. CASE UNCHANGED <<prevQueueView, prevDiagnosticsView, prevUpdaterView>>
  BY <1>1 DEF ScreensRemembered
<1>2. CASE OpenDiagnostics \/ OpenUpdater \/ OpenQueue \/ EnqueueSelectedRom
  BY <1>2 DEF OpenDiagnostics, OpenUpdater, OpenQueue, EnqueueSelectedRom, ScreensRemembered, viewVars
<1>3. CASE \/ MoveSelection(-1) \/ MoveSelection(1) \/ CycleSort(-1) \/ CycleSort(1) \/ CycleSearchQuery
           \/ RemoveSelectedQueueItem \/ ClearPendingAndFailed \/ OpenRomList \/ OpenRomDetail
           \/ RetrySelectedFailed \/ UseUpdater \/ Back \/ Quit \/ StartDownloads \/ PauseOrResume
           \/ Tick \/ Terminated \/ UNCHANGED vars
  BY <1>1, <1>3
     DEF MoveSelection, CycleSort, CycleSearchQuery, RemoveSelectedQueueItem, ClearPendingAndFailed, OpenRomList,
         OpenRomDetail, RetrySelectedFailed, UseUpdater, Back, Quit, StartDownloads, PauseOrResume, Tick,
         TickDownload, Terminated, vars, viewVars
<1>4. CASE UserAction
  <2>1. PICK a \in Inputs : ApplyAction(a)
    BY <1>4 DEF UserAction
  <2> QED BY <1>2, <1>3, <2>1 DEF ApplyAction, Select
<1> QED BY <1>3, <1>4 DEF Next

\* Back gets nearer to the platform list from every screen, because the screens
\* that are remembered are not those that remember.
THEOREM BackGetsHome == Spec => BackLeadsHome
<1>1. Init => ScreensRemembered
  BY DEF Init, InitStatus, ScreensRemembered
<1>2. ASSUME ScreensRemembered, Back
      PROVE  currentView = "PLATFORMS" \/ HomeDistance' < HomeDistance
  BY <1>2 DEF Back, BackTarget, HomeDistance, ScreenDepth, ScreensRemembered
<1>3. ScreensRemembered => [Back => currentView = "PLATFORMS" \/ HomeDistance' < HomeDistance]_vars
  BY <1>2
<1> QED BY <1>1, <1>3, RememberedStep, PTL DEF Spec, BackLeadsHome
=============================================================================
