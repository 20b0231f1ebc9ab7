-------------------------- MODULE LifecycleProofs --------------------------
(***************************************************************************)
(* AppCore implements DownloadLifecycle, for any catalog, inputs and tick  *)
(* length; no ROM that waits in its queue starves; and no tick of its      *)
(* worker is lost.                                                         *)
(*                                                                         *)
(* Positions of the queue carry no meaning for the lifecycle, so there     *)
(* everything is said of the set of items of a queue: by the invariant of  *)
(* AppCoreProofs a ROM has at most one item, and its stage is that of this *)
(* item.  For the order of service every step is shown to be a move of the *)
(* queue that nobody overtakes in (FairMove); the attempts that an item in *)
(* its state can have made (AllFit) are part of the invariant, as a turn   *)
(* is counted by them.                                                     *)
(***************************************************************************)
EXTENDS AppCoreProofs

ItemsOf(q) == {q[i] : i \in DOMAIN q}

HasItem(q, r) == \E i \in DOMAIN q : q[i].rom = r

StageOfState(state) ==
  CASE state = "Pending"     -> "waiting"
    [] state = "Downloading" -> "fetching"
    [] state = "Failed"      -> "failed"
    [] OTHER                 -> "done"

\* StageOf, for any queue and history.
StageIn(q, h, r) ==
  LET inQueue == {i \in DOMAIN q : q[i].rom = r}
  IN  IF \E i \in DOMAIN h : h[i].rom = r THEN "done"
      ELSE IF inQueue = {} THEN "absent"
      ELSE StageOfState(q[CHOOSE i \in inQueue : TRUE].state)

StagesIn(q, h) == [r \in Rom |-> StageIn(q, h, r)]

Stage == StagesIn(downloadQueue, downloadHistory)

-----------------------------------------------------------------------------
(* The stage of a ROM.                                                     *)

LEMMA StageIsStageIn == \A r : StageOf(r) = StageIn(downloadQueue, downloadHistory, r)
BY DEF StageOf, StageIn, StageOfState

LEMMA StageOfItem ==
  ASSUME NEW q, NEW h, Clean(q, h), NEW item \in ItemsOf(q)
  PROVE  StageIn(q, h, item.rom) = StageOfState(item.state)
<1>1. PICK i \in DOMAIN q : item = q[i]
  BY DEF ItemsOf
<1>2. {j \in DOMAIN q : q[j].rom = item.rom} = {i}
  BY <1>1 DEF Clean
<1>3. ~HasItem(h, item.rom)
  BY <1>1 DEF Clean, HasItem
<1>4. (CHOOSE j \in {j \in DOMAIN q : q[j].rom = item.rom} : TRUE) = i
  BY <1>2
<1> QED BY <1>1, <1>2, <1>3, <1>4 DEF StageIn, HasItem

LEMMA StageOfDone ==
  ASSUME NEW q, NEW h, NEW r, HasItem(h, r)
  PROVE  StageIn(q, h, r) = "done"
BY DEF StageIn, HasItem

LEMMA StageOfAbsent ==
  ASSUME NEW q, NEW h, NEW r, ~HasItem(h, r), \A item \in ItemsOf(q) : item.rom # r
  PROVE  StageIn(q, h, r) = "absent"
<1>1. {j \in DOMAIN q : q[j].rom = r} = {}
  BY DEF ItemsOf
<1> QED BY <1>1 DEF StageIn, HasItem

\* The history only matters for what is in it.
LEMMA StageByHistory ==
  ASSUME NEW q, NEW h, NEW g, NEW r, HasItem(h, r) <=> HasItem(g, r)
  PROVE  StageIn(q, g, r) = StageIn(q, h, r)
BY DEF StageIn, HasItem

\* Who keeps an item in the same state keeps the stage.
LEMMA StageKept ==
  ASSUME NEW q, NEW h, NEW p, Clean(q, h), Clean(p, h), NEW r,
         \A item \in ItemsOf(q) : item.rom = r =>
            \E other \in ItemsOf(p) : other.rom = r /\ other.state = item.state,
         \A item \in ItemsOf(p) : item.rom = r => \E other \in ItemsOf(q) : other.rom = r
  PROVE  StageIn(p, h, r) = StageIn(q, h, r)
<1>1. CASE HasItem(h, r)
  BY <1>1, StageOfDone
<1>2. CASE ~HasItem(h, r) /\ \A item \in ItemsOf(q) : item.rom # r
  BY <1>2, StageOfAbsent
<1>3. CASE \E item \in ItemsOf(q) : item.rom = r
  <2>1. PICK item \in ItemsOf(q) : item.rom = r
    BY <1>3
  <2>2. PICK other \in ItemsOf(p) : other.rom = r /\ other.state = item.state
    BY <2>1
  <2> QED BY <2>1, <2>2, StageOfItem
<1> QED BY <1>1, <1>2, <1>3

LEMMA ItemsAreItems ==
  ASSUME NEW q \in Seq(QueueItem)
  PROVE  \A item \in ItemsOf(q) :
           item \in QueueItem /\ item.rom \in Rom /\ item.state \in QueueStates
<1>1. \A i \in DOMAIN q : q[i] \in QueueItem
  OBVIOUS
<1>2. \A item \in QueueItem : item.rom \in Rom /\ item.state \in QueueStates
  BY DEF QueueItem
<1> QED BY <1>1, <1>2 DEF ItemsOf

-----------------------------------------------------------------------------
(* What the operations on queues do to the items.                          *)

LEMMA ItemsRemoved ==
  ASSUME NEW q \in Seq(QueueItem), NEW h, Clean(q, h), NEW k \in DOMAIN q
  PROVE  ItemsOf(RemoveAt(q, k)) = ItemsOf(q) \ {q[k]}
<1> DEFINE rest == RemoveAt(q, k)
<1>0. k \in 1..Len(q) /\ Len(q) \in Nat /\ DOMAIN q = 1..Len(q)
  OBVIOUS
<1>1. /\ rest \in Seq(QueueItem)
      /\ Len(rest) = Len(q) - 1
      /\ \A j \in 1..(Len(q) - 1) : rest[j] = IF j < k THEN q[j] ELSE q[j + 1]
      /\ k \in 1..Len(q) /\ Len(q) \in Nat /\ DOMAIN q = 1..Len(q)
  BY <1>0, RemoveAtFacts
<1>2. DOMAIN rest = 1..(Len(q) - 1)
  BY <1>1
<1> HIDE DEF rest
<1>3. ASSUME NEW j \in DOMAIN rest PROVE rest[j] \in ItemsOf(q) \ {q[k]}
  <2> DEFINE a == IF j < k THEN j ELSE j + 1
  <2>1. a \in DOMAIN q /\ a # k
    BY <1>1, <1>2
  <2>2. rest[j] = q[a]
    BY <1>1, <1>2
  <2> HIDE DEF a
  <2>3. q[a] # q[k]
    BY <2>1 DEF Clean
  <2> QED BY <2>1, <2>2, <2>3 DEF ItemsOf
<1>4. ASSUME NEW i \in DOMAIN q, i # k PROVE q[i] \in ItemsOf(rest)
  <2> DEFINE b == IF i < k THEN i ELSE i - 1
  <2>1. b \in DOMAIN rest
    BY <1>1, <1>2, <1>4
  <2>2. rest[b] = q[i]
    BY <1>1, <1>2, <1>4, <2>1
  <2> HIDE DEF b
  <2> QED BY <2>1, <2>2 DEF ItemsOf
<1>5. ItemsOf(rest) = ItemsOf(q) \ {q[k]}
  BY <1>3, <1>4 DEF ItemsOf
<1> QED BY <1>5 DEF rest

Replaced(q, k, item) == [q EXCEPT ![k] = item]

\* An item changes its state: its ROM changes its stage, the others keep theirs.
LEMMA StageReplaced ==
  ASSUME NEW q \in Seq(QueueItem), NEW h, Clean(q, h), NEW k \in DOMAIN q,
         NEW item \in QueueItem, item.rom = q[k].rom, item.state # "Completed"
  PROVE  /\ Replaced(q, k, item) \in Seq(QueueItem)
         /\ Clean(Replaced(q, k, item), h)
         /\ StageIn(Replaced(q, k, item), h, item.rom) = StageOfState(item.state)
         /\ \A r : r # item.rom => StageIn(Replaced(q, k, item), h, r) = StageIn(q, h, r)
<1> DEFINE p == Replaced(q, k, item)
<1>1. /\ p \in Seq(QueueItem) /\ Clean(p, h) /\ DOMAIN p = DOMAIN q
      /\ \A i \in DOMAIN q : p[i] = IF i = k THEN item ELSE q[i]
  BY ReplaceClean DEF Replaced
<1> HIDE DEF p
<1>2. /\ item \in ItemsOf(p)
      /\ \A other \in ItemsOf(p) : other = item \/ other \in ItemsOf(q)
      /\ \A other \in ItemsOf(q) : other = q[k] \/ other \in ItemsOf(p)
  BY <1>1 DEF ItemsOf
<1>3. StageIn(p, h, item.rom) = StageOfState(item.state)
  BY <1>1, <1>2, StageOfItem
<1>4. ASSUME NEW r, r # item.rom PROVE StageIn(p, h, r) = StageIn(q, h, r)
  <2>1. \A other \in ItemsOf(q) : other.rom = r => other \in ItemsOf(p)
    BY <1>2, <1>4
  <2>2. \A other \in ItemsOf(p) : other.rom = r => other \in ItemsOf(q)
    BY <1>2, <1>4
  <2> QED BY <1>1, <2>1, <2>2, StageKept
<1> QED BY <1>1, <1>3, <1>4 DEF p

-----------------------------------------------------------------------------
(* Stages as functions.                                                    *)

LEMMA StageFunction ==
  /\ Stage = [r \in Rom |-> StageOf(r)]
  /\ \A q, h : StagesIn(q, h) = [r \in Rom |-> StagesIn(q, h)[r]]
  /\ \A q, h : \A r \in Rom : StagesIn(q, h)[r] = StageIn(q, h, r)
BY StageIsStageIn DEF Stage, StagesIn

\* The contract's stages before and after a step.
LEMMA MappedStages ==
  /\ [r \in Rom |-> StageOf(r)] = Stage
  /\ [r \in Rom |-> StageOf(r)]' = StagesIn(downloadQueue', downloadHistory')
  /\ Stage = StagesIn(downloadQueue, downloadHistory)
BY StageIsStageIn DEF Stage, StagesIn, StageOf, StageIn, StageOfState

LEMMA CleanAround == IInv /\ IInv' => /\ Clean(downloadQueue, downloadHistory)
                                      /\ Clean(downloadQueue', downloadHistory')
                                      /\ downloadQueue \in Seq(QueueItem)
                                      /\ downloadQueue' \in Seq(QueueItem)
BY DEF IInv, TypeOK, NoDuplicateDownloads, CompletedMoves, Clean

-----------------------------------------------------------------------------
(* The worker takes up the next ROM, or stops.                             *)

LEMMA BeginStage ==
  ASSUME NEW q \in Seq(QueueItem), NEW h, Clean(q, h), BeginFirstPending(q)
  PROVE  \E n \in Rom : /\ StageIn(q, h, n) = "waiting"
                       /\ StageIn(downloadQueue', h, n) = "fetching"
                       /\ \A r : r # n => StageIn(downloadQueue', h, r) = StageIn(q, h, r)
<1>1. PICK i \in DOMAIN q : q[i].state = "Pending" /\ downloadQueue' = Began(q, i)
  BY DEF BeginFirstPending, PendingPositions
<1> DEFINE item == Begun(q[i])
           n == q[i].rom
<1>2. q[i] \in QueueItem /\ n \in Rom
  <2>1. q[i] \in QueueItem
    OBVIOUS
  <2> QED BY <2>1 DEF QueueItem
<1>3. item \in QueueItem /\ item.rom = n /\ item.state = "Downloading"
  BY <1>2, PercentAssumption DEF Begun, Item, QueueItem, QueueStates, PercentAssumption
<1>4. downloadQueue' = Replaced(q, i, item)
  BY <1>1 DEF Began, Replaced
<1>5. StageIn(q, h, n) = "waiting"
  <2>1. q[i] \in ItemsOf(q)
    BY DEF ItemsOf
  <2> QED BY <1>1, <2>1, StageOfItem DEF StageOfState
<1> HIDE DEF item
<1>6. /\ StageIn(downloadQueue', h, item.rom) = StageOfState(item.state)
      /\ \A r : r # item.rom => StageIn(downloadQueue', h, r) = StageIn(q, h, r)
  <2>1. item.rom = q[i].rom /\ item.state # "Completed"
    BY <1>3
  <2> HIDE DEF n
  <2> QED BY <1>3, <1>4, <2>1, StageReplaced
<1> QED BY <1>2, <1>3, <1>5, <1>6 DEF StageOfState

LEMMA NoneWaits ==
  ASSUME NEW q \in Seq(QueueItem), NEW h, Clean(q, h), PendingPositions(q) = {}
  PROVE  \A r : StageIn(q, h, r) # "waiting"
<1> TAKE r
<1>1. CASE HasItem(h, r)
  BY <1>1, StageOfDone
<1>2. CASE ~HasItem(h, r) /\ \A item \in ItemsOf(q) : item.rom # r
  BY <1>2, StageOfAbsent
<1>3. CASE \E item \in ItemsOf(q) : item.rom = r
  <2>1. PICK item \in ItemsOf(q) : item.rom = r
    BY <1>3
  <2>2. item.state # "Pending"
    BY <2>1 DEF ItemsOf, PendingPositions
  <2> QED BY <2>1, <2>2, StageOfItem DEF StageOfState
<1> QED BY <1>1, <1>2, <1>3

\* A ROM settles; q and h are queue and history in the middle of the tick.
LEMMA SettleStep ==
  ASSUME NEW q \in Seq(QueueItem), NEW h, Clean(q, h), NEW r \in Rom, NEW outcome \in {"done", "failed"},
         BeginNextPendingDownload(q), downloadHistory' = h, downloadWorkerRunning = TRUE,
         StageIn(downloadQueue, downloadHistory, r) = "fetching",
         StageIn(q, h, r) = outcome,
         \A x \in Rom : x # r => StageIn(q, h, x) = StageIn(downloadQueue, downloadHistory, x)
  PROVE  Lifecycle!Next
<1> DEFINE s == Stage
           t == StagesIn(downloadQueue', downloadHistory')
<1>1. /\ s = [x \in Rom |-> s[x]] /\ t = [x \in Rom |-> t[x]]
      /\ \A x \in Rom : s[x] = StageIn(downloadQueue, downloadHistory, x)
      /\ \A x \in Rom : t[x] = StageIn(downloadQueue', h, x)
  BY StageFunction DEF Stage
<1>2. s = [x \in Rom |-> StageOf(x)] /\ t = [x \in Rom |-> StageOf(x)]'
  BY StageIsStageIn DEF Stage, StagesIn, StageOf, StageIn, StageOfState
<1> HIDE DEF s, t
<1>3. CASE PendingPositions(q) # {} /\ BeginFirstPending(q)
           /\ UNCHANGED <<downloadWorkerRunning, downloadPaused, currentView>>
  <2>1. PICK n \in Rom : /\ StageIn(q, h, n) = "waiting"
                         /\ StageIn(downloadQueue', h, n) = "fetching"
                         /\ \A x : x # n => StageIn(downloadQueue', h, x) = StageIn(q, h, x)
    BY <1>3, BeginStage
  <2>2. n # r /\ s[r] = "fetching" /\ s[n] = "waiting" /\ t[n] = "fetching" /\ t[r] = outcome
    BY <1>1, <2>1
  <2>3. \A x \in Rom : x # r /\ x # n => t[x] = s[x]
    BY <1>1, <2>1
  <2>4. t = [s EXCEPT ![r] = outcome, ![n] = "fetching"]
    BY <1>1, <2>2, <2>3
  <2>5. Lifecycle!SettleAndContinue(r, outcome, n)
    BY <1>2, <1>3, <2>2, <2>4 DEF Lifecycle!SettleAndContinue
  <2> QED BY <2>5 DEF Lifecycle!Next
<1>4. CASE PendingPositions(q) = {} /\ StopWorker(q)
  <2>1. downloadQueue' = q /\ downloadWorkerRunning' = FALSE
    BY <1>4 DEF StopWorker
  <2>2. \A x \in Rom : s[x] # "waiting"
    BY <1>1, <1>4, NoneWaits
  <2>3. s[r] = "fetching" /\ t[r] = outcome /\ \A x \in Rom : x # r => t[x] = s[x]
    BY <1>1, <2>1
  <2>4. t = [s EXCEPT ![r] = outcome]
    BY <1>1, <2>3
  <2>5. Lifecycle!SettleAndStop(r, outcome)
    BY <1>2, <2>1, <2>2, <2>3, <2>4 DEF Lifecycle!SettleAndStop, Lifecycle!In
  <2> QED BY <2>5 DEF Lifecycle!Next
<1> QED BY <1>3, <1>4 DEF BeginNextPendingDownload

-----------------------------------------------------------------------------
(* The steps of the user.                                                  *)

LEMMA StutterStep ==
  ASSUME UNCHANGED downloadWorkerRunning,
         \A r \in Rom : StageIn(downloadQueue', downloadHistory', r) = StageIn(downloadQueue, downloadHistory, r)
  PROVE  UNCHANGED Lifecycle!lifecycleVars
<1>1. StagesIn(downloadQueue', downloadHistory') = Stage
  BY DEF StagesIn, Stage
<1> QED BY <1>1, MappedStages DEF Lifecycle!lifecycleVars

\* An erased item waits or has failed: its ROM is dropped.
LEMMA RemoveRefines ==
  ASSUME IInv, IInv', RemoveSelectedQueueItem
  PROVE  Lifecycle!Next
<1> DEFINE q == downloadQueue
           h == downloadHistory
           idx == ClampIndex(selectedQueueIndex, Len(downloadQueue))
           k == idx + 1
           r == downloadQueue[k].rom
           s == Stage
           t == StagesIn(downloadQueue', downloadHistory')
<1>1. /\ q # <<>> /\ ~(downloadWorkerRunning /\ idx = activeDownloadIndex)
      /\ downloadQueue' = RemoveAt(q, k) /\ downloadHistory' = h
      /\ downloadWorkerRunning' = downloadWorkerRunning
  BY DEF RemoveSelectedQueueItem
<1>2. idx \in Nat /\ k \in 1..Len(q) /\ DOMAIN q = 1..Len(q)
  <2>1. selectedQueueIndex \in Int /\ q \in Seq(QueueItem) /\ Len(q) \in Nat \ {0}
    BY <1>1 DEF IInv, TypeOK
  <2>2. idx \in Nat /\ idx + 1 \in 1..Len(q)
    BY <2>1, ClampFacts
  <2> QED BY <2>1, <2>2
<1> HIDE DEF idx
<1>3. q[k] \in QueueItem /\ q[k] \in ItemsOf(q) /\ r \in Rom /\ q[k].state \in QueueStates
  <2>1. q[k] \in QueueItem /\ q[k] \in ItemsOf(q)
    <3>1. q \in Seq(QueueItem)
      BY DEF IInv, TypeOK
    <3> HIDE DEF k
    <3> QED BY <1>2, <3>1 DEF ItemsOf
  <2> QED BY <2>1 DEF QueueItem
<1>4. q[k].state \in {"Pending", "Failed"}
  <2>1. q[k].state # "Downloading"
    <3>1. activeDownloadIndex \in Int /\ (downloadWorkerRunning => k # activeDownloadIndex + 1)
      BY <1>1, <1>2 DEF IInv, TypeOK
    <3> HIDE DEF k
    <3> QED BY <1>2, <3>1 DEF IInv, WorkerConsistent
  <2>2. q[k].state # "Completed"
    BY <1>2 DEF IInv, CompletedMoves
  <2> QED BY <1>3, <2>1, <2>2 DEF QueueStates
<1>5. StageIn(q, h, r) \in {"waiting", "failed"}
  BY <1>3, <1>4, CleanAround, StageOfItem DEF StageOfState
<1>6. ItemsOf(downloadQueue') = ItemsOf(q) \ {q[k]}
  BY <1>1, <1>2, CleanAround, ItemsRemoved
<1>7. StageIn(downloadQueue', h, r) = "absent"
  <2>1. ~HasItem(h, r)
    BY <1>2, CleanAround DEF Clean, HasItem
  <2>2. \A item \in ItemsOf(q) : item # q[k] => item.rom # r
    BY <1>2, CleanAround DEF Clean, ItemsOf
  <2> QED BY <1>6, <2>1, <2>2, StageOfAbsent
<1>8. ASSUME NEW x \in Rom, x # r PROVE StageIn(downloadQueue', h, x) = StageIn(q, h, x)
  <2>1. /\ \A item \in ItemsOf(q) : item.rom = x => item \in ItemsOf(downloadQueue')
        /\ \A item \in ItemsOf(downloadQueue') : item.rom = x => item \in ItemsOf(q)
    BY <1>6, <1>8
  <2> QED BY <1>1, <2>1, CleanAround, StageKept
<1>9. /\ \A x \in Rom : s[x] = StageIn(q, h, x)
      /\ t = [x \in Rom |-> IF x \in {r} THEN "absent" ELSE s[x]]
  BY <1>1, <1>7, <1>8 DEF StagesIn, Stage
<1> HIDE DEF s, t, r
<1>10. Lifecycle!Drop({r})
  <2>1. r \in Rom /\ s[r] \in {"waiting", "failed"}
    BY <1>3, <1>5, <1>9 DEF r
  <2> QED BY <1>1, <1>9, <2>1, MappedStages DEF Lifecycle!Drop, Lifecycle!In, s, t
<1> QED BY <1>3, <1>10 DEF Lifecycle!Next, r

\* An idle queue holds waiting and failed ROMs only; they are dropped together.
LEMMA ClearRefines ==
  ASSUME IInv, IInv', ClearPendingAndFailed
  PROVE  Lifecycle!Next
<1> DEFINE q == downloadQueue
           h == downloadHistory
           R == {item.rom : item \in ItemsOf(q)}
           s == Stage
           t == StagesIn(downloadQueue', downloadHistory')
<1>1. downloadHistory' = h /\ downloadWorkerRunning' = downloadWorkerRunning /\ ~downloadWorkerRunning
  BY DEF ClearPendingAndFailed, workerVars
<1>2. \A item \in ItemsOf(q) : /\ item.rom \in Rom /\ item.state \in {"Pending", "Failed"}
                               /\ ~HasItem(h, item.rom)
  <2>1. \A item \in ItemsOf(q) : item.rom \in Rom /\ item.state \in QueueStates
    BY CleanAround, ItemsAreItems
  <2>2. \A item \in ItemsOf(q) : item.state # "Downloading" /\ item.state # "Completed"
    BY <1>1 DEF IInv, WorkerConsistent, CompletedMoves, ItemsOf
  <2>3. \A item \in ItemsOf(q) : ~HasItem(h, item.rom)
    BY CleanAround DEF Clean, ItemsOf, HasItem
  <2> QED BY <2>1, <2>2, <2>3 DEF QueueStates
<1>3. ItemsOf(downloadQueue') = {}
  <2>1. {i \in DOMAIN q : q[i].state \notin {"Pending", "Failed"}} = {}
    BY <1>2 DEF ItemsOf
  <2>2. downloadQueue' = <<>>
    BY <2>1, KeepNone DEF ClearPendingAndFailed
  <2> QED BY <2>2 DEF ItemsOf
<1>4. \A item \in ItemsOf(q) : StageIn(q, h, item.rom) \in {"waiting", "failed"}
  BY <1>2, CleanAround, StageOfItem DEF StageOfState
<1>5. \A r \in R : StageIn(downloadQueue', h, r) = "absent"
  BY <1>2, <1>3, StageOfAbsent
<1>6. ASSUME NEW r \in Rom, r \notin R PROVE StageIn(downloadQueue', h, r) = StageIn(q, h, r)
  BY <1>1, <1>3, <1>6, CleanAround, StageKept
<1>7. /\ \A x \in Rom : s[x] = StageIn(q, h, x)
      /\ t = [x \in Rom |-> IF x \in R THEN "absent" ELSE s[x]]
  BY <1>1, <1>5, <1>6 DEF StagesIn, Stage
<1>8. R \in SUBSET Rom /\ \A r \in R : s[r] \in {"waiting", "failed"}
  BY <1>2, <1>4, <1>7
<1> HIDE DEF R, s, t
<1>9. Lifecycle!Drop(R)
  BY <1>1, <1>7, <1>8, MappedStages DEF Lifecycle!Drop, Lifecycle!In, s, t
<1> QED BY <1>8, <1>9 DEF Lifecycle!Next

LEMMA EnqueueRefines ==
  ASSUME IInv, IInv', EnqueueSelectedRom
  PROVE  Lifecycle!Next
<1> DEFINE q == downloadQueue
           h == downloadHistory
           s == Stage
           t == StagesIn(downloadQueue', downloadHistory')
<1>1. PICK r \in Rom : ~ExistsInQueueOrCompletedHistory(r) /\ downloadQueue' = Append(q, NewItem(r))
  BY DEF EnqueueSelectedRom
<1>2. downloadHistory' = h /\ downloadWorkerRunning' = downloadWorkerRunning
  BY DEF EnqueueSelectedRom, workerVars
<1>3. NewItem(r) \in QueueItem /\ NewItem(r).rom = r /\ NewItem(r).state = "Pending"
  BY PercentAssumption DEF NewItem, Item, QueueItem, QueueStates, PercentAssumption
<1>4. ItemsOf(downloadQueue') = ItemsOf(q) \cup {NewItem(r)}
  <2>1. q \in Seq(QueueItem) /\ Len(q) \in Nat /\ DOMAIN q = 1..Len(q)
    BY DEF IInv, TypeOK
  <2>2. /\ DOMAIN downloadQueue' = 1..(Len(q) + 1)
        /\ \A i \in 1..Len(q) : downloadQueue'[i] = q[i]
        /\ downloadQueue'[Len(q) + 1] = NewItem(r)
    BY <1>1, <1>3, <2>1
  <2>3. \A i \in 1..(Len(q) + 1) : i \in 1..Len(q) \/ i = Len(q) + 1
    BY <2>1
  <2>4. Len(q) + 1 \in 1..(Len(q) + 1) /\ 1..Len(q) \subseteq 1..(Len(q) + 1)
    BY <2>1
  <2> QED BY <2>1, <2>2, <2>3, <2>4 DEF ItemsOf
<1>5. StageIn(q, h, r) = "absent"
  <2>1. ~HasItem(h, r) /\ \A item \in ItemsOf(q) : item.rom # r
    BY <1>1 DEF ExistsInQueueOrCompletedHistory, HasItem, ItemsOf, IInv, CompletedMoves
  <2> QED BY <2>1, StageOfAbsent
<1>6. StageIn(downloadQueue', h, r) = "waiting"
  BY <1>2, <1>3, <1>4, CleanAround, StageOfItem DEF StageOfState
<1>7. ASSUME NEW x \in Rom, x # r PROVE StageIn(downloadQueue', h, x) = StageIn(q, h, x)
  <2>1. /\ \A item \in ItemsOf(q) : item.rom = x => item \in ItemsOf(downloadQueue')
        /\ \A item \in ItemsOf(downloadQueue') : item.rom = x => item \in ItemsOf(q)
    BY <1>3, <1>4, <1>7
  <2> QED BY <1>2, <2>1, CleanAround, StageKept
<1>8. s[r] = "absent" /\ t = [s EXCEPT ![r] = "waiting"]
  BY <1>2, <1>5, <1>6, <1>7 DEF StagesIn, Stage
<1> HIDE DEF s, t
<1>9. Lifecycle!Request(r)
  BY <1>2, <1>8, MappedStages DEF Lifecycle!Request, s, t
<1> QED BY <1>9 DEF Lifecycle!Next

LEMMA RetryRefines ==
  ASSUME IInv, IInv', RetrySelectedFailed
  PROVE  Lifecycle!Next
<1> DEFINE q == downloadQueue
           h == downloadHistory
           k == ClampIndex(selectedQueueIndex, Len(downloadQueue)) + 1
           r == q[k].rom
           item == Item(q[k].rom, "Pending", 0, q[k].attempts)
           s == Stage
           t == StagesIn(downloadQueue', downloadHistory')
<1>1. /\ q # <<>> /\ q[k].state = "Failed" /\ downloadQueue' = Replaced(q, k, item)
      /\ downloadHistory' = h /\ downloadWorkerRunning' = downloadWorkerRunning
  BY DEF RetrySelectedFailed, Replaced, workerVars
<1>2. k \in DOMAIN q
  <2>1. selectedQueueIndex \in Int /\ q \in Seq(QueueItem) /\ Len(q) \in Nat \ {0}
    BY <1>1 DEF IInv, TypeOK
  <2>2. k \in 1..Len(q)
    BY <2>1, ClampFacts
  <2> QED BY <2>1, <2>2
<1> HIDE DEF k
<1>3. q[k] \in QueueItem /\ q[k] \in ItemsOf(q)
  BY <1>2, CleanAround DEF ItemsOf
<1>4. item \in QueueItem /\ item.rom = r /\ item.state = "Pending" /\ r \in Rom
  BY <1>3, PercentAssumption DEF Item, QueueItem, QueueStates, PercentAssumption
<1> HIDE DEF item
<1>5. StageIn(q, h, r) = "failed"
  BY <1>1, <1>3, CleanAround, StageOfItem DEF StageOfState
<1>6. /\ StageIn(downloadQueue', h, r) = "waiting"
      /\ \A x \in Rom : x # r => StageIn(downloadQueue', h, x) = StageIn(q, h, x)
  <2>1. item.rom = q[k].rom /\ item.state # "Completed"
    BY <1>4
  <2>2. /\ StageIn(downloadQueue', h, item.rom) = StageOfState(item.state)
        /\ \A x : x # item.rom => StageIn(downloadQueue', h, x) = StageIn(q, h, x)
    BY <1>1, <1>2, <1>4, <2>1, CleanAround, StageReplaced
  <2> QED BY <1>4, <2>2 DEF StageOfState
<1>7. s[r] = "failed" /\ t = [s EXCEPT ![r] = "waiting"]
  BY <1>1, <1>4, <1>5, <1>6 DEF StagesIn, Stage
<1> HIDE DEF s, t, r
<1>8. Lifecycle!Retry(r)
  BY <1>1, <1>7, MappedStages DEF Lifecycle!Retry, s, t
<1> QED BY <1>4, <1>8 DEF Lifecycle!Next, r

-----------------------------------------------------------------------------
(* The steps of the worker.                                                *)

\* Making items startable changes no stage: an idle queue has none in the middle of
\* a download.
LEMMA RestartableStages ==
  ASSUME IInv, ~downloadWorkerRunning,
         NEW q, q = [i \in DOMAIN downloadQueue |-> Restartable(downloadQueue[i])]
  PROVE  /\ q \in Seq(QueueItem) /\ Clean(q, downloadHistory)
         /\ \A r : StageIn(q, downloadHistory, r) = StageIn(downloadQueue, downloadHistory, r)
<1>1. /\ downloadQueue \in Seq(QueueItem) /\ Clean(downloadQueue, downloadHistory)
      /\ DOMAIN downloadQueue = 1..Len(downloadQueue) /\ Len(downloadQueue) \in Nat
  BY DEF IInv, TypeOK, NoDuplicateDownloads, CompletedMoves, Clean
<1>2. \A item \in QueueItem :
         /\ Restartable(item) \in QueueItem
         /\ Restartable(item).rom = item.rom
         /\ item.state # "Downloading" => Restartable(item).state = item.state
  BY PercentAssumption DEF Restartable, Item, QueueItem, QueueStates, PercentAssumption
<1>3. \A i \in DOMAIN downloadQueue : downloadQueue[i] \in QueueItem /\ downloadQueue[i].state # "Downloading"
  BY <1>1 DEF IInv, WorkerConsistent
<1>4. /\ DOMAIN q = DOMAIN downloadQueue
      /\ \A i \in DOMAIN q : /\ q[i] \in QueueItem
                             /\ q[i].rom = downloadQueue[i].rom
                             /\ q[i].state = downloadQueue[i].state
  BY <1>2, <1>3
<1>5. q \in Seq(QueueItem)
  <2>1. q \in [1..Len(downloadQueue) -> QueueItem]
    BY <1>1, <1>2, <1>3
  <2> QED BY <1>1, <2>1
<1>6. Clean(q, downloadHistory)
  BY <1>1, <1>4 DEF Clean
<1>7. ASSUME NEW r PROVE StageIn(q, downloadHistory, r) = StageIn(downloadQueue, downloadHistory, r)
  <2>1. \A item \in ItemsOf(downloadQueue) : item.rom = r =>
           \E other \in ItemsOf(q) : other.rom = r /\ other.state = item.state
    BY <1>4 DEF ItemsOf
  <2>2. \A item \in ItemsOf(q) : item.rom = r => \E other \in ItemsOf(downloadQueue) : other.rom = r
    BY <1>4 DEF ItemsOf
  <2> QED BY <1>1, <1>6, <2>1, <2>2, StageKept
<1> QED BY <1>5, <1>6, <1>7

LEMMA StartRefines ==
  ASSUME IInv, IInv', StartDownloads
  PROVE  Lifecycle!Next \/ UNCHANGED Lifecycle!lifecycleVars
<1> DEFINE q == [i \in DOMAIN downloadQueue |-> Restartable(downloadQueue[i])]
           h == downloadHistory
           s == Stage
           t == StagesIn(downloadQueue', downloadHistory')
<1>1. /\ downloadHistory' = h
      /\ \/ downloadWorkerRunning /\ UNCHANGED <<downloadQueue, downloadWorkerRunning>>
         \/ ~downloadWorkerRunning /\ BeginFirstPending(q) /\ downloadWorkerRunning' = TRUE
         \/ ~downloadWorkerRunning /\ downloadQueue' = q /\ UNCHANGED downloadWorkerRunning
  BY DEF StartDownloads, workerVars
<1>2. CASE downloadWorkerRunning /\ UNCHANGED <<downloadQueue, downloadWorkerRunning>>
  BY <1>1, <1>2, StutterStep
<1>3. ~downloadWorkerRunning => /\ q \in Seq(QueueItem) /\ Clean(q, h)
                                /\ \A r : StageIn(q, h, r) = StageIn(downloadQueue, h, r)
  BY RestartableStages
<1> HIDE DEF q
<1>4. CASE ~downloadWorkerRunning /\ BeginFirstPending(q) /\ downloadWorkerRunning' = TRUE
  <2>1. PICK n \in Rom : /\ StageIn(q, h, n) = "waiting"
                         /\ StageIn(downloadQueue', h, n) = "fetching"
                         /\ \A r : r # n => StageIn(downloadQueue', h, r) = StageIn(q, h, r)
    BY <1>3, <1>4, BeginStage
  <2>2. s[n] = "waiting" /\ t = [s EXCEPT ![n] = "fetching"]
    BY <1>1, <1>3, <1>4, <2>1 DEF StagesIn, Stage
  <2> HIDE DEF s, t
  <2>3. Lifecycle!Start(n)
    BY <1>4, <2>2, MappedStages DEF Lifecycle!Start, s, t
  <2> QED BY <2>3 DEF Lifecycle!Next
<1>5. CASE ~downloadWorkerRunning /\ downloadQueue' = q /\ UNCHANGED downloadWorkerRunning
  BY <1>1, <1>3, <1>5, StutterStep
<1> QED BY <1>1, <1>2, <1>4, <1>5

LEMMA TickRefines ==
  ASSUME IInv, IInv', NEW e \in Elapsed, TickDownload(e)
  PROVE  Lifecycle!Next \/ UNCHANGED Lifecycle!lifecycleVars
<1> DEFINE q == downloadQueue
           h == downloadHistory
           k == activeDownloadIndex + 1
           r == q[k].rom
           item == Ticked(e)
<1>1. downloadWorkerRunning = TRUE
  BY DEF TickDownload, IInv, TypeOK
<1>2. /\ activeDownloadIndex \in 0..(Len(q) - 1) /\ k \in DOMAIN q
      /\ q[k].state = "Downloading"
  <2>1. activeDownloadIndex \in 0..(Len(q) - 1)
    BY <1>1 DEF IInv, WorkerConsistent
  <2>2. k \in DOMAIN q
    BY <2>1 DEF IInv, TypeOK
  <2> QED BY <1>1, <2>1, <2>2 DEF IInv, WorkerConsistent
<1>3. TickProgress(item) \/ TickFail(item) \/ TickComplete(item)
  BY <1>2 DEF TickDownload
<1>4. item \in QueueItem /\ item.rom = r /\ item.state = "Downloading" /\ r \in Rom
  <2>1. item \in QueueItem /\ item.rom = r /\ item.state = "Downloading"
    BY <1>2, TickedFacts, InputAssumption DEF IInv, InputAssumption
  <2> QED BY <2>1 DEF QueueItem
<1> HIDE DEF item, k
<1>5. q[k] \in ItemsOf(q) /\ StageIn(q, h, r) = "fetching"
  <2>1. q[k] \in ItemsOf(q)
    BY <1>2 DEF ItemsOf
  <2> QED BY <1>2, <2>1, CleanAround, StageOfItem DEF StageOfState
<1>6. CASE TickProgress(item)
  <2>1. downloadQueue' = Replaced(q, k, item) /\ downloadHistory' = h /\ UNCHANGED downloadWorkerRunning
    BY <1>6 DEF TickProgress, Replaced, workerVars, k
  <2>2. item.rom = q[k].rom /\ item.state # "Completed"
    BY <1>4
  <2>3. /\ StageIn(downloadQueue', h, item.rom) = StageOfState(item.state)
        /\ \A x : x # item.rom => StageIn(downloadQueue', h, x) = StageIn(q, h, x)
    BY <1>2, <1>4, <2>1, <2>2, CleanAround, StageReplaced
  <2>4. \A x \in Rom : StageIn(downloadQueue', downloadHistory', x) = StageIn(q, h, x)
    BY <1>4, <1>5, <2>1, <2>3 DEF StageOfState
  <2> QED BY <2>1, <2>4, StutterStep
<1>7. CASE TickFail(item)
  <2> DEFINE failed == WithState(item, "Failed")
             mid == Replaced(q, k, failed)
  <2>1. BeginNextPendingDownload(mid) /\ downloadHistory' = h
    BY <1>7 DEF TickFail, Replaced, k
  <2>2. failed \in QueueItem /\ failed.rom = q[k].rom /\ failed.state = "Failed" /\ failed.state # "Completed"
    BY <1>4, WithStateFacts DEF QueueStates
  <2> HIDE DEF failed
  <2>3. /\ mid \in Seq(QueueItem) /\ Clean(mid, h)
        /\ StageIn(mid, h, failed.rom) = StageOfState(failed.state)
        /\ \A x : x # failed.rom => StageIn(mid, h, x) = StageIn(q, h, x)
    BY <1>2, <2>2, CleanAround, StageReplaced
  <2>4. StageIn(mid, h, r) = "failed"
    BY <2>2, <2>3 DEF StageOfState
  <2> HIDE DEF mid
  <2> QED BY <1>1, <1>4, <1>5, <2>1, <2>2, <2>3, <2>4, SettleStep
<1>8. CASE TickComplete(item)
  <2> DEFINE done == WithState(item, "Completed")
             rest == RemoveAt(q, k)
             g == Append(h, done)
  <2>1. BeginNextPendingDownload(rest) /\ downloadHistory' = g
    BY <1>8 DEF TickComplete, k
  <2>2. done \in QueueItem /\ done.rom = r /\ done.state = "Completed"
    BY <1>4, WithStateFacts DEF QueueStates
  <2> HIDE DEF done
  <2>3. \A x : HasItem(g, x) <=> HasItem(h, x) \/ x = r
    <3>1. h \in Seq(QueueItem) /\ Len(h) \in Nat /\ DOMAIN h = 1..Len(h)
      BY DEF IInv, TypeOK
    <3>2. /\ DOMAIN g = 1..(Len(h) + 1)
          /\ \A i \in 1..Len(h) : g[i] = h[i]
          /\ g[Len(h) + 1] = done
      BY <2>2, <3>1
    <3>3. \A i \in 1..(Len(h) + 1) : i \in 1..Len(h) \/ i = Len(h) + 1
      BY <3>1
    <3>4. Len(h) + 1 \in 1..(Len(h) + 1) /\ 1..Len(h) \subseteq 1..(Len(h) + 1)
      BY <3>1
    <3> HIDE DEF g
    <3> QED BY <2>2, <3>1, <3>2, <3>3, <3>4 DEF HasItem
  <2> HIDE DEF g
  <2>4. rest \in Seq(QueueItem) /\ Clean(rest, h) /\ ItemsOf(rest) = ItemsOf(q) \ {q[k]}
    <3>1. k \in 1..Len(q)
      BY <1>2 DEF IInv, TypeOK
    <3> QED BY <1>2, <3>1, CleanAround, RemoveAtFacts, RemoveClean, ItemsRemoved
  <2> HIDE DEF rest
  <2>5. Clean(rest, g)
    <3>1. \A x \in ItemsOf(rest) : x.rom # r
      BY <1>2, <2>4, CleanAround DEF Clean, ItemsOf
    <3>2. \A i, j \in DOMAIN rest : rest[i].rom = rest[j].rom => i = j
      BY <2>4 DEF Clean
    <3>3. ASSUME NEW i \in DOMAIN rest PROVE rest[i].state # "Completed" /\ ~HasItem(g, rest[i].rom)
      <4>1. rest[i] \in ItemsOf(rest)
        BY DEF ItemsOf
      <4>2. rest[i].rom # r
        BY <3>1, <4>1
      <4>3. rest[i].state # "Completed" /\ ~HasItem(h, rest[i].rom)
        BY <2>4 DEF Clean, HasItem
      <4> QED BY <2>3, <4>2, <4>3
    <3>4. /\ \A i, j \in DOMAIN g : g[i].rom = g[j].rom => i = j
          /\ \A i \in DOMAIN g : g[i].state = "Completed"
      BY <2>1, CleanAround DEF Clean
    <3> QED BY <3>2, <3>3, <3>4 DEF Clean, HasItem
  <2>6. StageIn(rest, g, r) = "done"
    BY <2>3, StageOfDone
  <2>7. ASSUME NEW x \in Rom, x # r PROVE StageIn(rest, g, x) = StageIn(q, h, x)
    <3>1. StageIn(rest, g, x) = StageIn(rest, h, x)
      BY <2>3, <2>7, StageByHistory
    <3>2. /\ \A other \in ItemsOf(q) : other.rom = x => other \in ItemsOf(rest)
          /\ \A other \in ItemsOf(rest) : other.rom = x => other \in ItemsOf(q)
      BY <2>4, <2>7
    <3>3. StageIn(rest, h, x) = StageIn(q, h, x)
      BY <2>4, <3>2, CleanAround, StageKept
    <3> QED BY <3>1, <3>3
  <2> QED BY <1>1, <1>4, <1>5, <2>1, <2>4, <2>5, <2>6, <2>7, SettleStep
<1> QED BY <1>3, <1>6, <1>7, <1>8

-----------------------------------------------------------------------------
(* The refinement.                                                         *)

\* Nothing is queued or downloaded at first: every ROM is absent.
LEMMA InitRefines == Init => Lifecycle!Init
<1> SUFFICES ASSUME Init PROVE Lifecycle!Init
  OBVIOUS
<1>1. downloadQueue = <<>> /\ downloadHistory = <<>> /\ downloadWorkerRunning = FALSE
  BY DEF Init, InitStatus
<1>2. ASSUME NEW r \in Rom PROVE StageOf(r) = "absent"
  <2>1. ~HasItem(downloadHistory, r) /\ \A item \in ItemsOf(downloadQueue) : item.rom # r
    BY <1>1 DEF HasItem, ItemsOf
  <2> QED BY <2>1, StageOfAbsent, StageIsStageIn
<1> QED BY <1>1, <1>2 DEF Lifecycle!Init

\* What moves screens, selections and settings leaves the contract alone.
LEMMA ScreenStutters ==
  ASSUME UNCHANGED <<downloadQueue, downloadHistory, downloadWorkerRunning>>
  PROVE  UNCHANGED Lifecycle!lifecycleVars
BY StutterStep

LEMMA StepRefines ==
  ASSUME IInv, IInv', [Next]_vars
  PROVE  [Lifecycle!Next]_(Lifecycle!lifecycleVars)
<1>1. ASSUME UserAction PROVE Lifecycle!Next \/ UNCHANGED Lifecycle!lifecycleVars
  <2> PICK act \in Inputs : ApplyAction(act)
    BY <1>1 DEF UserAction
  <2>1. CASE MoveSelection(-1) \/ MoveSelection(1) \/ CycleSort(-1) \/ CycleSort(1) \/ CycleSearchQuery
    <3>1. UNCHANGED <<downloadQueue, downloadHistory, downloadWorkerRunning>>
      BY <2>1 DEF MoveSelection, CycleSort, CycleSearchQuery, queueVars, workerVars
    <3> QED BY <3>1, ScreenStutters
  <2>2. CASE ScreenAction
    <3>1. UNCHANGED <<downloadQueue, downloadHistory, downloadWorkerRunning>>
      BY <2>2 DEF ScreenAction, OpenRomList, OpenRomDetail, UseUpdater, OpenDiagnostics, OpenUpdater,
                  OpenQueue, Back, Quit, PauseOrResume, queueVars, workerVars
    <3> QED BY <3>1, ScreenStutters
  <2>3. CASE EnqueueSelectedRom
    BY <2>3, EnqueueRefines
  <2>4. CASE StartDownloads
    BY <2>4, StartRefines
  <2>5. CASE RetrySelectedFailed
    BY <2>5, RetryRefines
  <2>6. CASE ClearPendingAndFailed
    BY <2>6, ClearRefines
  <2>7. CASE RemoveSelectedQueueItem
    BY <2>7, RemoveRefines
  <2> QED BY <2>1, <2>2, <2>3, <2>4, <2>5, <2>6, <2>7 DEF ApplyAction, Select, ScreenAction
<1>2. CASE Tick
  BY <1>2, TickRefines DEF Tick
<1>3. CASE Terminated \/ UNCHANGED vars
  <2>1. UNCHANGED <<downloadQueue, downloadHistory, downloadWorkerRunning>>
    BY <1>3 DEF Terminated, vars, queueVars, workerVars
  <2> QED BY <2>1, ScreenStutters
<1> QED BY <1>1, <1>2, <1>3 DEF Next

\* The queue with its positions, progress and selection keeps the promise of
\* DownloadLifecycle to every ROM: whatever the user enqueues, removes, retries
\* and clears around the worker, every step is a step of that contract.
THEOREM AppCoreKeepsLifecycle == Spec => ImplementsLifecycle
<1>1. IInv /\ IInv' /\ [Next]_vars => [Lifecycle!Next]_(Lifecycle!lifecycleVars)
  BY StepRefines
<1> QED BY <1>1, InitRefines, InvariantHolds, PTL DEF Spec, ImplementsLifecycle, Lifecycle!Spec

-----------------------------------------------------------------------------
(* No waiting ROM starves: what a step makes of a queue.                   *)

PendingIn(q, r) == \E i \in DOMAIN q : q[i].rom = r /\ q[i].state = "Pending"

FetchedIn(q, r) == \E i \in DOMAIN q : q[i].rom = r /\ q[i].state = "Downloading"

\* Some item of ROM s is in front of position k.
InFront(q, s, k) == \E m \in DOMAIN q : m < k /\ q[m].rom = s

\* The attempts that an item in its state can have made: only a first one fails.
Fits(item) ==
  item.attempts \in CASE item.state = "Pending" -> {0, 1}
                      [] item.state = "Downloading" -> {1, 2}
                      [] OTHER -> {1}

AllFit(q) == \A i \in DOMAIN q : Fits(q[i])

\* Who is in front of a ROM in p was in front of it in q.
InOrder(q, p) ==
  \A i, j \in DOMAIN p, k \in DOMAIN q :
     i < j /\ p[j].rom = q[k].rom => InFront(q, p[i].rom, k)

\* Nobody's turn goes back.
Onward(q, p) ==
  \A i \in DOMAIN q, j \in DOMAIN p :
     p[j].rom = q[i].rom => Turn(q[i]) <= Turn(p[j])

\* The queue changes from q to p, and nothing begins.
QuietMove(q, p) ==
  /\ AllFit(p) /\ InOrder(q, p) /\ Onward(q, p)
  /\ \A s : FetchedIn(p, s) => FetchedIn(q, s)

\* The queue changes from q to p, and what begins was in front of who goes on waiting.
FairMove(q, p) ==
  /\ AllFit(p) /\ InOrder(q, p) /\ Onward(q, p)
  /\ \A s, k : /\ FetchedIn(p, s) /\ ~FetchedIn(q, s)
               /\ k \in DOMAIN q /\ PendingIn(p, q[k].rom)
               => InFront(q, s, k)

LEMMA QuietIsFair ==
  ASSUME NEW q, NEW p, QuietMove(q, p)
  PROVE  FairMove(q, p)
BY DEF QuietMove, FairMove

\* A turn is a number, the last one at most.
LEMMA TurnFacts ==
  ASSUME NEW item \in QueueItem
  PROVE  Turn(item) \in Int /\ (Fits(item) => Turn(item) <= LastTurn)
<1>1. item.attempts \in 0..MaxAttempts /\ MaxAttempts \in Nat
  BY PercentAssumption DEF QueueItem, PercentAssumption
<1> QED BY <1>1 DEF Turn, Fits, LastTurn

\* Items change in place.
LEMMA QuietInPlace ==
  ASSUME NEW q \in Seq(QueueItem), NEW p \in Seq(QueueItem), NEW h, Clean(q, h),
         DOMAIN p = DOMAIN q,
         \A i \in DOMAIN q : /\ p[i].rom = q[i].rom
                             /\ Fits(p[i]) /\ Turn(q[i]) <= Turn(p[i])
                             /\ p[i].state = "Downloading" => q[i].state = "Downloading"
  PROVE  QuietMove(q, p)
<1>1. AllFit(p)
  BY DEF AllFit
<1>2. \A i \in DOMAIN p, k \in DOMAIN q : p[i].rom = q[k].rom => i = k
  BY DEF Clean
<1>3. InOrder(q, p)
  BY <1>2 DEF InOrder, InFront
<1>4. Onward(q, p)
  BY <1>2 DEF Onward
<1>5. \A s : FetchedIn(p, s) => FetchedIn(q, s)
  BY DEF FetchedIn
<1> QED BY <1>1, <1>3, <1>4, <1>5 DEF QuietMove

LEMMA QuietReplaced ==
  ASSUME NEW q \in Seq(QueueItem), NEW h, Clean(q, h), AllFit(q), NEW k \in DOMAIN q,
         NEW item \in QueueItem, item.rom = q[k].rom, item.state # "Completed",
         Fits(item), Turn(q[k]) <= Turn(item),
         item.state = "Downloading" => q[k].state = "Downloading"
  PROVE  QuietMove(q, [q EXCEPT ![k] = item])
<1> DEFINE p == [q EXCEPT ![k] = item]
<1>1. /\ p \in Seq(QueueItem) /\ DOMAIN p = DOMAIN q
      /\ \A i \in DOMAIN q : p[i] = IF i = k THEN item ELSE q[i]
  BY ReplaceClean
<1> HIDE DEF p
<1>2. \A i \in DOMAIN q : Turn(q[i]) \in Int /\ Fits(q[i])
  BY TurnFacts DEF AllFit
<1>3. \A i \in DOMAIN q : Turn(q[i]) <= Turn(q[i])
  BY <1>2
<1>4. \A i \in DOMAIN q : /\ p[i].rom = q[i].rom
                          /\ Fits(p[i]) /\ Turn(q[i]) <= Turn(p[i])
                          /\ p[i].state = "Downloading" => q[i].state = "Downloading"
  BY <1>1, <1>2, <1>3
<1>5. QuietMove(q, p)
  BY <1>1, <1>4, QuietInPlace
<1> QED BY <1>5 DEF p

LEMMA QuietRemoved ==
  ASSUME NEW q \in Seq(QueueItem), NEW h, Clean(q, h), AllFit(q), NEW k \in DOMAIN q
  PROVE  QuietMove(q, RemoveAt(q, k))
<1> DEFINE p == RemoveAt(q, k)
           From(i) == IF i < k THEN i ELSE i + 1
<1>1. k \in 1..Len(q) /\ Len(q) \in Nat /\ DOMAIN q = 1..Len(q)
  OBVIOUS
<1>2. /\ p \in Seq(QueueItem) /\ Len(p) = Len(q) - 1
      /\ \A j \in 1..(Len(q) - 1) : p[j] = IF j < k THEN q[j] ELSE q[j + 1]
  BY <1>1, RemoveAtFacts
<1>3. DOMAIN p = 1..(Len(q) - 1)
  BY <1>2
<1> HIDE DEF p
<1>4. \A i \in DOMAIN p : From(i) \in DOMAIN q /\ p[i] = q[From(i)]
  BY <1>1, <1>2, <1>3
<1>5. \A i, j \in DOMAIN p : i < j => From(i) < From(j)
  BY <1>1, <1>3
<1> HIDE DEF From
<1>6. AllFit(p)
  BY <1>4 DEF AllFit
<1>7. \A j \in DOMAIN p, m \in DOMAIN q : p[j].rom = q[m].rom => From(j) = m
  BY <1>4 DEF Clean
<1>8. InOrder(q, p)
  BY <1>4, <1>5, <1>7 DEF InOrder, InFront
<1>9. Onward(q, p)
  <2>1. \A i \in DOMAIN q : Turn(q[i]) <= Turn(q[i])
    <3>1. \A i \in DOMAIN q : Turn(q[i]) \in Int
      BY TurnFacts
    <3> QED BY <3>1
  <2> QED BY <1>4, <1>7, <2>1 DEF Onward
<1>10. \A s : FetchedIn(p, s) => FetchedIn(q, s)
  BY <1>4 DEF FetchedIn
<1>11. QuietMove(q, p)
  BY <1>6, <1>8, <1>9, <1>10 DEF QuietMove
<1> QED BY <1>11 DEF p

LEMMA QuietAppended ==
  ASSUME NEW q \in Seq(QueueItem), NEW h, Clean(q, h), AllFit(q), NEW r \in Rom,
         \A i \in DOMAIN q : q[i].rom # r
  PROVE  QuietMove(q, Append(q, NewItem(r)))
<1> DEFINE p == Append(q, NewItem(r))
<1>1. /\ NewItem(r) \in QueueItem /\ NewItem(r).rom = r /\ NewItem(r).state = "Pending"
      /\ Fits(NewItem(r))
  BY PercentAssumption DEF NewItem, Item, QueueItem, QueueStates, PercentAssumption, Fits
<1>2. Len(q) \in Nat /\ DOMAIN q = 1..Len(q)
  OBVIOUS
<1>3. /\ DOMAIN p = 1..(Len(q) + 1)
      /\ \A i \in 1..Len(q) : p[i] = q[i]
      /\ p[Len(q) + 1] = NewItem(r)
  BY <1>1, <1>2
<1> HIDE DEF p
<1>4. \A i \in DOMAIN p : \/ i \in DOMAIN q /\ p[i] = q[i]
                          \/ i = Len(q) + 1 /\ p[i] = NewItem(r)
  BY <1>2, <1>3
<1>5. AllFit(p)
  BY <1>1, <1>4 DEF AllFit
<1>6. \A j \in DOMAIN p, m \in DOMAIN q : p[j].rom = q[m].rom => j = m /\ p[j] = q[m]
  BY <1>1, <1>4 DEF Clean
<1>7. \A i \in DOMAIN p, m \in DOMAIN q : i < m => i \in DOMAIN q /\ p[i] = q[i]
  BY <1>2, <1>4
<1>8. InOrder(q, p)
  BY <1>6, <1>7 DEF InOrder, InFront
<1>9. Onward(q, p)
  <2>1. \A i \in DOMAIN q : Turn(q[i]) <= Turn(q[i])
    <3>1. \A i \in DOMAIN q : Turn(q[i]) \in Int
      BY TurnFacts
    <3> QED BY <3>1
  <2> QED BY <1>6, <2>1 DEF Onward
<1>10. \A s : FetchedIn(p, s) => FetchedIn(q, s)
  BY <1>1, <1>4 DEF FetchedIn
<1>11. QuietMove(q, p)
  BY <1>5, <1>8, <1>9, <1>10 DEF QuietMove
<1> QED BY <1>11 DEF p

\* The first pending item begins: it was in front of all others that wait.
LEMMA BeginIsFair ==
  ASSUME MaxAttempts > 1, NEW q \in Seq(QueueItem), NEW mid \in Seq(QueueItem), QuietMove(q, mid),
         BeginFirstPending(mid)
  PROVE  FairMove(q, downloadQueue')
<1>1. PICK k \in DOMAIN mid : /\ mid[k].state = "Pending"
                              /\ \A j \in PendingPositions(mid) : k <= j
                              /\ downloadQueue' = Began(mid, k)
  BY DEF BeginFirstPending, PendingPositions
<1> DEFINE item == Begun(mid[k])
           p == downloadQueue'
<1>2. mid[k] \in QueueItem /\ Fits(mid[k])
  BY DEF QuietMove, AllFit
<1>3. /\ item \in QueueItem /\ item.rom = mid[k].rom /\ item.state = "Downloading"
      /\ Fits(item) /\ Turn(mid[k]) <= Turn(item)
  <2>1. mid[k].attempts \in {0, 1} /\ mid[k].rom \in Rom /\ mid[k].progress \in 0..Full
    BY <1>1, <1>2 DEF Fits, QueueItem
  <2>2. mid[k].attempts < MaxAttempts /\ MaxAttempts \in Nat
    BY <2>1, PercentAssumption DEF PercentAssumption
  <2>3. item = Item(mid[k].rom, "Downloading", IF mid[k].progress = 0 THEN 1 ELSE mid[k].progress,
                    mid[k].attempts + 1)
    BY <2>2 DEF Begun
  <2>4. /\ item.rom = mid[k].rom /\ item.state = "Downloading" /\ item.attempts = mid[k].attempts + 1
    BY <2>3 DEF Item
  <2>7. item \in QueueItem
    <3>1. (IF mid[k].progress = 0 THEN 1 ELSE mid[k].progress) \in 0..Full
      BY <2>1, PercentAssumption DEF PercentAssumption
    <3>2. mid[k].attempts + 1 \in 0..MaxAttempts
      BY <2>1, <2>2
    <3> QED BY <2>1, <2>3, <3>1, <3>2 DEF Item, QueueItem, QueueStates
  <2>5. Fits(item) /\ Turn(mid[k]) <= Turn(item)
    BY <1>1, <2>1, <2>4 DEF Fits, Turn
  <2> QED BY <2>4, <2>5, <2>7
<1> HIDE DEF item
<1>4. /\ p \in Seq(QueueItem) /\ DOMAIN p = DOMAIN mid
      /\ \A i \in DOMAIN mid : p[i] = IF i = k THEN item ELSE mid[i]
  BY <1>1, <1>3 DEF Began, item
<1> HIDE DEF p
<1>5. \A i \in DOMAIN mid : p[i].rom = mid[i].rom
  BY <1>3, <1>4
<1>6. AllFit(p)
  BY <1>3, <1>4 DEF QuietMove, AllFit
<1>7. InOrder(q, p)
  BY <1>4, <1>5 DEF QuietMove, InOrder
<1>8. Onward(q, p)
  <2>1. \A i \in DOMAIN q : Turn(q[i]) \in Int
    BY TurnFacts
  <2>2. \A j \in DOMAIN mid : Turn(mid[j]) \in Int /\ Turn(p[j]) \in Int
    <3>1. \A j \in DOMAIN mid : mid[j] \in QueueItem
      OBVIOUS
    <3>2. \A j \in DOMAIN mid : p[j] \in QueueItem
      BY <1>3, <1>4, <3>1
    <3> QED BY <3>1, <3>2, TurnFacts
  <2>3. ASSUME NEW j \in DOMAIN mid PROVE Turn(mid[j]) <= Turn(p[j])
    <3>1. CASE j = k
      <4>1. p[j] = item
        BY <1>4, <3>1
      <4> QED BY <1>3, <3>1, <4>1
    <3>2. CASE j # k
      <4>1. p[j] = mid[j]
        BY <1>4, <3>2
      <4>2. Turn(mid[j]) \in Int
        BY <2>2
      <4> QED BY <4>1, <4>2
    <3> QED BY <3>1, <3>2
  <2>4. \A i \in DOMAIN q, j \in DOMAIN mid : mid[j].rom = q[i].rom => Turn(q[i]) <= Turn(mid[j])
    BY DEF QuietMove, Onward
  <2> QED BY <1>4, <1>5, <2>1, <2>2, <2>3, <2>4 DEF Onward
<1>9. ASSUME NEW s, NEW c \in DOMAIN q, FetchedIn(p, s), ~FetchedIn(q, s), PendingIn(p, q[c].rom)
      PROVE  InFront(q, s, c)
  <2>1. s = mid[k].rom
    <3>1. PICK i \in DOMAIN p : p[i].rom = s /\ p[i].state = "Downloading"
      BY <1>9 DEF FetchedIn
    <3>2. i # k => FetchedIn(mid, s)
      BY <1>4, <3>1 DEF FetchedIn
    <3> QED BY <1>4, <1>5, <1>9, <3>1, <3>2 DEF QuietMove
  <2>2. PICK j \in DOMAIN p : p[j].rom = q[c].rom /\ p[j].state = "Pending"
    BY <1>9 DEF PendingIn
  <2>3. j \in DOMAIN mid /\ j # k /\ mid[j].rom = q[c].rom /\ mid[j].state = "Pending"
    BY <1>3, <1>4, <2>2
  <2>4. k < j
    <3>1. k <= j /\ k \in Nat /\ j \in Nat
      BY <1>1, <2>3 DEF PendingPositions
    <3> QED BY <2>3, <3>1
  <2> QED BY <2>1, <2>3, <2>4 DEF QuietMove, InOrder
<1>10. FairMove(q, p)
  BY <1>6, <1>7, <1>8, <1>9 DEF FairMove
<1> QED BY <1>10 DEF p

-----------------------------------------------------------------------------
(* No waiting ROM starves: the steps.                                      *)

FairStep == FairMove(downloadQueue, downloadQueue')

LEMMA SameQueueIsFair ==
  ASSUME IInv, AllFit(downloadQueue), UNCHANGED downloadQueue
  PROVE  FairStep
<1>1. downloadQueue \in Seq(QueueItem) /\ Clean(downloadQueue, downloadHistory)
  BY CleanState DEF IInv, TypeOK
<1>2. \A i \in DOMAIN downloadQueue : Turn(downloadQueue[i]) \in Int
  BY <1>1, TurnFacts
<1>3. \A i \in DOMAIN downloadQueue : Turn(downloadQueue[i]) <= Turn(downloadQueue[i])
  BY <1>2
<1>4. QuietMove(downloadQueue, downloadQueue)
  BY <1>1, <1>3, QuietInPlace DEF AllFit
<1> QED BY <1>4, QuietIsFair DEF FairStep

LEMMA RemoveIsFair ==
  ASSUME IInv, AllFit(downloadQueue), RemoveSelectedQueueItem
  PROVE  FairStep
<1> DEFINE k == ClampIndex(selectedQueueIndex, Len(downloadQueue)) + 1
<1>1. downloadQueue # <<>> /\ downloadQueue' = RemoveAt(downloadQueue, k)
  BY DEF RemoveSelectedQueueItem
<1>2. downloadQueue \in Seq(QueueItem) /\ Clean(downloadQueue, downloadHistory)
  BY CleanState DEF IInv, TypeOK
<1>3. k \in DOMAIN downloadQueue
  <2>1. selectedQueueIndex \in Int /\ Len(downloadQueue) \in Nat \ {0}
    BY <1>1, <1>2 DEF IInv, TypeOK
  <2>2. k \in 1..Len(downloadQueue)
    BY <2>1, ClampFacts
  <2> QED BY <1>2, <2>2
<1> HIDE DEF k
<1> QED BY <1>1, <1>2, <1>3, QuietRemoved, QuietIsFair DEF FairStep

LEMMA ClearIsFair ==
  ASSUME IInv, ClearPendingAndFailed
  PROVE  FairStep
<1>1. downloadQueue' = <<>>
  <2>1. \A i \in DOMAIN downloadQueue :
           /\ downloadQueue[i].state \in QueueStates
           /\ downloadQueue[i].state # "Downloading" /\ downloadQueue[i].state # "Completed"
    <3>1. \A i \in DOMAIN downloadQueue : downloadQueue[i] \in QueueItem
      BY DEF IInv, TypeOK
    <3> QED BY <3>1 DEF QueueItem, ClearPendingAndFailed, IInv, WorkerConsistent, CompletedMoves
  <2>2. {i \in DOMAIN downloadQueue : downloadQueue[i].state \notin {"Pending", "Failed"}} = {}
    BY <2>1 DEF QueueStates
  <2> QED BY <2>2, KeepNone DEF ClearPendingAndFailed
<1>2. \A q : QuietMove(q, <<>>)
  BY DEF QuietMove, AllFit, InOrder, Onward, FetchedIn
<1> QED BY <1>1, <1>2, QuietIsFair DEF FairStep

LEMMA EnqueueIsFair ==
  ASSUME IInv, AllFit(downloadQueue), EnqueueSelectedRom
  PROVE  FairStep
<1>1. PICK r \in Rom : /\ ~ExistsInQueueOrCompletedHistory(r)
                       /\ downloadQueue' = Append(downloadQueue, NewItem(r))
  BY DEF EnqueueSelectedRom
<1>2. downloadQueue \in Seq(QueueItem) /\ Clean(downloadQueue, downloadHistory)
  BY CleanState DEF IInv, TypeOK
<1>3. \A i \in DOMAIN downloadQueue : downloadQueue[i].rom # r
  BY <1>1 DEF ExistsInQueueOrCompletedHistory
<1> QED BY <1>1, <1>2, <1>3, QuietAppended, QuietIsFair DEF FairStep

\* A failed item waits again: the attempt it made is not forgotten.
LEMMA RetryIsFair ==
  ASSUME IInv, AllFit(downloadQueue), RetrySelectedFailed
  PROVE  FairStep
<1> DEFINE k == ClampIndex(selectedQueueIndex, Len(downloadQueue)) + 1
           old == downloadQueue[k]
           item == Item(old.rom, "Pending", 0, old.attempts)
<1>1. downloadQueue # <<>> /\ old.state = "Failed" /\ downloadQueue' = [downloadQueue EXCEPT ![k] = item]
  BY DEF RetrySelectedFailed
<1>2. downloadQueue \in Seq(QueueItem) /\ Clean(downloadQueue, downloadHistory)
  BY CleanState DEF IInv, TypeOK
<1>3. k \in DOMAIN downloadQueue
  <2>1. selectedQueueIndex \in Int /\ Len(downloadQueue) \in Nat \ {0}
    BY <1>1, <1>2 DEF IInv, TypeOK
  <2>2. k \in 1..Len(downloadQueue)
    BY <2>1, ClampFacts
  <2> QED BY <1>2, <2>2
<1> HIDE DEF k
<1>4. old \in QueueItem /\ Fits(old)
  BY <1>2, <1>3 DEF AllFit
<1>5. /\ item \in QueueItem /\ item.rom = old.rom /\ item.state = "Pending"
      /\ Fits(item) /\ Turn(old) <= Turn(item)
  <2>1. old.attempts = 1 /\ old.rom \in Rom /\ old.attempts \in 0..MaxAttempts
    BY <1>1, <1>4 DEF Fits, QueueItem
  <2>2. item.rom = old.rom /\ item.state = "Pending" /\ item.attempts = 1
    BY <2>1 DEF Item
  <2>3. item \in QueueItem
    BY <2>1, PercentAssumption DEF Item, QueueItem, QueueStates, PercentAssumption
  <2>4. Fits(item) /\ Turn(old) <= Turn(item)
    BY <1>1, <2>1, <2>2 DEF Fits, Turn
  <2> QED BY <2>2, <2>3, <2>4
<1> HIDE DEF item
<1>6. QuietMove(downloadQueue, [downloadQueue EXCEPT ![k] = item])
  BY <1>2, <1>3, <1>5, QuietReplaced
<1> QED BY <1>1, <1>6, QuietIsFair DEF FairStep

LEMMA StartIsFair ==
  ASSUME MaxAttempts > 1, IInv, AllFit(downloadQueue), StartDownloads
  PROVE  FairStep
<1> DEFINE q == [i \in DOMAIN downloadQueue |-> Restartable(downloadQueue[i])]
<1>1. \/ UNCHANGED downloadQueue
      \/ ~downloadWorkerRunning /\ (BeginFirstPending(q) \/ downloadQueue' = q)
  BY DEF StartDownloads
<1>2. downloadQueue \in Seq(QueueItem) /\ Clean(downloadQueue, downloadHistory)
  BY CleanState DEF IInv, TypeOK
<1>3. ASSUME ~downloadWorkerRunning
      PROVE  q \in Seq(QueueItem) /\ QuietMove(downloadQueue, q)
  <2>1. q \in Seq(QueueItem)
    BY <1>2, RestartableFacts
  <2>2. ASSUME NEW i \in DOMAIN downloadQueue
        PROVE  /\ q[i].rom = downloadQueue[i].rom
               /\ Fits(q[i]) /\ Turn(downloadQueue[i]) <= Turn(q[i])
               /\ q[i].state = "Downloading" => downloadQueue[i].state = "Downloading"
    <3>1. /\ downloadQueue[i] \in QueueItem /\ Fits(downloadQueue[i])
          /\ downloadQueue[i].state # "Downloading"
      BY <1>2, <1>3 DEF AllFit, IInv, WorkerConsistent
    <3>2. /\ q[i].rom = downloadQueue[i].rom /\ q[i].state = downloadQueue[i].state
          /\ q[i].attempts = downloadQueue[i].attempts
      BY <3>1 DEF Restartable, Item
    <3>3. Turn(q[i]) = Turn(downloadQueue[i]) /\ Fits(q[i])
      BY <3>1, <3>2 DEF Turn, Fits
    <3> QED BY <3>1, <3>2, <3>3, TurnFacts
  <2>3. DOMAIN q = DOMAIN downloadQueue
    OBVIOUS
  <2> HIDE DEF q
  <2> QED BY <1>2, <2>1, <2>2, <2>3, QuietInPlace
<1> HIDE DEF q
<1>4. CASE UNCHANGED downloadQueue
  BY <1>4, SameQueueIsFair
<1>5. CASE ~downloadWorkerRunning /\ BeginFirstPending(q)
  BY <1>2, <1>3, <1>5, BeginIsFair DEF FairStep
<1>6. CASE ~downloadWorkerRunning /\ downloadQueue' = q
  BY <1>3, <1>6, QuietIsFair DEF FairStep
<1> QED BY <1>1, <1>4, <1>5, <1>6

\* The active item settles; mid is the queue in the middle of the tick.
LEMMA SettleIsFair ==
  ASSUME MaxAttempts > 1, IInv, NEW mid \in Seq(QueueItem), QuietMove(downloadQueue, mid),
         BeginNextPendingDownload(mid)
  PROVE  FairStep
<1>1. CASE BeginFirstPending(mid)
  BY <1>1, BeginIsFair DEF FairStep, IInv, TypeOK
<1>2. CASE StopWorker(mid)
  BY <1>2, QuietIsFair DEF FairStep, StopWorker
<1> QED BY <1>1, <1>2 DEF BeginNextPendingDownload

\* What a tick finds: an active item, and what it makes of it.
LEMMA TickFinds ==
  ASSUME IInv, NEW e \in Elapsed, TickDownload(e)
  PROVE  /\ activeDownloadIndex + 1 \in DOMAIN downloadQueue
         /\ downloadQueue[activeDownloadIndex + 1].state = "Downloading"
         /\ downloadQueue \in Seq(QueueItem) /\ Clean(downloadQueue, downloadHistory)
         /\ TickProgress(Ticked(e)) \/ TickFail(Ticked(e)) \/ TickComplete(Ticked(e))
         /\ Ticked(e) \in QueueItem
         /\ Ticked(e).rom = downloadQueue[activeDownloadIndex + 1].rom
         /\ Ticked(e).state = "Downloading"
         /\ Ticked(e).attempts = downloadQueue[activeDownloadIndex + 1].attempts
<1>1. downloadQueue \in Seq(QueueItem) /\ Clean(downloadQueue, downloadHistory)
  BY CleanState DEF IInv, TypeOK
<1>2. activeDownloadIndex \in 0..(Len(downloadQueue) - 1)
  BY DEF TickDownload, IInv, WorkerConsistent
<1>3. activeDownloadIndex + 1 \in DOMAIN downloadQueue
  BY <1>1, <1>2
<1>4. downloadQueue[activeDownloadIndex + 1].state = "Downloading"
  BY <1>3 DEF TickDownload, IInv, WorkerConsistent
<1>5. TickProgress(Ticked(e)) \/ TickFail(Ticked(e)) \/ TickComplete(Ticked(e))
  BY <1>2 DEF TickDownload
<1>6. /\ Ticked(e) \in QueueItem
      /\ Ticked(e).rom = downloadQueue[activeDownloadIndex + 1].rom
      /\ Ticked(e).state = "Downloading"
  BY <1>3, TickedFacts, InputAssumption DEF IInv, InputAssumption
<1>7. Ticked(e).attempts = downloadQueue[activeDownloadIndex + 1].attempts
  BY DEF Ticked, Item
<1> QED BY <1>1, <1>3, <1>4, <1>5, <1>6, <1>7

LEMMA TickIsFair ==
  ASSUME MaxAttempts > 1, IInv, AllFit(downloadQueue), NEW e \in Elapsed, TickDownload(e)
  PROVE  FairStep
<1> DEFINE k == activeDownloadIndex + 1
           old == downloadQueue[k]
           item == Ticked(e)
<1>1. /\ k \in DOMAIN downloadQueue /\ old.state = "Downloading"
      /\ downloadQueue \in Seq(QueueItem) /\ Clean(downloadQueue, downloadHistory)
      /\ TickProgress(item) \/ TickFail(item) \/ TickComplete(item)
      /\ item \in QueueItem /\ item.rom = old.rom /\ item.state = "Downloading"
      /\ item.attempts = old.attempts
  BY TickFinds
<1> HIDE DEF item, k
<1>2. old \in QueueItem /\ Fits(old) /\ old.attempts \in {1, 2}
  BY <1>1 DEF AllFit, Fits
<1>3. CASE TickProgress(item)
  <2>1. downloadQueue' = [downloadQueue EXCEPT ![k] = item]
    BY <1>3 DEF TickProgress, k
  <2>2. Fits(item) /\ Turn(old) <= Turn(item)
    BY <1>1, <1>2 DEF Fits, Turn
  <2>3. item.state # "Completed" /\ (item.state = "Downloading" => old.state = "Downloading")
    BY <1>1
  <2>4. QuietMove(downloadQueue, [downloadQueue EXCEPT ![k] = item])
    BY <1>1, <2>2, <2>3, QuietReplaced
  <2> QED BY <2>1, <2>4, QuietIsFair DEF FairStep
<1>4. CASE TickFail(item)
  <2> DEFINE failed == WithState(item, "Failed")
             mid == [downloadQueue EXCEPT ![k] = failed]
  <2>1. BeginNextPendingDownload(mid) /\ item.attempts = 1
    BY <1>4 DEF TickFail, SimulatedTimeout, k
  <2>2. failed \in QueueItem /\ failed.rom = old.rom /\ failed.state = "Failed" /\ failed.attempts = 1
    <3>1. failed \in QueueItem /\ failed.rom = item.rom /\ failed.state = "Failed"
      BY <1>1, WithStateFacts DEF QueueStates
    <3> QED BY <1>1, <2>1, <3>1 DEF WithState, Item
  <2> HIDE DEF failed
  <2>3. Fits(failed) /\ Turn(old) <= Turn(failed)
    BY <1>1, <2>1, <2>2 DEF Fits, Turn
  <2>4. failed.state # "Completed" /\ failed.state # "Downloading"
    BY <2>2
  <2>5. mid \in Seq(QueueItem) /\ QuietMove(downloadQueue, mid)
    BY <1>1, <2>2, <2>3, <2>4, QuietReplaced
  <2> HIDE DEF mid
  <2> QED BY <2>1, <2>5, SettleIsFair
<1>5. CASE TickComplete(item)
  <2> DEFINE rest == RemoveAt(downloadQueue, k)
  <2>1. BeginNextPendingDownload(rest)
    BY <1>5 DEF TickComplete, k
  <2>2. rest \in Seq(QueueItem) /\ QuietMove(downloadQueue, rest)
    <3>1. k \in 1..Len(downloadQueue)
      BY <1>1
    <3> QED BY <1>1, <3>1, RemoveAtFacts, QuietRemoved
  <2> HIDE DEF rest
  <2> QED BY <2>1, <2>2, SettleIsFair
<1> QED BY <1>1, <1>3, <1>4, <1>5

LEMMA EveryStepIsFair ==
  ASSUME MaxAttempts > 1, IInv, AllFit(downloadQueue), [Next]_vars
  PROVE  FairStep
<1>1. ASSUME UserAction PROVE FairStep
  <2> PICK act \in Inputs : ApplyAction(act)
    BY <1>1 DEF UserAction
  <2>1. CASE MoveSelection(-1) \/ MoveSelection(1) \/ CycleSort(-1) \/ CycleSort(1) \/ CycleSearchQuery
    <3>1. UNCHANGED downloadQueue
      BY <2>1 DEF MoveSelection, CycleSort, CycleSearchQuery, queueVars
    <3> QED BY <3>1, SameQueueIsFair
  <2>2. CASE ScreenAction
    <3>1. UNCHANGED downloadQueue
      BY <2>2 DEF ScreenAction, OpenRomList, OpenRomDetail, UseUpdater, OpenDiagnostics, OpenUpdater,
                  OpenQueue, Back, Quit, PauseOrResume, queueVars
    <3> QED BY <3>1, SameQueueIsFair
  <2>3. CASE EnqueueSelectedRom
    BY <2>3, EnqueueIsFair
  <2>4. CASE StartDownloads
    BY <2>4, StartIsFair
  <2>5. CASE RetrySelectedFailed
    BY <2>5, RetryIsFair
  <2>6. CASE ClearPendingAndFailed
    BY <2>6, ClearIsFair
  <2>7. CASE RemoveSelectedQueueItem
    BY <2>7, RemoveIsFair
  <2> QED BY <2>1, <2>2, <2>3, <2>4, <2>5, <2>6, <2>7 DEF ApplyAction, Select, ScreenAction
<1>2. CASE Tick
  BY <1>2, TickIsFair DEF Tick
<1>3. CASE Terminated \/ UNCHANGED vars
  <2>1. UNCHANGED downloadQueue
    BY <1>3 DEF Terminated, vars, queueVars
  <2> QED BY <2>1, SameQueueIsFair
<1> QED BY <1>1, <1>2, <1>3 DEF Next

\* What FairMove says of the state.
LEMMA FairStepFacts ==
  ASSUME IInv, IInv', FairStep, NEW r \in Rom, Waiting(r), Waiting(r)'
  PROVE  /\ Ahead(r)' \subseteq Ahead(r)
         /\ \A q \in Rom : Fetching(q)' /\ ~Fetching(q) => q \in Ahead(r)
         /\ \A i \in DOMAIN downloadQueue, j \in DOMAIN downloadQueue' :
              downloadQueue'[j].rom = downloadQueue[i].rom =>
                Turn(downloadQueue'[j]) \in Turn(downloadQueue[i])..LastTurn
<1> DEFINE q == downloadQueue
           p == downloadQueue'
<1>1. /\ q \in Seq(QueueItem) /\ p \in Seq(QueueItem)
      /\ Clean(q, downloadHistory)
      /\ FairMove(q, p)
  BY CleanAround DEF FairStep
<1>2. PICK k \in DOMAIN q : q[k].rom = r
  BY DEF Waiting
<1>3. PendingIn(p, r)
  BY DEF PendingIn, Waiting
<1>4. \A s \in Rom : InFront(q, s, k) => s \in Ahead(r)
  BY <1>2 DEF InFront, Ahead
<1>5. \A s \in Rom : Fetching(s) <=> FetchedIn(q, s)
  BY DEF Fetching, FetchedIn
<1>6. \A s \in Rom : Fetching(s)' <=> FetchedIn(p, s)
  BY DEF Fetching, FetchedIn
<1>7. Ahead(r)' = {s \in Rom : \E i, j \in DOMAIN p : i < j /\ p[i].rom = s /\ p[j].rom = r}
  BY DEF Ahead
<1> HIDE DEF q, p
<1>8. Ahead(r)' \subseteq Ahead(r)
  <2>1. ASSUME NEW s \in Rom, NEW i \in DOMAIN p, NEW j \in DOMAIN p, i < j, p[i].rom = s, p[j].rom = r
        PROVE  InFront(q, s, k)
    BY <1>1, <1>2, <2>1 DEF FairMove, InOrder
  <2> QED BY <1>4, <1>7, <2>1
<1>9. ASSUME NEW s \in Rom, Fetching(s)', ~Fetching(s) PROVE s \in Ahead(r)
  <2>1. InFront(q, s, k)
    BY <1>1, <1>2, <1>3, <1>5, <1>6, <1>9 DEF FairMove
  <2> QED BY <1>4, <2>1
<1>10. ASSUME NEW i \in DOMAIN q, NEW j \in DOMAIN p, p[j].rom = q[i].rom
       PROVE  Turn(p[j]) \in Turn(q[i])..LastTurn
  <2>1. Turn(q[i]) \in Int /\ Turn(p[j]) \in Int /\ Turn(p[j]) <= LastTurn
    BY <1>1, TurnFacts DEF FairMove, AllFit
  <2>2. Turn(q[i]) <= Turn(p[j])
    BY <1>1, <1>10 DEF FairMove, Onward
  <2> QED BY <2>1, <2>2
<1> QED BY <1>8, <1>9, <1>10 DEF q, p

\* No waiting ROM starves, as long as the counter of attempts can tell a second
\* attempt from a first one (beginNextPendingDownload, retrySelectedFailed).
THEOREM WaitingStaysFair ==
  ASSUME MaxAttempts > 1
  PROVE  Spec => WaitingIsFair
<1>1. Init => AllFit(downloadQueue)
  BY DEF Init, InitStatus, AllFit
<1>2. IInv /\ AllFit(downloadQueue) /\ [Next]_vars => AllFit(downloadQueue)'
  BY EveryStepIsFair DEF FairStep, FairMove, AllFit
<1>3. IInv /\ IInv' /\ AllFit(downloadQueue) /\ [Next]_vars =>
        [\A r \in Rom : Waiting(r) /\ Waiting(r)' =>
           /\ Ahead(r)' \subseteq Ahead(r)
           /\ \A q \in Rom : Fetching(q)' /\ ~Fetching(q) => q \in Ahead(r)
           /\ \A i \in DOMAIN downloadQueue, j \in DOMAIN downloadQueue' :
                downloadQueue'[j].rom = downloadQueue[i].rom =>
                  Turn(downloadQueue'[j]) \in Turn(downloadQueue[i])..LastTurn]_vars
  BY EveryStepIsFair, FairStepFacts
<1> QED BY <1>1, <1>2, <1>3, InvariantHolds, PTL DEF Spec, WaitingIsFair

-----------------------------------------------------------------------------
(* No tick is lost.                                                        *)

\* The ROMs that wait or are fetched in a queue.
OpenIn(q) == {r \in Rom : FetchedIn(q, r) \/ PendingIn(q, r)}

LEMMA OpenRomsIsOpenIn == OpenRoms = OpenIn(downloadQueue) /\ OpenRoms' = OpenIn(downloadQueue')
BY DEF OpenRoms, Fetching, Waiting, OpenIn, FetchedIn, PendingIn

\* Less than a wrap makes a step of at least one.
LEMMA StepIsPositive ==
  ASSUME NEW e \in Nat, e < WrapMs
  PROVE  StepOf(e) \in Nat /\ StepOf(e) >= 1
<1>1. e \div 80 \in 0..255
  BY DEF WrapMs
<1> QED BY <1>1 DEF StepOf

\* An item that is neither waiting nor fetched any more closes its ROM.
LEMMA FailingCloses ==
  ASSUME NEW q \in Seq(QueueItem), NEW h, Clean(q, h), NEW k \in DOMAIN q,
         NEW item \in QueueItem, item.rom = q[k].rom, item.state = "Failed"
  PROVE  OpenIn([q EXCEPT ![k] = item]) = OpenIn(q) \ {q[k].rom}
<1> DEFINE p == [q EXCEPT ![k] = item]
<1>1. /\ DOMAIN p = DOMAIN q
      /\ \A i \in DOMAIN q : p[i] = IF i = k THEN item ELSE q[i]
  BY ReplaceClean
<1> HIDE DEF p
<1>2. \A i \in DOMAIN q : q[i].rom = q[k].rom => i = k
  BY DEF Clean
<1>3. ASSUME NEW r \in Rom, r \in OpenIn(p) PROVE r \in OpenIn(q) /\ r # q[k].rom
  <2>1. PICK i \in DOMAIN q : p[i].rom = r /\ p[i].state \in {"Downloading", "Pending"}
    BY <1>1, <1>3 DEF OpenIn, FetchedIn, PendingIn
  <2>2. i # k /\ p[i] = q[i]
    BY <1>1, <2>1
  <2> QED BY <1>2, <2>1, <2>2 DEF OpenIn, FetchedIn, PendingIn
<1>4. ASSUME NEW r \in Rom, r \in OpenIn(q), r # q[k].rom PROVE r \in OpenIn(p)
  <2>1. PICK i \in DOMAIN q : q[i].rom = r /\ q[i].state \in {"Downloading", "Pending"}
    BY <1>4 DEF OpenIn, FetchedIn, PendingIn
  <2>2. p[i] = q[i]
    BY <1>1, <1>4, <2>1
  <2> QED BY <1>1, <2>1, <2>2 DEF OpenIn, FetchedIn, PendingIn
<1>5. OpenIn(p) = OpenIn(q) \ {q[k].rom}
  BY <1>3, <1>4 DEF OpenIn
<1> QED BY <1>5 DEF p

LEMMA RemovingCloses ==
  ASSUME NEW q \in Seq(QueueItem), NEW h, Clean(q, h), NEW k \in 1..Len(q)
  PROVE  OpenIn(RemoveAt(q, k)) = OpenIn(q) \ {q[k].rom}
<1> DEFINE p == RemoveAt(q, k)
           From(i) == IF i < k THEN i ELSE i + 1
           To(i) == IF i < k THEN i ELSE i - 1
<1>1. Len(q) \in Nat /\ DOMAIN q = 1..Len(q)
  OBVIOUS
<1>2. /\ p \in Seq(QueueItem) /\ Len(p) = Len(q) - 1
      /\ \A j \in 1..(Len(q) - 1) : p[j] = IF j < k THEN q[j] ELSE q[j + 1]
  BY RemoveAtFacts
<1>3. DOMAIN p = 1..(Len(q) - 1)
  BY <1>2
<1> HIDE DEF p
<1>4. \A i \in DOMAIN p : From(i) \in DOMAIN q /\ From(i) # k /\ p[i] = q[From(i)]
  BY <1>1, <1>2, <1>3
<1>5. \A i \in DOMAIN q : i # k => To(i) \in DOMAIN p /\ p[To(i)] = q[i]
  BY <1>1, <1>2, <1>3
<1> HIDE DEF From, To
<1>6. \A i \in DOMAIN q : q[i].rom = q[k].rom => i = k
  BY DEF Clean
<1>7. ASSUME NEW r \in Rom, r \in OpenIn(p) PROVE r \in OpenIn(q) /\ r # q[k].rom
  <2>1. PICK i \in DOMAIN p : p[i].rom = r /\ p[i].state \in {"Downloading", "Pending"}
    BY <1>7 DEF OpenIn, FetchedIn, PendingIn
  <2> QED BY <1>4, <1>6, <2>1 DEF OpenIn, FetchedIn, PendingIn
<1>8. ASSUME NEW r \in Rom, r \in OpenIn(q), r # q[k].rom PROVE r \in OpenIn(p)
  <2>1. PICK i \in DOMAIN q : q[i].rom = r /\ q[i].state \in {"Downloading", "Pending"}
    BY <1>8 DEF OpenIn, FetchedIn, PendingIn
  <2> QED BY <1>5, <1>8, <2>1 DEF OpenIn, FetchedIn, PendingIn
<1>9. OpenIn(p) = OpenIn(q) \ {q[k].rom}
  BY <1>7, <1>8 DEF OpenIn
<1> QED BY <1>9 DEF p

\* Who begins was open before.
LEMMA BeginningKeepsOpen ==
  ASSUME NEW mid \in Seq(QueueItem), BeginNextPendingDownload(mid)
  PROVE  OpenIn(downloadQueue') = OpenIn(mid)
<1>1. CASE StopWorker(mid)
  BY <1>1 DEF StopWorker
<1>2. CASE BeginFirstPending(mid)
  <2>1. PICK k \in DOMAIN mid : mid[k].state = "Pending" /\ downloadQueue' = Began(mid, k)
    BY <1>2 DEF BeginFirstPending, PendingPositions
  <2> DEFINE p == Began(mid, k)
             item == Begun(mid[k])
  <2>2. item.rom = mid[k].rom /\ item.state = "Downloading"
    BY DEF Begun, Item
  <2> HIDE DEF item
  <2>3. /\ DOMAIN p = DOMAIN mid
        /\ \A i \in DOMAIN mid : p[i] = IF i = k THEN item ELSE mid[i]
    BY DEF Began, item
  <2> HIDE DEF p
  <2>4. \A i \in DOMAIN mid : /\ p[i].rom = mid[i].rom
                              /\ p[i].state \in {"Downloading", "Pending"} <=>
                                   mid[i].state \in {"Downloading", "Pending"}
    BY <2>1, <2>2, <2>3
  <2>5. \A r \in Rom : r \in OpenIn(p) <=> r \in OpenIn(mid)
    BY <2>3, <2>4 DEF OpenIn, FetchedIn, PendingIn
  <2>6. OpenIn(p) = OpenIn(mid)
    BY <2>5 DEF OpenIn
  <2> QED BY <2>1, <2>6 DEF p
<1> QED BY <1>1, <1>2 DEF BeginNextPendingDownload

\* Every tick that is shorter than the wrap of its step settles a ROM and opens
\* none, or fetches more of the active one, in every state of the invariant that
\* AppCoreProofs establishes: what TicksSettle says of a tick that is possible.
THEOREM TickGetsNearer ==
  ASSUME IInv, NEW e \in Elapsed, e < WrapMs, TickDownload(e)
  PROVE  GetsNearer
<1> DEFINE k == activeDownloadIndex + 1
           old == downloadQueue[k]
           item == Ticked(e)
<1>1. /\ k \in DOMAIN downloadQueue /\ old.state = "Downloading"
      /\ downloadQueue \in Seq(QueueItem) /\ Clean(downloadQueue, downloadHistory)
      /\ TickProgress(item) \/ TickFail(item) \/ TickComplete(item)
      /\ item \in QueueItem /\ item.rom = old.rom /\ item.state = "Downloading"
  BY TickFinds
<1>2. item.progress = IF old.progress + StepOf(e) > Full THEN Full ELSE old.progress + StepOf(e)
  BY DEF Ticked, Item
<1>3. old \in QueueItem /\ old.rom \in Rom /\ old.progress \in 0..Full /\ Full \in Nat
  <2>1. old \in QueueItem
    BY <1>1
  <2>2. Full \in Nat
    BY PercentAssumption DEF PercentAssumption
  <2> QED BY <2>1, <2>2 DEF QueueItem
<1>4. old.rom \in OpenIn(downloadQueue)
  BY <1>1, <1>3 DEF OpenIn, FetchedIn
<1> HIDE DEF item
<1>5. CASE TickProgress(item)
  <2>1. /\ item.progress < Full /\ activeDownloadIndex' = activeDownloadIndex
        /\ downloadQueue' = [downloadQueue EXCEPT ![k] = item]
    BY <1>5 DEF TickProgress, workerVars
  <2>2. StepOf(e) \in Nat /\ StepOf(e) >= 1
    BY StepIsPositive, InputAssumption DEF InputAssumption
  <2>3. item.progress > old.progress
    BY <1>2, <1>3, <2>1, <2>2
  <2>4. /\ DOMAIN downloadQueue' = DOMAIN downloadQueue
        /\ downloadQueue'[k] = item
        /\ \A i \in DOMAIN downloadQueue : downloadQueue'[i] = IF i = k THEN item ELSE downloadQueue[i]
    BY <1>1, <2>1
  <2>5. \A i \in DOMAIN downloadQueue : /\ downloadQueue'[i].rom = downloadQueue[i].rom
                                        /\ downloadQueue'[i].state = downloadQueue[i].state
    BY <1>1, <2>4
  <2>6. \A r \in Rom : r \in OpenIn(downloadQueue') <=> r \in OpenIn(downloadQueue)
    BY <2>4, <2>5 DEF OpenIn, FetchedIn, PendingIn
  <2>7. OpenIn(downloadQueue') = OpenIn(downloadQueue)
    BY <2>6 DEF OpenIn
  <2> QED BY <2>1, <2>3, <2>4, <2>7, OpenRomsIsOpenIn DEF GetsNearer
<1>6. ASSUME NEW mid \in Seq(QueueItem), BeginNextPendingDownload(mid),
             OpenIn(mid) = OpenIn(downloadQueue) \ {old.rom}
      PROVE  GetsNearer
  <2>1. OpenIn(downloadQueue') = OpenIn(downloadQueue) \ {old.rom}
    BY <1>6, BeginningKeepsOpen
  <2>2. OpenRoms' = OpenRoms \ {old.rom} /\ old.rom \in OpenRoms
    BY <1>4, <2>1, OpenRomsIsOpenIn
  <2> QED BY <2>2 DEF GetsNearer
<1>7. CASE TickFail(item)
  <2> DEFINE failed == WithState(item, "Failed")
             mid == [downloadQueue EXCEPT ![k] = failed]
  <2>1. BeginNextPendingDownload(mid)
    BY <1>7 DEF TickFail
  <2>2. failed \in QueueItem /\ failed.rom = old.rom /\ failed.state = "Failed"
    BY <1>1, WithStateFacts DEF QueueStates
  <2> HIDE DEF failed
  <2>3. mid \in Seq(QueueItem)
    BY <1>1, <2>2
  <2>4. OpenIn(mid) = OpenIn(downloadQueue) \ {old.rom}
    BY <1>1, <2>2, FailingCloses
  <2> HIDE DEF mid
  <2> QED BY <1>6, <2>1, <2>3, <2>4
<1>8. CASE TickComplete(item)
  <2> DEFINE rest == RemoveAt(downloadQueue, k)
  <2>1. BeginNextPendingDownload(rest)
    BY <1>8 DEF TickComplete
  <2>2. k \in 1..Len(downloadQueue)
    BY <1>1
  <2>3. rest \in Seq(QueueItem)
    BY <1>1, <2>2, RemoveAtFacts
  <2>4. OpenIn(rest) = OpenIn(downloadQueue) \ {old.rom}
    BY <1>1, <2>2, RemovingCloses
  <2> HIDE DEF rest
  <2> QED BY <1>6, <2>1, <2>3, <2>4
<1> QED BY <1>1, <1>5, <1>7, <1>8
=============================================================================
