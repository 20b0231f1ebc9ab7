-------------------------- MODULE CardFilesProofs --------------------------
(***************************************************************************)
(* Proofs about CardFiles.  The log: for any limit, any lengths of lines   *)
(* and any width of the byte count that leaves room for two lines.  The    *)
(* queue over restarts: CardInvariant, which allows items Downloading with *)
(* no worker behind them, so IInv of AppCore holds only while the worker   *)
(* runs.  The resume plan: for any finite set of part files.               *)
(***************************************************************************)
EXTENDS CardFiles, AppCoreProofs

LogRecord == [file: Nat, rotated: Nat, ready: BOOLEAN, bytes: Nat, good: BOOLEAN]

\* The count of a log that is written to is the length of its file.
CountIsTrue(l) == l.ready /\ l.good => l.bytes = l.file

\* What holds of a log between two operations.
SoundLog(l) ==
  /\ l \in LogRecord
  /\ l.file <= FileLimit
  /\ l.rotated <= FileLimit
  /\ CountIsTrue(l)

-----------------------------------------------------------------------------
(* The bounds.                                                             *)

\* The limit of a file is the larger of the code's limit and a header with the
\* longest line.
LEMMA LimitFacts ==
  /\ FileLimit \in Nat
  /\ MaxLogBytes <= FileLimit
  /\ \A n \in LineBytes : HeaderBytes + n <= FileLimit
  /\ \A n \in LineBytes : FileLimit + n < SizeModulus
  /\ SizeModulus \in Nat \ {0}
<1>1. LongestLine \in LineBytes /\ \A n \in LineBytes : n <= LongestLine
  BY LoggerAssumption DEF LongestLine
<1> QED BY <1>1, LoggerAssumption DEF FileLimit, HeaderBytes

\* A count below the modulus does not wrap.
LEMMA NoWrap ==
  ASSUME NEW x \in Nat, x < SizeModulus
  PROVE  x % SizeModulus = x
BY LimitFacts

-----------------------------------------------------------------------------
(* The operations.                                                         *)

\* A log that was opened, or could not be.
LEMMA FreshIsSound ==
  ASSUME NEW l \in LogRecord, l.file <= FileLimit, l.rotated <= FileLimit,
         NEW f \in Fresh(l)
  PROVE  SoundLog(f) /\ (f.ready /\ f.good => f.file = HeaderBytes)
<1>1. HeaderBytes <= FileLimit /\ HeaderBytes \in Nat /\ SizeModulus - 1 \in Nat /\ FileLimit \in Nat
  BY LimitFacts, LoggerAssumption DEF HeaderBytes
<1>2. CASE f = [l EXCEPT !.file = HeaderBytes, !.ready = TRUE, !.bytes = HeaderBytes, !.good = TRUE]
  BY <1>1, <1>2 DEF SoundLog, CountIsTrue, LogRecord
<1>3. CASE f = [l EXCEPT !.file = 0, !.ready = TRUE, !.bytes = SizeModulus - 1, !.good = FALSE]
  <2>1. f.file = 0 /\ f.rotated = l.rotated /\ ~f.good
    BY <1>3 DEF LogRecord
  <2>2. f \in LogRecord
    BY <1>1, <1>3 DEF LogRecord
  <2> QED BY <1>1, <2>1, <2>2 DEF SoundLog, CountIsTrue
<1>4. CASE f = [l EXCEPT !.ready = FALSE, !.bytes = 0, !.good = FALSE]
  BY <1>1, <1>4 DEF SoundLog, CountIsTrue, LogRecord
<1> QED BY <1>2, <1>3, <1>4 DEF Fresh

\* A log that was rotated, with or without the rename.
LEMMA RotatedIsSound ==
  ASSUME NEW l, SoundLog(l), NEW r \in Rotations(l)
  PROVE  SoundLog(r) /\ (r.ready /\ r.good => r.file = HeaderBytes)
<1> DEFINE moved == [l EXCEPT !.rotated = l.file, !.file = 0]
           gone  == [l EXCEPT !.rotated = 0]
<1>1. l \in LogRecord /\ l.file <= FileLimit /\ l.rotated <= FileLimit
  BY DEF SoundLog
<1>2. moved \in LogRecord /\ moved.file <= FileLimit /\ moved.rotated <= FileLimit
  <2>1. moved.file = 0 /\ moved.rotated = l.file
    BY <1>1 DEF LogRecord
  <2>2. moved \in LogRecord
    BY <1>1 DEF LogRecord
  <2> QED BY <1>1, <2>1, <2>2, LimitFacts
<1>3. gone \in LogRecord /\ gone.file <= FileLimit /\ gone.rotated <= FileLimit
  BY <1>1, LimitFacts DEF LogRecord
<1> HIDE DEF moved, gone
<1>4. r \in Fresh(moved) \/ r \in Fresh(l) \/ r \in Fresh(gone)
  BY DEF Rotations, moved, gone
<1> QED BY <1>1, <1>2, <1>3, <1>4, FreshIsSound

\* A line that fits behind what is there, as far as the card takes it.
LEMMA WrittenIsSound ==
  ASSUME NEW l, SoundLog(l), NEW n \in LineBytes,
         l.ready /\ l.good => l.file + n <= FileLimit,
         NEW w \in Written(l, n)
  PROVE  SoundLog(w)
<1>1. n \in Nat \ {0} /\ FileLimit \in Nat
  BY LimitFacts, LoggerAssumption
<1>2. l \in LogRecord /\ l.file \in Nat /\ l.bytes \in Nat /\ l.file <= FileLimit /\ l.rotated <= FileLimit
  BY DEF SoundLog, LogRecord
<1>3. (l.bytes + n) % SizeModulus \in Nat
  BY <1>1, <1>2, LimitFacts
<1> DEFINE counted == [l EXCEPT !.bytes = (l.bytes + n) % SizeModulus]
<1>4. CASE ~l.ready
  BY <1>4 DEF Written
<1>5. CASE l.ready /\ ~l.good
  <2>1. w = counted
    BY <1>5 DEF Written
  <2> QED BY <1>2, <1>3, <1>5, <2>1 DEF SoundLog, CountIsTrue, LogRecord
<1>6. CASE l.ready /\ l.good
  <2>1. PICK k \in 0..n : w = [counted EXCEPT !.file = l.file + k, !.good = (k = n)]
    BY <1>2, <1>6 DEF Written, LogRecord
  <2>2. (l.bytes + n) % SizeModulus = l.file + n
    BY <1>1, <1>2, <1>6, NoWrap, LimitFacts DEF SoundLog, CountIsTrue
  <2>3. w.file = l.file + k /\ w.bytes = l.file + n /\ w.good = (k = n) /\ w.rotated = l.rotated
    BY <1>2, <2>1, <2>2 DEF LogRecord
  <2>4. l.file + k \in Nat /\ l.file + k <= FileLimit /\ (k = n) \in BOOLEAN
    BY <1>1, <1>2, <1>6
  <2>5. w \in LogRecord
    BY <1>2, <1>3, <2>1, <2>4 DEF LogRecord
  <2>6. CountIsTrue(w)
    BY <2>3 DEF CountIsTrue
  <2> QED BY <1>2, <2>3, <2>4, <2>5, <2>6 DEF SoundLog
<1> QED BY <1>4, <1>5, <1>6

-----------------------------------------------------------------------------

\* Every step of a session, and every loss of power, leaves a sound log.
LEMMA LogStep == SoundLog(log) /\ [CardNext]_everything => SoundLog(log)'
<1> SUFFICES ASSUME SoundLog(log), [CardNext]_everything
             PROVE  SoundLog(log')
  BY DEF SoundLog, CountIsTrue
<1>0. log \in LogRecord /\ log.file <= FileLimit /\ log.rotated <= FileLimit
  BY DEF SoundLog
<1>1. CASE InitLogFile
  BY <1>0, <1>1, FreshIsSound DEF InitLogFile
<1>2. CASE ShutdownLogFile
  BY <1>0, <1>2 DEF ShutdownLogFile, SoundLog, CountIsTrue, LogRecord
<1>3. ASSUME NEW n \in LineBytes, LogLine(n)
      PROVE  SoundLog(log')
  <2>1. CASE LimitReached(n)
    <3>1. PICK r \in Rotations(log) : log' \in Written(r, n)
      BY <1>3, <2>1 DEF LogLine
    <3>2. SoundLog(r) /\ (r.ready /\ r.good => r.file + n <= FileLimit)
      BY <3>1, RotatedIsSound, LimitFacts
    <3> QED BY <3>1, <3>2, WrittenIsSound
  <2>2. CASE ~LimitReached(n)
    <3>1. log' \in Written(log, n)
      BY <1>3, <2>2 DEF LogLine
    <3>2. ASSUME log.ready, log.good
          PROVE  log.file + n <= FileLimit
      <4>1. log.bytes = log.file /\ log.file \in Nat /\ n \in Nat
        BY <1>0, <3>2, LoggerAssumption DEF SoundLog, CountIsTrue, LogRecord
      <4>2. (log.bytes + n) % SizeModulus = log.file + n
        BY <1>0, <4>1, NoWrap, LimitFacts
      <4> QED BY <2>2, <4>1, <4>2, LimitFacts, LoggerAssumption DEF LimitReached
    <3> QED BY <3>1, <3>2, WrittenIsSound
  <2> QED BY <2>1, <2>2
<1>4. CASE UNCHANGED log
  BY <1>4
<1>5. CASE CardNext
  BY <1>1, <1>2, <1>3, <1>4, <1>5
     DEF CardNext, Boot, PowerLoss, PowerLossWhileSaving, StatusLost, PartsLeft, Save, Record,
         Session, Log, cardVars
<1> QED BY <1>4, <1>5 DEF everything

\* Neither log file grows beyond the limit, or a header and one line, whatever
\* the card refuses and however often the power is lost (logInternal, rotateLocked).
THEOREM LogIsBounded == CardSpec => []LogStaysBounded
<1>1. CardInit => SoundLog(log)
  BY LimitFacts DEF CardInit, NoLog, SoundLog, CountIsTrue, LogRecord
<1>2. SoundLog(log) => LogStaysBounded
  BY DEF SoundLog, LogStaysBounded
<1> QED BY <1>1, <1>2, LogStep, PTL DEF CardSpec

-----------------------------------------------------------------------------
(* Loading the queue.                                                      *)

\* What a snapshot may hold: rows the program has written.
SoundRows(rows) ==
  /\ rows \in Seq(QueueItem)
  /\ \A i \in DOMAIN rows : rows[i].state # "Completed"

\* One row more: it is left out, or it is new to the queue and the history.
LoadRow(q, row, h) == IF IsDuplicate(row, q, h) THEN q ELSE Append(q, row)

LEMMA LoadRowFacts ==
  ASSUME NEW q \in Seq(QueueItem), NEW h, Clean(q, h), NEW row \in QueueItem, row.state # "Completed"
  PROVE  LoadRow(q, row, h) \in Seq(QueueItem) /\ Clean(LoadRow(q, row, h), h)
<1>1. CASE IsDuplicate(row, q, h)
  BY <1>1 DEF LoadRow
<1>2. CASE ~IsDuplicate(row, q, h)
  <2> DEFINE new == Append(q, row)
  <2>1. /\ new \in Seq(QueueItem)
        /\ \A i \in DOMAIN new : \/ i \in DOMAIN q /\ new[i] = q[i]
                                 \/ i = Len(q) + 1 /\ i \notin DOMAIN q /\ new[i] = row
    OBVIOUS
  <2> HIDE DEF new
  <2>2. /\ \A i \in DOMAIN q : q[i].rom # row.rom
        /\ \A i \in DOMAIN h : h[i].rom # row.rom
    BY <1>2 DEF IsDuplicate, Clean
  <2>3. Clean(new, h)
    BY <2>1, <2>2 DEF Clean
  <2> QED BY <1>2, <2>1, <2>3 DEF LoadRow, new
<1> QED BY <1>1, <1>2

\* However the rows of the file and the history overlap, the queue that is
\* loaded has no ROM twice and none of the history.
LEMMA LoadFacts ==
  ASSUME NEW q \in Seq(QueueItem), NEW h, Clean(q, h), NEW file, SoundRows(file.rows)
  PROVE  /\ LoadQueueState(q, h, file) \in Seq(QueueItem)
         /\ Clean(LoadQueueState(q, h, file), h)
<1> DEFINE rows == file.rows
           N == Len(rows)
           Q == Seq(QueueItem)
           F == [p \in (1..N) \X Q |-> LoadRow(p[2], rows[p[1]], h)]
           Loads(iter) == iter = [s \in SUBSET DOMAIN rows |->
                                     IF s = {} THEN q ELSE LoadRow(iter[s \ {Max(s)}], rows[Max(s)], h)]
           fold == CHOOSE iter : Loads(iter)
           T == {n \in 0..N : fold[1..n] \in Seq(QueueItem) /\ Clean(fold[1..n], h)}
<1>1. N \in Nat /\ DOMAIN rows = 1..N /\ \A i \in 1..N : rows[i] \in QueueItem /\ rows[i].state # "Completed"
  BY DEF SoundRows
<1>2. LoadQueueState(q, h, file) = fold[1..N]
  BY <1>1 DEF LoadQueueState, FoldLeft, MapThenFoldSet, LoadRow
<1> HIDE DEF rows, N
<1>3. \E iter : Loads(iter)
  <2>1. F \in [(1..N) \X Q -> Q]
    <3>1. \A p \in (1..N) \X Q : LoadRow(p[2], rows[p[1]], h) \in Q
      BY <1>1 DEF LoadRow
    <3> QED BY <3>1
  <2>2. PICK iter : IsFold(iter, F, N, Q, q)
    BY <1>1, <2>1, FoldExists DEF IsStep
  <2>3. ASSUME NEW s \in SUBSET (1..N), s # {}
        PROVE  F[<<Max(s), iter[s \ {Max(s)}]>>] = LoadRow(iter[s \ {Max(s)}], rows[Max(s)], h)
    <3>1. Max(s) \in 1..N /\ iter[s \ {Max(s)}] \in Q
      BY <1>1, <2>2, <2>3, MaxFacts DEF IsFold
    <3> QED BY <3>1
  <2>4. \A s \in SUBSET (1..N) :
           iter[s] = IF s = {} THEN q ELSE LoadRow(iter[s \ {Max(s)}], rows[Max(s)], h)
    BY <2>2, <2>3 DEF IsFold
  <2>5. Loads(iter)
    BY <1>1, <2>2, <2>4 DEF IsFold
  <2> QED BY <2>5
<1>4. Loads(fold)
  BY <1>3
<1> HIDE DEF fold
<1>5. fold[1..0] = q
  BY <1>1, <1>4
<1>6. ASSUME NEW n \in 0..(N - 1)
      PROVE  fold[1..(n + 1)] = LoadRow(fold[1..n], rows[n + 1], h)
  <2>1. 1..(n + 1) \in SUBSET DOMAIN rows /\ 1..(n + 1) # {}
    <3>1. \A i \in 1..(n + 1) : i \in 1..N
      BY <1>1
    <3>2. 1 \in 1..(n + 1)
      OBVIOUS
    <3> QED BY <1>1, <3>1, <3>2
  <2>2. Max(1..(n + 1)) = n + 1 /\ (1..(n + 1)) \ {n + 1} = 1..n
    <3>1. n + 1 \in Nat \ {0} /\ (n + 1) - 1 = n
      OBVIOUS
    <3> QED BY <3>1, MaxOfInterval
  <2> QED BY <1>4, <2>1, <2>2
<1>7. 0 \in T
  BY <1>1, <1>5
<1>8. ASSUME NEW n \in 0..(N - 1), n \in T
      PROVE  n + 1 \in T
  <2>1. n + 1 \in 1..N /\ n + 1 \in 0..N
    BY <1>1
  <2>2. rows[n + 1] \in QueueItem /\ rows[n + 1].state # "Completed"
    BY <1>1, <2>1
  <2>3. fold[1..n] \in Seq(QueueItem) /\ Clean(fold[1..n], h)
    BY <1>8
  <2>4. /\ LoadRow(fold[1..n], rows[n + 1], h) \in Seq(QueueItem)
        /\ Clean(LoadRow(fold[1..n], rows[n + 1], h), h)
    BY <2>2, <2>3, LoadRowFacts
  <2> QED BY <1>6, <2>1, <2>4
<1> HIDE DEF T
<1>9. \A n \in 0..N : n \in T
  BY <1>1, <1>7, <1>8, InductionUpTo
<1>10. N \in T
  BY <1>1, <1>9
<1> QED BY <1>2, <1>10 DEF T

\* In whatever order the directory lists the manifests, every ROM is loaded once.
LEMMA LoadedHistoryFacts ==
  ASSUME NEW m, IsFiniteSet({r \in Rom : m[r] = "whole"}), NEW h \in LoadedHistories(<<>>, m)
  PROVE  h \in Seq(QueueItem) /\ Clean(<<>>, h)
<1> DEFINE new == {r \in Rom : m[r] = "whole" /\ \A i \in DOMAIN <<>> : <<>>[i].rom # r}
           n == Cardinality(new)
<1>1. n \in Nat
  <2>1. new = {r \in Rom : m[r] = "whole"}
    OBVIOUS
  <2> QED BY <2>1, FS_CardinalityType
<1>2. PICK order \in SetToSeqs(new) : h = <<>> \o [i \in DOMAIN order |-> CompletedItem(order[i])]
  BY DEF LoadedHistories
<1>3. order \in [1..n -> new] /\ \A i, j \in 1..n : i # j => order[i] # order[j]
  BY <1>2 DEF SetToSeqs
<1> DEFINE items == [i \in 1..n |-> CompletedItem(order[i])]
<1>4. h = <<>> \o items
  BY <1>2, <1>3
<1>5. \A r \in Rom : /\ CompletedItem(r) \in QueueItem
                     /\ CompletedItem(r).rom = r
                     /\ CompletedItem(r).state = "Completed"
  BY PercentAssumption DEF CompletedItem, Item, QueueItem, QueueStates, PercentAssumption
<1>6. \A i \in 1..n : order[i] \in Rom
  BY <1>3
<1> HIDE DEF new, n
<1>7. items \in Seq(QueueItem)
  BY <1>1, <1>5, <1>6
<1>8. DOMAIN items = 1..n /\ \A i \in 1..n : items[i].rom = order[i] /\ items[i].state = "Completed"
  BY <1>5, <1>6
<1> HIDE DEF items
<1>9. h = items
  BY <1>4, <1>7
<1>10. Clean(<<>>, items)
  <2>1. DOMAIN <<>> = {}
    OBVIOUS
  <2> QED BY <1>3, <1>8, <2>1 DEF Clean
<1> QED BY <1>7, <1>9, <1>10

-----------------------------------------------------------------------------
(* Sessions.                                                               *)

\* What a session finds on the card: rows of some earlier queue, without what
\* is completed, and finitely many manifests.
FilesSound ==
  /\ SoundRows(queueFile.rows)
  /\ manifests \in [Rom -> ManifestStates]
  /\ IsFiniteSet({r \in Rom : manifests[r] # "absent"})

\* An idle worker may leave items Downloading here, those of an earlier session.
WorkerSound ==
  IF downloadWorkerRunning THEN WorkerConsistent
  ELSE activeDownloadIndex = -1 /\ ~downloadPaused

CardInvariant ==
  /\ TypeOK
  /\ Clean(downloadQueue, downloadHistory)
  /\ WorkerSound
  /\ ~powered => /\ downloadQueue = <<>> /\ downloadHistory = <<>>
                 /\ selectedQueueIndex = 0
                 /\ ~downloadWorkerRunning
  /\ FilesSound

LEMMA EmptyTyped ==
  /\ [p \in Platform |-> <<>>] \in [Platform -> Seq(Rom)]
  /\ <<>> \in Seq(Platform) /\ <<>> \in Seq(QueueItem)
  /\ 0 \in 0..NumTerms /\ 0 \in 0..2 /\ -1 \in Int
<1>1. <<>> \in Seq(Rom) /\ <<>> \in Seq(Platform) /\ <<>> \in Seq(QueueItem)
  OBVIOUS
<1>2. NumTerms \in Nat
  BY CatalogAssumption DEF CatalogAssumption
<1> QED BY <1>1, <1>2

LEMMA CardInitInvariant == CardInit => CardInvariant
<1> SUFFICES ASSUME CardInit PROVE CardInvariant
  OBVIOUS
<1>1. TypeOK
  BY EmptyTyped DEF CardInit, InitStatus, TypeOK, Views
<1>2. Clean(downloadQueue, downloadHistory) /\ WorkerSound
  BY DEF CardInit, InitStatus, Clean, WorkerSound
<1>3. FilesSound
  <2>1. \A r \in Rom : manifests[r] = "absent"
    BY DEF CardInit, NoManifests
  <2>2. {r \in Rom : manifests[r] # "absent"} = {}
    BY <2>1
  <2>3. manifests \in [Rom -> ManifestStates]
    BY DEF CardInit, NoManifests, ManifestStates
  <2>4. SoundRows(queueFile.rows)
    BY DEF CardInit, NoSnapshot, SoundRows
  <2> QED BY <2>2, <2>3, <2>4, FS_EmptySet DEF FilesSound
<1> QED BY <1>1, <1>2, <1>3 DEF CardInit, InitStatus, CardInvariant

LEMMA BootStep ==
  ASSUME CardInvariant, Boot
  PROVE  CardInvariant'
<1>1. /\ downloadQueue = <<>> /\ downloadHistory = <<>> /\ selectedQueueIndex = 0
      /\ ~downloadWorkerRunning
      /\ TypeOK /\ WorkerSound /\ FilesSound
  BY DEF CardInvariant, Boot
<1>2. downloadHistory' \in Seq(QueueItem) /\ Clean(<<>>, downloadHistory')
  <2>1. downloadHistory' \in LoadedHistories(<<>>, manifests)
    BY <1>1 DEF Boot
  <2>2. {r \in Rom : manifests[r] = "whole"} \subseteq {r \in Rom : manifests[r] # "absent"}
    OBVIOUS
  <2>3. IsFiniteSet({r \in Rom : manifests[r] = "whole"})
    BY <1>1, <2>2, FS_Subset DEF FilesSound
  <2> QED BY <2>1, <2>3, LoadedHistoryFacts
<1>3. downloadQueue' \in Seq(QueueItem) /\ Clean(downloadQueue', downloadHistory')
  <2>1. downloadQueue' = LoadQueueState(<<>>, downloadHistory', queueFile)
    BY <1>1 DEF Boot
  <2>2. <<>> \in Seq(QueueItem)
    OBVIOUS
  <2> QED BY <1>1, <1>2, <2>1, <2>2, LoadFacts DEF FilesSound
<1>4. selectedQueueIndex' \in Nat
  <2>1. selectedQueueIndex' = SelectionAfterLoad(0, downloadQueue', queueFile)
    BY <1>1 DEF Boot
  <2>2. Len(downloadQueue') \in Nat /\ (downloadQueue' # <<>> => Len(downloadQueue') # 0)
    BY <1>3
  <2> QED BY <2>1, <2>2 DEF SelectionAfterLoad
<1>5. platforms' \in Seq(Platform) /\ roms' \in [Platform -> Seq(Rom)]
  BY CatalogAssumption DEF Boot, CatalogAssumption
<1>6. UNCHANGED <<viewVars, selectedPlatformIndex, selectedRomIndex, filterVars, workerVars,
                  updaterVars, keepRunning, queueFile, manifests>> /\ powered' = TRUE
  BY DEF Boot
<1>7. TypeOK'
  BY <1>1, <1>2, <1>3, <1>4, <1>5, <1>6 DEF TypeOK, viewVars, filterVars, workerVars, updaterVars
<1>8. WorkerSound'
  BY <1>1, <1>6 DEF WorkerSound, workerVars
<1>9. FilesSound'
  BY <1>1, <1>6 DEF FilesSound
<1> QED BY <1>3, <1>6, <1>7, <1>8, <1>9 DEF CardInvariant

LEMMA BrokenRows ==
  ASSUME NEW q \in Seq(QueueItem), NEW h, Clean(q, h), NEW file \in Broken(q)
  PROVE  SoundRows(file.rows)
<1>1. PICK n \in 0..(Len(q) - 1) : file.rows = SubSeq(q, 1, n)
  BY DEF Broken, Snapshot
<1>2. /\ SubSeq(q, 1, n) \in Seq(QueueItem)
      /\ DOMAIN SubSeq(q, 1, n) = 1..n
      /\ \A i \in 1..n : i \in DOMAIN q /\ SubSeq(q, 1, n)[i] = q[i]
  <2>1. \A i \in 1..n : i \in DOMAIN q /\ q[i] \in QueueItem
    OBVIOUS
  <2> QED BY <2>1
<1> QED BY <1>1, <1>2 DEF SoundRows, Clean

LEMMA LostStep ==
  ASSUME CardInvariant, StatusLost, UNCHANGED manifests,
         queueFile' = queueFile \/ queueFile' \in Broken(downloadQueue)
  PROVE  CardInvariant'
<1>1. TypeOK'
  BY EmptyTyped DEF StatusLost, TypeOK, Views
<1>2. Clean(downloadQueue', downloadHistory') /\ WorkerSound'
  BY DEF StatusLost, Clean, WorkerSound
<1>3. FilesSound'
  <2>1. SoundRows(queueFile'.rows)
    BY BrokenRows DEF CardInvariant, FilesSound, TypeOK
  <2> QED BY <2>1 DEF CardInvariant, FilesSound
<1> QED BY <1>1, <1>2, <1>3 DEF CardInvariant, StatusLost

LEMMA SaveStep ==
  ASSUME CardInvariant, Save
  PROVE  CardInvariant'
<1>1. SoundRows(queueFile'.rows)
  <2>1. CASE queueFile' = queueFile
    BY <2>1 DEF CardInvariant, FilesSound
  <2>2. CASE queueFile' = Snapshot(downloadQueue, FALSE)
    BY <2>2 DEF CardInvariant, SoundRows, Clean, Snapshot, TypeOK
  <2>3. CASE queueFile' \in Broken(downloadQueue)
    BY <2>3, BrokenRows DEF CardInvariant, TypeOK
  <2> QED BY <2>1, <2>2, <2>3 DEF Save, SavedSnapshots
<1>2. UNCHANGED <<vars, powered, manifests>>
  BY DEF Save
<1> QED BY <1>1, <1>2 DEF CardInvariant, FilesSound, TypeOK, Clean, WorkerSound, WorkerConsistent,
        vars, viewVars, catalogVars, selectionVars, filterVars, queueVars, workerVars, updaterVars

LEMMA RecordStep ==
  ASSUME CardInvariant, NEW r \in Rom, Record(r)
  PROVE  CardInvariant'
<1> DEFINE There(m) == {s \in Rom : m[s] # "absent"}
<1>1. /\ manifests \in [Rom -> ManifestStates]
      /\ IsFiniteSet(There(manifests))
  BY DEF CardInvariant, FilesSound
<1>2. manifests' \in [Rom -> ManifestStates] /\ There(manifests') \subseteq There(manifests) \cup {r}
  BY <1>1 DEF Record, WrittenManifests, ManifestStates
<1>3. IsFiniteSet(There(manifests'))
  <2> HIDE DEF There
  <2> QED BY <1>1, <1>2, FS_AddElement, FS_Subset
<1>4. UNCHANGED <<vars, powered, queueFile>>
  BY DEF Record
<1>5. FilesSound'
  BY <1>2, <1>3, <1>4 DEF FilesSound, CardInvariant
<1> QED BY <1>4, <1>5 DEF CardInvariant, TypeOK, Clean, WorkerSound, WorkerConsistent,
        vars, viewVars, catalogVars, selectionVars, filterVars, queueVars, workerVars, updaterVars

\* What of CardInvariant a press or a tick can disturb.
StatusSound == TypeOK /\ Clean(downloadQueue, downloadHistory) /\ WorkerSound

\* With its worker running a session is one of AppCore.
LEMMA RunningStep ==
  ASSUME StatusSound, downloadWorkerRunning, Next
  PROVE  StatusSound'
<1>1. IInv
  BY DEF StatusSound, WorkerSound, IInv, Clean, NoDuplicateDownloads, CompletedMoves
<1>2. IInv'
  BY <1>1, StepInvariant
<1> QED BY <1>2 DEF StatusSound, WorkerSound, WorkerConsistent, IInv, Clean, NoDuplicateDownloads, CompletedMoves

\* startDownloads leaves nothing of an earlier session Downloading.
LEMMA IdleStart ==
  ASSUME StatusSound, ~downloadWorkerRunning, StartDownloads
  PROVE  /\ WorkerSound' /\ currentView' \in Views
         /\ downloadWorkerRunning' \in BOOLEAN /\ downloadPaused' \in BOOLEAN
         /\ activeDownloadIndex' \in Int
<1> DEFINE q == [i \in DOMAIN downloadQueue |-> Restartable(downloadQueue[i])]
<1>1. \/ /\ BeginFirstPending(q)
         /\ downloadWorkerRunning' = TRUE
         /\ downloadPaused' = FALSE
         /\ currentView' = "DOWNLOADING"
      \/ UNCHANGED <<workerVars, currentView>>
  BY DEF StartDownloads
<1>2. q \in Seq(QueueItem) /\ Clean(q, downloadHistory) /\ NoneFetched(q)
  BY RestartableFacts DEF StatusSound, TypeOK
<1> HIDE DEF q
<1>3. CASE /\ BeginFirstPending(q)
           /\ downloadWorkerRunning' = TRUE
           /\ downloadPaused' = FALSE
           /\ currentView' = "DOWNLOADING"
  <2>1. /\ activeDownloadIndex' \in 0..(Len(downloadQueue') - 1)
        /\ OnlyFetched(downloadQueue', activeDownloadIndex' + 1)
    BY <1>2, <1>3, BeginFirstPendingFacts
  <2>2. WorkerSound'
    BY <1>3, <2>1 DEF WorkerSound, WorkerConsistent, OnlyFetched
  <2>3. activeDownloadIndex' \in Int
    BY <2>1
  <2> QED BY <1>3, <2>2, <2>3 DEF Views
<1>4. CASE UNCHANGED <<workerVars, currentView>>
  BY <1>4 DEF StatusSound, WorkerSound, TypeOK, workerVars
<1> QED BY <1>1, <1>3, <1>4

LEMMA IdleStep ==
  ASSUME StatusSound, ~downloadWorkerRunning, NEW a \in Inputs, ApplyAction(a)
  PROVE  StatusSound'
<1> USE DEF viewVars, catalogVars, filterVars, workerVars, updaterVars
<1>1. TypeOK /\ activeDownloadIndex = -1 /\ ~downloadPaused /\ downloadWorkerRunning = FALSE
  BY DEF StatusSound, WorkerSound, TypeOK
<1>2. QueueSound'
  BY PressSound DEF StatusSound, QueueSound, TypeOK
<1>3. ASSUME TypeOK', UNCHANGED workerVars
      PROVE  StatusSound'
  BY <1>1, <1>2, <1>3 DEF StatusSound, WorkerSound, QueueSound
<1>4. CASE MoveSelection(-1) \/ MoveSelection(1) \/ CycleSort(-1) \/ CycleSort(1) \/ CycleSearchQuery
  BY <1>1, <1>3, <1>4, MoveSelectionTyped, FilterTyped
<1>5. CASE ScreenAction
  BY <1>1, <1>3, <1>5, ScreenTyped
<1>6. CASE RemoveSelectedQueueItem
  <2>1. UNCHANGED workerVars
    <3>1. ClampIndex(selectedQueueIndex, Len(downloadQueue)) \in Nat
      <4>1. selectedQueueIndex \in Int /\ Len(downloadQueue) \in Nat
        BY <1>1 DEF TypeOK
      <4> QED BY <4>1, ClampFacts
    <3> QED BY <1>1, <1>6, <3>1 DEF RemoveSelectedQueueItem
  <2>2. TypeOK'
    BY <1>1, <1>2, <1>6, <2>1 DEF RemoveSelectedQueueItem, TypeOK, QueueSound
  <2> QED BY <1>3, <2>1, <2>2
<1>7. CASE ClearPendingAndFailed
  <2>1. TypeOK' /\ UNCHANGED workerVars
    BY <1>1, <1>2, <1>7 DEF ClearPendingAndFailed, TypeOK, QueueSound
  <2> QED BY <1>3, <2>1
<1>8. CASE EnqueueSelectedRom
  <2>1. TypeOK' /\ UNCHANGED workerVars
    BY <1>1, <1>2, <1>8 DEF EnqueueSelectedRom, TypeOK, QueueSound, Views
  <2> QED BY <1>3, <2>1
<1>9. CASE RetrySelectedFailed
  <2>1. TypeOK' /\ UNCHANGED workerVars
    BY <1>1, <1>2, <1>9 DEF RetrySelectedFailed, TypeOK, QueueSound, selectionVars
  <2> QED BY <1>3, <2>1
<1>10. CASE StartDownloads
  <2>1. /\ WorkerSound' /\ currentView' \in Views
        /\ downloadWorkerRunning' \in BOOLEAN /\ downloadPaused' \in BOOLEAN
        /\ activeDownloadIndex' \in Int
    BY <1>1, <1>10, IdleStart
  <2>2. TypeOK'
    BY <1>1, <1>2, <1>10, <2>1 DEF StartDownloads, TypeOK, QueueSound, selectionVars
  <2> QED BY <1>2, <2>1, <2>2 DEF StatusSound, QueueSound
<1> QED BY <1>4, <1>5, <1>6, <1>7, <1>8, <1>9, <1>10 DEF ApplyAction, Select, ScreenAction

LEMMA CardStep == CardInvariant /\ [CardNext]_everything => CardInvariant'
<1> SUFFICES ASSUME CardInvariant, [CardNext]_everything
             PROVE  CardInvariant'
  OBVIOUS
<1>1. ASSUME UNCHANGED <<vars, powered, queueFile, manifests>>
      PROVE  CardInvariant'
  BY <1>1 DEF CardInvariant, FilesSound, TypeOK, Clean, WorkerSound, WorkerConsistent,
        vars, viewVars, catalogVars, selectionVars, filterVars, queueVars, workerVars, updaterVars
<1>2. CASE Boot
  BY <1>2, BootStep
<1>3. CASE PowerLoss \/ PowerLossWhileSaving
  BY <1>3, LostStep DEF PowerLoss, PowerLossWhileSaving
<1>4. CASE PartsLeft \/ Log
  BY <1>1, <1>4 DEF PartsLeft, Log, cardVars
<1>5. CASE Save
  BY <1>5, SaveStep
<1>6. ASSUME NEW r \in Rom, Record(r)
      PROVE  CardInvariant'
  BY <1>6, RecordStep
<1>7. CASE Session
  <2>1. UserAction \/ Tick
    BY <1>7 DEF Session
  <2>2. StatusSound
    BY DEF CardInvariant, StatusSound
  <2>3. StatusSound'
    <3>1. CASE downloadWorkerRunning
      BY <2>1, <2>2, <3>1, RunningStep DEF Next
    <3>2. CASE ~downloadWorkerRunning
      <4>1. ~Tick
        BY <3>2 DEF Tick, TickDownload
      <4> QED BY <2>1, <2>2, <3>2, <4>1, IdleStep DEF UserAction
    <3> QED BY <3>1, <3>2
  <2>4. powered /\ UNCHANGED <<powered, queueFile, manifests>>
    BY <1>7 DEF Session, cardVars
  <2> QED BY <2>3, <2>4 DEF CardInvariant, StatusSound, FilesSound
<1>8. CASE UNCHANGED everything
  BY <1>1, <1>8 DEF everything, cardVars
<1> QED BY <1>2, <1>3, <1>4, <1>5, <1>6, <1>7, <1>8 DEF CardNext

\* Sessions, power losses in the middle of a save, torn queue files and manifests
\* keep the queue typed and free of duplicates, whatever the card was left with.
THEOREM CardInvariantHolds == CardSpec => []CardInvariant
BY CardInitInvariant, CardStep, PTL DEF CardSpec

\* Once the worker runs exactly its item is Downloading, though a session may
\* begin with items that were Downloading when the power was lost.
THEOREM RestartedWorkerIsConsistent == CardSpec => []RunningWorkerIsConsistent
<1>1. CardInvariant => RunningWorkerIsConsistent
  BY DEF CardInvariant, WorkerSound, RunningWorkerIsConsistent
<1> QED BY <1>1, CardInvariantHolds, PTL

\* No ROM is in the queue and the history twice, over restarts: the queue that is
\* loaded is checked against the manifests that were loaded before it.
THEOREM NoDuplicatesAfterRestart == CardSpec => []NoDuplicateDownloads
<1>1. CardInvariant => NoDuplicateDownloads
  BY DEF CardInvariant, Clean, NoDuplicateDownloads
<1> QED BY <1>1, CardInvariantHolds, PTL

-----------------------------------------------------------------------------
(* The resume plan.                                                        *)

Chunk == [offset: Nat, size: Nat]

Join == [gap: BOOLEAN, contiguous: Nat]

\* The sort is a strict order in which two different chunks are always ordered.
LEMMA SortOrder ==
  ASSUME NEW a \in Chunk, NEW b \in Chunk
  PROVE  /\ ~SortsBefore(a, a)
         /\ a # b => SortsBefore(a, b) \/ SortsBefore(b, a)
         /\ \A c \in Chunk : SortsBefore(a, b) /\ SortsBefore(b, c) => SortsBefore(a, c)
         /\ ~SortsBefore(b, a) => a.offset <= b.offset
<1>1. a # b => a.offset # b.offset \/ a.size # b.size
  BY DEF Chunk
<1> QED BY <1>1 DEF SortsBefore, Chunk

\* Sorted lists every chunk, in order.
LEMMA SortedFacts ==
  ASSUME NEW chunks \in SUBSET Chunk, IsFiniteSet(chunks)
  PROVE  /\ Cardinality(chunks) \in Nat
         /\ Sorted(chunks) \in [1..Cardinality(chunks) -> chunks]
         /\ \A c \in chunks : \E k \in 1..Cardinality(chunks) : Sorted(chunks)[k] = c
         /\ \A i, j \in 1..Cardinality(chunks) :
              i < j => Sorted(chunks)[i].offset <= Sorted(chunks)[j].offset
<1> DEFINE n == Cardinality(chunks)
           Lower(c) == {d \in chunks : SortsBefore(d, c)}
           rank == [c \in chunks |-> Cardinality(Lower(c)) + 1]
           sorted == [k \in 1..n |-> CHOOSE c \in chunks : Cardinality(Lower(c)) = k - 1]
<1>1. n \in Nat
  BY FS_CardinalityType
<1>2. \A c \in chunks : /\ IsFiniteSet(Lower(c)) /\ Cardinality(Lower(c)) \in Nat
                        /\ Cardinality(Lower(c)) + 1 \in 1..n
  <2> TAKE c \in chunks
  <2>1. Lower(c) \subseteq chunks /\ c \notin Lower(c)
    BY SortOrder
  <2> HIDE DEF Lower, n
  <2>2. IsFiniteSet(Lower(c)) /\ Cardinality(Lower(c)) <= n /\ Cardinality(Lower(c)) # n
    BY <2>1, FS_Subset DEF n
  <2>3. Cardinality(Lower(c)) \in Nat
    BY <2>2, FS_CardinalityType
  <2> QED BY <1>1, <2>2, <2>3
<1>3. ASSUME NEW a \in chunks, NEW b \in chunks, SortsBefore(a, b)
      PROVE  Cardinality(Lower(a)) < Cardinality(Lower(b))
  <2>1. Lower(a) \subseteq Lower(b) /\ a \in Lower(b) /\ a \notin Lower(a)
    BY <1>3, SortOrder
  <2> HIDE DEF Lower
  <2>2. /\ Cardinality(Lower(a)) <= Cardinality(Lower(b))
        /\ Cardinality(Lower(a)) # Cardinality(Lower(b))
    BY <1>2, <2>1, FS_Subset
  <2> QED BY <1>2, <2>2
<1> HIDE DEF Lower, n
<1>4. rank \in Injection(chunks, 1..n)
  <2>1. rank \in [chunks -> 1..n]
    BY <1>2
  <2>2. \A a, b \in chunks : rank[a] = rank[b] => a = b
    <3> TAKE a, b \in chunks
    <3>1. a # b => SortsBefore(a, b) \/ SortsBefore(b, a)
      BY SortOrder
    <3> QED BY <1>2, <1>3, <3>1
  <2> HIDE DEF rank
  <2> QED BY <2>1, <2>2 DEF Injection, IsInjective
<1>5. rank \in Surjection(chunks, 1..n)
  <2>1. IsFiniteSet(1..n) /\ Cardinality(1..n) = n
    BY <1>1, FS_Interval
  <2> HIDE DEF rank
  <2> QED BY <1>4, <2>1, FS_Injection DEF n
<1>6. \A k \in 1..n : sorted[k] \in chunks /\ Cardinality(Lower(sorted[k])) = k - 1
  <2> TAKE k \in 1..n
  <2>1. PICK c \in chunks : rank[c] = k
    BY <1>5 DEF Surjection
  <2>2. Cardinality(Lower(c)) = k - 1
    BY <1>2, <2>1
  <2> QED BY <2>2
<1>7. \A c \in chunks : \E k \in 1..n : sorted[k] = c
  <2> TAKE c \in chunks
  <2>1. rank[c] \in 1..n /\ Cardinality(Lower(c)) = rank[c] - 1
    BY <1>2
  <2> DEFINE k == rank[c]
  <2>2. sorted[k] \in chunks /\ Cardinality(Lower(sorted[k])) = Cardinality(Lower(c))
    BY <1>6, <2>1
  <2>3. ~SortsBefore(sorted[k], c) /\ ~SortsBefore(c, sorted[k])
    BY <1>2, <1>3, <2>2
  <2>4. sorted[k] = c
    BY <2>2, <2>3, SortOrder
  <2> QED BY <2>1, <2>4
<1>8. \A i, j \in 1..n : i < j => sorted[i].offset <= sorted[j].offset
  <2> SUFFICES ASSUME NEW i \in 1..n, NEW j \in 1..n, i < j
               PROVE  sorted[i].offset <= sorted[j].offset
    OBVIOUS
  <2>1. ~SortsBefore(sorted[j], sorted[i])
    BY <1>2, <1>3, <1>6
  <2> QED BY <1>6, <2>1, SortOrder
<1>9. Sorted(chunks) = sorted
  BY DEF Sorted, Lower, n
<1>10. sorted \in [1..n -> chunks]
  BY <1>6
<1> HIDE DEF sorted
<1> QED BY <1>1, <1>7, <1>8, <1>9, <1>10 DEF n

\* What the loop knows behind the first n of N sorted chunks: without a gap what
\* it counts is what they hold; with one, some byte in front of a chunk is in none.
Joins(j, s, n, N) ==
  /\ j \in Join
  /\ ~j.gap => /\ \A b \in Nat : b < j.contiguous <=> \E i \in 1..n : b \in BytesOf(s[i])
               /\ \A i \in 1..n : s[i].offset <= j.contiguous
  /\ j.gap => \E i \in 1..N : \E b \in 0..(s[i].offset - 1) : \A k \in 1..N : b \notin BytesOf(s[k])

LEMMA JoinStep ==
  ASSUME NEW N \in Nat, NEW s \in [1..N -> Chunk], \A i, j \in 1..N : i < j => s[i].offset <= s[j].offset,
         NEW n \in 0..(N - 1), NEW j, Joins(j, s, n, N)
  PROVE  Joins(Extended(j, s[n + 1]), s, n + 1, N)
<1> DEFINE c == s[n + 1]
           e == Extended(j, c)
<1>1. j \in Join /\ n + 1 \in 1..N /\ c \in Chunk
  BY DEF Joins
<1>2. c.offset \in Nat /\ c.size \in Nat /\ j.contiguous \in Nat
  BY <1>1 DEF Chunk, Join
<1>3. \A i \in 1..(n + 1) : i \in 1..n \/ i = n + 1
  OBVIOUS
<1>4. \A i \in 1..n : i \in 1..N
  OBVIOUS
<1>5. \A i \in 1..N : s[i].offset \in Nat /\ s[i].size \in Nat
  BY DEF Chunk
<1>6. CASE j.gap
  <2>1. e.gap /\ e \in Join
    BY <1>1, <1>6 DEF Extended, Join
  <2> HIDE DEF e
  <2> QED BY <1>6, <2>1 DEF Joins, e
<1>7. CASE ~j.gap /\ c.offset > j.contiguous
  <2>1. e.gap /\ e \in Join
    BY <1>1, <1>7 DEF Extended, Join
  <2> DEFINE b == j.contiguous
  <2>2. b \in 0..(c.offset - 1)
    BY <1>2, <1>7
  <2>3. ASSUME NEW k \in 1..N
        PROVE  b \notin BytesOf(s[k])
    <3>1. CASE k \in 1..n
      BY <1>2, <1>7, <3>1 DEF Joins
    <3>2. CASE k \notin 1..n
      <4>1. c.offset <= s[k].offset
        <5>1. k = n + 1 \/ n + 1 < k
          BY <3>2
        <5> QED BY <1>1, <1>2, <5>1
      <4> QED BY <1>2, <1>5, <1>7, <4>1 DEF BytesOf
    <3> QED BY <3>1, <3>2
  <2> HIDE DEF b, e
  <2> QED BY <1>1, <2>1, <2>2, <2>3 DEF Joins, e
<1>8. CASE ~j.gap /\ ~(c.offset > j.contiguous)
  <2> DEFINE end == c.offset + c.size
  <2>1. /\ e \in Join /\ ~e.gap
        /\ e.contiguous = IF end > j.contiguous THEN end ELSE j.contiguous
    BY <1>1, <1>2, <1>8 DEF Extended, Join
  <2> HIDE DEF e
  <2>2. \A b \in Nat : b < j.contiguous <=> \E i \in 1..n : b \in BytesOf(s[i])
    BY <1>8 DEF Joins
  <2>3. \A b \in Nat : b \in BytesOf(c) <=> c.offset <= b /\ b < end
    BY <1>2 DEF BytesOf
  <2>4. ASSUME NEW b \in Nat
        PROVE  b < e.contiguous <=> \E i \in 1..(n + 1) : b \in BytesOf(s[i])
    <3>1. b < e.contiguous <=> b < j.contiguous \/ b \in BytesOf(c)
      <4> QED BY <1>2, <1>8, <2>1, <2>3
    <3>2. (\E i \in 1..(n + 1) : b \in BytesOf(s[i])) <=> (\E i \in 1..n : b \in BytesOf(s[i])) \/ b \in BytesOf(c)
      <4>1. n + 1 \in 1..(n + 1) /\ \A i \in 1..n : i \in 1..(n + 1)
        OBVIOUS
      <4> QED BY <1>3, <4>1
    <3> QED BY <2>2, <3>1, <3>2
  <2>5. ASSUME NEW i \in 1..(n + 1)
        PROVE  s[i].offset <= e.contiguous
    <3>1. j.contiguous <= e.contiguous
      BY <1>2, <2>1
    <3>2. s[i].offset <= j.contiguous
      <4>1. CASE i \in 1..n
        BY <1>8, <4>1 DEF Joins
      <4>2. CASE i = n + 1
        BY <1>2, <1>8, <4>2
      <4> QED BY <1>3, <4>1, <4>2
    <3>3. s[i].offset \in Nat /\ e.contiguous \in Nat
      BY <1>1, <1>3, <1>4, <1>5, <2>1 DEF Join
    <3> QED BY <1>2, <3>1, <3>2, <3>3
  <2> QED BY <2>1, <2>4, <2>5 DEF Joins, e
<1> QED BY <1>6, <1>7, <1>8

\* The loop over all chunks.
LEMMA JoinedFacts ==
  ASSUME NEW N \in Nat, NEW s \in [1..N -> Chunk], \A i, j \in 1..N : i < j => s[i].offset <= s[j].offset
  PROVE  Joins(FoldLeft(Extended, [gap |-> FALSE, contiguous |-> 0], s), s, N, N)
<1> DEFINE start == [gap |-> FALSE, contiguous |-> 0]
           F == [p \in (1..N) \X Join |-> Extended(p[2], s[p[1]])]
           Folds(iter) == iter = [t \in SUBSET DOMAIN s |->
                                    IF t = {} THEN start ELSE Extended(iter[t \ {Max(t)}], s[Max(t)])]
           fold == CHOOSE iter : Folds(iter)
           T == {n \in 0..N : Joins(fold[1..n], s, n, N)}
<1>1. DOMAIN s = 1..N
  OBVIOUS
<1>2. FoldLeft(Extended, start, s) = fold[1..N]
  BY <1>1 DEF FoldLeft, MapThenFoldSet
<1>3. \E iter : Folds(iter)
  <2>1. F \in [(1..N) \X Join -> Join]
    <3>1. \A p \in (1..N) \X Join : Extended(p[2], s[p[1]]) \in Join
      <4> TAKE p \in (1..N) \X Join
      <4>1. p[2] \in Join /\ s[p[1]] \in Chunk
        OBVIOUS
      <4>2. ASSUME NEW j \in Join, NEW c \in Chunk
            PROVE  Extended(j, c) \in Join
        <5>1. c.offset + c.size \in Nat
          BY DEF Chunk
        <5> QED BY <5>1 DEF Join, Extended
      <4> QED BY <4>1, <4>2
    <3> QED BY <3>1
  <2>2. start \in Join
    BY DEF Join
  <2>3. PICK iter : IsFold(iter, F, N, Join, start)
    BY <2>1, <2>2, FoldExists DEF IsStep
  <2> HIDE DEF start
  <2>4. ASSUME NEW t \in SUBSET (1..N), t # {}
        PROVE  F[<<Max(t), iter[t \ {Max(t)}]>>] = Extended(iter[t \ {Max(t)}], s[Max(t)])
    <3>1. Max(t) \in 1..N /\ iter[t \ {Max(t)}] \in Join
      BY <2>3, <2>4, MaxFacts DEF IsFold
    <3> QED BY <3>1
  <2>5. \A t \in SUBSET (1..N) :
           iter[t] = IF t = {} THEN start ELSE Extended(iter[t \ {Max(t)}], s[Max(t)])
    BY <2>3, <2>4 DEF IsFold
  <2>6. Folds(iter)
    BY <1>1, <2>3, <2>5 DEF IsFold
  <2> QED BY <2>6
<1>4. Folds(fold)
  BY <1>3
<1> HIDE DEF fold
<1>5. fold[1..0] = start
  BY <1>1, <1>4
<1>6. ASSUME NEW n \in 0..(N - 1)
      PROVE  fold[1..(n + 1)] = Extended(fold[1..n], s[n + 1])
  <2>1. 1..(n + 1) \in SUBSET DOMAIN s /\ 1..(n + 1) # {}
    <3>1. \A i \in 1..(n + 1) : i \in 1..N
      OBVIOUS
    <3>2. 1 \in 1..(n + 1)
      OBVIOUS
    <3> QED BY <1>1, <3>1, <3>2
  <2>2. Max(1..(n + 1)) = n + 1 /\ (1..(n + 1)) \ {n + 1} = 1..n
    <3>1. n + 1 \in Nat \ {0} /\ (n + 1) - 1 = n
      OBVIOUS
    <3> QED BY <3>1, MaxOfInterval
  <2> HIDE DEF start
  <2> QED BY <1>4, <2>1, <2>2
<1>7. 0 \in T
  <2>1. Joins(start, s, 0, N)
    BY DEF Joins, Join
  <2> QED BY <1>5, <2>1
<1>8. ASSUME NEW n \in 0..(N - 1), n \in T
      PROVE  n + 1 \in T
  <2>1. Joins(Extended(fold[1..n], s[n + 1]), s, n + 1, N)
    BY <1>8, JoinStep
  <2>2. n + 1 \in 0..N
    OBVIOUS
  <2> QED BY <1>6, <2>1, <2>2
<1> HIDE DEF T
<1>9. \A n \in 0..N : n \in T
  BY <1>7, <1>8, InductionUpTo
<1>10. N \in T
  BY <1>9
<1> QED BY <1>2, <1>10 DEF T

\* Any set of chunks gets the plan it should have, byte by byte.
LEMMA PlanIsRight ==
  ASSUME NEW chunks \in SUBSET Chunk, IsFiniteSet(chunks), NEW expected \in Nat
  PROVE  IsPlanFor(PlanResume(expected, chunks), expected, chunks)
<1> DEFINE N == Cardinality(chunks)
           s == Sorted(chunks)
           joined == FoldLeft(Extended, [gap |-> FALSE, contiguous |-> 0], s)
           there == UNION {BytesOf(c) : c \in chunks}
           hole == \E c \in chunks : \E b \in 0..(c.offset - 1) : b \notin there
           plan == PlanResume(expected, chunks)
<1>1. /\ N \in Nat
      /\ s \in [1..N -> chunks]
      /\ \A c \in chunks : \E k \in 1..N : s[k] = c
      /\ \A i, j \in 1..N : i < j => s[i].offset <= s[j].offset
  BY SortedFacts
<1> HIDE DEF N, s
<1>2. s \in [1..N -> Chunk]
  BY <1>1
<1>3. Joins(joined, s, N, N)
  BY <1>1, <1>2, JoinedFacts
<1>4. plan = IF chunks = {} THEN Plan("StartFresh", 0)
             ELSE IF joined.gap THEN Plan("RestartDueToGap", 0)
             ELSE Plan("ResumeFromPartial",
                       IF expected < joined.contiguous THEN expected ELSE joined.contiguous)
  BY DEF PlanResume, s
<1> HIDE DEF joined, plan
<1>5. \A b : b \in there <=> \E i \in 1..N : b \in BytesOf(s[i])
  BY <1>1
<1> HIDE DEF there
<1>6. CASE chunks = {}
  BY <1>4, <1>6 DEF IsPlanFor, Plan, plan
<1>7. CASE chunks # {} /\ joined.gap
  <2>1. hole
    BY <1>1, <1>3, <1>5, <1>7 DEF Joins
  <2>2. plan.mode = "RestartDueToGap"
    BY <1>4, <1>7 DEF Plan
  <2> QED BY <2>1, <2>2 DEF IsPlanFor, plan, there
<1>8. CASE chunks # {} /\ ~joined.gap
  <2>1. joined.contiguous \in Nat
    BY <1>3 DEF Joins, Join
  <2>2. \A b \in Nat : b < joined.contiguous <=> b \in there
    BY <1>3, <1>5, <1>8 DEF Joins
  <2>3. \A c \in chunks : c.offset <= joined.contiguous /\ c.offset \in Nat
    <3> TAKE c \in chunks
    <3>1. PICK k \in 1..N : s[k] = c
      BY <1>1
    <3> QED BY <1>3, <1>8, <3>1 DEF Joins, Chunk
  <2>4. ~hole
    BY <2>1, <2>2, <2>3
  <2>5. /\ plan.mode = "ResumeFromPartial"
        /\ plan.bytes = IF expected < joined.contiguous THEN expected ELSE joined.contiguous
    BY <1>4, <1>8 DEF Plan
  <2>6. 0..(plan.bytes - 1) \subseteq there
    BY <2>1, <2>2, <2>5
  <2>7. plan.bytes < expected => plan.bytes \notin there
    BY <2>1, <2>2, <2>5
  <2> HIDE DEF hole
  <2> QED BY <1>8, <2>4, <2>5, <2>6, <2>7 DEF IsPlanFor, plan, there, hole
<1> QED BY <1>6, <1>7, <1>8

\* Whatever part files interrupted downloads have left, of every length, a
\* download is resumed behind bytes that are all there, as late as possible, and
\* given up only where some are missing in front of a part (planResume).
THEOREM PlansAreRight == CardSpec => []ResumesBehindWholeBytes
<1> DEFINE Left == parts \subseteq PartFiles
<1>1. CardInit => Left
  BY DEF CardInit
<1>2. Left /\ [CardNext]_everything => Left'
  BY DEF CardNext, Boot, PowerLoss, PowerLossWhileSaving, StatusLost, PartsLeft, Save, Record, Session,
         Log, cardVars, everything
<1>3. Left => ResumesBehindWholeBytes
  <2> SUFFICES ASSUME Left PROVE ResumesBehindWholeBytes
    OBVIOUS
  <2> DEFINE chunks == DetectPartChunks(parts)
  <2>1. chunks \in SUBSET Chunk
    BY PartAssumption DEF DetectPartChunks, Chunk, NotANumber
  <2>2. IsFiniteSet(chunks)
    <3>1. chunks \subseteq PartFiles
      BY DEF DetectPartChunks
    <3> QED BY <3>1, PartAssumption, FS_Subset
  <2> HIDE DEF chunks
  <2>3. IsPlanFor(PlanResume(ExpectedBytes, chunks), ExpectedBytes, chunks)
    BY <2>1, <2>2, PartAssumption, PlanIsRight
  <2> QED BY <2>3 DEF ResumesBehindWholeBytes, chunks
<1> QED BY <1>1, <1>2, <1>3, PTL DEF CardSpec
=============================================================================
