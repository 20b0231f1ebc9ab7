----------------------------- MODULE CardFiles -----------------------------
(***************************************************************************)
(* Sessions of the application over one card, with a power loss at any     *)
(* moment: what is saved (QueueStore), what interrupted downloads have     *)
(* left (ResumePlan) and the log (Logger) outlive a session, Status does   *)
(* not.  A session starts with the completed ROMs and then the queue, the  *)
(* order in which the loads know of each other; it may save the queue at   *)
(* any time and the manifest of a ROM once it is completed.                *)
(***************************************************************************)
EXTENDS QueueStore, ResumePlan, Logger

CONSTANTS
  PartFiles,       \* the part files that may be left
  ExpectedBytes    \* the size of the ROM they belong to

\* A card holds finitely many files.
ASSUME PartAssumption ==
  /\ PartFiles \subseteq [offset: Nat \cup {NotANumber}, size: Nat]
  /\ IsFiniteSet(PartFiles)
  /\ ExpectedBytes \in Nat

VARIABLES
  powered,     \* TRUE during a session
  queueFile, manifests,
  parts        \* the part files as a session finds them

cardVars == <<queueFile, manifests, parts>>

everything == <<vars, powered, cardVars, log>>

CardInit ==
  /\ InitStatus
  /\ platforms = <<>>
  /\ roms = [p \in Platform |-> <<>>]
  /\ powered = FALSE
  /\ queueFile = NoSnapshot
  /\ manifests = NoManifests
  /\ parts = {}
  /\ log = NoLog

\* The other way round a ROM with a manifest would be loaded twice: the load of the
\* manifests does not look at the queue.
Boot ==
  /\ ~powered
  /\ powered' = TRUE
  /\ platforms' = Catalog
  /\ roms' = CatalogRoms
  /\ downloadHistory' \in LoadedHistories(downloadHistory, manifests)
  /\ downloadQueue' = LoadQueueState(downloadQueue, downloadHistory', queueFile)
  /\ selectedQueueIndex' = SelectionAfterLoad(selectedQueueIndex, downloadQueue', queueFile)
  /\ parts' = {}
  /\ InitLogFile
  /\ UNCHANGED <<viewVars, selectedPlatformIndex, selectedRomIndex, filterVars, workerVars,
                 updaterVars, keepRunning, queueFile, manifests>>

\* Status is InitStatus again.
StatusLost ==
  /\ powered
  /\ powered' = FALSE
  /\ currentView' = "PLATFORMS"
  /\ prevQueueView' = "PLATFORMS"
  /\ prevDiagnosticsView' = "PLATFORMS"
  /\ prevUpdaterView' = "PLATFORMS"
  /\ selectedPlatformIndex' = 0
  /\ selectedRomIndex' = 0
  /\ selectedQueueIndex' = 0
  /\ searchQuery' = 0
  /\ romSort' = 0
  /\ downloadQueue' = <<>>
  /\ downloadHistory' = <<>>
  /\ downloadWorkerRunning' = FALSE
  /\ downloadPaused' = FALSE
  /\ activeDownloadIndex' = -1
  /\ updaterState' = "Idle"
  /\ currentVersion' = "0.1.0"
  /\ keepRunning' = TRUE
  /\ platforms' = <<>>
  /\ roms' = [p \in Platform |-> <<>>]
  /\ ShutdownLogFile
  /\ UNCHANGED parts

PowerLoss == StatusLost /\ UNCHANGED <<queueFile, manifests>>

\* What interrupted downloads have left shows when a session is to begin.
PartsLeft ==
  /\ ~powered
  /\ parts = {}
  /\ parts' \in SUBSET PartFiles
  /\ UNCHANGED <<vars, powered, queueFile, manifests, log>>

Save ==
  /\ powered
  /\ queueFile' \in SavedSnapshots(queueFile, downloadQueue)
  /\ UNCHANGED <<vars, powered, manifests, parts, log>>

PowerLossWhileSaving ==
  /\ StatusLost
  /\ queueFile' \in Broken(downloadQueue)
  /\ UNCHANGED manifests

Record(r) ==
  /\ powered
  /\ \E i \in DOMAIN downloadHistory : downloadHistory[i].rom = r
  /\ manifests' \in WrittenManifests(manifests, r)
  /\ UNCHANGED <<vars, powered, queueFile, parts, log>>

Session ==
  /\ powered
  /\ UserAction \/ Tick
  /\ UNCHANGED <<powered, cardVars, log>>

Log ==
  /\ powered
  /\ \E n \in LineBytes : LogLine(n)
  /\ UNCHANGED <<vars, powered, cardVars>>

CardNext ==
  \/ Boot \/ PowerLoss \/ PowerLossWhileSaving \/ PartsLeft
  \/ Save \/ (\E r \in Rom : Record(r))
  \/ Session \/ Log

CardSpec == CardInit /\ [][CardNext]_everything

-----------------------------------------------------------------------------
(* Properties; NoDuplicateDownloads of AppCore, over restarts, is another. *)

\* Items come back as Downloading from a session that was cut short, with no
\* worker behind them.  Once the worker runs (startDownloads), exactly the active
\* item is Downloading all the same.
RunningWorkerIsConsistent == downloadWorkerRunning => WorkerConsistent

\* The resume plan is right about every set of part files a session may find.
ResumesBehindWholeBytes ==
  ~powered => IsPlanFor(PlanResume(ExpectedBytes, DetectPartChunks(parts)), ExpectedBytes,
                        DetectPartChunks(parts))
=============================================================================
