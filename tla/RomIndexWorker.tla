--------------------------- MODULE RomIndexWorker ---------------------------
(***************************************************************************)
(* The asynchronous ROM index worker of the Wii application                *)
(* (wii/source/main.cpp): one thread that fetches the ROM list of one      *)
(* platform page by page, and the record gAsyncRomIndex through which the  *)
(* main loop queues a request, takes the result and ends the thread.  Each *)
(* critical section (LWP_MutexLock .. LWP_MutexUnlock) is one action; what *)
(* the thread does in between is local to it.                              *)
(*                                                                         *)
(* This module leaves open when the main loop does what; module WiiMain    *)
(* says so.  openRomViewOnComplete is TRUE in every request and left out.  *)
(***************************************************************************)
EXTENDS Integers

CONSTANTS
  PlatformId,
  Pages,        \* [PlatformId -> Nat \ {0}], how many pages the server has for each
  PageGuard,    \* the most pages one request fetches, 256 in the code
  NoPlatform    \* the empty platform id

ASSUME WorkerAssumption ==
  /\ Pages \in [PlatformId -> Nat \ {0}]
  /\ PageGuard \in Nat \ {0}
  /\ NoPlatform \notin PlatformId

VARIABLES
  stopRequested, busy, jobQueued, activePlatformId,
  request,        \* platform of the latest request, also after it was taken
  result,         \* [ready, success, platform, pages]
  thread,         \* where the thread is: "loop", "fetching", "finishing", "exited"
  job,            \* the platform the thread works on
  fetched,        \* pages it has collected
  mutex           \* "live" until shutdownAsyncRomIndexWorker destroys it

recordVars == <<stopRequested, busy, jobQueued, activePlatformId, request, result>>
threadVars == <<thread, job, fetched>>
workerRecord == <<recordVars, threadVars, mutex>>

NoResult == [ready |-> FALSE, success |-> FALSE, platform |-> NoPlatform, pages |-> 0]

Result(success, p, n) == [ready |-> TRUE, success |-> success, platform |-> p, pages |-> n]

WorkerInit ==
  /\ stopRequested = FALSE
  /\ busy = FALSE
  /\ jobQueued = FALSE
  /\ activePlatformId = NoPlatform
  /\ request = NoPlatform
  /\ result = NoResult
  /\ thread = "loop"
  /\ job = NoPlatform
  /\ fetched = 0
  /\ mutex = "live"

-----------------------------------------------------------------------------
(* The thread: asyncRomIndexThreadMain.                                    *)

\* Variant: a queued job is not given up for a stop.
ThreadExitsIfIdle ==
  /\ thread = "loop"
  /\ stopRequested
  /\ ~jobQueued
  /\ thread' = "exited"
  /\ UNCHANGED <<recordVars, job, fetched, mutex>>

\* The critical section at the head of the loop, when a stop was requested.
ThreadExits ==
  /\ thread = "loop"
  /\ stopRequested
  /\ thread' = "exited"
  /\ UNCHANGED <<recordVars, job, fetched, mutex>>

\* Variant: whether a job is queued is not looked at.
TakeJobUnasked ==
  /\ thread = "loop"
  /\ ~stopRequested
  /\ job' = request
  /\ fetched' = 0
  /\ jobQueued' = FALSE
  /\ busy' = TRUE
  /\ activePlatformId' = request
  /\ thread' = "fetching"
  /\ UNCHANGED <<stopRequested, request, result, mutex>>

\* The same critical section, when a job is queued.
TakeJob ==
  /\ thread = "loop"
  /\ ~stopRequested
  /\ jobQueued
  /\ job' = request
  /\ fetched' = 0
  /\ jobQueued' = FALSE
  /\ busy' = TRUE
  /\ activePlatformId' = request
  /\ thread' = "fetching"
  /\ UNCHANGED <<stopRequested, request, result, mutex>>

MorePages == fetched < Pages[job]

\* One page; page becomes 0 with the last one, which ends the loop.
FetchPage ==
  /\ thread = "fetching"
  /\ MorePages
  /\ fetched < PageGuard
  /\ fetched' = fetched + 1
  /\ thread' = IF fetched' < Pages[job] /\ fetched' < PageGuard THEN "fetching" ELSE "finishing"
  /\ UNCHANGED <<recordVars, job, mutex>>

\* Variant: the active platform is not cleared.
PublishKeepingActive(success) ==
  /\ busy' = FALSE
  /\ result' = Result(success, job, fetched)
  /\ thread' = "loop"
  /\ UNCHANGED <<stopRequested, jobQueued, activePlatformId, request, job, fetched, mutex>>

\* Variant: a request that came in meanwhile is dropped.
PublishDroppingRequest(success) ==
  /\ busy' = FALSE
  /\ jobQueued' = FALSE
  /\ activePlatformId' = NoPlatform
  /\ result' = Result(success, job, fetched)
  /\ thread' = "loop"
  /\ UNCHANGED <<stopRequested, request, job, fetched, mutex>>

\* The critical section at the end, with either verdict.
Publish(success) ==
  /\ busy' = FALSE
  /\ activePlatformId' = NoPlatform
  /\ result' = Result(success, job, fetched)
  /\ thread' = "loop"
  /\ UNCHANGED <<stopRequested, jobQueued, request, job, fetched, mutex>>

\* fetchRomsPage failed: what was collected goes into a failed result.
FetchFails ==
  /\ thread = "fetching"
  /\ Publish(FALSE)

\* Variant: running into the page guard counts as success.
FinishAnyway ==
  /\ thread = "finishing"
  /\ Publish(TRUE)

Finish ==
  /\ thread = "finishing"
  /\ Publish(~MorePages)

-----------------------------------------------------------------------------
(* The main loop's side.                                                   *)

\* The worker is already at it, or is going to be.
InProgress(p) == (busy /\ activePlatformId = p) \/ (jobQueued /\ request = p)

\* Variant: a result that was not taken yet stays.
QueueJobKeepingResult(p) ==
  /\ ~InProgress(p)
  /\ jobQueued' = TRUE
  /\ request' = p
  /\ UNCHANGED <<stopRequested, busy, activePlatformId, result, threadVars, mutex>>

\* queueSelectedPlatformRomIndexAsync for a platform that is not in progress:
\* it takes the place of a request still waiting and of a result not taken.
QueueJob(p) ==
  /\ ~InProgress(p)
  /\ jobQueued' = TRUE
  /\ request' = p
  /\ result' = [result EXCEPT !.ready = FALSE, !.pages = 0]
  /\ UNCHANGED <<stopRequested, busy, activePlatformId, threadVars, mutex>>

\* pollPlatformRomIndexAsyncResult, the part under the lock.
TakeResult ==
  /\ result.ready
  /\ result' = NoResult
  /\ UNCHANGED <<stopRequested, busy, jobQueued, activePlatformId, request, threadVars, mutex>>

\* shutdownAsyncRomIndexWorker, up to LWP_JoinThread and from there on.
RequestStop ==
  /\ mutex = "live"
  /\ stopRequested' = TRUE
  /\ UNCHANGED <<busy, jobQueued, activePlatformId, request, result, threadVars, mutex>>

\* Variant: the mutex is destroyed without waiting for the thread.
DestroyAtOnce ==
  /\ stopRequested
  /\ mutex = "live"
  /\ mutex' = "destroyed"
  /\ UNCHANGED <<recordVars, threadVars>>

\* The join returns, the mutex is destroyed and the record reset.
JoinAndDestroy ==
  /\ stopRequested
  /\ mutex = "live"
  /\ thread = "exited"
  /\ mutex' = "destroyed"
  /\ stopRequested' = FALSE
  /\ busy' = FALSE
  /\ jobQueued' = FALSE
  /\ activePlatformId' = NoPlatform
  /\ request' = NoPlatform
  /\ result' = NoResult
  /\ UNCHANGED threadVars

-----------------------------------------------------------------------------

ThreadStep == ThreadExits \/ TakeJob \/ FetchPage \/ FetchFails \/ Finish

MainStep ==
  \/ /\ mutex = "live"
     /\ ~stopRequested
     /\ (\E p \in PlatformId : QueueJob(p)) \/ TakeResult
  \/ RequestStop
  \/ JoinAndDestroy

WorkerNext == ThreadStep \/ MainStep

WorkerSpec == WorkerInit /\ [][WorkerNext]_workerRecord

\* The thread is scheduled and its fetches return, well or badly; the main
\* loop waits in LWP_JoinThread once it has requested the stop.
WorkerFairSpec == WorkerSpec /\ WF_workerRecord(ThreadStep) /\ WF_workerRecord(JoinAndDestroy)

-----------------------------------------------------------------------------
(* Properties.                                                             *)

WorkerTypeOK ==
  /\ stopRequested \in BOOLEAN
  /\ busy \in BOOLEAN
  /\ jobQueued \in BOOLEAN
  /\ activePlatformId \in PlatformId \cup {NoPlatform}
  /\ request \in PlatformId \cup {NoPlatform}
  /\ result \in [ready: BOOLEAN, success: BOOLEAN, platform: PlatformId \cup {NoPlatform},
                pages: 0..PageGuard]
  /\ thread \in {"loop", "fetching", "finishing", "exited"}
  /\ job \in PlatformId \cup {NoPlatform}
  /\ fetched \in 0..PageGuard
  /\ mutex \in {"live", "destroyed"}
  /\ thread \in {"fetching", "finishing"} => job \in PlatformId
  /\ jobQueued => request \in PlatformId

\* A successful result waiting to be taken holds every page of its platform:
\* not one of another request, none missing behind the page guard.
ResultIsWhole ==
  result.ready /\ result.success =>
    result.platform \in PlatformId /\ result.pages = Pages[result.platform]

\* What the record says of the thread is so whenever the mutex is free: busy
\* exactly while a job is at hand, with that job's platform as the active one.
RecordMatchesThread ==
  mutex = "live" =>
    /\ busy <=> thread \in {"fetching", "finishing"}
    /\ activePlatformId = IF busy THEN job ELSE NoPlatform

\* No platform is indexed twice at a time: what is queued is neither being
\* fetched nor lying there as a result that was not taken.
NoDoubleWork ==
  jobQueued => /\ ~(busy /\ activePlatformId = request)
               /\ ~(result.ready /\ result.platform = request)

\* Once the mutex is destroyed no thread is left that would lock it.
NoThreadAfterShutdown == mutex = "destroyed" => thread = "exited"

\* A requested stop is followed by the end of the thread and of the worker.
ShutdownEnds == stopRequested ~> mutex = "destroyed"

\* The request for a platform is answered with a result, unless the main loop
\* queues another one in its place or stops the worker.
RequestAnswered ==
  \A p \in PlatformId :
    (jobQueued /\ request = p)
      ~> ((result.ready /\ result.platform = p) \/ request # p \/ stopRequested)
=============================================================================
