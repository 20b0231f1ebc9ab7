------------------------ MODULE RomIndexWorkerProofs ------------------------
(***************************************************************************)
(* Proofs about RomIndexWorker, for any set of platforms, any number of    *)
(* pages of each and any page guard.                                       *)
(***************************************************************************)
EXTENDS RomIndexWorker, TLAPS

\* The thread never collects more pages than the server has.
FetchedInBounds ==
  thread \in {"fetching", "finishing"} => fetched <= Pages[job]

WorkerInvariant ==
  /\ WorkerTypeOK
  /\ RecordMatchesThread
  /\ NoDoubleWork
  /\ NoThreadAfterShutdown
  /\ FetchedInBounds
  /\ ResultIsWhole

\* The worker starts with an empty record, which satisfies the invariant.
LEMMA WorkerInitInvariant == WorkerInit => WorkerInvariant
<1> SUFFICES ASSUME WorkerInit
             PROVE  WorkerInvariant
  OBVIOUS
<1>1. WorkerTypeOK
  <2>1. 0 \in 0..PageGuard
    BY WorkerAssumption
  <2>2. NoResult \in [ready: BOOLEAN, success: BOOLEAN, platform: PlatformId \cup {NoPlatform},
                      pages: 0..PageGuard]
    BY <2>1 DEF NoResult
  <2> QED
    BY <2>1, <2>2 DEF WorkerInit, WorkerTypeOK
<1>2. RecordMatchesThread /\ NoDoubleWork /\ NoThreadAfterShutdown
  BY DEF WorkerInit, RecordMatchesThread, NoDoubleWork, NoThreadAfterShutdown
<1>3. FetchedInBounds /\ ResultIsWhole
  BY DEF WorkerInit, FetchedInBounds, ResultIsWhole, NoResult
<1> QED
  BY <1>1, <1>2, <1>3 DEF WorkerInvariant

\* The thread's publication of a result keeps the invariant, provided that a
\* successful result is whole.
LEMMA PublishKeepsInvariant ==
  ASSUME WorkerInvariant,
         NEW success \in BOOLEAN,
         thread \in {"fetching", "finishing"},
         success => fetched = Pages[job],
         Publish(success)
  PROVE  WorkerInvariant'
<1>1. job \in PlatformId /\ fetched \in Nat
  BY WorkerAssumption DEF WorkerInvariant, WorkerTypeOK
<1>2. mutex = "live" /\ busy /\ activePlatformId = job
  BY DEF WorkerInvariant, WorkerTypeOK, RecordMatchesThread, NoThreadAfterShutdown
<1>3. WorkerTypeOK'
  BY <1>1 DEF WorkerInvariant, WorkerTypeOK, Publish, Result
<1>4. RecordMatchesThread'
  BY DEF RecordMatchesThread, Publish
<1>5. NoDoubleWork'
  BY <1>2 DEF WorkerInvariant, NoDoubleWork, Publish, Result
<1>6. NoThreadAfterShutdown' /\ FetchedInBounds'
  BY <1>2 DEF NoThreadAfterShutdown, FetchedInBounds, Publish
<1>7. ResultIsWhole'
  BY <1>1 DEF ResultIsWhole, Publish, Result
<1> QED
  BY <1>3, <1>4, <1>5, <1>6, <1>7 DEF WorkerInvariant

\* Every step of the thread keeps the invariant.
LEMMA ThreadKeepsInvariant == WorkerInvariant /\ ThreadStep => WorkerInvariant'
<1> SUFFICES ASSUME WorkerInvariant, ThreadStep
             PROVE  WorkerInvariant'
  OBVIOUS
<1> USE DEF WorkerInvariant, recordVars
<1>1. CASE ThreadExits
  BY <1>1, WorkerAssumption DEF ThreadExits, WorkerTypeOK, RecordMatchesThread, NoDoubleWork, NoThreadAfterShutdown,
              FetchedInBounds, ResultIsWhole
<1>2. CASE TakeJob
  <2>1. request \in PlatformId /\ Pages[request] \in Nat \ {0}
    BY <1>2, WorkerAssumption DEF TakeJob, WorkerTypeOK
  <2>2. WorkerTypeOK'
    <3>1. 0 \in 0..PageGuard
      BY WorkerAssumption
    <3> QED
      BY <1>2, <2>1, <3>1 DEF TakeJob, WorkerTypeOK
  <2>3. RecordMatchesThread' /\ NoDoubleWork' /\ NoThreadAfterShutdown'
    BY <1>2 DEF TakeJob, WorkerTypeOK, RecordMatchesThread, NoDoubleWork, NoThreadAfterShutdown
  <2>4. FetchedInBounds' /\ ResultIsWhole'
    BY <1>2, <2>1 DEF TakeJob, FetchedInBounds, ResultIsWhole
  <2> QED
    BY <2>2, <2>3, <2>4
<1>3. CASE FetchPage
  <2>1. job \in PlatformId /\ Pages[job] \in Nat /\ fetched \in Nat
    BY <1>3, WorkerAssumption DEF FetchPage, WorkerTypeOK
  <2>2. WorkerTypeOK'
    BY <1>3, <2>1, WorkerAssumption DEF FetchPage, WorkerTypeOK
  <2>3. RecordMatchesThread' /\ NoDoubleWork' /\ NoThreadAfterShutdown'
    BY <1>3 DEF FetchPage, RecordMatchesThread, NoDoubleWork, NoThreadAfterShutdown
  <2>4. FetchedInBounds' /\ ResultIsWhole'
    BY <1>3, <2>1 DEF FetchPage, MorePages, FetchedInBounds, ResultIsWhole
  <2> QED
    BY <2>2, <2>3, <2>4
<1>4. CASE FetchFails
  BY <1>4, PublishKeepsInvariant DEF FetchFails
<1>5. CASE Finish
  <2>1. job \in PlatformId /\ Pages[job] \in Nat /\ fetched \in Nat /\ fetched <= Pages[job]
    BY <1>5, WorkerAssumption DEF Finish, WorkerTypeOK, FetchedInBounds
  <2>2. ~MorePages => fetched = Pages[job]
    BY <2>1 DEF MorePages
  <2>3. (~MorePages) \in BOOLEAN
    BY DEF MorePages
  <2> HIDE DEF WorkerInvariant
  <2> QED
    BY <1>5, <2>2, <2>3, PublishKeepsInvariant DEF Finish
<1> QED
  BY <1>1, <1>2, <1>3, <1>4, <1>5 DEF ThreadStep

\* Every step of the main loop keeps the invariant.
LEMMA MainKeepsInvariant == WorkerInvariant /\ MainStep => WorkerInvariant'
<1> SUFFICES ASSUME WorkerInvariant, MainStep
             PROVE  WorkerInvariant'
  OBVIOUS
<1> USE DEF WorkerInvariant, recordVars, threadVars
<1>0. 0 \in 0..PageGuard
  BY WorkerAssumption
<1>1. ASSUME mutex = "live", NEW p \in PlatformId, QueueJob(p)
      PROVE  WorkerInvariant'
  BY <1>0, <1>1 DEF QueueJob, InProgress, WorkerTypeOK, RecordMatchesThread, NoDoubleWork,
              NoThreadAfterShutdown, FetchedInBounds, ResultIsWhole
<1>2. CASE TakeResult
  BY <1>0, <1>2 DEF TakeResult, NoResult, WorkerTypeOK, RecordMatchesThread,
              NoDoubleWork, NoThreadAfterShutdown, FetchedInBounds, ResultIsWhole
<1>3. CASE RequestStop
  BY <1>3 DEF RequestStop, WorkerTypeOK, RecordMatchesThread, NoDoubleWork,
              NoThreadAfterShutdown, FetchedInBounds, ResultIsWhole
<1>4. CASE JoinAndDestroy
  BY <1>0, <1>4 DEF JoinAndDestroy, NoResult, WorkerTypeOK, RecordMatchesThread,
              NoDoubleWork, NoThreadAfterShutdown, FetchedInBounds, ResultIsWhole
<1> QED
  BY <1>1, <1>2, <1>3, <1>4 DEF MainStep

\* The invariant holds whatever the thread and the main loop do and in
\* whatever order their critical sections come.
THEOREM WorkerInvariantHolds == WorkerSpec => []WorkerInvariant
<1>1. WorkerInvariant /\ [WorkerNext]_workerRecord => WorkerInvariant'
  <2>1. ASSUME WorkerInvariant, UNCHANGED workerRecord
        PROVE  WorkerInvariant'
    BY <2>1 DEF WorkerInvariant, workerRecord, recordVars, threadVars, WorkerTypeOK,
                RecordMatchesThread, NoDoubleWork, NoThreadAfterShutdown, FetchedInBounds,
                ResultIsWhole
  <2> QED
    BY <2>1, ThreadKeepsInvariant, MainKeepsInvariant DEF WorkerNext
<1> QED
  BY WorkerInitInvariant, <1>1, PTL DEF WorkerSpec

\* Types of the worker's record and of the thread's local variables.
THEOREM WorkerTypeCorrect == WorkerSpec => []WorkerTypeOK
BY WorkerInvariantHolds, PTL DEF WorkerInvariant

\* A successful result is the whole list of its platform
\* (asyncRomIndexThreadMain publishes nothing partial as a success).
THEOREM ResultsAreWhole == WorkerSpec => []ResultIsWhole
BY WorkerInvariantHolds, PTL DEF WorkerInvariant

\* The record's busy flag and active platform agree with the thread.
THEOREM RecordIsTrue == WorkerSpec => []RecordMatchesThread
BY WorkerInvariantHolds, PTL DEF WorkerInvariant

\* No platform is queued while it is being fetched or its result lies unread.
THEOREM NoDoubleFetch == WorkerSpec => []NoDoubleWork
BY WorkerInvariantHolds, PTL DEF WorkerInvariant

\* LWP_MutexDestroy comes after the end of the thread.
THEOREM MutexOutlivesThread == WorkerSpec => []NoThreadAfterShutdown
BY WorkerInvariantHolds, PTL DEF WorkerInvariant
=============================================================================
