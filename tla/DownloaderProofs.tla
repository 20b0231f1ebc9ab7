-------------------------- MODULE DownloaderProofs --------------------------
(***************************************************************************)
(* Proofs about Downloader, for any requests, any number of retries and    *)
(* bodies of any length.                                                   *)
(***************************************************************************)
EXTENDS Downloader, TLAPS, SequenceTheorems

FileState == [body: {"none", "rom", "page"}, chunks: 0..MaxChunks]

Files == [Id -> FileState]

\* A running call works through one of the queues callers pass.
RunsAQueue == phase # "idle" => queue \in Queues

\* What is still to be done has not been reported complete in this call.
NothingEarly ==
  phase # "idle" => \A i \in DOMAIN queue : i >= at => outcome[queue[i].id] # "complete"

\* From its opening on, the file holds what this attempt was handed, and nothing
\* but a body of the kind its status calls for.
FileFollowsAttempt ==
  /\ phase \in {"connect", "body"} => file[Current.id].chunks = downloaded
  /\ phase = "connect" => file[Current.id].body = "rom"
  /\ phase \in {"body", "closed"} => file[Current.id].body \in {"rom", BodyOf(statusCode)}

\* An attempt that is about to begin is allowed, and if it is not the first there is
\* no file or the card refused to remove it.
AttemptIsDue ==
  phase = "attempt" =>
    /\ attempt < AttemptsMax
    /\ attempt = 0 \/ file[Current.id] = NoFile \/ Current.id \in refused

\* A running call has not returned.
NotYetReturned == phase # "idle" => result = "none"

CallInvariant ==
  /\ TypeOK
  /\ NotYetReturned
  /\ RunsAQueue
  /\ NothingEarly
  /\ FileFollowsAttempt
  /\ AttemptIsDue
  /\ CompleteMeansRom

-----------------------------------------------------------------------------
(* Facts about a running call.                                             *)

\* At least one attempt is made.
LEMMA AttemptsMaxFacts == AttemptsMax \in Nat /\ 0 < AttemptsMax /\ 0 \in 0..AttemptsMax
<1>1. AttemptsMax \in Nat /\ 0 < AttemptsMax
  BY DownloaderAssumption DEF AttemptsMax
<1> QED BY <1>1

LEMMA ChunksFacts == MaxChunks \in Nat /\ 0 \in 0..MaxChunks
<1>1. MaxChunks \in Nat
  BY DownloaderAssumption
<1> QED BY <1>1

LEMMA EmptyQueue == <<>> \in Seq(Request)
BY SMT

\* What callers pass.
LEMMA QueueFacts ==
  ASSUME NEW q \in Queues
  PROVE  /\ q \in Seq(Request)
         /\ Len(q) \in Nat /\ 1 <= Len(q) /\ DOMAIN q = 1..Len(q)
         /\ \A i \in DOMAIN q : q[i].id \in Id
         /\ \A i, j \in DOMAIN q : q[i].id = q[j].id => i = j
<1>1. q \in Seq(Request) /\ q # <<>>
  BY QueuesAssumption
<1>2. Len(q) \in Nat /\ 1 <= Len(q) /\ DOMAIN q = 1..Len(q)
  BY <1>1
<1>3. \A i \in DOMAIN q : q[i] \in Request
  BY <1>1
<1>4. \A r \in Request : r.id \in Id
  BY DEF Request
<1>5. \A i, j \in DOMAIN q : q[i].id = q[j].id => i = j
  BY QueuesAssumption
<1> QED BY <1>1, <1>2, <1>3, <1>4, <1>5

LEMMA CurrentFacts ==
  ASSUME CallInvariant, phase # "idle"
  PROVE  /\ at \in 1..Len(queue) /\ Len(queue) \in Nat /\ at \in DOMAIN queue
         /\ Current \in Request /\ Current.id \in Id
         /\ outcome[Current.id] # "complete"
         /\ file[Current.id].chunks \in 0..MaxChunks
<1>1. queue \in Seq(Request) /\ at \in DOMAIN queue
  BY DEF CallInvariant, TypeOK
<1>2. at \in 1..Len(queue) /\ Len(queue) \in Nat /\ Current \in Request
  BY <1>1 DEF Current
<1>3. Current.id \in Id
  BY <1>2 DEF Request
<1>4. outcome[Current.id] # "complete"
  BY <1>1, <1>2 DEF CallInvariant, NothingEarly, Current
<1>5. file[Current.id].chunks \in 0..MaxChunks
  BY <1>3 DEF CallInvariant, TypeOK
<1> QED BY <1>1, <1>2, <1>3, <1>4, <1>5

LEMMA FileStateFacts ==
  /\ NoFile \in FileState
  /\ \A b \in {"none", "rom", "page"}, n \in 0..MaxChunks : [body |-> b, chunks |-> n] \in FileState
BY DownloaderAssumption DEF NoFile, FileState

\* One file changes, the others do not.
LEMMA FileUpdate ==
  ASSUME NEW f \in Files, NEW cur \in Id, NEW s \in FileState
  PROVE  /\ [f EXCEPT ![cur] = s] \in Files
         /\ [f EXCEPT ![cur] = s][cur] = s
         /\ \A id \in Id : id # cur => [f EXCEPT ![cur] = s][id] = f[id]
BY DEF Files

\* The file of the request being worked on, taken away.
LEMMA RemovedFacts ==
  ASSUME CallInvariant, phase # "idle"
  PROVE  /\ Removed \in Files
         /\ Removed[Current.id] = NoFile
         /\ \A id \in Id : id # Current.id => Removed[id] = file[id]
<1>1. file \in Files /\ Current.id \in Id
  BY CurrentFacts DEF CallInvariant, TypeOK, Files, FileState
<1> QED BY <1>1, FileStateFacts, FileUpdate DEF Removed

\* std::filesystem::remove, with either outcome.
LEMMA RemoveFileFacts ==
  ASSUME CallInvariant, phase # "idle", RemoveFile
  PROVE  /\ file' \in Files /\ refused' \subseteq Id
         /\ file'[Current.id] \in {NoFile, file[Current.id]}
         /\ file'[Current.id] = NoFile \/ Current.id \in refused'
         /\ \A id \in Id : id # Current.id => file'[id] = file[id]
<1>1. file \in Files /\ refused \subseteq Id /\ Current.id \in Id
  BY CurrentFacts DEF CallInvariant, TypeOK, Files, FileState
<1>2. CASE file' = Removed /\ refused' = refused \ {Current.id}
  BY <1>1, <1>2, RemovedFacts
<1>3. CASE refused' = refused \cup {Current.id} /\ UNCHANGED file
  BY <1>1, <1>3
<1> QED BY <1>2, <1>3 DEF RemoveFile

\* The end of a call, with whatever it reports.
LEMMA CallEnds ==
  ASSUME CallInvariant, EndOfCall,
         lastError' \in ErrorKinds, result' \in {"none", "true", "false"},
         file' \in Files, refused' \subseteq Id, outcome' \in [Id -> {"none", "complete", "failed"}], CompleteMeansRom'
  PROVE  CallInvariant'
<1>1. queue' \in Seq(Request)
  BY EmptyQueue DEF EndOfCall
<1>2. file' \in [Id -> [body: {"none", "rom", "page"}, chunks: 0..MaxChunks]]
  BY DEF Files, FileState
<1>3. TypeOK'
  BY <1>1, <1>2, AttemptsMaxFacts, ChunksFacts DEF EndOfCall, TypeOK, Phases
<1> QED BY <1>3 DEF CallInvariant, EndOfCall, RunsAQueue, NotYetReturned, NothingEarly, FileFollowsAttempt, AttemptIsDue

\* onFailure, whatever became of the file.
LEMMA FailStep ==
  ASSUME CallInvariant, phase # "idle", NEW kind \in ErrorKinds, Fail(kind),
         RemoveFile \/ UNCHANGED <<file, refused>>
  PROVE  CallInvariant'
<1>1. /\ file' \in Files /\ refused' \subseteq Id
      /\ \A id \in Id : id # Current.id => file'[id] = file[id]
  BY RemoveFileFacts DEF CallInvariant, TypeOK, Files, FileState
<1>2. outcome' \in [Id -> {"none", "complete", "failed"}]
  BY CurrentFacts DEF CallInvariant, TypeOK, Fail
<1>3. CompleteMeansRom'
  BY <1>1, CurrentFacts DEF CallInvariant, TypeOK, CompleteMeansRom, Fail
<1> QED BY <1>1, <1>2, <1>3, CallEnds DEF Fail

\* Another attempt, after the file was to be removed.
LEMMA TryAgainStep ==
  ASSUME CallInvariant, phase # "idle", NEW kind \in ErrorKinds, TryAgain(kind), RemoveFile
  PROVE  CallInvariant'
<1>1. /\ file' \in Files /\ refused' \subseteq Id
      /\ file'[Current.id] = NoFile \/ Current.id \in refused'
      /\ \A id \in Id : id # Current.id => file'[id] = file[id]
  BY RemoveFileFacts
<1>2. TypeOK'
  BY <1>1 DEF CallInvariant, TypeOK, TryAgain, Phases, Files, FileState
<1>3. CompleteMeansRom'
  BY <1>1, CurrentFacts DEF CallInvariant, CompleteMeansRom, TryAgain
<1>4. AttemptIsDue'
  BY <1>1 DEF AttemptIsDue, TryAgain, Current
<1> QED BY <1>2, <1>3, <1>4 DEF CallInvariant, TryAgain, RunsAQueue, NotYetReturned, NothingEarly, FileFollowsAttempt

\* Every error has a kind.
LEMMA KindFacts ==
  /\ \A text : ErrorTextKinds(text) \subseteq ErrorKinds
  /\ \A code : StatusKind(code) \in ErrorKinds
BY DEF ErrorTextKinds, StatusKind, ErrorKinds

-----------------------------------------------------------------------------
(* The steps.                                                              *)

\* A call begins.
LEMMA CallStep ==
  ASSUME CallInvariant, NEW q \in Queues, Call(q)
  PROVE  CallInvariant'
<1>1. q \in Seq(Request) /\ 1 \in DOMAIN q
  BY QueueFacts
<1>2. \A i \in DOMAIN q : q[i].id \in Id
  BY QueueFacts
<1>3. outcome' \in [Id -> {"none", "complete", "failed"}]
  BY DEF CallInvariant, TypeOK, Call
<1>4. TypeOK'
  BY <1>1, <1>3 DEF CallInvariant, TypeOK, Call, Phases, ErrorKinds
<1>5. NothingEarly'
  BY <1>2 DEF NothingEarly, Call
<1>6. CompleteMeansRom'
  BY DEF CallInvariant, CompleteMeansRom, Call
<1> QED BY <1>4, <1>5, <1>6 DEF CallInvariant, Call, RunsAQueue, NotYetReturned, FileFollowsAttempt, AttemptIsDue

\* The file is opened and emptied.
LEMMA OpenStep ==
  ASSUME CallInvariant, OpenFile
  PROVE  CallInvariant'
<1>1. phase # "idle" /\ attempt < AttemptsMax
  BY DEF OpenFile, CallInvariant, AttemptIsDue
<1> DEFINE empty == [body |-> "rom", chunks |-> 0]
<1>2. file' \in Files /\ file'[Current.id] = empty /\ \A id \in Id : id # Current.id => file'[id] = file[id]
  <2>1. empty \in FileState
    BY ChunksFacts, FileStateFacts
  <2>2. file \in Files /\ Current.id \in Id
    BY <1>1, CurrentFacts DEF CallInvariant, TypeOK, Files, FileState
  <2>3. file' = [file EXCEPT ![Current.id] = empty]
    BY DEF OpenFile
  <2> HIDE DEF empty
  <2>4. [file EXCEPT ![Current.id] = empty] \in Files
        /\ [file EXCEPT ![Current.id] = empty][Current.id] = empty
        /\ \A id \in Id : id # Current.id => [file EXCEPT ![Current.id] = empty][id] = file[id]
    BY <2>1, <2>2, FileUpdate
  <2> QED BY <2>3, <2>4
<1>3. TypeOK'
  <2>1. attempt' \in 0..AttemptsMax /\ downloaded' \in 0..MaxChunks
    <3>1. attempt \in 0..AttemptsMax /\ attempt' = attempt + 1 /\ downloaded' = 0
      BY DEF CallInvariant, TypeOK, OpenFile
    <3> QED BY <1>1, <3>1, AttemptsMaxFacts, ChunksFacts
  <2>2. file' \in [Id -> [body: {"none", "rom", "page"}, chunks: 0..MaxChunks]]
    BY <1>2 DEF Files, FileState
  <2> QED BY <2>1, <2>2 DEF CallInvariant, TypeOK, OpenFile, Phases
<1>4. FileFollowsAttempt'
  <2>1. Current' = Current /\ downloaded' = 0 /\ phase' = "connect"
    BY DEF OpenFile, Current
  <2> QED BY <1>2, <2>1 DEF FileFollowsAttempt
<1>5. CompleteMeansRom'
  BY <1>1, <1>2, CurrentFacts DEF CallInvariant, CompleteMeansRom, OpenFile
<1> QED BY <1>3, <1>4, <1>5 DEF CallInvariant, OpenFile, RunsAQueue, NotYetReturned, NothingEarly, AttemptIsDue

\* A chunk arrives and goes to the file.
LEMMA ChunkStep ==
  ASSUME CallInvariant, Chunk
  PROVE  CallInvariant'
<1>1. phase # "idle" /\ phase' = phase
  BY DEF Chunk
<1>2. file[Current.id].chunks = downloaded /\ downloaded \in 0..MaxChunks /\ downloaded < MaxChunks
  BY DEF CallInvariant, TypeOK, FileFollowsAttempt, Chunk
<1> DEFINE longer == [body |-> BodyOf(statusCode), chunks |-> file[Current.id].chunks + 1]
<1>3. BodyOf(statusCode) \in {"none", "rom", "page"} /\ file[Current.id].chunks + 1 \in 0..MaxChunks
  BY <1>2, DownloaderAssumption DEF BodyOf
<1>4. file' \in Files /\ file'[Current.id] = longer /\ \A id \in Id : id # Current.id => file'[id] = file[id]
  <2>1. longer \in FileState
    BY <1>3, FileStateFacts
  <2>2. file \in Files /\ Current.id \in Id
    BY <1>1, CurrentFacts DEF CallInvariant, TypeOK, Files, FileState
  <2>3. file' = [file EXCEPT ![Current.id] = longer]
    BY <2>2 DEF Chunk, Files
  <2> HIDE DEF longer
  <2>4. [file EXCEPT ![Current.id] = longer] \in Files
        /\ [file EXCEPT ![Current.id] = longer][Current.id] = longer
        /\ \A id \in Id : id # Current.id => [file EXCEPT ![Current.id] = longer][id] = file[id]
    BY <2>1, <2>2, FileUpdate
  <2> QED BY <2>3, <2>4
<1>5. TypeOK'
  <2>1. downloaded' \in 0..MaxChunks
    BY <1>2, DownloaderAssumption DEF Chunk
  <2>2. file' \in [Id -> [body: {"none", "rom", "page"}, chunks: 0..MaxChunks]]
    BY <1>4 DEF Files, FileState
  <2> QED BY <2>1, <2>2 DEF CallInvariant, TypeOK, Chunk
<1>6. FileFollowsAttempt'
  BY <1>2, <1>4 DEF FileFollowsAttempt, Chunk, Current
<1>7. CompleteMeansRom'
  BY <1>1, <1>4, CurrentFacts DEF CallInvariant, CompleteMeansRom, Chunk
<1> QED BY <1>5, <1>6, <1>7 DEF CallInvariant, Chunk, RunsAQueue, NotYetReturned, NothingEarly, AttemptIsDue

\* The peer closes; the tail of the file may be lost.
LEMMA CloseStep ==
  ASSUME CallInvariant, PeerCloses
  PROVE  CallInvariant'
<1>1. phase = "body" /\ phase' = "closed"
  BY DEF PeerCloses
<1>2. PICK lost \in 0..file[Current.id].chunks :
         file' = [file EXCEPT ![Current.id].chunks = @ - lost]
  BY DEF PeerCloses
<1>3. file[Current.id].chunks - lost \in 0..MaxChunks
  BY <1>1, <1>2, CurrentFacts, DownloaderAssumption
<1>4. /\ file' \in Files
      /\ file'[Current.id].body = file[Current.id].body
      /\ \A id \in Id : id # Current.id => file'[id] = file[id]
  BY <1>1, <1>2, <1>3, CurrentFacts DEF CallInvariant, TypeOK, Files, FileState
<1>5. TypeOK'
  BY <1>1, <1>4 DEF CallInvariant, TypeOK, PeerCloses, Files, FileState, Phases
<1>6. FileFollowsAttempt'
  BY <1>1, <1>4 DEF CallInvariant, FileFollowsAttempt, PeerCloses, Current
<1>7. CompleteMeansRom'
  BY <1>1, <1>4, CurrentFacts DEF CallInvariant, CompleteMeansRom, PeerCloses
<1> QED BY <1>1, <1>5, <1>6, <1>7 DEF CallInvariant, PeerCloses, RunsAQueue, NotYetReturned, NothingEarly, AttemptIsDue

\* A file is reported complete: it holds what a success status brought.
LEMMA CompleteStep ==
  ASSUME CallInvariant, Complete
  PROVE  CallInvariant'
<1>1. phase = "closed" /\ file' = file /\ refused' = refused /\ lastError' = lastError
  BY DEF Complete
<1>2. Current.id \in Id /\ at \in 1..Len(queue) /\ Len(queue) \in Nat /\ at \in DOMAIN queue
  BY <1>1, CurrentFacts
<1>3. file[Current.id].body = "rom"
  BY <1>1 DEF Complete, CallInvariant, FileFollowsAttempt, IsSuccessStatus, BodyOf
<1>4. /\ outcome' \in [Id -> {"none", "complete", "failed"}]
      /\ \A id \in Id : id # Current.id => outcome'[id] = outcome[id]
  BY <1>2 DEF CallInvariant, TypeOK, Complete
<1>5. CompleteMeansRom'
  BY <1>1, <1>2, <1>3, <1>4 DEF CallInvariant, CompleteMeansRom
<1>6. CASE EndOfCall /\ result' = "true"
  BY <1>1, <1>4, <1>5, <1>6, CallEnds DEF CallInvariant, TypeOK, Files, FileState
<1>7. CASE /\ at < Len(queue) /\ phase' = "request" /\ at' = at + 1
           /\ UNCHANGED <<queue, attempt, errorText, statusCode, downloaded, result>>
  <2>1. TypeOK'
    <3>1. at' \in Nat /\ at' \in DOMAIN queue'
      BY <1>2, <1>7
    <3> QED BY <1>1, <1>4, <1>7, <3>1 DEF CallInvariant, TypeOK, Phases
  <2>2. queue \in Queues /\ queue' = queue
    BY <1>1, <1>7 DEF CallInvariant, RunsAQueue
  <2>3. NothingEarly'
    <3> SUFFICES ASSUME NEW i \in DOMAIN queue, i >= at + 1
                 PROVE  outcome'[queue[i].id] # "complete"
      BY <1>7 DEF NothingEarly
    <3>1. i \in DOMAIN queue /\ i # at /\ i >= at
      BY <1>2, <2>2, QueueFacts
    <3>2. queue[i].id # Current.id
      BY <1>2, <2>2, <3>1, QueueFacts DEF Current
    <3>3. queue[i].id \in Id
        BY <2>2, <3>1, QueueFacts
    <3>4. outcome[queue[i].id] # "complete"
      BY <1>1, <3>1 DEF CallInvariant, NothingEarly
    <3> QED BY <1>4, <3>2, <3>3, <3>4
  <2> QED BY <1>1, <1>5, <1>7, <2>1, <2>2, <2>3 DEF CallInvariant, RunsAQueue, NotYetReturned, FileFollowsAttempt, AttemptIsDue
<1> QED BY <1>6, <1>7 DEF Complete

\* Every step of a call preserves the invariant.
LEMMA StepKeepsInvariant ==
  ASSUME CallInvariant, Step
  PROVE  CallInvariant'
<1>1. ASSUME MissingUrl \/ NoDirectory \/ OpenFails \/ TooLong
      PROVE  CallInvariant'
  BY <1>1, FailStep DEF MissingUrl, NoDirectory, OpenFails, TooLong, ErrorKinds
<1>2. CASE BeginAttempts
  BY <1>2, AttemptsMaxFacts
     DEF BeginAttempts, CallInvariant, TypeOK, Phases, ErrorKinds, RunsAQueue, NotYetReturned, NothingEarly,
         FileFollowsAttempt, AttemptIsDue, CompleteMeansRom, Current
<1>3. CASE OpenFile
  BY <1>3, OpenStep
<1>4. ASSUME NEW text \in ConnectErrors \cup ReadErrors \cup {WriteError}, StreamFails(text)
      PROVE  CallInvariant'
  BY <1>4 DEF StreamFails, CallInvariant, TypeOK, Phases, RunsAQueue, NotYetReturned, NothingEarly,
              FileFollowsAttempt, AttemptIsDue, CompleteMeansRom, Current
<1>5. ASSUME NEW code \in StatusCodes, HeadersParsed(code)
      PROVE  CallInvariant'
  BY <1>5 DEF HeadersParsed, CallInvariant, TypeOK, Phases, RunsAQueue, NotYetReturned, NothingEarly,
              FileFollowsAttempt, AttemptIsDue, CompleteMeansRom, Current
<1>6. CASE Chunk
  BY <1>6, ChunkStep
<1>7. CASE PeerCloses
  BY <1>7, CloseStep
<1>8. CASE AttemptBroke
  <2>1. PICK kind \in ErrorTextKinds(errorText) : TryAgain(kind) \/ Fail(kind)
    BY <1>8 DEF AttemptBroke
  <2> QED BY <1>8, <2>1, KindFacts, FailStep, TryAgainStep DEF AttemptBroke
<1>9. CASE BadStatus
  <2>1. TryAgain(StatusKind(statusCode)) \/ Fail(StatusKind(statusCode))
    BY <1>9 DEF BadStatus
  <2> QED BY <1>9, <2>1, KindFacts, FailStep, TryAgainStep DEF BadStatus
<1>10. CASE Complete
  BY <1>10, CompleteStep
<1> QED BY <1>1, <1>2, <1>3, <1>4, <1>5, <1>6, <1>7, <1>8, <1>9, <1>10 DEF Step

LEMMA NextKeepsInvariant == CallInvariant /\ [Next]_dlVars => CallInvariant'
<1> SUFFICES ASSUME CallInvariant, [Next]_dlVars PROVE CallInvariant'
  OBVIOUS
<1>1. CASE PowerLoss
  <2>1. lastError' \in ErrorKinds /\ file' \in Files /\ refused' \subseteq Id
          /\ outcome' \in [Id -> {"none", "complete", "failed"}] /\ CompleteMeansRom'
    BY <1>1 DEF PowerLoss, CallInvariant, TypeOK, Files, FileState, CompleteMeansRom, ErrorKinds
  <2> QED BY <1>1, <2>1, CallEnds DEF PowerLoss
<1>2. CASE UNCHANGED dlVars
  BY <1>2 DEF dlVars, CallInvariant, TypeOK, RunsAQueue, NotYetReturned, NothingEarly, FileFollowsAttempt,
              AttemptIsDue, CompleteMeansRom, Current
<1> QED BY <1>1, <1>2, CallStep, StepKeepsInvariant DEF Next

LEMMA InitKeepsInvariant == Init => CallInvariant
<1> SUFFICES ASSUME Init PROVE CallInvariant
  OBVIOUS
<1>1. TypeOK
  <2>1. queue \in Seq(Request)
    BY EmptyQueue DEF Init
  <2>2. outcome \in [Id -> {"none", "complete", "failed"}]
    BY DEF Init
  <2>3. file \in [Id -> [body: {"none", "rom", "page"}, chunks: 0..MaxChunks]]
    BY FileStateFacts DEF Init, FileState
  <2>4. attempt \in 0..AttemptsMax /\ downloaded \in 0..MaxChunks
    BY AttemptsMaxFacts, ChunksFacts DEF Init
  <2> QED BY <2>1, <2>2, <2>3, <2>4 DEF Init, TypeOK, Phases, ErrorKinds
<1> QED BY <1>1 DEF Init, CallInvariant, RunsAQueue, NotYetReturned, NothingEarly, FileFollowsAttempt, AttemptIsDue,
                    CompleteMeansRom

-----------------------------------------------------------------------------
(* What a step may never do.                                               *)

\* Only a status that may change is asked for again.
LEMMA RetryHasAReason ==
  ASSUME CallInvariant, Next, phase = "closed", phase' = "attempt"
  PROVE  errorText # "" \/ statusCode \in {429, 503}
<1>1. CASE BadStatus
  <2>1. IsRetryableHttpStatus(statusCode)
    BY <1>1 DEF BadStatus, Fail, EndOfCall
  <2>2. statusCode \in {0, 200, 401, 404, 429, 503}
    BY DEF CallInvariant, TypeOK, StatusCodes
  <2>3. statusCode \notin {0, 200, 401, 404}
    <3> SUFFICES \A n \in {0, 200, 401, 404} : ~IsRetryableHttpStatus(n)
      BY <2>1
    <3>1. \A n \in 500..599 : n >= 500
      OBVIOUS
    <3>2. \A n \in {0, 200, 401, 404} : n \in Int /\ n < 500 /\ n # 408 /\ n # 425 /\ n # 429
      OBVIOUS
    <3> QED BY <3>1, <3>2 DEF IsRetryableHttpStatus
  <2> QED BY <2>2, <2>3
<1>2. CASE AttemptBroke
  BY <1>2 DEF AttemptBroke
<1> QED BY <1>1, <1>2 DEF Next, Step, Call, PowerLoss, EndOfCall, Fail, MissingUrl, NoDirectory, BeginAttempts,
             OpenFails, OpenFile, StreamFails, HeadersParsed, Chunk, PeerCloses, TooLong, Complete

\* Who is reported failed, and how the file is left.
LEMMA FailureLeavesWhatStays ==
  ASSUME CallInvariant, Next, NEW id \in Id, outcome[id] # "failed", outcome'[id] = "failed"
  PROVE  \/ file'[id] = NoFile
         \/ id \in refused'
         \/ phase = "request" /\ UNCHANGED file
         \/ phase = "attempt" /\ attempt = 0 /\ UNCHANGED file
<1>1. outcome \in [Id -> {"none", "complete", "failed"}]
  BY DEF CallInvariant, TypeOK
<1>2. ASSUME NEW kind, Fail(kind), phase # "idle"
      PROVE  id = Current.id
  BY <1>1, <1>2, CurrentFacts DEF Fail
<1>3. CASE MissingUrl \/ NoDirectory
  BY <1>3 DEF MissingUrl, NoDirectory
<1>4. CASE OpenFails
  <2>1. phase = "attempt" /\ UNCHANGED <<file, refused>> /\ id = Current.id
    BY <1>2, <1>4 DEF OpenFails
  <2> QED BY <2>1 DEF CallInvariant, AttemptIsDue
<1>5. CASE AttemptBroke \/ BadStatus \/ TooLong
  <2>1. phase # "idle" /\ RemoveFile
    BY <1>5 DEF AttemptBroke, BadStatus, TooLong
  <2>2. \E kind : Fail(kind)
    BY <1>5 DEF AttemptBroke, BadStatus, TooLong, TryAgain
  <2> QED BY <1>2, <2>1, <2>2, RemoveFileFacts
<1>6. CASE Complete
  <2>1. outcome' = [outcome EXCEPT ![Current.id] = "complete"]
    BY <1>6 DEF Complete
  <2> QED BY <1>1, <2>1
<1>7. CASE \E q \in Queues : Call(q)
  BY <1>1, <1>7 DEF Call
<1>8. CASE PowerLoss
  BY <1>8 DEF PowerLoss
<1> QED BY <1>3, <1>4, <1>5, <1>6, <1>7, <1>8
           DEF Next, Step, BeginAttempts, OpenFile, StreamFails, HeadersParsed, Chunk, PeerCloses

-----------------------------------------------------------------------------
(* What is left to do, as FetchContract sees it.                           *)

IdsOf(q) == [i \in DOMAIN q |-> q[i].id]

Rest(q, a) == [i \in 1..(Len(q) - a + 1) |-> q[a + i - 1].id]

TodoIn(p, q, a) == [i \in 1..(IF p = "idle" THEN 0 ELSE Len(q) - a + 1) |-> q[a + i - 1].id]

Todo == TodoIn(phase, queue, at)

\* A function on 1..n is a sequence of length n.
LEMMA FunctionIsSequence ==
  ASSUME NEW S, NEW n \in Nat, NEW f \in [1..n -> S]
  PROVE  f \in Seq(S) /\ Len(f) = n
<1>1. f \in Seq(S)
  BY SeqDef
<1>2. Len(f) \in Nat /\ DOMAIN f = 1..Len(f) /\ DOMAIN f = 1..n
  BY <1>1, LenProperties
<1> QED BY <1>1, <1>2

LEMMA TodoWhenIdle == \A q, a : TodoIn("idle", q, a) = <<>>
<1> TAKE q, a
<1> DEFINE todo == TodoIn("idle", q, a)
<1>1. todo \in [1..0 -> Id]
  BY DEF TodoIn
<1> HIDE DEF todo
<1>2. todo \in Seq(Id) /\ Len(todo) = 0
  BY <1>1, FunctionIsSequence
<1>3. todo = <<>>
  BY <1>2, EmptySeq
<1> QED BY <1>3 DEF todo

LEMMA TodoWhenRunning == \A p, q, a : p # "idle" => TodoIn(p, q, a) = Rest(q, a)
BY DEF TodoIn, Rest

\* The rest of a queue from a position on: its head, its length and its tail.
LEMMA RestFacts ==
  ASSUME NEW q \in Queues, NEW a \in 1..Len(q)
  PROVE  /\ Rest(q, a) \in Seq(Id)
         /\ Len(Rest(q, a)) = Len(q) - a + 1
         /\ Rest(q, a) # <<>>
         /\ Head(Rest(q, a)) = q[a].id
         /\ a < Len(q) => Tail(Rest(q, a)) = Rest(q, a + 1)
         /\ a = Len(q) => Tail(Rest(q, a)) = <<>>
<1> DEFINE n == Len(q) - a + 1
           rest == Rest(q, a)
<1>1. Len(q) \in Nat /\ n \in Nat \ {0} /\ DOMAIN q = 1..Len(q)
  BY QueueFacts
<1>2. \A i \in 1..n : a + i - 1 \in DOMAIN q
  BY <1>1
<1>3. rest \in [1..n -> Id] /\ \A i \in 1..n : rest[i] = q[a + i - 1].id
  BY <1>2, QueueFacts DEF Rest
<1> HIDE DEF rest
<1>4. rest \in Seq(Id) /\ Len(rest) = n
  BY <1>1, <1>3, FunctionIsSequence
<1>5. rest # <<>>
  BY <1>1, <1>4, EmptySeq
<1>6. Head(rest) = q[a].id
  <2>1. Head(rest) = rest[1]
    BY <1>4, <1>5
  <2> QED BY <1>1, <1>3, <2>1
<1>7. /\ Tail(rest) \in Seq(Id) /\ Len(Tail(rest)) = n - 1
      /\ \A i \in 1..(n - 1) : Tail(rest)[i] = rest[i + 1]
  BY <1>4, <1>5, HeadTailProperties
<1>8. ASSUME a < Len(q) PROVE Tail(rest) = Rest(q, a + 1)
  <2> DEFINE next == Rest(q, a + 1)
  <2>1. a + 1 \in 1..Len(q) /\ Len(q) - (a + 1) + 1 = n - 1 /\ n - 1 \in Nat
    BY <1>1, <1>8
  <2>2. next \in [1..(n - 1) -> Id] /\ \A i \in 1..(n - 1) : next[i] = q[a + 1 + i - 1].id
    <3>1. \A i \in 1..(n - 1) : a + 1 + i - 1 \in DOMAIN q
      BY <1>1, <2>1
    <3> QED BY <2>1, <3>1, QueueFacts DEF Rest
  <2> HIDE DEF next
  <2>3. next \in Seq(Id) /\ Len(next) = n - 1
    BY <2>1, <2>2, FunctionIsSequence
  <2>4. \A i \in 1..(n - 1) : Tail(rest)[i] = next[i]
    <3> TAKE i \in 1..(n - 1)
    <3>1. i + 1 \in 1..n /\ a + (i + 1) - 1 = a + 1 + i - 1
      BY <1>1
    <3> QED BY <1>3, <1>7, <2>2, <3>1
  <2>5. Tail(rest) = next
    BY <1>7, <2>3, <2>4, SeqEqual
  <2> QED BY <2>5 DEF next
<1>9. ASSUME a = Len(q) PROVE Tail(rest) = <<>>
  <2>1. Tail(rest) \in Seq(Id) /\ Len(Tail(rest)) = 0
    BY <1>1, <1>7, <1>9
  <2> QED BY <2>1, EmptySeq
<1> QED BY <1>4, <1>5, <1>6, <1>8, <1>9 DEF rest

LEMMA RestFromTheStart ==
  ASSUME NEW q \in Queues
  PROVE  Rest(q, 1) = IdsOf(q)
<1>1. Len(q) \in Nat /\ DOMAIN q = 1..Len(q) /\ Len(q) - 1 + 1 = Len(q)
  BY QueueFacts
<1>2. \A i \in 1..Len(q) : 1 + i - 1 = i
  BY <1>1
<1> QED BY <1>1, <1>2 DEF Rest, IdsOf

\* Contract's state is read off a running call.
LEMMA ContractState ==
  ASSUME CallInvariant, phase # "idle"
  PROVE  /\ Todo = Rest(queue, at) /\ Todo # <<>> /\ Head(Todo) = Current.id
         /\ Len(Todo) = Len(queue) - at + 1
         /\ at < Len(queue) => Tail(Todo) = Rest(queue, at + 1)
         /\ at = Len(queue) => Tail(Todo) = <<>>
<1>1. queue \in Queues /\ at \in 1..Len(queue)
  BY CurrentFacts DEF CallInvariant, RunsAQueue
<1>2. Todo = Rest(queue, at)
  BY TodoWhenRunning DEF Todo
<1> QED BY <1>1, <1>2, RestFacts DEF Current

LEMMA InitRefines == Init => Contract!Init
<1> SUFFICES ASSUME Init PROVE Contract!Init
  OBVIOUS
<1>1. Todo = <<>>
  BY TodoWhenIdle DEF Init, Todo
<1> QED BY <1>1 DEF Init, Contract!Init, Todo, TodoIn

\* A step that reports nothing is a stutter of the contract.
LEMMA QuietStep ==
  ASSUME UNCHANGED <<queue, at, outcome, result>>, phase # "idle", phase' # "idle"
  PROVE  UNCHANGED Contract!contractVars
BY DEF Contract!contractVars

\* onFailure is ReportFailure.
LEMMA FailRefines ==
  ASSUME CallInvariant, phase # "idle", NEW kind, Fail(kind)
  PROVE  Contract!ReportFailure
<1>1. Todo # <<>> /\ Head(Todo) = Current.id
  BY ContractState
<1>2. Todo' = <<>>
  BY TodoWhenIdle DEF Fail, EndOfCall, Todo
<1>3. outcome' = [outcome EXCEPT ![Head(Todo)] = "failed"] /\ result' = "false"
  BY <1>1 DEF Fail
<1> QED BY <1>1, <1>2, <1>3 DEF Contract!ReportFailure, Todo, TodoIn

\* onComplete is ReportComplete, and the last one makes the call return true.
LEMMA CompleteRefines ==
  ASSUME CallInvariant, Complete
  PROVE  Contract!ReportComplete
<1>1. phase # "idle" /\ outcome' = [outcome EXCEPT ![Current.id] = "complete"]
  BY DEF Complete
<1>2. /\ Todo # <<>> /\ Head(Todo) = Current.id /\ Len(Todo) = Len(queue) - at + 1
      /\ at < Len(queue) => Tail(Todo) = Rest(queue, at + 1)
      /\ at = Len(queue) => Tail(Todo) = <<>>
      /\ at \in 1..Len(queue) /\ Len(queue) \in Nat
  BY <1>1, ContractState, CurrentFacts
<1>3. CASE at < Len(queue) /\ phase' = "request" /\ at' = at + 1 /\ UNCHANGED <<queue, result>>
  <2>1. Todo' = Rest(queue, at + 1)
    BY <1>3, TodoWhenRunning DEF Todo
  <2>2. result' = "none" /\ Len(Todo) # 1
    BY <1>1, <1>2, <1>3 DEF CallInvariant, NotYetReturned
  <2> QED BY <1>1, <1>2, <1>3, <2>1, <2>2 DEF Contract!ReportComplete, Todo, TodoIn
<1>4. CASE at = Len(queue) /\ phase' = "idle" /\ result' = "true"
  <2>1. Todo' = <<>>
    BY <1>4, TodoWhenIdle DEF Todo
  <2>2. Len(Todo) = 1
    BY <1>2, <1>4
  <2> QED BY <1>1, <1>2, <1>4, <2>1, <2>2 DEF Contract!ReportComplete, Todo, TodoIn
<1> QED BY <1>3, <1>4 DEF Complete, EndOfCall

\* A call of the code is a call of the contract, with the ids of its requests.
LEMMA CallRefines ==
  ASSUME CallInvariant, NEW q \in Queues, Call(q)
  PROVE  Contract!Next
<1> DEFINE batch == IdsOf(q)
<1>1. phase = "idle" /\ phase' = "request" /\ queue' = q /\ at' = 1 /\ result' = "none"
  BY DEF Call
<1>2. Todo = <<>>
  BY <1>1, TodoWhenIdle DEF Todo
<1>3. Todo' = batch
  BY <1>1, TodoWhenRunning, RestFromTheStart DEF Todo
<1>4. outcome' = [id \in Id |-> IF \E i \in DOMAIN batch : batch[i] = id THEN "none" ELSE outcome[id]]
  BY DEF Call, IdsOf
<1>5. batch \in {[i \in DOMAIN p |-> p[i].id] : p \in Queues}
  BY DEF IdsOf
<1> HIDE DEF batch
<1>6. Contract!Call(batch)
  BY <1>1, <1>2, <1>3, <1>4 DEF Contract!Call, Todo, TodoIn
<1> QED BY <1>5, <1>6 DEF Contract!Next

LEMMA NextRefines ==
  CallInvariant /\ [Next]_dlVars => [Contract!Next]_(Contract!contractVars)
<1> SUFFICES ASSUME CallInvariant, [Next]_dlVars
             PROVE  Contract!Next \/ UNCHANGED Contract!contractVars
  OBVIOUS
<1>1. CASE \E q \in Queues : Call(q)
  BY <1>1, CallRefines
<1>2. CASE PowerLoss
  <2>1. Todo' = <<>>
    BY <1>2, TodoWhenIdle DEF PowerLoss, EndOfCall, Todo
  <2> QED BY <1>2, <2>1 DEF PowerLoss, Contract!Next, Contract!PowerLoss, Todo, TodoIn
<1>3. CASE MissingUrl \/ NoDirectory \/ OpenFails \/ TooLong
  <2>1. phase # "idle" /\ \E kind : Fail(kind)
    BY <1>3 DEF MissingUrl, NoDirectory, OpenFails, TooLong
  <2> QED BY <2>1, FailRefines DEF Contract!Next
<1>4. CASE AttemptBroke \/ BadStatus
  <2>1. phase # "idle" /\ \E kind : TryAgain(kind) \/ Fail(kind)
    BY <1>4 DEF AttemptBroke, BadStatus
  <2>2. ASSUME NEW kind, TryAgain(kind) PROVE UNCHANGED Contract!contractVars
    BY <2>1, <2>2, QuietStep DEF TryAgain
  <2> QED BY <2>1, <2>2, FailRefines DEF Contract!Next
<1>5. CASE Complete
  BY <1>5, CompleteRefines DEF Contract!Next
<1>6. CASE \/ BeginAttempts \/ OpenFile \/ Chunk \/ PeerCloses
           \/ \E text \in ConnectErrors \cup ReadErrors \cup {WriteError} : StreamFails(text)
           \/ \E code \in StatusCodes : HeadersParsed(code)
  <2>1. UNCHANGED <<queue, at, outcome, result>> /\ phase # "idle" /\ phase' # "idle"
    BY <1>6 DEF BeginAttempts, OpenFile, Chunk, PeerCloses, StreamFails, HeadersParsed
  <2> QED BY <2>1, QuietStep
<1>7. CASE UNCHANGED dlVars
  BY <1>7 DEF dlVars, Contract!contractVars
<1> QED BY <1>1, <1>2, <1>3, <1>4, <1>5, <1>6, <1>7 DEF Next, Step

-----------------------------------------------------------------------------
(* The theorems.                                                           *)

\* The invariant holds through all calls and losses of power (runDownloadQueue).
THEOREM CallsAreSound == Spec => []CallInvariant
BY InitKeepsInvariant, NextKeepsInvariant, PTL DEF Spec

\* All variables of a call keep their types; no call makes more than AttemptsMax
\* attempts.
THEOREM DownloaderTypeCorrect == Spec => []TypeOK
BY CallsAreSound, PTL DEF CallInvariant

\* What is reported complete is a ROM and never the page of an error.
THEOREM CompleteIsRom == Spec => []CompleteMeansRom
BY CallsAreSound, PTL DEF CallInvariant

\* The file holds what the running attempt was handed, and nothing from before.
THEOREM FileBelongsToAttempt == Spec => []FileIsThisAttempt
<1>1. CallInvariant => FileIsThisAttempt
  BY DEF CallInvariant, FileFollowsAttempt, FileIsThisAttempt
<1> QED BY <1>1, CallsAreSound, PTL

\* Nothing is asked again after an answer that will not change (isRetryableHttpStatus).
THEOREM HopelessIsNotRetried == Spec => NoHopelessRetry
<1>1. CallInvariant /\ [Next]_dlVars =>
        [phase = "closed" /\ phase' = "attempt" => errorText # "" \/ statusCode \in {429, 503}]_dlVars
  BY RetryHasAReason
<1> QED BY <1>1, CallsAreSound, PTL DEF Spec, NoHopelessRetry

\* A failure leaves a file of this call behind only when the card refused to remove
\* it (std::filesystem::remove, whose error is not looked at).
THEOREM FailuresCleanUp == Spec => OnlyRefusedFilesStay
<1>1. CallInvariant /\ [Next]_dlVars =>
        [\A id \in Id : outcome[id] # "failed" /\ outcome'[id] = "failed" =>
            \/ file'[id] = NoFile
            \/ id \in refused'
            \/ phase = "request" /\ UNCHANGED file
            \/ phase = "attempt" /\ attempt = 0 /\ UNCHANGED file]_dlVars
  BY FailureLeavesWhatStays
<1> QED BY <1>1, CallsAreSound, PTL DEF Spec, OnlyRefusedFilesStay

\* runDownloadQueue implements FetchContract: it reports the requests of a call in
\* order and once, stops at the first failure, and returns true only at the end.
THEOREM DownloaderKeepsContract == Spec => KeepsContract
BY InitRefines, NextRefines, CallsAreSound, PTL DEF Spec, KeepsContract, Contract!Spec
=============================================================================
