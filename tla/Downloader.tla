----------------------------- MODULE Downloader -----------------------------
(***************************************************************************)
(* runDownloadQueue of core/downloader.cpp over the streamGet of           *)
(* core/http_client.cpp: one call works through its requests, each in up   *)
(* to AttemptsMax attempts, each attempt streaming one HTTP answer into    *)
(* the output file.  The peer may refuse, answer with any status, send     *)
(* any part of a body and close or break the connection; opening, writing, *)
(* flushing and removing the file may fail; the console may lose power.    *)
(*                                                                         *)
(* Bytes are counted in chunks.  Left out: the waiting time between        *)
(* attempts, the request headers, and the numbers of onProgress.           *)
(***************************************************************************)
EXTENDS Integers, Sequences

CONSTANTS
  Id,           \* request ids; each has its own output file
  Queues,       \* the request sequences the callers pass
  MaxRetries,   \* maxDownloadRetries of the configuration
  MaxChunks     \* bound: the peer sends at most so many chunks per answer

ASSUME DownloaderAssumption ==
  /\ MaxRetries \in Int
  /\ MaxChunks \in Nat

\* url is FALSE for an empty URL; expected is 0 when the size is not known.
Request == [id: Id, url: BOOLEAN, expected: Nat]

\* No call asks for the same file twice.
ASSUME QueuesAssumption ==
  /\ Queues \subseteq Seq(Request) \ {<<>>}
  /\ \A q \in Queues : \A i, j \in DOMAIN q : q[i].id = q[j].id => i = j

VARIABLES
  queue,      \* the requests of the running call
  at,         \* the request being worked on, a position of queue
  attempt,
  phase,      \* "idle" outside of calls, else where the call stands
  errorText,  \* what streamGet reported when it returned false
  statusCode, \* what streamGet reported when it returned true
  downloaded, \* chunks handed to the file in this attempt
  lastError,  \* kind of the last error
  file,       \* the output files
  refused,    \* history: ids whose file the card refused to remove, as it still is
  outcome,    \* what the observer was told of each id
  result      \* what the last call returned

dlVars == <<queue, at, attempt, phase, errorText, statusCode, downloaded,
            lastError, file, refused, outcome, result>>

Phases == {"idle", "request", "attempt", "connect", "body", "closed"}

ErrorKinds == {"None", "Network", "Auth", "Http", "Filesystem", "Parse", "Unknown"}

\* One status for each row of the tables in isRetryableHttpStatus and
\* classifyHttpStatus: success, authentication, not found, rate limit, server.
StatusCodes == {200, 401, 404, 429, 503}

\* Variant: everything below the server errors passes.
IsSuccessStatusLoose(code) == code \in 200..499

IsSuccessStatus(code) == code \in 200..299

IsRetryableHttpStatus(code) == code \in {408, 425, 429} \cup 500..599

StatusKind(code) ==
  CASE code \in {401, 403} -> "Auth"
    [] code >= 500         -> "Network"
    [] OTHER               -> "Http"

\* The texts streamGet fails with: before the status line and at any time.
ConnectErrors == {"bad URL", "DNS lookup failed", "socket connect failed", "socket write failed",
                  "invalid HTTP"}
ReadErrors == {"socket read failed"}
WriteError == "stream callback aborted"

\* classifyErrorText looks for words in the text.  A failed connect has the
\* system's own words appended on the Wii U, none on the Wii: "Permission denied"
\* reads as a matter of files, "timed out" as one of the network.
ErrorTextKinds(text) ==
  CASE text = "DNS lookup failed"     -> {"Network"}
    [] text = "socket connect failed" -> {"Network", "Filesystem", "Unknown"}
    [] OTHER                          -> {"Unknown"}

\* What the peer sends along with a status: the ROM, or a page that explains.
BodyOf(code) == IF code \in 200..299 THEN "rom" ELSE "page"

AttemptsMax == IF MaxRetries + 1 > 1 THEN MaxRetries + 1 ELSE 1

NoFile == [body |-> "none", chunks |-> 0]

Current == queue[at]

Init ==
  /\ queue = <<>>
  /\ at = 0
  /\ attempt = 0
  /\ phase = "idle"
  /\ errorText = ""
  /\ statusCode = 0
  /\ downloaded = 0
  /\ lastError = "None"
  /\ file = [id \in Id |-> NoFile]
  /\ refused = {}
  /\ outcome = [id \in Id |-> "none"]
  /\ result = "none"

\* What a call knows is gone with its stack frame.
EndOfCall ==
  /\ phase' = "idle"
  /\ queue' = <<>>
  /\ at' = 0
  /\ attempt' = 0
  /\ errorText' = ""
  /\ statusCode' = 0
  /\ downloaded' = 0

Call(q) ==
  /\ phase = "idle"
  /\ queue' = q
  /\ at' = 1
  /\ phase' = "request"
  /\ lastError' = "None"
  /\ outcome' = [id \in Id |-> IF \E i \in DOMAIN q : q[i].id = id THEN "none" ELSE outcome[id]]
  /\ result' = "none"
  /\ refused' = {}
  /\ UNCHANGED <<attempt, errorText, statusCode, downloaded, file>>

\* Variant: a failure is reported and the next request is taken up.
FailAndGoOn(kind) ==
  /\ outcome' = [outcome EXCEPT ![Current.id] = "failed"]
  /\ lastError' = kind
  /\ IF at < Len(queue)
     THEN /\ phase' = "request"
          /\ at' = at + 1
          /\ UNCHANGED <<queue, attempt, errorText, statusCode, downloaded, result>>
     ELSE EndOfCall /\ result' = "false"

\* onFailure and return false.
Fail(kind) ==
  /\ outcome' = [outcome EXCEPT ![Current.id] = "failed"]
  /\ lastError' = kind
  /\ result' = "false"
  /\ EndOfCall

-----------------------------------------------------------------------------
(* Before the attempts.                                                    *)

MissingUrl ==
  /\ phase = "request"
  /\ ~Current.url
  /\ Fail("Parse")
  /\ UNCHANGED <<file, refused>>

\* create_directories fails.
NoDirectory ==
  /\ phase = "request"
  /\ Current.url
  /\ Fail("Filesystem")
  /\ UNCHANGED <<file, refused>>

BeginAttempts ==
  /\ phase = "request"
  /\ Current.url
  /\ phase' = "attempt"
  /\ attempt' = 0
  /\ lastError' = "None"
  /\ UNCHANGED <<queue, at, errorText, statusCode, downloaded, file, refused, outcome,
                 result>>

-----------------------------------------------------------------------------
(* One attempt: the file is opened, then streamGet runs.                   *)

OpenFails ==
  /\ phase = "attempt"
  /\ Fail("Filesystem")
  /\ UNCHANGED <<file, refused>>

\* Variant: the file is opened for appending.
OpenAppending ==
  /\ phase = "attempt"
  /\ phase' = "connect"
  /\ attempt' = attempt + 1
  /\ file' = [file EXCEPT ![Current.id] = IF @ = NoFile THEN [body |-> "rom", chunks |-> 0] ELSE @]
  /\ refused' = refused \ {Current.id}
  /\ downloaded' = 0
  /\ errorText' = ""
  /\ statusCode' = 0
  /\ UNCHANGED <<queue, at, lastError, outcome, result>>

\* Variant: the attempt is not counted.
OpenUncounted ==
  /\ phase = "attempt"
  /\ phase' = "connect"
  /\ file' = [file EXCEPT ![Current.id] = [body |-> "rom", chunks |-> 0]]
  /\ refused' = refused \ {Current.id}
  /\ downloaded' = 0
  /\ errorText' = ""
  /\ statusCode' = 0
  /\ UNCHANGED <<queue, at, attempt, lastError, outcome, result>>

\* ios::trunc: whatever the file held is gone.
OpenFile ==
  /\ phase = "attempt"
  /\ phase' = "connect"
  /\ attempt' = attempt + 1
  /\ file' = [file EXCEPT ![Current.id] = [body |-> "rom", chunks |-> 0]]
  /\ refused' = refused \ {Current.id}
  /\ downloaded' = 0
  /\ errorText' = ""
  /\ statusCode' = 0
  /\ UNCHANGED <<queue, at, lastError, outcome, result>>

\* streamGet returns false.
StreamFails(text) ==
  /\ \/ phase = "connect" /\ text \in ConnectErrors \cup ReadErrors
     \/ phase = "body" /\ text \in ReadErrors \cup {WriteError}
  /\ phase' = "closed"
  /\ errorText' = text
  /\ UNCHANGED <<queue, at, attempt, statusCode, downloaded, lastError, file, refused,
                 outcome, result>>

HeadersParsed(code) ==
  /\ phase = "connect"
  /\ phase' = "body"
  /\ statusCode' = code
  /\ UNCHANGED <<queue, at, attempt, errorText, downloaded, lastError, file, refused,
                 outcome, result>>

\* onChunk: whatever the status, the body goes to the file.
Chunk ==
  /\ phase = "body"
  /\ downloaded < MaxChunks
  /\ downloaded' = downloaded + 1
  /\ file' = [file EXCEPT ![Current.id] =
                [body |-> BodyOf(statusCode), chunks |-> @.chunks + 1]]
  /\ UNCHANGED <<queue, at, attempt, phase, errorText, statusCode, lastError, refused, outcome,
                 result>>

\* recv returns 0: streamGet returns true, wherever the body stands.  The
\* result of the flush is not looked at: the buffered tail may be lost.
PeerCloses ==
  /\ phase = "body"
  /\ phase' = "closed"
  /\ \E lost \in 0..file[Current.id].chunks :
       /\ lost <= 1
       /\ file' = [file EXCEPT ![Current.id].chunks = @ - lost]
  /\ UNCHANGED <<queue, at, attempt, errorText, statusCode, downloaded, lastError, refused, outcome,
                 result>>

-----------------------------------------------------------------------------
(* After an attempt: retry, give up, or report the file complete.          *)

Removed == [file EXCEPT ![Current.id] = NoFile]

\* The error of std::filesystem::remove is not looked at: the card may refuse, and
\* then the file stays as it is.
RemoveFile ==
  \/ /\ file' = Removed
     /\ refused' = refused \ {Current.id}
  \/ /\ refused' = refused \cup {Current.id}
     /\ UNCHANGED file

\* Variant: one attempt too many.
TryAgainOnceMore(kind) ==
  /\ attempt <= AttemptsMax
  /\ phase' = "attempt"
  /\ lastError' = kind
  /\ UNCHANGED <<queue, at, attempt, errorText, statusCode, downloaded, outcome, result>>

\* The loop goes round again; the error is kept in case no attempt is left.
TryAgain(kind) ==
  /\ attempt < AttemptsMax
  /\ phase' = "attempt"
  /\ lastError' = kind
  /\ UNCHANGED <<queue, at, attempt, errorText, statusCode, downloaded, outcome, result>>

\* streamGet returned false.
AttemptBroke ==
  /\ phase = "closed"
  /\ errorText # ""
  /\ RemoveFile
  /\ \E kind \in ErrorTextKinds(errorText) :
       LET retryable == kind \in {"Network", "Http", "Unknown"}
       IN  \/ retryable /\ TryAgain(kind)
           \/ (~retryable \/ attempt >= AttemptsMax) /\ Fail(kind)

\* Variant: every status is worth another attempt.
BadStatusAlwaysRetried ==
  /\ phase = "closed"
  /\ errorText = ""
  /\ ~IsSuccessStatus(statusCode)
  /\ RemoveFile
  /\ \/ TryAgain(StatusKind(statusCode))
     \/ attempt >= AttemptsMax /\ Fail(StatusKind(statusCode))

\* Variant: what was written of an answer with a bad status stays.
BadStatusKeepsFile ==
  /\ phase = "closed"
  /\ errorText = ""
  /\ ~IsSuccessStatus(statusCode)
  /\ \/ IsRetryableHttpStatus(statusCode) /\ TryAgain(StatusKind(statusCode))
     \/ /\ ~IsRetryableHttpStatus(statusCode) \/ attempt >= AttemptsMax
        /\ Fail(StatusKind(statusCode))
  /\ UNCHANGED <<file, refused>>

\* streamGet returned true with a status other than success.
BadStatus ==
  /\ phase = "closed"
  /\ errorText = ""
  /\ ~IsSuccessStatus(statusCode)
  /\ RemoveFile
  /\ \/ IsRetryableHttpStatus(statusCode) /\ TryAgain(StatusKind(statusCode))
     \/ /\ ~IsRetryableHttpStatus(statusCode) \/ attempt >= AttemptsMax
        /\ Fail(StatusKind(statusCode))

Oversized == Current.expected > 0 /\ downloaded > Current.expected

TooLong ==
  /\ phase = "closed"
  /\ errorText = ""
  /\ IsSuccessStatus(statusCode)
  /\ Oversized
  /\ RemoveFile
  /\ Fail("Parse")

\* onComplete; then the next request, or return true.
Complete ==
  /\ phase = "closed"
  /\ errorText = ""
  /\ IsSuccessStatus(statusCode)
  /\ ~Oversized
  /\ outcome' = [outcome EXCEPT ![Current.id] = "complete"]
  /\ \/ /\ at < Len(queue)
        /\ phase' = "request"
        /\ at' = at + 1
        /\ UNCHANGED <<queue, attempt, errorText, statusCode, downloaded, result>>
     \/ /\ at = Len(queue)
        /\ EndOfCall
        /\ result' = "true"
  /\ UNCHANGED <<lastError, file, refused>>

-----------------------------------------------------------------------------

\* The console loses power: memory is gone, files stay as they are.
PowerLoss ==
  /\ EndOfCall
  /\ lastError' = "None"
  /\ outcome' = [id \in Id |-> "none"]
  /\ result' = "none"
  /\ refused' = {}
  /\ UNCHANGED file

\* The steps of a running call.
Step ==
  \/ MissingUrl \/ NoDirectory \/ BeginAttempts
  \/ OpenFails \/ OpenFile
  \/ \E text \in ConnectErrors \cup ReadErrors \cup {WriteError} : StreamFails(text)
  \/ \E code \in StatusCodes : HeadersParsed(code)
  \/ Chunk \/ PeerCloses
  \/ AttemptBroke \/ BadStatus \/ TooLong \/ Complete

Next ==
  \/ \E q \in Queues : Call(q)
  \/ Step
  \/ PowerLoss

Spec == Init /\ [][Next]_dlVars

\* Every socket and file operation returns, and no body is endless; nothing
\* obliges the program to make another call.
FairSpec == Spec /\ WF_dlVars(Step)

-----------------------------------------------------------------------------
(* Properties.                                                             *)

TypeOK ==
  /\ queue \in Seq(Request)
  /\ at \in Nat
  /\ attempt \in 0..AttemptsMax
  /\ phase \in Phases
  /\ phase # "idle" => at \in DOMAIN queue
  /\ errorText \in ConnectErrors \cup ReadErrors \cup {WriteError, ""}
  /\ statusCode \in StatusCodes \cup {0}
  /\ downloaded \in 0..MaxChunks
  /\ lastError \in ErrorKinds
  /\ file \in [Id -> [body: {"none", "rom", "page"}, chunks: 0..MaxChunks]]
  /\ refused \subseteq Id
  /\ outcome \in [Id -> {"none", "complete", "failed"}]
  /\ result \in {"none", "true", "false"}

\* The file of a request reported complete holds bytes of a ROM and not the
\* page some server sent instead, in whatever attempt that page arrived.
CompleteMeansRom ==
  \A id \in Id : outcome[id] = "complete" =>
     file[id].body = "rom"

\* While the body arrives the file holds what this attempt handed to it: no
\* remains of earlier attempts, of earlier calls or of a call that a power loss
\* cut off.
FileIsThisAttempt ==
  phase = "body" => file[Current.id].chunks = downloaded

\* A request that is reported failed leaves a file behind that this call wrote only
\* when the card refused to remove that very file, as the last attempt left it; no
\* way out of an attempt forgets it, and no refusal of an earlier attempt excuses it.
OnlyRefusedFilesStay ==
  [][\A id \in Id : outcome[id] # "failed" /\ outcome'[id] = "failed" =>
        \/ file'[id] = NoFile
        \/ id \in refused'
        \/ phase = "request" /\ UNCHANGED file
        \/ phase = "attempt" /\ attempt = 0 /\ UNCHANGED file]_dlVars

\* Nothing is asked again after an answer that will not change: a refused
\* login, a missing ROM, a body that is too long.
NoHopelessRetry ==
  [][phase = "closed" /\ phase' = "attempt" =>
       errorText # "" \/ statusCode \in {429, 503}]_dlVars

\* A call returns, whatever the peer does: no retry goes on for ever.
CallReturns == phase # "idle" ~> phase = "idle"

Contract == INSTANCE FetchContract
              WITH Batch <- {[i \in DOMAIN q |-> q[i].id] : q \in Queues},
                   todo <- [i \in 1..(IF phase = "idle" THEN 0 ELSE Len(queue) - at + 1)
                              |-> queue[at + i - 1].id]

\* Requests are reported in order and once, and a failure ends the call.
KeepsContract == Contract!Spec

\* A transfer that ended because the file could not be written is reported as
\* a filesystem error.
WriteErrorIsFilesystemError ==
  [][\A id \in Id : outcome[id] # "failed" /\ outcome'[id] = "failed" /\ errorText = WriteError
        => lastError' = "Filesystem"]_dlVars
=============================================================================
