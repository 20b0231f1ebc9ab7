---------------------------- MODULE StartupSync ----------------------------
(***************************************************************************)
(* Startup of both applications: the configuration (Config), the stages of *)
(* stepStartupSync (core/runtime_sync.cpp), one step per frame, with their *)
(* requests (HttpGet), the pages that come back (ApiClient) and the filter *)
(* (PlatformFilter), between the key presses (Controls) of a user who may  *)
(* already be on any screen.  Each request may go wrong in each of the     *)
(* ways the client can tell, and in one it cannot: the connection closes   *)
(* behind the list and takes the number of the next page with it.          *)
(* Startup is over for this module when it has succeeded: what follows are *)
(* the frames of WiiMain and RealDownloads.                                *)
(***************************************************************************)
EXTENDS Controls, Config, ApiClient, PlatformFilter

CONSTANTS
  Servers,        \* the lists of pages of platforms a server may have, as bodies of answers
  Envs,           \* the environments the application may be started in
  WpadKeys, GcKeys, VpadKeys,  \* the sets of keys that may be held, or on the Wii U triggered
  Targets,        \* what the pointer may be on, a subset of PointerTargets
  PlatformGuard,  \* the most pages that are fetched, 64 in the code
  MaxNetRetries,  \* 3 in the code
  RetryFrames     \* frames to wait per retry so far, 30 in the code

ASSUME StartupAssumption ==
  /\ Targets \subseteq PointerTargets
  /\ PlatformGuard \in Nat \ {0}
  /\ MaxNetRetries \in Nat
  /\ RetryFrames \in Nat

\* A server has its platforms on pages that follow one another: each but the last
\* names its successor.
ASSUME ServerAssumption ==
  \A server \in Servers :
    /\ Len(server) \in Nat \ {0}
    /\ DOMAIN server = 1..Len(server)
    /\ \A k \in DOMAIN server :
         /\ DOMAIN server[k] = {"array", "objects", "next", "cut"}
         /\ IsFiniteSet(DOMAIN server[k].objects)
         /\ server[k].cut = "no"
         /\ PlatformsPage(server[k]).next = IF k < Len(server) THEN k + 1 ELSE 0

VARIABLES
  console, cfg, pages,   \* "Wii" or "WiiU", AppConfig and the server's pages; never changed
  stage, finished, netReady,
  found,                 \* startup.platforms
  platformPage,          \* the page to fetch next, 0 after the last one
  platformGuard, netRetryCount, netRetryDelayFrames,
  tailLost,              \* an answer broke off between its list and its next_page (not in the code)
  held, prevHeld,        \* Wii: the keys held in the frame before, and what the code remembers of it
  atInput                \* TRUE before the key press of a frame, FALSE before its step

requestVars == <<found, platformPage, platformGuard, netRetryCount, netRetryDelayFrames, tailLost>>

syncVars == <<stage, finished, netReady, requestVars>>

keyVars == <<held, prevHeld>>

world == <<console, cfg, pages>>

startupVars == <<vars, syncVars, keyVars, atInput, world>>

NoKeys == [wpad |-> {}, gc |-> {}]

\* Both programs go on with whatever applyEnvOverrides has made of the defaults;
\* the Wii then sets its target.
ConfigOf(env) ==
  LET overridden == ApplyEnvOverrides(DefaultConfig, env).cfg
  IN  IF console = "Wii" THEN [overridden EXCEPT !.targetPlatformId = <<"pre-wii">>]
                         ELSE overridden

StartupInit ==
  /\ InitStatus
  /\ platforms = <<>>
  /\ roms = [p \in Platform |-> <<>>]
  /\ console \in {"Wii", "WiiU"}
  /\ \E env \in Envs : cfg = ConfigOf(env)
  /\ pages \in Servers
  /\ stage = "InitNetwork"
  /\ finished = FALSE
  /\ netReady = FALSE
  /\ found = <<>>
  /\ platformPage = 1
  /\ platformGuard = 0
  /\ netRetryCount = 0
  /\ netRetryDelayFrames = 0
  /\ tailLost = FALSE
  /\ held = NoKeys
  /\ prevHeld = NoKeys
  /\ atInput = TRUE

-----------------------------------------------------------------------------
(* A request: fetchPlatformsPage and isTransientNetError.                  *)

\* What becomes of a request goes wrong in one place at most.
SoundExchange == [breaks |-> NoError, terminated |-> TRUE, status |-> 200, cut |-> "no"]

Exchanges ==
  {SoundExchange, [SoundExchange EXCEPT !.terminated = FALSE]}
    \cup {[SoundExchange EXCEPT !.breaks = s] : s \in Steps}
    \cup {[SoundExchange EXCEPT !.status = n] : n \in {0, 401, 503}}
    \cup {[SoundExchange EXCEPT !.cut = c] : c \in {"list", "tail"}}

Answer(page, exchange) == [pages[page] EXCEPT !.cut = exchange.cut]

FetchError(exchange) ==
  LET error == GetError(cfg.serverUrl, exchange, console = "Wii")
  IN  IF error # NoError THEN error
      ELSE IF PlatformsPage(Answer(platformPage, exchange)).ok THEN NoError ELSE "no list"

\* Variant: every error may pass.
EverythingIsTransient(error) == error # NoError

IsTransientNetError(error) ==
  error \in {"socket connect failed", "DNS lookup failed", "socket write failed", "socket read failed"}

-----------------------------------------------------------------------------
(* The stages.  Every failure shows the error screen and ends startup.     *)

FailStartup ==
  /\ stage' = "Failed"
  /\ currentView' = "ERROR"

\* What no stage but the last changes of Status, beyond the screen.
restOfStatus == <<prevQueueView, prevDiagnosticsView, prevUpdaterView, catalogVars, selectionVars,
                  filterVars, queueVars, workerVars, updaterVars, keepRunning>>

WaitRetryDelay ==
  /\ netRetryDelayFrames > 0
  /\ netRetryDelayFrames' = netRetryDelayFrames - 1
  /\ UNCHANGED <<vars, stage, finished, netReady, found, platformPage, platformGuard, netRetryCount,
                 tailLost>>

\* The Wii U has its network up before the program starts.
InitNetwork ==
  /\ stage = "InitNetwork"
  /\ netReady' \in (IF console = "Wii" THEN BOOLEAN ELSE {TRUE})
  /\ IF netReady' THEN stage' = "FetchPlatforms" /\ UNCHANGED currentView ELSE FailStartup
  /\ UNCHANGED <<restOfStatus, finished, requestVars>>

PageArrives(exchange) ==
  LET page == PlatformsPage(Answer(platformPage, exchange))
  IN  /\ FetchError(exchange) = NoError
      /\ found' = found \o page.items
      /\ platformPage' = page.next
      /\ platformGuard' = platformGuard + 1
      /\ netRetryCount' = 0
      /\ tailLost' = (tailLost \/ page.next # PlatformsPage(pages[platformPage]).next)
      /\ stage' = IF page.next <= 0 \/ platformGuard' >= PlatformGuard THEN "FilterPlatforms" ELSE stage
      /\ UNCHANGED <<vars, finished, netReady, netRetryDelayFrames>>

\* Variant: a retry starts over with the first page.
RetryFromFirstPage(exchange) ==
  /\ IsTransientNetError(FetchError(exchange))
  /\ netRetryCount < MaxNetRetries
  /\ netRetryCount' = netRetryCount + 1
  /\ netRetryDelayFrames' = RetryFrames * netRetryCount'
  /\ platformPage' = 1
  /\ UNCHANGED <<vars, stage, finished, netReady, found, platformGuard, tailLost>>

\* Variant: retries are not counted.
RetryUncounted(exchange) ==
  /\ IsTransientNetError(FetchError(exchange))
  /\ netRetryDelayFrames' = RetryFrames * (netRetryCount + 1)
  /\ UNCHANGED <<vars, stage, finished, netReady, found, platformPage, platformGuard, netRetryCount,
                 tailLost>>

\* A transient network error: the same page is asked for again, later.
RetryLater(exchange) ==
  /\ IsTransientNetError(FetchError(exchange))
  /\ netRetryCount < MaxNetRetries
  /\ netRetryCount' = netRetryCount + 1
  /\ netRetryDelayFrames' = RetryFrames * netRetryCount'
  /\ UNCHANGED <<vars, stage, finished, netReady, found, platformPage, platformGuard, tailLost>>

\* Any other error, or a transient one after the last retry.
FetchGivenUp(exchange) ==
  /\ FetchError(exchange) # NoError
  /\ IsTransientNetError(FetchError(exchange)) => netRetryCount >= MaxNetRetries
  /\ FailStartup
  /\ UNCHANGED <<restOfStatus, finished, netReady, requestVars>>

FetchPlatforms ==
  /\ stage = "FetchPlatforms"
  /\ \E exchange \in Exchanges :
       PageArrives(exchange) \/ RetryLater(exchange) \/ FetchGivenUp(exchange)

\* No platform at all, or none that is wanted, is a failure.
FilterPlatforms ==
  LET wanted == FilteredBy(cfg.targetPlatformId, found)
  IN  /\ stage = "FilterPlatforms"
      /\ IF wanted = <<>> THEN FailStartup /\ UNCHANGED found
                          ELSE stage' = "Complete" /\ found' = wanted /\ UNCHANGED currentView
      /\ UNCHANGED <<restOfStatus, finished, netReady, platformPage, platformGuard, netRetryCount,
                     netRetryDelayFrames, tailLost>>

IdsOf(entries) == [i \in DOMAIN entries |-> entries[i].id]

\* The list is moved into Status and the platform list opens on its first row.
CompleteStartup ==
  /\ stage = "Complete"
  /\ platforms' = IdsOf(found)
  /\ found' = <<>>
  /\ selectedPlatformIndex' = 0
  /\ selectedRomIndex' = 0
  /\ currentView' = "PLATFORMS"
  /\ finished' = TRUE
  /\ UNCHANGED <<prevQueueView, prevDiagnosticsView, prevUpdaterView, roms, selectedQueueIndex,
                 filterVars, queueVars, workerVars, updaterVars, keepRunning, stage, netReady,
                 platformPage, platformGuard, netRetryCount, netRetryDelayFrames, tailLost>>

EndFailed ==
  /\ stage = "Failed"
  /\ finished' = TRUE
  /\ UNCHANGED <<vars, stage, netReady, requestVars>>

StepStartupSync ==
  \/ WaitRetryDelay
  \/ /\ netRetryDelayFrames = 0
     /\ InitNetwork \/ FetchPlatforms \/ FilterPlatforms \/ CompleteStartup \/ EndFailed

StartupSyncReady == finished /\ stage # "Failed" /\ netReady

-----------------------------------------------------------------------------
(* The frame: keys, then the step.                                         *)

\* The library says which keys went down since the frame before, or misses it.
WiiPress ==
  /\ console = "Wii"
  /\ \E wpad \in WpadKeys, gc \in GcKeys, target \in Targets, reported \in BOOLEAN :
       LET wpadDown    == IF reported THEN wpad \ held.wpad ELSE {}
           gcDown      == IF reported THEN gc \ held.gc ELSE {}
           wpadPressed == Resolved(wpadDown, wpad, prevHeld.wpad)
           gcPressed   == Resolved(gcDown, gc, prevHeld.gc)
       IN  /\ target = "Select" => currentView = "PLATFORMS"
           /\ IF target = "reset" /\ "A" \in wpadPressed
              THEN UiReset
              ELSE AppliedEarly(WiiAction(wpadPressed, gcPressed, target))
           /\ held' = [wpad |-> wpad, gc |-> gc]
           /\ prevHeld' = [wpad |-> Remembered(wpadDown, wpad, prevHeld.wpad),
                           gc   |-> Remembered(gcDown, gc, prevHeld.gc)]

\* Variant: the Wii U takes every key from the first frame on.
WiiUPressAnything ==
  /\ console = "WiiU"
  /\ \E trigger \in VpadKeys : AppliedEarly(VpadAction(trigger))
  /\ UNCHANGED keyVars

\* The Wii U drops every key but Quit until startup is over.
WiiUPress ==
  /\ console = "WiiU"
  /\ \E trigger \in VpadKeys :
       IF finished \/ VpadAction(trigger) = "Quit" THEN AppliedEarly(VpadAction(trigger))
                                                   ELSE UNCHANGED vars
  /\ UNCHANGED keyVars

Press ==
  /\ atInput
  /\ keepRunning
  /\ ~StartupSyncReady
  /\ WiiPress \/ WiiUPress
  /\ atInput' = FALSE
  /\ UNCHANGED syncVars

\* The rest of a frame, tickDownload, finds an empty queue: there are no ROMs yet.
Sync ==
  /\ ~atInput
  /\ keepRunning
  /\ IF finished THEN UNCHANGED <<vars, syncVars>> ELSE StepStartupSync
  /\ atInput' = TRUE
  /\ UNCHANGED keyVars

StartupEnded == (~keepRunning \/ StartupSyncReady) /\ UNCHANGED startupVars

StartupNext == (Press \/ Sync \/ StartupEnded) /\ UNCHANGED world

StartupSpec == StartupInit /\ [][StartupNext]_startupVars

\* The loop runs one frame after the other, with or without key presses.
StartupFairSpec == StartupSpec /\ WF_startupVars((Press \/ Sync) /\ UNCHANGED world)

-----------------------------------------------------------------------------
(* Properties.                                                             *)

\* The platforms on the first n pages of the server, in order.
FirstPlatforms(n) ==
  FlattenSeq([k \in 1..n |-> PlatformsPage(pages[k]).items])

\* What a session starts with is the server's list without loss, duplicate or
\* disorder, filtered: retries in the middle of it leave no trace.  It ends early
\* only at the page guard, or where a lost tail has hidden that there is more.
\* And it is never empty: then startup has failed and says so.
CatalogIsWhole ==
  stage = "Complete" =>
    LET shown  == IF finished THEN platforms ELSE IdsOf(found)
        wanted == FilteredBy(cfg.targetPlatformId, FirstPlatforms(platformGuard))
    IN  /\ shown = IdsOf(wanted)
        /\ shown # <<>>
        /\ tailLost \/ platformGuard = Len(pages) \/ platformGuard = PlatformGuard

\* Until startup is over a Wii U shows the first screen or the error screen:
\* no key moves it away from what the stages show.
ScreenBelongsToStartup ==
  console = "WiiU" /\ ~finished => currentView \in {"PLATFORMS", "ERROR"}

\* An address no request can be sent to, however it got past the validation of
\* the configuration, ends startup at the first request: nothing is waited for.
HopelessUrlFailsAtOnce ==
  UrlError(cfg.serverUrl) # NoError =>
    netRetryCount = 0 /\ netRetryDelayFrames = 0 /\ stage \notin {"FilterPlatforms", "Complete"}

\* A key acts in the frame it goes down in and in no other, whether the library
\* reports the change or only what is held: holding keys, or letting go, does nothing.
HeldKeyActsOnce ==
  [][console = "Wii" /\ atInput /\ held'.wpad \subseteq held.wpad /\ held'.gc \subseteq held.gc
       => UNCHANGED vars]_startupVars

\* Startup comes to an end whatever the network does.
StartupSettles == <>(finished \/ ~keepRunning)

\* "Some servers omit family fields entirely; in that case we fall back to
\* platform tokens" (isPreWiiNintendoPlatform): a platform of such a server that
\* the tokens allow is not filtered out.
FallsBackToTokens ==
  stage = "FilterPlatforms" /\ IsPreWiiTarget(cfg.targetPlatformId) =>
    \A i \in DOMAIN found :
      found[i].familySlug = "" /\ found[i].familyName = "" /\ AllowedByTokens(found[i]) =>
        found[i] \in ToSet(FilteredBy(cfg.targetPlatformId, found))
=============================================================================
