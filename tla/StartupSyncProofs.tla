------------------------- MODULE StartupSyncProofs -------------------------
(***************************************************************************)
(* Proofs about StartupSync, for any servers, environments, keys, retries  *)
(* and page guard.                                                         *)
(***************************************************************************)
EXTENDS StartupSync, Induction, TLAPS

-----------------------------------------------------------------------------
(* What an address no request can be sent to makes of every request.       *)

HopelessUrl == UrlError(cfg.serverUrl) # NoError

\* The error of a request to such an address is neither none nor a transient
\* one (isTransientNetError), whatever the network does.
LEMMA HopelessFetch ==
  ASSUME HopelessUrl, NEW exchange
  PROVE  FetchError(exchange) # NoError /\ ~IsTransientNetError(FetchError(exchange))
<1>1. UrlError(cfg.serverUrl) \in {"https not supported", "no http", "no host", "bad port", NoError}
  BY DEF UrlError
<1>2. FetchError(exchange) = UrlError(cfg.serverUrl)
  BY DEF HopelessUrl, FetchError, GetError
<1> QED BY <1>1, <1>2 DEF HopelessUrl, IsTransientNetError, NoError

\* One frame of a startup with such an address.
LEMMA HopelessStep ==
  ASSUME HopelessUrlFailsAtOnce, [StartupNext]_startupVars
  PROVE  HopelessUrlFailsAtOnce'
<1> SUFFICES ASSUME HopelessUrl'
             PROVE  netRetryCount' = 0 /\ netRetryDelayFrames' = 0
                      /\ stage' \notin {"FilterPlatforms", "Complete"}
  BY DEF HopelessUrlFailsAtOnce, HopelessUrl
<1>1. cfg' = cfg
  BY DEF StartupNext, world, startupVars
<1>2. HopelessUrl
  BY <1>1 DEF HopelessUrl
<1>3. netRetryCount = 0 /\ netRetryDelayFrames = 0 /\ stage \notin {"FilterPlatforms", "Complete"}
  BY <1>2 DEF HopelessUrlFailsAtOnce, HopelessUrl
<1>4. CASE UNCHANGED syncVars
  BY <1>3, <1>4 DEF syncVars, requestVars
<1>5. CASE StepStartupSync
  <2>1. CASE WaitRetryDelay
    BY <1>3, <2>1 DEF WaitRetryDelay
  <2>2. CASE InitNetwork
    BY <1>3, <2>2 DEF InitNetwork, FailStartup, requestVars
  <2>3. CASE FetchPlatforms
    <3> PICK exchange : PageArrives(exchange) \/ RetryLater(exchange) \/ FetchGivenUp(exchange)
      BY <2>3 DEF FetchPlatforms
    <3>1. FetchGivenUp(exchange)
      BY <1>2, HopelessFetch DEF PageArrives, RetryLater
    <3> QED BY <1>3, <3>1 DEF FetchGivenUp, FailStartup, requestVars
  <2>4. CASE FilterPlatforms
    BY <1>3, <2>4 DEF FilterPlatforms
  <2>5. CASE CompleteStartup
    BY <1>3, <2>5 DEF CompleteStartup
  <2>6. CASE EndFailed
    BY <1>3, <2>6 DEF EndFailed, requestVars
  <2> QED BY <1>5, <2>1, <2>2, <2>3, <2>4, <2>5, <2>6 DEF StepStartupSync
<1> QED BY <1>4, <1>5 DEF StartupNext, Press, Sync, StartupEnded, startupVars

\* An address no request can be sent to is never retried and never leads past the
\* fetch stage of stepStartupSync, for any environment and any number of retries.
THEOREM HopelessUrlsFail == StartupSpec => []HopelessUrlFailsAtOnce
<1>1. StartupInit => HopelessUrlFailsAtOnce
  BY DEF StartupInit, HopelessUrlFailsAtOnce
<1>2. HopelessUrlFailsAtOnce /\ [StartupNext]_startupVars => HopelessUrlFailsAtOnce'
  BY HopelessStep
<1> QED BY <1>1, <1>2, PTL DEF StartupSpec

-----------------------------------------------------------------------------
(* The screens of the Wii U during startup.                                *)

\* One frame of the Wii U: a key before the end of startup is dropped or quits,
\* and a stage shows the error screen or the platform list.
LEMMA ScreenStep ==
  ASSUME ScreenBelongsToStartup, [StartupNext]_startupVars
  PROVE  ScreenBelongsToStartup'
<1> SUFFICES ASSUME console' = "WiiU", ~finished'
             PROVE  currentView' \in {"PLATFORMS", "ERROR"}
  BY DEF ScreenBelongsToStartup
<1>1. console = "WiiU"
  BY DEF StartupNext, world, startupVars
<1>2. CASE Press
  <2>1. ~finished
    BY <1>2 DEF Press, syncVars
  <2>2. currentView \in {"PLATFORMS", "ERROR"}
    BY <1>1, <2>1 DEF ScreenBelongsToStartup
  <2>3. WiiUPress
    BY <1>1, <1>2 DEF Press, WiiPress
  <2>4. PICK trigger \in VpadKeys :
          (VpadAction(trigger) = "Quit" /\ AppliedEarly("Quit")) \/ UNCHANGED vars
    BY <2>1, <2>3 DEF WiiUPress
  <2>5. AppliedEarly("Quit") => currentView' = currentView
    BY DEF AppliedEarly, ApplyAction, Quit, viewVars, vars
  <2> QED BY <2>2, <2>4, <2>5 DEF vars, viewVars
<1>3. CASE UNCHANGED vars /\ finished' = finished
  BY <1>1, <1>3 DEF ScreenBelongsToStartup, vars, viewVars
<1>4. CASE StepStartupSync
  <2>1. CASE WaitRetryDelay
    BY <1>1, <2>1 DEF WaitRetryDelay, ScreenBelongsToStartup, vars, viewVars
  <2>2. CASE InitNetwork
    BY <1>1, <2>2 DEF InitNetwork, FailStartup, ScreenBelongsToStartup
  <2>3. CASE FetchPlatforms
    <3> PICK exchange : PageArrives(exchange) \/ RetryLater(exchange) \/ FetchGivenUp(exchange)
      BY <2>3 DEF FetchPlatforms
    <3> QED BY <1>1 DEF PageArrives, RetryLater, FetchGivenUp, FailStartup, ScreenBelongsToStartup,
                        vars, viewVars
  <2>4. CASE FilterPlatforms
    BY <1>1, <2>4 DEF FilterPlatforms, FailStartup, ScreenBelongsToStartup
  <2>5. CASE CompleteStartup
    BY <2>5 DEF CompleteStartup
  <2>6. CASE EndFailed
    BY <2>6 DEF EndFailed
  <2> QED BY <1>4, <2>1, <2>2, <2>3, <2>4, <2>5, <2>6 DEF StepStartupSync
<1>5. [StartupNext]_startupVars => Press \/ StepStartupSync \/ (UNCHANGED vars /\ finished' = finished)
  BY DEF StartupNext, Sync, StartupEnded, startupVars, syncVars
<1> QED BY <1>2, <1>3, <1>4, <1>5

\* Until startup is over the Wii U shows the first screen or the error screen,
\* whatever keys are pressed and however the requests end.
THEOREM ScreensBelongToStartup == StartupSpec => []ScreenBelongsToStartup
<1>1. StartupInit => ScreenBelongsToStartup
  BY DEF StartupInit, InitStatus, ScreenBelongsToStartup
<1>2. ScreenBelongsToStartup /\ [StartupNext]_startupVars => ScreenBelongsToStartup'
  BY ScreenStep
<1> QED BY <1>1, <1>2, PTL DEF StartupSpec
-----------------------------------------------------------------------------
(* Held keys on the Wii: resolveWpadPressed, resolveGcPressed.             *)

\* What the code remembers of a frame is what was held in it.
HeldIsRemembered == prevHeld = held

\* When nothing is pressed the frame has no action, wherever the pointer is.
LEMMA NothingPressed ==
  ASSUME NEW target
  PROVE  WiiAction({}, {}, target) = NoAction
<1>1. \A i \in DOMAIN WpadMap : WpadMap[i].keys # {}
  BY DEF WpadMap, Entry
<1>2. \A i \in DOMAIN GcMap : GcMap[i].keys # {}
  BY DEF GcMap, Entry
<1>3. ButtonOf(WpadMap, {}) = "None"
  <2>1. {i \in 1..Len(WpadMap) : WpadMap[i].keys \subseteq {}} = {}
    BY <1>1 DEF WpadMap
  <2> QED BY <2>1 DEF ButtonOf, SelectInSeq
<1>4. ButtonOf(GcMap, {}) = "None"
  <2>1. {i \in 1..Len(GcMap) : GcMap[i].keys \subseteq {}} = {}
    BY <1>2 DEF GcMap
  <2> QED BY <2>1 DEF ButtonOf, SelectInSeq
<1>5. MapButtonToAction("WiiRemote", "None") = NoAction /\ MapButtonToAction("GameCube", "None") = NoAction
  BY DEF MapButtonToAction, NoAction
<1> QED BY <1>3, <1>4, <1>5 DEF WiiAction, NoAction

\* A frame in which no key goes down changes nothing that the user sees.
LEMMA HeldKeysStep ==
  ASSUME HeldIsRemembered, [StartupNext]_startupVars, console = "Wii", atInput,
         held'.wpad \subseteq held.wpad, held'.gc \subseteq held.gc
  PROVE  UNCHANGED vars
<1>1. CASE Press
  <2>1. WiiPress
    BY <1>1 DEF Press, WiiUPress
  <2>2. PICK wpad \in WpadKeys, gc \in GcKeys, target \in Targets, reported \in BOOLEAN :
          LET wpadDown    == IF reported THEN wpad \ held.wpad ELSE {}
              gcDown      == IF reported THEN gc \ held.gc ELSE {}
              wpadPressed == Resolved(wpadDown, wpad, prevHeld.wpad)
              gcPressed   == Resolved(gcDown, gc, prevHeld.gc)
          IN  /\ IF target = "reset" /\ "A" \in wpadPressed
                 THEN UiReset
                 ELSE AppliedEarly(WiiAction(wpadPressed, gcPressed, target))
              /\ held' = [wpad |-> wpad, gc |-> gc]
    BY <2>1 DEF WiiPress
  <2>3. wpad \subseteq held.wpad /\ gc \subseteq held.gc
    BY <2>2
  <2>4. \A down \in {{}, wpad \ held.wpad} : Resolved(down, wpad, prevHeld.wpad) = {}
    BY <2>3 DEF Resolved, HeldIsRemembered
  <2>5. \A down \in {{}, gc \ held.gc} : Resolved(down, gc, prevHeld.gc) = {}
    BY <2>3 DEF Resolved, HeldIsRemembered
  <2>6. AppliedEarly(WiiAction({}, {}, target))
    BY <2>2, <2>4, <2>5
  <2> QED BY <2>6, NothingPressed DEF AppliedEarly, ActingViews, NoAction
<1>2. CASE StartupEnded \/ UNCHANGED startupVars
  BY <1>2 DEF StartupEnded, startupVars
<1> QED BY <1>1, <1>2 DEF StartupNext, Sync

\* A key acts in the frame it goes down in and in no other: every frame
\* remembers all keys that are held, those that acted included.
THEOREM HeldKeysActOnce == StartupSpec => HeldKeyActsOnce
<1>1. StartupInit => HeldIsRemembered
  BY DEF StartupInit, HeldIsRemembered
<1>2. HeldIsRemembered /\ [StartupNext]_startupVars => HeldIsRemembered'
  <2> SUFFICES ASSUME HeldIsRemembered, [StartupNext]_startupVars
               PROVE  HeldIsRemembered'
    OBVIOUS
  <2>1. CASE WiiPress
    BY <2>1 DEF WiiPress, Remembered, HeldIsRemembered
  <2>2. CASE UNCHANGED keyVars
    BY <2>2 DEF keyVars, HeldIsRemembered
  <2> QED BY <2>1, <2>2 DEF StartupNext, Press, Sync, StartupEnded, WiiUPress, startupVars, keyVars
<1>3. HeldIsRemembered /\ [StartupNext]_startupVars
        => [console = "Wii" /\ atInput /\ held'.wpad \subseteq held.wpad /\ held'.gc \subseteq held.gc
              => UNCHANGED vars]_startupVars
  BY HeldKeysStep
<1> QED BY <1>1, <1>2, <1>3, PTL DEF StartupSpec, HeldKeyActsOnce
-----------------------------------------------------------------------------
(* The platforms of a server, page by page (fetchPlatformsPage).           *)

ItemsOn(k) == PlatformsPage(pages[k]).items

\* Every entry on any page of the server.
AllEntries == UNION {{ItemsOn(k)[i] : i \in DOMAIN ItemsOn(k)} : k \in DOMAIN pages}

\* The entries of a page are a sequence.
LEMMA ItemsTyped ==
  ASSUME pages \in Servers, NEW k \in 1..Len(pages)
  PROVE  ItemsOn(k) \in Seq(AllEntries)
<1>1. k \in DOMAIN pages /\ IsFiniteSet(DOMAIN pages[k].objects)
  BY ServerAssumption DEF ServerAssumption
<1> DEFINE items == ItemsOn(k)
<1>2. \E n \in Nat : DOMAIN items = 1..n /\ items = [i \in 1..n |-> items[i]]
  <2> DEFINE keep == {i \in DOMAIN pages[k].objects : HasId(pages[k].objects[i])}
             objects == WithId(pages[k].objects)
  <2>1. Cardinality(keep) \in Nat
    <3>1. keep \subseteq DOMAIN pages[k].objects
      OBVIOUS
    <3> HIDE DEF keep
    <3> QED BY <1>1, <3>1, FS_Subset, FS_CardinalityType
  <2>2. DOMAIN objects = 1..Cardinality(keep)
    BY DEF WithId, KeepPositions
  <2> HIDE DEF keep, objects
  <2>3. items = <<>> \/ items = [i \in DOMAIN objects |-> PlatformEntry(objects[i])]
    BY DEF ItemsOn, PlatformsPage, NoPage, Page, objects
  <2> HIDE DEF items
  <2>4. CASE items = <<>>
    BY <2>4
  <2>5. CASE items = [i \in DOMAIN objects |-> PlatformEntry(objects[i])]
    <3>1. DOMAIN items = 1..Cardinality(keep)
      BY <2>2, <2>5
    <3>2. items = [i \in DOMAIN items |-> items[i]]
      BY <2>5
    <3> QED BY <2>1, <3>1, <3>2
  <2> QED BY <2>3, <2>4, <2>5
<1>3. \A i \in DOMAIN items : items[i] \in AllEntries
  BY <1>1 DEF AllEntries
<1> HIDE DEF items
<1>4. items \in Seq(AllEntries)
  BY <1>2, <1>3
<1> QED BY <1>4 DEF items

\* The first pages: none, and one more.
LEMMA FirstPlatformsFacts ==
  ASSUME pages \in Servers
  PROVE  /\ FirstPlatforms(0) = <<>>
         /\ \A n \in 0..Len(pages) : FirstPlatforms(n) \in Seq(AllEntries)
         /\ \A n \in 0..(Len(pages) - 1) : FirstPlatforms(n + 1) = FirstPlatforms(n) \o ItemsOn(n + 1)
<1> DEFINE N == Len(pages)
           s == [k \in 1..N |-> ItemsOn(k)]
<1>1. N \in Nat
  BY ServerAssumption DEF ServerAssumption
<1>2. s \in [1..N -> Seq(AllEntries)]
  BY ItemsTyped
<1>3. \A k \in 1..N : s[k] = ItemsOn(k)
  OBVIOUS
<1>4. \A n \in 0..N : FirstPlatforms(n) = FlattenSeq([k \in 1..n |-> s[k]])
  <2> TAKE n \in 0..N
  <2>1. \A k \in 1..n : s[k] = PlatformsPage(pages[k]).items
    BY <1>1 DEF ItemsOn
  <2>2. [k \in 1..n |-> s[k]] = [k \in 1..n |-> PlatformsPage(pages[k]).items]
    BY <2>1
  <2> QED BY <2>2 DEF FirstPlatforms
<1> HIDE DEF s, N
<1>5. PICK h \in [0..N -> Seq(AllEntries)] : Sums(h, N, s)
  BY <1>1, <1>2, SumsExist
<1>6. \A n \in 0..N : FirstPlatforms(n) = h[n]
  BY <1>1, <1>2, <1>4, <1>5, FlattenFacts
<1>7. h[0] = <<>> /\ 0 \in 0..N
  BY <1>1, <1>5 DEF Sums
<1>8. ASSUME NEW n \in 0..(N - 1)
      PROVE  FirstPlatforms(n + 1) = FirstPlatforms(n) \o ItemsOn(n + 1)
  <2>1. n + 1 \in 1..N /\ n + 1 \in 0..N /\ n \in 0..N /\ (n + 1) - 1 = n
    BY <1>1
  <2>2. h[n + 1] = Joined(h[n], s[n + 1])
    BY <1>5, <2>1 DEF Sums
  <2> QED BY <1>3, <1>6, <2>1, <2>2 DEF Joined
<1> QED BY <1>6, <1>7, <1>8 DEF N

\* What the filter leaves of a sequence is one.
LEMMA FilteredTyped ==
  ASSUME NEW target, NEW S, NEW list \in Seq(S)
  PROVE  FilteredBy(target, list) \in Seq(S)
<1>1. \A keep \in SUBSET DOMAIN list : KeepPositions(list, keep) \in Seq(S)
  BY KeepPositionsFacts
<1>2. /\ {i \in DOMAIN list : IsPreWiiNintendoPlatform(list[i])} \in SUBSET DOMAIN list
      /\ {i \in DOMAIN list : {list[i].id, list[i].slug, list[i].name} \cap Wanted(target) # {}}
           \in SUBSET DOMAIN list
  OBVIOUS
<1> QED BY <1>1, <1>2 DEF FilteredBy

\* A page that arrives has all the entries of the server's page, and the number
\* of the page that follows unless the connection took it away.
LEMMA ArrivedPage ==
  ASSUME pages \in Servers, platformPage \in 1..Len(pages), NEW exchange,
         FetchError(exchange) = NoError
  PROVE  LET page == PlatformsPage(Answer(platformPage, exchange))
         IN  /\ page.items = ItemsOn(platformPage)
             /\ page.next = PlatformsPage(pages[platformPage]).next \/ page.next = 0
<1> DEFINE body == pages[platformPage]
           answer == Answer(platformPage, exchange)
<1>1. DOMAIN body = {"array", "objects", "next", "cut"} /\ body.cut = "no"
  BY ServerAssumption DEF ServerAssumption
<1>2. answer.array = body.array /\ answer.objects = body.objects /\ answer.next = body.next
  BY <1>1 DEF Answer
<1>3. PlatformsPage(answer).ok
  BY DEF FetchError, NoError
<1> HIDE DEF answer, body
<1>4. answer.array # "none" /\ ListIsClosed(answer)
  BY <1>3 DEF PlatformsPage, NoPage, Page
<1>5. body.array # "none" /\ ListIsClosed(body)
  BY <1>1, <1>2, <1>4 DEF ListIsClosed
<1>6. PlatformsPage(answer).items = PlatformsPage(body).items
  BY <1>2, <1>4, <1>5 DEF PlatformsPage, Page
<1>7. NextPageOf(answer) \in {NoNextPage, NextPageOf(body)}
  BY <1>1, <1>2 DEF NextPageOf
<1>8. PlatformsPage(answer).next = PlatformsPage(body).next \/ PlatformsPage(answer).next = 0
  BY <1>4, <1>5, <1>7 DEF PlatformsPage, Page
<1> QED BY <1>6, <1>8 DEF answer, body, ItemsOn
-----------------------------------------------------------------------------
(* The catalog.                                                            *)

\* The pages fetched so far are the first ones, each once; and they are all, up
\* to the guard or a lost tail, when startup goes on to the filter.
Reached == tailLost \/ platformGuard = Len(pages) \/ platformGuard = PlatformGuard

WantedPlatforms == FilteredBy(cfg.targetPlatformId, FirstPlatforms(platformGuard))

CatalogInvariant ==
  /\ pages \in Servers
  /\ platformGuard \in 0..Len(pages)
  /\ stage \in {"InitNetwork", "FetchPlatforms"} =>
       /\ platformPage = platformGuard + 1
       /\ platformGuard < Len(pages)
       /\ platformGuard < PlatformGuard
  /\ stage \in {"InitNetwork", "FetchPlatforms", "FilterPlatforms"} =>
       ~finished /\ found = FirstPlatforms(platformGuard)
  /\ stage \in {"FilterPlatforms", "Complete"} => netReady /\ Reached
  /\ stage = "FetchPlatforms" => netReady
  /\ stage = "Complete" =>
       /\ WantedPlatforms # <<>>
       /\ IF finished THEN platforms = IdsOf(WantedPlatforms) ELSE found = WantedPlatforms

\* Nothing of it is touched by keys, and by a frame in which nothing is fetched.
LEMMA CatalogUntouched ==
  ASSUME CatalogInvariant, UNCHANGED world, UNCHANGED syncVars,
         stage = "Complete" /\ finished => platforms' = platforms
  PROVE  CatalogInvariant'
BY DEF CatalogInvariant, Reached, WantedPlatforms, FirstPlatforms, world, syncVars, requestVars

\* A page that arrives is the next one.
LEMMA PageArrivesStep ==
  ASSUME CatalogInvariant, UNCHANGED world, stage = "FetchPlatforms", NEW exchange, PageArrives(exchange)
  PROVE  CatalogInvariant'
<1> DEFINE page == PlatformsPage(Answer(platformPage, exchange))
           n == platformGuard
<1>1. /\ pages \in Servers /\ pages' = pages /\ cfg' = cfg
      /\ Len(pages) \in Nat \ {0} /\ DOMAIN pages = 1..Len(pages)
      /\ PlatformGuard \in Nat
      /\ n \in 0..(Len(pages) - 1) /\ n < PlatformGuard
      /\ platformPage = n + 1 /\ platformPage \in 1..Len(pages)
      /\ ~finished /\ netReady /\ found = FirstPlatforms(n)
  BY ServerAssumption, StartupAssumption
     DEF ServerAssumption, StartupAssumption, CatalogInvariant, world
<1>2. /\ FetchError(exchange) = NoError
      /\ found' = found \o page.items
      /\ platformPage' = page.next
      /\ platformGuard' = n + 1
      /\ tailLost' = (tailLost \/ page.next # PlatformsPage(pages[platformPage]).next)
      /\ stage' = IF page.next <= 0 \/ n + 1 >= PlatformGuard THEN "FilterPlatforms" ELSE stage
      /\ finished' = finished /\ netReady' = netReady
  BY DEF PageArrives
<1>3. page.items = ItemsOn(n + 1)
  BY <1>1, <1>2, ArrivedPage
<1>4. /\ page.next = PlatformsPage(pages[platformPage]).next \/ page.next = 0
      /\ PlatformsPage(pages[platformPage]).next = IF n + 1 < Len(pages) THEN n + 2 ELSE 0
  <2>1. PlatformsPage(pages[platformPage]).next
          = IF platformPage < Len(pages) THEN platformPage + 1 ELSE 0
    BY <1>1, ServerAssumption DEF ServerAssumption
  <2>2. page.next = PlatformsPage(pages[platformPage]).next \/ page.next = 0
    BY <1>1, <1>2, ArrivedPage
  <2> QED BY <1>1, <2>1, <2>2
<1> HIDE DEF page
<1>5. found' = FirstPlatforms(n + 1)
  <2>1. FirstPlatforms(n + 1) = FirstPlatforms(n) \o ItemsOn(n + 1)
    BY <1>1, FirstPlatformsFacts
  <2>2. found' = FirstPlatforms(n) \o ItemsOn(n + 1)
    BY ONLY <1>1, <1>2, <1>3, Zenon
  <2> QED BY ONLY <2>1, <2>2, Zenon
<1>6. FirstPlatforms(platformGuard)' = FirstPlatforms(n + 1)
  BY <1>1, <1>2 DEF FirstPlatforms
<1>7. platformGuard' \in 0..Len(pages)
  BY <1>1, <1>2
<1>8. CASE page.next <= 0 \/ n + 1 >= PlatformGuard
  <2>1. stage' = "FilterPlatforms"
    BY <1>2, <1>8
  <2>2. Reached'
    <3>1. CASE n + 1 >= PlatformGuard
      <4>1. n + 1 = PlatformGuard
        BY <1>1, <3>1
      <4> QED BY <1>2, <4>1 DEF Reached
    <3>2. CASE page.next <= 0
      <4>1. CASE page.next = PlatformsPage(pages[platformPage]).next
        <5>1. n + 1 = Len(pages)
          <6>1. n \in 0..(Len(pages) - 1) /\ Len(pages) \in Nat \ {0}
            BY <1>1
          <6>2. (IF n + 1 < Len(pages) THEN n + 2 ELSE 0) <= 0
            BY <1>4, <3>2, <4>1
          <6> HIDE DEF n
          <6> QED BY ONLY <6>1, <6>2
        <5> QED BY <1>1, <1>2, <5>1 DEF Reached
      <4>2. CASE page.next # PlatformsPage(pages[platformPage]).next
        BY <1>2, <4>2 DEF Reached
      <4> QED BY <4>1, <4>2
    <3> QED BY <1>8, <3>1, <3>2
  <2> QED BY <1>1, <1>2, <1>5, <1>6, <1>7, <2>1, <2>2 DEF CatalogInvariant
<1>9. CASE ~(page.next <= 0 \/ n + 1 >= PlatformGuard)
  <2>1. stage' = "FetchPlatforms" /\ platformPage' = n + 2 /\ n + 1 < Len(pages) /\ n + 1 < PlatformGuard
    BY <1>1, <1>2, <1>4, <1>9
  <2> QED BY <1>1, <1>2, <1>5, <1>6, <1>7, <2>1 DEF CatalogInvariant
<1> QED BY <1>8, <1>9

\* One frame of startup.
LEMMA CatalogStep ==
  ASSUME CatalogInvariant, [StartupNext]_startupVars
  PROVE  CatalogInvariant'
<1>0. UNCHANGED world
  BY DEF StartupNext, startupVars
<1>1. CASE Press
  <2>1. ~(stage = "Complete" /\ finished)
    BY <1>1 DEF Press, StartupSyncReady, CatalogInvariant
  <2> QED BY <1>0, <1>1, <2>1, CatalogUntouched DEF Press
<1>2. CASE UNCHANGED <<vars, syncVars>>
  <2>1. platforms' = platforms
    BY <1>2 DEF vars, catalogVars
  <2> QED BY <1>0, <1>2, <2>1, CatalogUntouched
<1>3. CASE StepStartupSync /\ ~finished
  <2>0. /\ pages' = pages /\ cfg' = cfg
        /\ \A n : FirstPlatforms(n)' = FirstPlatforms(n)
    BY <1>0 DEF world, FirstPlatforms
  <2>1. CASE WaitRetryDelay
    BY <1>0, <1>3, <2>1 DEF WaitRetryDelay, CatalogInvariant, Reached, WantedPlatforms, FirstPlatforms, world
  <2>2. CASE InitNetwork
    BY <1>0, <1>3, <2>2 DEF InitNetwork, FailStartup, CatalogInvariant, FirstPlatforms, world, requestVars
  <2>3. CASE FetchPlatforms
    <3>1. PICK exchange : PageArrives(exchange) \/ RetryLater(exchange) \/ FetchGivenUp(exchange)
      BY <2>3 DEF FetchPlatforms
    <3>2. stage = "FetchPlatforms"
      BY <2>3 DEF FetchPlatforms
    <3>3. CASE PageArrives(exchange)
      BY <1>0, <3>2, <3>3, PageArrivesStep
    <3>4. CASE RetryLater(exchange)
      BY <1>0, <3>2, <3>4 DEF RetryLater, CatalogInvariant, FirstPlatforms, world
    <3>5. CASE FetchGivenUp(exchange)
      BY <1>0, <3>2, <3>5 DEF FetchGivenUp, FailStartup, CatalogInvariant, world, requestVars
    <3> QED BY <3>1, <3>3, <3>4, <3>5
  <2>4. CASE FilterPlatforms
    BY <1>0, <1>3, <2>4
       DEF FilterPlatforms, FailStartup, CatalogInvariant, Reached, WantedPlatforms, FirstPlatforms, world
  <2>5. CASE CompleteStartup
    BY <1>0, <1>3, <2>5 DEF CompleteStartup, CatalogInvariant, Reached, WantedPlatforms, FirstPlatforms, world
  <2>6. CASE EndFailed
    BY <1>0, <1>3, <2>6 DEF EndFailed, CatalogInvariant, world, requestVars
  <2> QED BY <1>3, <2>1, <2>2, <2>3, <2>4, <2>5, <2>6 DEF StepStartupSync
<1>4. [StartupNext]_startupVars =>
        Press \/ UNCHANGED <<vars, syncVars>> \/ (StepStartupSync /\ ~finished)
  BY DEF StartupNext, Sync, StartupEnded, startupVars
<1> QED BY <1>1, <1>2, <1>3, <1>4

\* What a session starts with is the server's list, filtered, in order, each page
\* once and none left out, however many requests failed in between, and it is
\* never empty, for any number of pages, retries and entries.
THEOREM CatalogsAreWhole == StartupSpec => []CatalogIsWhole
<1>1. StartupInit => CatalogInvariant
  BY FirstPlatformsFacts, ServerAssumption, StartupAssumption
     DEF StartupInit, CatalogInvariant, ServerAssumption, StartupAssumption
<1>2. CatalogInvariant /\ [StartupNext]_startupVars => CatalogInvariant'
  BY CatalogStep
<1>3. CatalogInvariant => CatalogIsWhole
  <2> SUFFICES ASSUME CatalogInvariant, stage = "Complete"
               PROVE  CatalogIsWhole
    BY DEF CatalogIsWhole
  <2>1. FirstPlatforms(platformGuard) \in Seq(AllEntries)
    BY FirstPlatformsFacts DEF CatalogInvariant
  <2>2. WantedPlatforms \in Seq(AllEntries) /\ WantedPlatforms # <<>>
    BY <2>1, FilteredTyped DEF WantedPlatforms, CatalogInvariant
  <2>3. IdsOf(WantedPlatforms) # <<>>
    <3>1. DOMAIN WantedPlatforms # {}
      <4> DEFINE w == WantedPlatforms
      <4>1. w \in Seq(AllEntries) /\ w # <<>>
        BY <2>2
      <4> HIDE DEF w
      <4>2. Len(w) \in Nat /\ Len(w) # 0 /\ DOMAIN w = 1..Len(w)
        BY <4>1
      <4> QED BY <4>2 DEF w
    <3>2. DOMAIN IdsOf(WantedPlatforms) = DOMAIN WantedPlatforms
      BY DEF IdsOf
    <3> QED BY <3>1, <3>2
  <2>4. Reached /\ (IF finished THEN platforms ELSE IdsOf(found)) = IdsOf(WantedPlatforms)
    BY DEF CatalogInvariant
  <2> QED BY <2>3, <2>4 DEF CatalogIsWhole, Reached, WantedPlatforms
<1> QED BY <1>1, <1>2, <1>3, PTL DEF StartupSpec
=============================================================================
