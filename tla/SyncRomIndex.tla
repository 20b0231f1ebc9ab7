---------------------------- MODULE SyncRomIndex ----------------------------
(***************************************************************************)
(* The ROM lists of the platforms, as the main loops themselves fetch them *)
(* (core/runtime_sync.cpp): the whole list within one frame on the Wii U,  *)
(* one page per frame on a Wii whose worker thread could not be started.   *)
(* ROM lists start empty.  A request fails or is answered with a page of   *)
(* CatalogRoms; the platform list does not change after startup, so the    *)
(* index of a platform in it needs no second look and is left out.         *)
(***************************************************************************)
EXTENDS AppCore, ApiClient

CONSTANTS
  Nameless,       \* objects in the lists of the server that have no id
  PageLimit,      \* ROMs asked for per page, 64 in the code
  NamesNextPage,  \* the server's answers have a next_page
  PageGuard,      \* the most pages fetched of a list, 256 in the code
  NoPlatform      \* the empty platform id

ASSUME IndexAssumption ==
  /\ Nameless \subseteq Rom
  /\ PageLimit \in Nat \ {0}
  /\ NamesNextPage \in BOOLEAN
  /\ PageGuard \in Nat \ {0}
  /\ NoPlatform \notin Platform

VARIABLES
  indexed,    \* runtime.indexedPlatformIds
  romIndex    \* PlatformRomIndexState

indexVars == <<indexed, romIndex>>

NoIndex == [active |-> FALSE, platformId |-> NoPlatform, romPage |-> 1, romGuard |-> 0]

IndexInit ==
  /\ InitStatus
  /\ platforms = Catalog
  /\ roms = [p \in Platform |-> <<>>]
  /\ indexed = {}
  /\ romIndex = NoIndex

-----------------------------------------------------------------------------
(* The pages of a list.                                                    *)

Smaller(a, b) == IF a < b THEN a ELSE b

RomObject(r) == IF r \in Nameless THEN <<>> ELSE <<Field("id", "number", r)>>

\* The server's answer to a request for limit ROMs from an offset on.
RomsBody(p, offset, limit) ==
  LET rows == SubSeq(CatalogRoms[p], offset + 1, Smaller(offset + limit, Len(CatalogRoms[p])))
  IN  [array   |-> "items",
       objects |-> [i \in DOMAIN rows |-> RomObject(rows[i])],
       next    |-> IF ~NamesNextPage THEN NoNextPage
                   ELSE IF offset + limit < Len(CatalogRoms[p]) THEN offset \div limit + 2 ELSE 0,
       cut     |-> "no"]

\* fetchRomsPage, when nothing fails.
FetchRomsPage(p, page) ==
  RomsPage(RomsBody(p, RomsOffset(page, PageLimit), PageLimit), page, PageLimit)

\* The list so far and the next page, after one more page of platform p.
OnePageMore(p, sofar) ==
  IF sofar.next = 0 THEN sofar
  ELSE LET page == FetchRomsPage(p, sofar.next)
       IN  [list |-> sofar.list \o page.items, next |-> page.next]

\* The same after n pages, for every platform, as a table that TLC fills once.
AfterPages ==
  [p \in Platform |->
     LET after[n \in 0..(PageGuard + 1)] ==
           IF n = 0 THEN [list |-> <<>>, next |-> 1] ELSE OnePageMore(p, after[n - 1])
     IN  [n \in 0..(PageGuard + 1) |-> after[n]]]

FirstPages(p, n) == AfterPages[p][n].list

\* The pages a platform has, as far as the guard can tell.
PagesOf ==
  [p \in Platform |->
     CHOOSE n \in 1..(PageGuard + 1) :
       /\ n <= PageGuard => AfterPages[p][n].next = 0
       /\ \A k \in 1..(n - 1) : AfterPages[p][k].next # 0]

-----------------------------------------------------------------------------
(* Within one frame: indexSelectedPlatformRoms.                            *)

\* Variant: a list that is cut short by an error counts as indexed.
IndexSelectedAnyway(p, ok) ==
  \/ /\ p \in indexed
     /\ ok
     /\ UNCHANGED <<roms, indexed>>
  \/ /\ p \notin indexed
     /\ \E n \in 0..Smaller(PagesOf[p], PageGuard) :
          /\ ok <=> n = Smaller(PagesOf[p], PageGuard)
          /\ roms' = [roms EXCEPT ![p] = FirstPages(p, n)]
     /\ indexed' = indexed \cup {p}

\* A failure leaves the pages before it in the list; the guard is no failure.
IndexSelectedPlatformRoms(p, ok) ==
  \/ /\ p \in indexed
     /\ ok
     /\ UNCHANGED <<roms, indexed>>
  \/ /\ p \notin indexed
     /\ \E n \in 0..Smaller(PagesOf[p], PageGuard) :
          /\ ok <=> n = Smaller(PagesOf[p], PageGuard)
          /\ roms' = [roms EXCEPT ![p] = FirstPages(p, n)]
     /\ indexed' = IF ok THEN indexed \cup {p} ELSE indexed

-----------------------------------------------------------------------------
(* A page per frame: beginSelectedPlatformRomIndex on a Select, and        *)
(* stepPlatformRomIndex in every frame.                                    *)

\* Variant: an index of another platform goes on.
OpenIndexedKeepingIndex ==
  /\ SelectedPlatform \in indexed
  /\ currentView' = "ROMS"
  /\ selectedRomIndex' = 0
  /\ UNCHANGED <<roms, romIndex>>

\* The list is there: it opens, and an index of another platform is dropped.
OpenIndexed ==
  /\ SelectedPlatform \in indexed
  /\ currentView' = "ROMS"
  /\ selectedRomIndex' = 0
  /\ romIndex' = NoIndex
  /\ UNCHANGED roms

AlreadyIndexing ==
  /\ SelectedPlatform \notin indexed
  /\ romIndex.active
  /\ romIndex.platformId = SelectedPlatform
  /\ UNCHANGED <<currentView, selectedRomIndex, romIndex, roms>>

\* What an index that failed or was dropped has left in the list goes away.
StartIndex ==
  /\ SelectedPlatform \notin indexed
  /\ ~(romIndex.active /\ romIndex.platformId = SelectedPlatform)
  /\ romIndex' = [active |-> TRUE, platformId |-> SelectedPlatform, romPage |-> 1, romGuard |-> 0]
  /\ roms' = [roms EXCEPT ![SelectedPlatform] = <<>>]
  /\ selectedRomIndex' = 0
  /\ UNCHANGED currentView

BeginSelectedPlatformRomIndex ==
  /\ platforms # <<>>
  /\ OpenIndexed \/ AlreadyIndexing \/ StartIndex
  /\ UNCHANGED indexed

\* The 0-based row of a platform: findPlatformIndexById.
PlatformRow(p) == (CHOOSE i \in DOMAIN platforms : platforms[i] = p) - 1

\* A page that is not the last one.
IndexPage ==
  LET p == romIndex.platformId  page == FetchRomsPage(p, romIndex.romPage)
  IN  /\ romIndex.active
      /\ page.next # 0
      /\ romIndex.romGuard + 1 < PageGuard
      /\ roms' = [roms EXCEPT ![p] = @ \o page.items]
      /\ romIndex' = [romIndex EXCEPT !.romPage = page.next, !.romGuard = @ + 1]
      /\ UNCHANGED <<indexed, currentView, selectedPlatformIndex, selectedRomIndex>>

\* The last page, or the last that is fetched: the list opens on its platform.
IndexEnds ==
  LET p == romIndex.platformId  page == FetchRomsPage(p, romIndex.romPage)
  IN  /\ romIndex.active
      /\ page.next = 0 \/ romIndex.romGuard + 1 >= PageGuard
      /\ roms' = [roms EXCEPT ![p] = @ \o page.items]
      /\ indexed' = indexed \cup {p}
      /\ romIndex' = [romIndex EXCEPT !.active = FALSE, !.romPage = page.next, !.romGuard = @ + 1]
      /\ selectedPlatformIndex' = PlatformRow(p)
      /\ selectedRomIndex' = 0
      /\ currentView' = "ROMS"

\* An error ends the index and leaves the pages before it in the list.
IndexFails ==
  /\ romIndex.active
  /\ romIndex' = [romIndex EXCEPT !.active = FALSE]
  /\ UNCHANGED <<roms, indexed, currentView, selectedPlatformIndex, selectedRomIndex>>

StepPlatformRomIndex ==
  \/ ~romIndex.active /\ UNCHANGED <<roms, indexVars, currentView, selectedPlatformIndex, selectedRomIndex>>
  \/ IndexPage
  \/ IndexEnds
  \/ IndexFails

-----------------------------------------------------------------------------
(* What the lists have to be.                                              *)

\* The server's list of a platform up to the guard, without what has no id.
ListUpTo(p, count) ==
  KeepPositions(CatalogRoms[p],
                {i \in 1..Smaller(count, Len(CatalogRoms[p])) : CatalogRoms[p][i] \notin Nameless})

\* As long as the loops can fetch it, and all of it, for every platform.
ListToGuard == [p \in Platform |-> ListUpTo(p, PageGuard * PageLimit)]

WholeList == [p \in Platform |-> ListUpTo(p, Len(CatalogRoms[p]))]

ShownPlatform == IF currentView \in {"ROMS", "DETAIL"} THEN SelectedPlatform ELSE NoPlatform
=============================================================================
