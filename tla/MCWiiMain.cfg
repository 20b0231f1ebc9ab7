\* The Wii main loop with its index worker; one ROM per page.
SPECIFICATION WiiFairSpec
CONSTANTS
  Platform = {"p1", "p2"}
  Rom = {1, 2, 3}
  Catalog <- MCCatalog
  CatalogRoms <- MCRoms
  Title <- MCTitle
  SizeMb <- MCSize
  NumTerms = 0
  TitleHits <- MCNoHits
  PlatformHits <- MCNoHits
  Inputs <- MCWiiInputs
  Elapsed = {}
  Full = 2
  FailAt = 2
  MaxAttempts = 1
  Nameless = {}
  PageLimit = 1
  NamesNextPage = TRUE
  PageGuard = 2
  NoPlatform = "none"
  LeftPage = 2
  RightPage = 2
INVARIANTS
  NoListOpenWhileIndexing
PROPERTIES
  WiiImplementsCatalog
  UsesWorkerAsSpecified
  RequestBecomesList
  QuitEnds
