\* Three ROMs through the real downloader; every outcome of every transfer.
SPECIFICATION RealFairSpec
CONSTANTS
  Platform = {"p1", "p2"}
  Rom = {1, 2, 3, 4, 5}
  Catalog <- MCCatalog
  CatalogRoms <- MCRoms
  Title <- MCTitle
  SizeMb <- MCSize
  NumTerms = 0
  TitleHits <- MCNoHits
  PlatformHits <- MCNoHits
  Inputs <- MCRealInputs
  Elapsed = {}
  Full = 2
  FailAt = 2
  MaxAttempts = 1
  Nameless = {4}
  PageLimit = 2
  NamesNextPage = FALSE
  PageGuard = 2
  NoPlatform = "none"
PROPERTIES
  RunLosesNothing
  RunTriesEverything
  RunReturns
  ImplementsCatalog
