\* Sessions and power losses over one card.
SPECIFICATION CardSpec
CONSTANTS
  Platform = {"p"}
  Rom = {1, 2}
  Catalog <- MCCatalog
  CatalogRoms <- MCCatalogRoms
  Title <- MCTitle
  SizeMb <- MCSizeMb
  NumTerms = 0
  TitleHits <- MCNone
  PlatformHits <- MCNone
  Inputs = {"Down", "Select", "StartDownload", "Back"}
  Elapsed = {160}
  Full = 2
  FailAt = 2
  MaxAttempts = 1
  PartFiles <- MCPartFiles
  ExpectedBytes = 4
  MaxLogBytes = 4
  LineBytes = {2, 4}
  SizeModulus = 16
INVARIANTS
  NoDuplicateDownloads
  RunningWorkerIsConsistent
  ResumesBehindWholeBytes
  LogStaysBounded
