\* Three ROMs through the queue and the simulated worker, ticks and the user free.
SPECIFICATION Spec
CONSTANTS
  Platform = {"p1"}
  Rom = {1, 2, 3}
  Catalog <- MCOnePlatform
  CatalogRoms <- MCListAll
  Title <- MCTitle
  SizeMb <- MCSize
  NumTerms = 0
  TitleHits <- MCTitleHits
  PlatformHits <- MCPlatformHits
  Inputs <- MCQueueInputs
  Elapsed = {16, 20479, 20480}
  Full = 3
  FailAt = 2
  MaxAttempts = 2
INVARIANTS
  TypeOK
  WorkerConsistent
  NoDuplicateDownloads
  TicksSettle
PROPERTIES
  PauseHolds
  ImplementsLifecycle
  WaitingIsFair
