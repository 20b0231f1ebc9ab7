\* A server that omits the family of its platforms.
SPECIFICATION StartupSpec
CONSTANTS
  Platform = {"p1", "p2", "p3", "p4"}
  Rom = {1}
  Catalog <- MCNone
  CatalogRoms <- MCNoRoms
  Title <- MCNothing
  SizeMb <- MCNothing
  NumTerms = 0
  TitleHits <- MCNone
  PlatformHits <- MCNone
  Inputs = {}
  Elapsed = {}
  Full = 2
  FailAt = 2
  MaxAttempts = 1
  Servers <- MCPlainServers
  Envs <- MCEnvs
  Words <- MCWords
  Lower <- MCLower
  WpadKeys <- MCWpadKeys
  GcKeys <- MCGcKeys
  VpadKeys <- MCVpadKeys
  Targets <- MCTargets
  PlatformGuard = 2
  MaxNetRetries = 2
  RetryFrames = 2
INVARIANTS
  FallsBackToTokens
