\* Startup on both consoles, with each of the servers and environments.
SPECIFICATION StartupFairSpec
CONSTANTS
  Platform = {"p1", "p2", "p3", "p4"}
  Rom = {1}
  Catalog <- MCNone
  CatalogRoms <- MCNoRoms
  Title <- MCNothing
  SizeMb <- MCNothing
  NumTerms = 0
  TitleHits <- MCNone
  PlatformHits <- MCNone
  Inputs = {}
  Elapsed = {}
  Full = 2
  FailAt = 2
  MaxAttempts = 1
  Servers <- MCServers
  Envs <- MCEnvs
  Words <- MCWords
  Lower <- MCLower
  WpadKeys <- MCWpadKeys
  GcKeys <- MCGcKeys
  VpadKeys <- MCVpadKeys
  Targets <- MCTargets
  PlatformGuard = 2
  MaxNetRetries = 2
  RetryFrames = 2
INVARIANTS
  CatalogIsWhole
  ScreenBelongsToStartup
  HopelessUrlFailsAtOnce
PROPERTIES
  HeldKeyActsOnce
  StartupSettles
