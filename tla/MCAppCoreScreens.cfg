\* Every action on every screen, with up to two ROMs to download.
SPECIFICATION Spec
CONSTANTS
  Platform = {"p1", "p2"}
  Rom = {1, 3}
  Catalog <- MCTwoPlatforms
  CatalogRoms <- MCListScreens
  Title <- MCTitle
  SizeMb <- MCSizeScreens
  NumTerms = 2
  TitleHits <- MCTitleHits
  PlatformHits <- MCPlatformHits
  Inputs <- MCAllInputs
  Elapsed = {16}
  Full = 2
  FailAt = 2
  MaxAttempts = 2
INVARIANTS
  SelectionInRange
  RowsAreDistinct
PROPERTIES
  BackLeadsHome
  DetailKeepsItsRom
