SPECIFICATION InnerSpec
CONSTANTS
  Chunk = 2
  Modulus = 10
  Capacity = 5
  Stores <- MCStores
  Tables <- MCTables
  Matches <- MCMatches
  Etc = Etc
  UsrBin = UsrBin
  Adu = Adu
  Paths <- MCPaths
  MaxOverlays = 2
  Images <- MCImages
  InitialDirs <- MCInitialDirs
  FaultSets <- MCFaultSets
INVARIANTS
  TypeOK
  ArchiveExact
  ReadyToRemount
  SealedWhenAdded
  CertificatesShown
PROPERTIES
  BootSteps
  InnerTryEnds
CHECK_DEADLOCK FALSE
