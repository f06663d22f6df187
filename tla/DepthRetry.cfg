SPECIFICATION Spec
CONSTANTS
  Etc = Etc
  UsrBin = UsrBin
  Adu = Adu
  Paths <- MCPaths
  MaxOverlays = 2
  Images <- MCImages
  Entries <- MCEntries
  InitialMounts <- MCInitialMounts
  InitialDirs <- MCInitialDirs
  FaultSets <- MCFaultSets
INVARIANT DepthRetry
CHECK_DEADLOCK FALSE
