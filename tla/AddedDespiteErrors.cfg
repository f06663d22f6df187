SPECIFICATION Spec
CONSTANTS
  Etc = Etc
  UsrBin = UsrBin
  Adu = Adu
  Paths <- MCPaths
  MaxOverlays = 2
  Images <- MCImages
  Entries <- MainEntries
  InitialMounts <- MainInitialMounts
  InitialDirs <- MCInitialDirs
  FaultSets <- MCFaultSets
PROPERTY AddedDespiteErrors
CHECK_DEADLOCK FALSE
