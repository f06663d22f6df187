SPECIFICATION Spec
CONSTANTS
  Etc = Etc
  UsrBin = UsrBin
  Adu = Adu
  Paths <- MCPaths
  MaxOverlays = 2
  Images <- MCImages
  Entries <- MCEntries
  InitialMounts <- MCInitialMounts
  InitialDirs <- MCInitialDirs
  FaultSets <- MCFaultSets
INVARIANTS
  TypeOK
  OneOverlay
  OverlayLimit
  AllFailedVerdict
  PersistentGate
  AddedHandledOnce
  AddedCovered
  AppOnTop
PROPERTIES
  ViewSpec
  Termination
CHECK_DEADLOCK FALSE
