SPECIFICATION Spec
CONSTANTS
  Devices <- MCDevices
  IsPrefix <- MCPrefix
  Booted <- MCBooted
  Dirs <- MCDirs
  DirOf <- MCDirOf
  Templates <- MCTemplates
  FaultSets <- MCFaultSets
  MaxBoots = 3
INVARIANTS
  TypeOK
  NamesBootDevice
  ThereAfterTwoBoots
PROPERTIES
  StaysWhole
  ReportedSurvives
  EveryBootEnds
CHECK_DEADLOCK FALSE
