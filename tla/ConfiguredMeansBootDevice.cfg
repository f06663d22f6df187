SPECIFICATION Spec
CONSTANTS
  Devices <- MCDevices
  IsPrefix <- MCPrefix
  Booted <- MCBooted
  Dirs <- MCDirs
  DirOf <- MCDirOf
  Templates <- MCTemplates
  FaultSets <- MCFaultSets
  MaxBoots = 3
INVARIANT ConfiguredMeansBootDevice
CHECK_DEADLOCK FALSE
