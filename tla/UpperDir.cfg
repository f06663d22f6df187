SPECIFICATION Spec
CONSTANTS
  Owners = {"root", "adu"}
  Modes = {"0755", "0700"}
  Attributes = {"acl", "label"}
  Values = {1, 2}
  SystemDirs <- MCSystemDirs
  NewOwner = "root"
  NewMode = "0755"
  FaultSets <- MCFaultSets
  MaxBoots = 3
INVARIANTS
  TypeOK
  MountedWithProperties
  AttributesCopied
PROPERTIES
  EveryCallEnds
CHECK_DEADLOCK FALSE
