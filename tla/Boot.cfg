SPECIFICATION Spec
CONSTANTS
  CertStore = TRUE
  Faults <- AllFaults
INVARIANTS
  TypeOK
  LedgersSound
  ProcAndSysMounted
  NothingLeftBehind
  PersistentStays
PROPERTIES
  EngineReached
  Termination
CHECK_DEADLOCK FALSE
