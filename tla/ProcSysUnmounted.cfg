SPECIFICATION Spec
CONSTANTS
  CertStore = TRUE
  Faults <- NoUmountFaults
INVARIANT ProcSysUnmounted
CHECK_DEADLOCK FALSE
