SPECIFICATION Spec
CONSTANTS
  Numbers <- MCNumbers
  NotANumber = NotANumber
  Modulus = 1024
INVARIANTS
  TypeOK
  RightImage
  NumbersKept
  NothingLeft
PROPERTY Termination
CHECK_DEADLOCK FALSE
