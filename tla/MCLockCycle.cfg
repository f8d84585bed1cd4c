CONSTANTS
  Sessions = {s1, s2}
  Issued <- OrganiserPrograms
SPECIFICATION Spec
INVARIANTS NoLockCycle
CHECK_DEADLOCK FALSE
