CONSTANTS
  MaxAsg = 3
  MaxFaults = 0
  MaxAdmin = 1
  AdminOps <- Assignments
SPECIFICATION Spec
INVARIANTS OneActiveOrganiser
CHECK_DEADLOCK FALSE
