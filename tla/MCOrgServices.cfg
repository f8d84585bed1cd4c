CONSTANTS
  MaxAsg = 2
  MaxFaults = 0
  MaxAdmin = 2
  AdminOps <- AllCommands
SPECIFICATION Spec
INVARIANTS DisabledMeansNoOwnership
PROPERTIES TerminalEventFrozen
CHECK_DEADLOCK FALSE
