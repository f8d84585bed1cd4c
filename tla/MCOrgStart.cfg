CONSTANTS
  MaxAsg = 3
  MaxFaults = 1
  MaxAdmin = 0
  AdminOps <- NoCommands
SPECIFICATION FairSpec
INVARIANTS OneActiveOrganiser AwaitingIsWatched
PROPERTIES ImplementsOwnership StartIsCovered HistoryIsFinal AlreadyRequestedMeansOpen
CHECK_DEADLOCK FALSE
