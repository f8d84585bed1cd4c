CONSTANTS
  Handlers = {h1}
  Ops <- Commands
  MaxTime = 5
  MaxCommands = 2
  MaxFaults = 1
SPECIFICATION FairSpec
INVARIANTS OnePublicMessage OpenHasCloser EndIsWatched
PROPERTIES FinalStatusIsFinal EventEnds
CHECK_DEADLOCK FALSE
