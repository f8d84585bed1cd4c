CONSTANTS
  Groups = {g1}
  Workers = {w1}
  Handlers = {h1}
  Ops <- Commands
  MaxTime = 4
  MaxCommands = 2
  MaxFaults = 1
SPECIFICATION FairSpec
INVARIANTS OneGroupMessage GroupsAreWatched
PROPERTIES GroupsClose
CHECK_DEADLOCK FALSE
