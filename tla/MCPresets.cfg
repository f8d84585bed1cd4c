CONSTANTS
  k1 = k1
  k2 = k2
  g1 = g1
  Sessions = {t1, t2}
  Keys = {k1, k2}
  Groups = {g1}
  Offsets = {0, 1}
  Starts = {3}
  Seeds <- SomePresets
  MaxOps = 3
  MaxFaults = 1
SPECIFICATION FairSpec
INVARIANTS AlwaysUsable ReadersSeeOneDefinition GroupsFollowStart
PROPERTIES ApplicationIsCurrent OperationsEnd
CHECK_DEADLOCK FALSE
