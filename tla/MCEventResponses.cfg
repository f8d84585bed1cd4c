CONSTANTS
  Members = {m1}
  Options = {o1}
  Groups = {g1}
  Barred <- NobodyBarred
  Clicks = {c1, c2}
  MaxTime = 1
  MaxClicks = 3
  MaxCommands = 1
  MaxFaults = 1
SPECIFICATION Spec
INVARIANTS UnseenIsAwaited
PROPERTIES LateClicksChangeNothing AcceptedIsAvailable
CHECK_DEADLOCK FALSE
SYMMETRY Symmetric
