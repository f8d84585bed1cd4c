CONSTANTS
  Sessions = {t1, t2}
  Times = {"noon", "night"}
  PingRoles = {p1}
  Reminders = {r1}
  Dates = {d1}
  Offsets = {1, 2}
  Edits <- SomeEdits
  Seeds <- SomeTemplates
  NoTime = NoTime
  NoDate = NoDate
  MaxOps = 3
  MaxFaults = 1
SPECIFICATION Spec
INVARIANTS TemplateIsConsistent NeverInvalid GeneratedFromOneRevision CurrentMeansUnchanged AllOrNothing NoNomineesWhileDisabled
CHECK_DEADLOCK FALSE
