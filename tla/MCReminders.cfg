CONSTANTS
  Reminders = {r1}
  h1 = h1
  h2 = h2
  Handlers <- TwoHandlers
  Ops <- AnyCommandAndAReopening
  Minutes <- OneMinute
  MaxAttempts = 2
  MaxTime = 4
  MaxCommands = 3
  MaxFaults = 1
SPECIFICATION Spec
INVARIANTS ScheduleFollowsEvent SentOnce NoReminderForgotten
CHECK_DEADLOCK FALSE
