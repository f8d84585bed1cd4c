SPECIFICATION FairSweepSpec
CONSTANTS
  Workers = {w1, w2}
  NoOne = NoOne
  Rules <- TwoRules
  Nonexistent <- Skipped
  Leads <- TwoLeads
  Horizon = 7
  StaleAfter = 2
  MaxTime = 5
  MaxChanges = 2
  MaxSweepFaults = 1
INVARIANTS SlotsMaterialise
PROPERTIES RecordedOutcomeIsCurrent ChangedSeriesIsSwept
CHECK_DEADLOCK FALSE
