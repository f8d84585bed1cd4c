SPECIFICATION FairSpec
CONSTANTS
  Actions = {a1, a2}
  Workers = {w1,w2}
  NoOne = NoOne
  MaxAttempts = 2
  BatchLimit = 1
  MaxEpoch <- OneReset
  MaxCrashes = 1
INVARIANT AttemptBudget
INVARIANT ClaimsUnique
PROPERTY ImplementsDurableJobs
PROPERTY EveryActionSettles
