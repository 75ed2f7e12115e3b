SPECIFICATION FairSpec
CONSTANTS
  None = None
  Error = Error
  Workers = {model}
  Diagnosing = {model}
  Finalizers = {workflow}
  model = model
  workflow = workflow
  NShots = 2
  MaxAttempts = 10
  MaxRuns = 10
  MaxFaults = 1
INVARIANTS OneRow HonestBadge DoneMeansStored
PROPERTIES EndKept EveryRunEnds
