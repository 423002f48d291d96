CONSTANTS
  w1 = w1
  w2 = w2
  j1 = j1
  j2 = j2
  n1 = n1
  n2 = n2
  c1 = c1
  bad = bad
  Nobody = Nobody
  NoEntry = NoEntry
  Worker = {w1, w2}
  Job = {j1, j2}
  Stale = 3
  MaxHold = 2
  MaxAttempts = 2
  BackoffBase = 1
  MaxCrashes = 1
  Name = {n1, n2}
  Content = {c1, bad}
  Bad = {bad}
  Backend = "sqlite"
  MaxDrops = 3
  MaxPollCrashes = 1
SPECIFICATION WorkersSpec
INVARIANTS NeverDoubleRun RetryBudget ImportedOnce NothingLost
PROPERTIES OutcomeIsFinal EveryJobEnds EveryFileArchived
