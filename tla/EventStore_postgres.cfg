CONSTANTS
  s1 = s1
  s2 = s2
  s3 = s3
  a1 = a1
  a2 = a2
  k1 = k1
  k2 = k2
  NoKey = NoKey
  Session = {s1, s2}
  Aggregate = {a1, a2}
  Key = {k1}
  Backend = "postgres"
  MaxAttempts = 2
  MaxCalls = 2
  MaxRequests = 3
  MaxClock = 0
SPECIFICATION FairSpec
INVARIANTS GapFree OneEventPerKey ProjectionFollowsLog
PROPERTIES ImplementsEventLog EveryRequestEnds
CHECK_DEADLOCK FALSE
