CONSTANTS
  s1 = s1
  s2 = s2
  s3 = s3
  a1 = a1
  a2 = a2
  k1 = k1
  k2 = k2
  NoKey = NoKey
  Session = {s1, s2}
  Aggregate = {a1}
  Key = {k1}
  Backend = "postgres"
  MaxAttempts = 2
  MaxCalls = 1
  MaxRequests = 2
  MaxClock = 1
SPECIFICATION SpecRebuild
PROPERTIES RebuildReproducesLive
CHECK_DEADLOCK FALSE
