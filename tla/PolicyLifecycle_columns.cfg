CONSTANTS
  Session = {s1, s2}
  Version = {v1}
  ReviewDecision = {"approved", "rejected"}
  NoVersion = NoVersion
SPECIFICATION LifecycleSpec
INVARIANT ColumnsFollowLog
CHECK_DEADLOCK FALSE
