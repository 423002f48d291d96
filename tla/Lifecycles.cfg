CONSTANTS
  s1 = s1
  s2 = s2
  v1 = v1
  v2 = v2
  c1 = c1
  c2 = c2
  o1 = o1
  o2 = o2
  q1 = q1
  t1 = t1
  t2 = t2
  None = None
  NoVersion = NoVersion
  Session = {s1, s2}
  Version = {v1, v2}
  ReviewDecision = {"approved", "rejected"}
  Control = {c1, c2}
  Period = {q1}
  Occurrence = {o1, o2}
  Population = {"p1"}
  Sample = {"k1"}
  Test = {t1, t2}
  Finding = {"f1"}
  OccControl <- MCOccControl
  OccPeriod <- MCOccPeriod
  Decision = {"risk_accepted"}
  MaxEvents = 4
SPECIFICATION LifecyclesSpec
SYMMETRY Symmetry
INVARIANTS OneEffective StatusFollowsLog EffectiveWasApproved TestedItsOwnControl RetestsKeepLineage FindingHistory
CHECK_DEADLOCK FALSE
