CONSTANTS
  c1 = c1
  v1 = v1
  v2 = v2
  q1 = q1
  s1 = s1
  s2 = s2
  None = None
  Session = {s1, s2}
  Control = {c1}
  Version = {v1, v2}
  Period = {q1}
  StartsOn <- MCStartsOn
  EndsOn <- MCEndsOn
  Interval <- MCInterval
  HorizonMonths = 1
  FirstYear = 2024
  Calendar <- MCCalendar
  ManualDates <- MCManualDates
  Claim <- MCClaim
  MaxRequests = 3
  Evidence <- MCEvidence
SPECIFICATION Spec
SYMMETRY Symmetry
INVARIANTS OneOccurrencePerDueDate ScheduleIsKept OccurrenceIsTrue PlannedPeriodIsEmpty
CHECK_DEADLOCK FALSE
