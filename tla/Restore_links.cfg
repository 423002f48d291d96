SPECIFICATION Spec
CONSTANTS
  Session = {s1}
  Artifact = {a1}
  VersionId = {v1}
  Occurrence = {o1}
  Test = {t1}
  Key = {k1}
  Definition = {d1}
  MaxRevision = 1
  MaxRequests = 1
  MaxLinks = 1
  None = None
INVARIANT PassedMeansRestored
