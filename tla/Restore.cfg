SPECIFICATION Spec
CONSTANTS
  Session = {s1, s2}
  Artifact = {a1}
  VersionId = {v1, v2, v3}
  Occurrence = {o1}
  Test = {t1}
  Key = {k1}
  Definition = {d1}
  MaxRevision = 2
  MaxRequests = 3
  MaxLinks = 2
  None = None
SYMMETRY Symmetry
INVARIANTS VersionHistory StorageAgrees BackupIsClosed ReportIsRight
