CONSTANTS
  s1 = s1
  s2 = s2
  a1 = a1
  pdf = pdf
  docx = docx
  d1 = d1
  f1 = f1
  f2 = f2
  None = None
  NoData = NoData
  NoFile = NoFile
  Session = {s1, s2}
  Instance = {i1}
  Key = {k1}
  Capability <- MCCapability
  Field <- MCField
  Manifest <- MCManifest
  Files <- MCFiles
  CoreVersion = 1
  MaxSecrets = 2
  MaxOps = 4
  Person = {p1, p2}
  Address = {a1}
  Name = {"Ada"}
  Account <- MCAccount
  Listing <- MCListing
  Ext = {pdf, docx}
  Data = {d1}
  File = {f1, f2}
  MaxVersion = 2
  MaxFailures = 1
  MaxChanges = 1
  MaxRequests = 4
SPECIFICATION PartsSpec
SYMMETRY Symmetry
INVARIANTS FactsMatchLedger RowHasFile NumbersContiguous CapturedFrom
PROPERTIES UpgradesReviewed RedactedAddressStaysGone
CHECK_DEADLOCK FALSE
