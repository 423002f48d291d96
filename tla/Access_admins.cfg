SPECIFICATION Spec
CONSTANTS
  e1 = e1
  e2 = e2
  g1 = g1
  Session = {s1, s2}
  User = {u1, u2}
  Email = {e1, e2}
  Token = {t1}
  Group = {g1}
  OidcAccount <- MCOidc
  GoogleAccount <- MCGoogle
  EditRole = {"admin", "reader"}
  Form <- MCForm
  EnvUsable = {"google", "oidc"}
  MaxSessions = 1
  MaxOps = 6
  None = None
SYMMETRY Symmetry
PROPERTIES AdminRemains
CHECK_DEADLOCK FALSE
