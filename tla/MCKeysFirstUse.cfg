\* First use of an app by two requests; no rotation, no storage errors.
CONSTANTS
  None = None
  OrgWide = OrgWide
  Node = {n1}
  Req = {r1, r2}
  App = {a1}
  Key = {1, 2}
  CreatedAt <- Clock
  Entrance = {"grant", "svid", "jwks", "keys", "validate"}
  SeedApp = None
  MaxFaults = 0
  MaxRotations = 0
SYMMETRY Interchangeable
SPECIFICATION Spec
INVARIANTS OneSigningKey
CHECK_DEADLOCK FALSE
