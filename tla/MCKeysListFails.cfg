\* One storage error.
CONSTANTS
  None = None
  OrgWide = OrgWide
  Node = {n1}
  Req = {r1, r2}
  App = {a1}
  Key = {1, 2}
  CreatedAt <- Clock
  Entrance = {"grant", "svid", "jwks", "keys", "validate"}
  SeedApp = None
  MaxFaults = 1
  MaxRotations = 0
SYMMETRY Interchangeable
SPECIFICATION Spec
INVARIANTS JWKSKeepsOldKeys
CHECK_DEADLOCK FALSE
