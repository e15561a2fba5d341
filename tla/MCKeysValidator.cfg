\* Two apps of a tenant, one node, one request at a time; no rotation, no storage errors.
CONSTANTS
  None = None
  OrgWide = OrgWide
  Node = {n1}
  Req = {r1}
  App = {a1, a2}
  Key = {1, 2}
  CreatedAt <- Clock
  Entrance = {"grant", "svid", "jwks", "keys", "validate"}
  SeedApp = None
  MaxFaults = 0
  MaxRotations = 0
SYMMETRY Interchangeable
SPECIFICATION Spec
INVARIANTS ValidatorKnowsItsTokens
CHECK_DEADLOCK FALSE
