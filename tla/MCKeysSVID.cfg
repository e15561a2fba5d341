\* SVIDs and token validation on one node, one request at a time; no storage errors.
CONSTANTS
  None = None
  OrgWide = OrgWide
  Node = {n1}
  Req = {r1}
  App = {a1}
  Key = {1, 2}
  CreatedAt <- Clock
  Entrance = {"grant", "svid", "jwks", "keys", "validate"}
  SeedApp = None
  MaxFaults = 0
  MaxRotations = 0
SYMMETRY Interchangeable
SPECIFICATION Spec
INVARIANTS SVIDSignersHavePrivateKeys
CHECK_DEADLOCK FALSE
