\* One node, one app, which a first start may seed, one rotation, one storage error or crash.
CONSTANTS
  None = None
  OrgWide = OrgWide
  Node = {n1}
  Req = {r1, r2}
  App = {a1}
  Key = {1, 2}
  CreatedAt <- Clock
  Entrance = {"grant", "svid", "jwks", "keys", "validate"}
  SeedApp = a1
  MaxFaults = 1
  MaxRotations = 1
SYMMETRY Interchangeable
SPECIFICATION Spec
INVARIANTS TypeOK GrantTokensPublished GrantSignersHavePrivateKeys JWKSKeepsOldKeysUntilAFault
CHECK_DEADLOCK FALSE
