\* Right and wrong credentials against an app and providers that are edited.
CONSTANTS
  None = None
  acme = acme  default = default
  spa = spa  console = console  other = other
  u1 = u1  u2 = u2
  v1 = v1  vShort = vShort
  s1 = s1  s2 = s2
  i1 = i1  i2 = i2
  alice = alice  bob = bob
  Node = {n1}
  Req = {r1}
  Handle = {1, 2, 3, 4}
  Org = {acme, default}
  Client = {spa, console}
  URI = {u1, u2}
  Verifier = {v1, vShort}
  ShortVerifier = {vShort}
  Secret = {s1, s2}
  IDP = {i1, i2}
  User = {alice, bob}
  DefaultOrg = default
  PlatformClient = console
  EnvIDP = {i1}
  AppConfig <- Configs
  InitialApps <- Registered
  InitialIDPs <- Providers
  Asked <- Asks
  Presented <- Presents
  MaxLogins = 1
  MaxFaults = 1
  MaxEdits = 1
SYMMETRY UsersAlike
ACTION_CONSTRAINT InOrder
SPECIFICATION Spec
INVARIANTS ProofOfPossession ChainKeepsBinding
CHECK_DEADLOCK FALSE
