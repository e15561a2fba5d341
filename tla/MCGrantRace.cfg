\* Two requests race on one node for the records of one login; one storage error
\* or crash.
CONSTANTS
  None = None
  acme = acme  default = default
  spa = spa  console = console  other = other
  u1 = u1  u2 = u2
  v1 = v1  vShort = vShort
  s1 = s1  s2 = s2
  i1 = i1  i2 = i2
  alice = alice  bob = bob
  Node = {n1}
  Req = {r1, r2}
  Handle = {1, 2, 3, 4}
  Org = {acme}
  Client = {spa}
  URI = {u1}
  Verifier = {v1}
  ShortVerifier = {}
  Secret = {}
  IDP = {i1}
  User = {alice}
  DefaultOrg = acme
  PlatformClient = None
  EnvIDP = {}
  AppConfig <- SpaConfigs
  InitialApps <- SpaRegistered
  InitialIDPs <- AllUsable
  Asked <- SpaAsks
  Presented <- SpaPresents
  MaxLogins = 1
  MaxFaults = 1
  MaxEdits = 0
ACTION_CONSTRAINT InOrder
SPECIFICATION FairSpec
INVARIANTS TypeOK NoForks OneCredentialPerLogin ExpiredNeverHonoured
PROPERTIES HonouredOnce ImplementsChain RaceHasAWinner ValidGrantYieldsTokens
CHECK_DEADLOCK FALSE
