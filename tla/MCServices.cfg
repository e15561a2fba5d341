\* Grants: the race of MCGrantRace across two nodes.  The other parts: see
\* MCServices.
CONSTANTS
  None = None
  acme = acme  default = default
  spa = spa  console = console  other = other
  u1 = u1  u2 = u2
  v1 = v1  vShort = vShort
  s1 = s1  s2 = s2
  i1 = i1  i2 = i2
  alice = alice  bob = bob
  Node = {n1, n2}
  Req = {r1, r2}
  Handle = {1, 2}
  Org = {acme}
  Client = {spa}
  URI = {u1}
  Verifier = {v1}
  ShortVerifier = {}
  Secret = {}
  IDP = {i1}
  User = {alice}
  DefaultOrg = acme
  PlatformClient = None
  EnvIDP = {}
  AppConfig <- SpaConfigs
  InitialApps <- SpaRegistered
  InitialIDPs <- AllUsable
  Asked <- SpaAsks
  Presented <- SpaPresents
  MaxLogins = 1
  MaxFaults = 2
  MaxEdits = 0
  \* tokens
  api = api
  k1 = k1
  k2 = k2
  Host = {h1, h2}
  Tenant = {acme, default}
  DefaultTenant = default
  Application <- TwoApps
  Resource = {api, spa}
  TrustDomain <- OneDomain
  VerifyKey = {k1, k2}
  KeysOf <- SharedKeys
  Issuer <- BothForms
  IssuerFor <- ByHost
  PathIssuer <- ByPath
  AccessTTL = 2
  IDTTL = 2
  SVIDTTL = 2
  DefaultLeeway = 1
  MaxSkew = 1
  MaxClock = 5
  MaxTokens = 2
  NoClaim = NoClaim
  \* tenants
  Label = {"acme", "default", "www", "deep", "example"}
  DefaultOrgID = "default"
  BaseDomain <- Example
  ReservedLabel = {"www"}
  Party = {p1, p2}
  Clients <- Visitors
  MaxRequests = 3
  NoTenant = ""
  \* workloads
  pay = pay
  old = old
  new = new
  idPay = idPay
  read = read
  any = any
  bank = bank
  proxy = proxy
  Workload = {w1}
  Caller = {pay, web}
  Cert = {old, new}
  Holds <- PayHoldsBoth
  URISANs <- SANsOfPay
  Lifetime <- OldRunsOut
  Proxy = {proxy}
  Elsewhere = {office}
  ProxyTrust <- TrustChoices
  SPIFFEID = {idPay}
  BuildSPIFFEID <- IdOfPay
  Scope = {read, write}
  AnyScope = any
  SVIDAudience = {api, bank}
  RegistrationBody <- PayBodies
  TTL = 1
  WriteTimeout = 1
  MaxTime = 3
  MaxRegistrations = 2
  MaxSVIDs = 1
  Absent = Absent
  \* claims
  ProviderID <- ThreeProviders
  PresetKey <- LowerCase
  ProviderRecord <- RecordChoices
  Account <- FourAccounts
  Answers <- AnswersOf
  Browser = {b1}
  Exact = 8
  FormatInt <- Digits
  MaxChanges = 3
  MaxClaims = 2
  Nothing = Nothing
SYMMETRY Interchangeable
ACTION_CONSTRAINT InOrder
SPECIFICATION ServicesSpec
INVARIANTS
  SpentHereIsGone
  TokenTypeOK FreshTokensAccepted LateTokensRefused AcceptedForItsPurpose ConsoleTokensAdmitted
  OneTenantPerParty HostDecides
  WorkloadTypeOK SVIDOnlyToKeyHolder StopIssuingIsEffective SVIDWithinAllowance
  ClaimsTypeOK OneSubjectPerUser ClaimedEmailsProven
CHECK_DEADLOCK FALSE
