\* One client that follows the discovery document.
CONSTANTS
  Label = {"acme", "default", "www", "deep", "example"}
  DefaultOrgID = "default"
  BaseDomain <- Example
  ReservedLabel = {"www"}
  Party = {p1}
  Clients <- Visitors
  MaxRequests = 2
  NoTenant = ""
SPECIFICATION RoutingSpec
INVARIANTS AdvertisedKeysServed
CHECK_DEADLOCK FALSE
