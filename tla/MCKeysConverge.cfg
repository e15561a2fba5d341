\* Two nodes, one app, two keys of the same instant, one rotation; tokens are granted
\* and keys rotated, and nothing else is called; no storage errors.
CONSTANTS
  None = None
  OrgWide = OrgWide
  Node = {n1, n2}
  Req = {r1, r2}
  App = {a1}
  Key = {1, 3}
  CreatedAt <- Clock
  Entrance = {"grant", "keys"}
  SeedApp = None
  MaxFaults = 0
  MaxRotations = 1
SPECIFICATION FairSpec
PROPERTIES SigningConverges
CHECK_DEADLOCK FALSE
