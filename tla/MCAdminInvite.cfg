\* One editor who always sends the version it holds, and one node.
CONSTANTS
  None = None
  default = default
  acme = acme
  item = item
  Node = {n1}
  Editor = {e1}
  Record = {default, acme, item}
  Kinds <- ItemIsUser
  UserOf <- ItemInvited
  SeedOrder <- DefaultOnly
  Blind = FALSE
  MaxWrites = 6
  MaxFaults = 0
SPECIFICATION Spec
INVARIANTS UpdatesRequireVersion
CHECK_DEADLOCK FALSE
