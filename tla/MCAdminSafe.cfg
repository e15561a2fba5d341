\* Two starting nodes, two editors, some of whose writes are unconditional.
CONSTANTS
  None = None
  default = default
  acme = acme
  item = item
  Node = {n1, n2}
  Editor = {e1, e2}
  Record = {default, item}
  Kinds <- EveryKind
  UserOf <- ItemInvited
  SeedOrder <- DefaultAndItem
  Blind = TRUE
  MaxWrites = 3
  MaxFaults = 1
SYMMETRY Interchangeable
SPECIFICATION Spec
INVARIANTS TypeOK NoLostUpdate NoSpuriousConflicts
CHECK_DEADLOCK FALSE
