SPECIFICATION Spec
CONSTANTS
  sub = sub
  payg = payg
  alias = alias
  local = local
  free = free
  twin = twin
  None = None
  Refs = {sub, payg, alias, local, free, twin}
  LocalRefs = {local}
  Permanent = {"gone"}
  Unknown = {"odd", "other"}
  Transient = {"busy"}
  MinFailures = 2
  Model <- MCModel
  Billing <- MCBilling
  FreeModels <- MCFreeModels
  Scanned <- MCScanned
  Catalog <- MCCatalog
  Hints <- MCHints
  MaxSpare = 1
  Rules <- MCRules
  Order <- MCOrder
  Group <- MCGroup
  Window = 10
  UnhealthyAt = 1
  MaxFails = 2
  Scenes <- MCScenes
INVARIANTS BlocksEarned TurnsServed
PROPERTY ListsServe
