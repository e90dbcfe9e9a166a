SPECIFICATION FlowsSpec
CONSTANTS
  NOTHING = NOTHING
  UNBOUND = UNBOUND
  OWN = OWN
  Releases = {1, 2}
  Steps <- MCSteps
  Providers = {p1}
  MaxGen = 1
  Edits = {"edited"}
  AnyTime = FALSE
INVARIANTS BoundComplete OkMeansCurrent
PROPERTIES EditsStand
