SPECIFICATION Spec
CONSTANTS
  k1 = k1
  k2 = k2
  k3 = k3
  f1 = f1
  NOREPO = NOREPO
  FILES = FILES
  NONE = NONE
  Passwords <- KeyNames
  Foreign <- ForeignKeys
  Dests = {d1, d2}
  Procs = {p1}
  Choices = {"keep", "fresh"}
  CUT = CUT
INVARIANTS EveryRepoOpens OkMeansRekeyed
PROPERTIES OthersStand HeldNotRekeyed
CHECK_DEADLOCK FALSE
