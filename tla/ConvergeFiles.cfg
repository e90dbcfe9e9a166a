SPECIFICATION Spec
CONSTANTS
  Paths = {"unit"}
  Contents = {"c1", "c2"}
  NONE = NONE
  Releases = {"r1", "r2"}
  Declares <- MCDeclares
  Bytes <- MCBytes
  FeaturesOff = TRUE
  OthersOverlap = FALSE
PROPERTIES PruneOnlyOurs
