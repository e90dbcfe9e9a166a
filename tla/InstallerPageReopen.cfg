SPECIFICATION Spec
CONSTANTS
  Inventories = {"a"}
  Answers = {"default", "one"}
  BLANK = "default"
  Tabs = {t1}
  MaxRuns = 2
  MaxStarts = 1
  Ghosts = {}
  Reopens = TRUE
  NONE = NONE
  TORN = TORN
INVARIANTS KeysetShown
CHECK_DEADLOCK FALSE
