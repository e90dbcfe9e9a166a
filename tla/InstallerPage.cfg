SPECIFICATION Spec
CONSTANTS
  Inventories = {"a", "b"}
  Answers = {"default", "one"}
  BLANK = "default"
  Tabs = {t1}
  MaxRuns = 2
  MaxStarts = 2
  Ghosts = {}
  Reopens = FALSE
  NONE = NONE
  TORN = TORN
INVARIANTS StateHonest ReadsVerified KillKeepsAnswers
PROPERTIES InstallEnds
CHECK_DEADLOCK FALSE
