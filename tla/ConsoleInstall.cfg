SPECIFICATION Spec
CONSTANTS
  Keys = {"HOST_PUBLIC_IP"}
  Values = {"", "ip", "quoted", "escaped"}
  BLANK = ""
  Placeholders = {}
  Default <- OneDefault
  Exampled = {"HOST_PUBLIC_IP"}
  Options <- OneOption
  Held = {"DOMAIN"}
  Reread <- MCReread
  Machines = {m1, m2}
  Inputs <- MCInputs
  Edits <- MCEdits
  ADDR = "HOST_PUBLIC_IP"
  MaxMoves = 2
  NONE = NONE
INVARIANTS OneMachine ClientKeepsLogin
PROPERTIES StrangerGetsNothing AttemptEnds
