SPECIFICATION LockSpec
CONSTANTS
  Inbound <- MCInbound
  MaxDepth = 2
  MaxRules = 5
  Frames <- MCFrames
  UserRules <- MCUserRules
  Own <- MCOwn
  Tags = {"vps"}
  Family <- MCFamily
  Nets <- MCNets
  ATTEMPTS = 2
  MaxRuns = 2
  MaxChanges = 2
INVARIANTS WalkSound ProofHolds ClosedHasTailnetRule
PROPERTIES AnswerStands
