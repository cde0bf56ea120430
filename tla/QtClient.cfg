SPECIFICATION MCQtSpec
CONSTANTS
  Blank = "blank"
  Canon <- MCCanon
  NumPorts = 2
  OnServer <- MCOnServer
  Session <- MCSession
  Values = {"b"}
  MaxDrops = 1
  MaxEdits = 2
  MaxApplies = 2
  MaxPolls = 1
  MaxChanges = 1
  MaxCommands = 1
ACTION_CONSTRAINT Bounds
INVARIANTS SyncedIsApplied SessionOpened
PROPERTIES WindowReturns Hydrates
CHECK_DEADLOCK FALSE
