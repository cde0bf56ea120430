CONSTANTS
  Clients = {c1}
  StreamIds = {1}
  GroupIds = {1}
  Values = {"blank", "step0", "step1"}
  Blank = "blank"
  Canon <- MCCanon
  MaxEdits = 3
  MaxDrops = 1
SPECIFICATION FairSpec
INVARIANT CleanIsApplied
PROPERTIES NoEditLost Converges
