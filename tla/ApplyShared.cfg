CONSTANTS
  Clients = {c1, c2}
  StreamIds = {1}
  GroupIds = {1}
  Values = {"step0", "step1"}
  Blank = "step1"
  Canon <- MCCanon
  MaxEdits = 2
  MaxDrops = 0
SYMMETRY ClientSymmetry
VIEW SinceReadBack
SPECIFICATION Spec
PROPERTY SuccessIsServed
