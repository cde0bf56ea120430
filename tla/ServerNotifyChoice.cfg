SPECIFICATION MCSpec
CONSTANTS
  MaxConns = 1
  Room = 2
  MaxFrames = 1
  MaxCasts = 1
  MaxStarts = 1
  Notifiers = {n1}
  None = None
  Kinds = {"version"}
  Verdicts = {"on", "off", "incompatible"}
  Results = {"Response"}
CHECK_DEADLOCK FALSE
PROPERTY NotifiedByChoice
