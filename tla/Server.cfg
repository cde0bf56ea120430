SPECIFICATION MCSpec
CONSTANTS
  MaxConns = 2
  Room = 1
  MaxFrames = 3
  MaxCasts = 1
  MaxStarts = 2
  Notifiers = {n1}
  None = None
  Kinds = {"version", "call", "unknown", "stray", "bad"}
  Verdicts = {"invalid", "on", "off", "incompatible"}
  Results = {"Response", "Error", "Blob", "Broken"}
CHECK_DEADLOCK FALSE
INVARIANTS SendOnOpenSocket
PROPERTIES ServesPeers StopReturns
ACTION_CONSTRAINT Scripted
