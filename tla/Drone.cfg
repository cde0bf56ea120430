SPECIFICATION MCSpec
CONSTANTS
  c1 = c1
  c2 = c2
  Clients = {c1, c2}
  None = None
  Sessions = {"capture", "emul", "rx", "ttag"}
  Groups = {1, 2}
  Rpcs <- MCRpcs
  Streams <- MCStreams
  MaxPackets = 1
  MaxSent = 2
  MaxCalls = 4
ACTION_CONSTRAINT InScenario
CHECK_DEADLOCK FALSE
INVARIANTS
  BreaksLiveSession
  CaptureIsStable
PROPERTIES
  StatsComplete
  CallsReturn
