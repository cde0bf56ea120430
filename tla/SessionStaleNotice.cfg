CONSTANTS
  Threads = {t1}
  Servers = {"a", "b"}
  Ids = {1, 2}
  None = None
  PortsOf <- FewerPorts
  MaxVersion = 1
SPECIFICATION Spec
INVARIANT AsksForKnownPorts
