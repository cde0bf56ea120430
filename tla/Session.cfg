CONSTANTS
  Threads = {t1, t2}
  Servers = {"a", "b", "c"}
  Ids = {1, 2}
  None = None
  PortsOf <- FewerPorts
  MaxVersion = 2
SPECIFICATION FairSpec
INVARIANT PortsAreTheServers
PROPERTIES Catches
