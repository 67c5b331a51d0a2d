SPECIFICATION Spec
CONSTANTS
  Clients = {c1, c2}
  Ids = {1, 2}
  TimeoutTicks = 2
  EraseTicks = 1
  NetBound = 1
  Server = server
  Nobody = nobody
INVARIANT OneClientPerConnection
