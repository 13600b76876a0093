\* Two hosts, one of which also processes events of the instance.
SPECIFICATION FairSpec
CONSTANTS
  Hosts = {h1, h2}
  EventHosts = {h1}
  Backends = {"memory", "valkey", "nats"}
  Ttl = 3
  MayOutlive = FALSE
  MaxFaults = 1
  Capacity = 1
  MaxItems = 2
  MaxStops = 1
INVARIANTS OnePass
PROPERTIES LockComesFree ItemsTaken
CHECK_DEADLOCK FALSE
