SPECIFICATION Spec
CONSTANTS
  Value = {"none", "k"}
  Hosts = {h1, h2}
  Workflows <- W2
  DefOf <- OneStep
  Children <- NoChildren
  Keys = {"k"}
  Requests <- Broadcast
  Registered <- AllCan
  Capable <- AllCan
  Serviced = {}
  StrictTerminate = FALSE
  MaxPointers = 8
  MaxFaults = 0
INVARIANTS EventsNotAbandoned AnnouncedOnce NoLostUpdate
SYMMETRY HostSymmetry
CHECK_DEADLOCK FALSE
