SPECIFICATION FairSpec
CONSTANTS
  Value = {"none", "k"}
  Hosts <- H2
  Workflows <- W1
  DefOf <- DefsRetried
  Children <- NoChildren
  Keys = {"k"}
  Requests <- Control
  Registered <- AllCan
  Capable <- OnlyH1
  Serviced = {"w1"}
  StrictTerminate = TRUE
  MaxPointers = 4
  MaxFaults = 0
PROPERTIES InstancesEnd
CHECK_DEADLOCK FALSE
