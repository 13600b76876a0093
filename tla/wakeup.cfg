SPECIFICATION Spec
CONSTANTS
  Value = {"none", "k"}
  Hosts <- H2
  Workflows <- W1
  DefOf <- DefsRetried
  Children <- NoChildren
  Keys = {"k"}
  Requests <- Start1
  Registered <- AllCan
  Capable <- AllCan
  Serviced = {}
  StrictTerminate = TRUE
  MaxPointers = 8
  MaxFaults = 0
INVARIANTS MoreWorkIsScheduled
CHECK_DEADLOCK FALSE
