SPECIFICATION Spec
CONSTANTS
  Value = {"none", "k"}
  Hosts <- H2
  Workflows <- W2
  DefOf <- DefsFamily
  Children <- ChildW2
  Keys = {"k"}
  Requests <- Wait1
  Registered <- ParentOnH1
  Capable <- AllCan
  Serviced = {}
  StrictTerminate = TRUE
  MaxPointers = 8
  MaxFaults = 2
INVARIANTS WellFormed WorkExists WaitersSubscribed
INVARIANTS MutualExclusion ChildrenAwaited
PROPERTIES FinishedIsFinal LocksNotForgotten
CHECK_DEADLOCK FALSE
