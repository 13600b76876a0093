SPECIFICATION FairSpec
CONSTANTS
  Value = {"none", "a", "b"}
  Defs <- Blocks
  MaxPointers = 8
  MaxOps = 3
  MaxCrashes = 2
INVARIANTS BlocksJoined OneItemAtATime NotStuck
PROPERTIES FinishedIsFinal CompleteIsFinal EventuallyEnds
CHECK_DEADLOCK FALSE
