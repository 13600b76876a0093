SPECIFICATION AuthoringSpec
CONSTANTS
  Value = {"none", "a"}
  Defs = {}
  MaxPointers = 6
  MaxOps = 0
  MaxCrashes = 0
  PartOf <- MCPartOf
  Worlds <- Sharing
  AllData <- MCAllData
  Root = "m"
  MaxBuilt = 4
  MaxRetried = 0
INVARIANTS OwnSteps
CHECK_DEADLOCK FALSE
