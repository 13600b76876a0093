SPECIFICATION AuthoringSpec
CONSTANTS
  Value = {"none", "a"}
  Defs = {}
  MaxPointers = 6
  MaxOps = 0
  MaxCrashes = 0
  PartOf <- MCPartOf
  Worlds <- AllWorlds
  AllData <- MCAllData
  Root = "m"
  MaxBuilt = 4
  MaxRetried = 3
INVARIANTS CyclesFound TrueForGood AcceptedEvaluates AllInOrder FilesComplete
CHECK_DEADLOCK FALSE
