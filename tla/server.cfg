SPECIFICATION FairSpec
CONSTANTS
    Calls = {"c1"}
    Secured = {"forge", "start"}
    Sources = {"github"}
    Refs = {"main"}
    Steps = {"build", "test"}
    Readers = {"r1"}
    Capacity = 1
    Window = 1
    MaxChunks = 2
    MaxWriters = 1
    MaxFaults = 1
    MaxTries = 1
INVARIANTS TriggeredOnce OutputInOrder
PROPERTIES StreamsDeliver
CHECK_DEADLOCK FALSE
