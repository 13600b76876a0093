\* Two clients, one with a fault, on each of the three providers and the artifact store.
CONSTANTS
  Backends = {"memory", "postgres", "sqlite", "files"}
  Clients = {c1, c2}
  Workflows = {w1, w2}
  Subs = {s1}
  Digests = {d1}
  Commands = {k1}
  Migrations = 2
  Locked = TRUE
  MaxCalls = 5
  MaxFaults = 1
SPECIFICATION Spec
INVARIANTS WaitersFound StartsTogether ArtifactsThere
PROPERTIES Implements CommandsKept
CHECK_DEADLOCK FALSE
