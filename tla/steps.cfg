\* Two workflows of one family on Kubernetes, one of any other kind; one retry, one fault.
CONSTANTS
  Kinds = {"kubernetes", "containerd", "shell", "cargo", "rustup", "deno", "buildkit", "git"}
  Runners = {r1, r2}
  Root = r1
  MaxTries = 2
  MaxFeatures = 3
  MaxFaults = 1
SPECIFICATION FairSpec
INVARIANTS SuccessIsReal Tidy TimeoutStops 
PROPERTIES RunsEnd
CHECK_DEADLOCK FALSE
