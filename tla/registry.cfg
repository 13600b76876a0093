\* Three registrations, two by RegisterWorkflow, and two starts, against the
\* consumer; one of the definitions has a sub-workflow step, one declares
\* services on a host without a ServiceProvider.
CONSTANTS
  Yaml = {y1, y2}
  Coded = {c1}
  Parents = {y1}
  Declaring = {y2}
  Provided = {}
  Starters = {s1, s2}
  Consumer = consumer
SPECIFICATION FairSpec
INVARIANT CompiledCanExecute
PROPERTY CallsReturn
CHECK_DEADLOCK FALSE
