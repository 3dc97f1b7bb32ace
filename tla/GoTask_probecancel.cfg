SPECIFICATION Spec
CONSTANTS
  Checkouts = {}
  Probes = {p1}
  Loops = {}
  Items = 1
  Concurrency = 1
  DispatchLimit = 1
  MaxCancels = 1
  MaxRestarts = 0
PROPERTIES
  ProbeCancelKept
CHECK_DEADLOCK FALSE
