SPECIFICATION MCSpec
CONSTANTS
  Checkouts = {c1}
  Probes = {p1}
  Loops = {l1}
  Items = 2
  Concurrency = 2
  DispatchLimit = 2
  MaxCancels = 1
  MaxRestarts = 1
INVARIANTS
  TypeOK
  ActiveHasExecutor
  SecretHeld
  SecretEnds
  CheckoutResult
PROPERTIES
  TerminalStays
  CheckoutLifecycle
  Settles
CHECK_DEADLOCK FALSE
