SPECIFICATION MCSpec
CONSTANTS
  u1 = u1  u2 = u2
  x1 = x1  x2 = x2
  c1 = c1  c2 = c2
  f1 = f1  f2 = f2
  b1 = b1  b2 = b2
  a1 = a1  a2 = a2
  Web      = {u1, u2, x1, x2}
  UserWeb  = {u1, u2}
  Cli      = {c1, c2}
  Flows    = {f1, f2}
  Bills    = {b1, b2}
  Accounts = {a1, a2}
  NoOne    = NoOne
  CliOwner = CliOwner
  Stallers = {u1, u2, x1, x2}
  MaxRestarts = 2
SYMMETRY Interchangeable
INVARIANTS
  FlowTypeOK
  JournalHoldsCharge
  PaidIsSettled
  AccountExclusive
  OneChargePerAddress
  FlowTellsTruth
  FailedIsOver
PROPERTIES
  ChargedOnce
CHECK_DEADLOCK FALSE
