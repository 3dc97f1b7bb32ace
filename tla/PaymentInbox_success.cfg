SPECIFICATION MCSpec
CONSTANTS
  w1 = w1
  b1 = b1
  a1 = a1
  Web      = {w1, w2}
  UserWeb  = {w2}
  Cli      = {}
  Flows    = {}
  Bills    = {b1, b2}
  Accounts = {a1, a2}
  NoOne    = NoOne
  CliOwner = CliOwner
  Stallers = {w1, w2}
  MaxRestarts = 2
PROPERTIES
  SuccessStays
CHECK_DEADLOCK FALSE
