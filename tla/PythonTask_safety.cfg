SPECIFICATION Spec
CONSTANTS
  Mailboxes = {1, 2}
  Registered0 = {2}
  MaxCancels = 1
  MaxRestarts = 1
INVARIANTS
  TypeOK
  ChildIsKillable
  WatcherLeavesTerminal
PROPERTY CompletedStays
CHECK_DEADLOCK FALSE
