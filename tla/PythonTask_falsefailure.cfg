SPECIFICATION Spec
CONSTANTS
  Mailboxes = {1}
  Registered0 = {}
  MaxCancels = 0
  MaxRestarts = 0
INVARIANT NoFalseFailure
CHECK_DEADLOCK FALSE
