SPECIFICATION Spec
CONSTANTS
  Mailboxes = {1}
  Registered0 = {1}
  MaxCancels = 1
  MaxRestarts = 0
PROPERTY RegisteredKept
CHECK_DEADLOCK FALSE
