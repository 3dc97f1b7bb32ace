SPECIFICATION Spec
CONSTANTS
  Mailboxes = {1}
  Registered0 = {}
  MaxCancels = 1
  MaxRestarts = 0
PROPERTY CancelSignalKept
CHECK_DEADLOCK FALSE
