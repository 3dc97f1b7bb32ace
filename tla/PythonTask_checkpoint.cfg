SPECIFICATION Spec
CONSTANTS
  Mailboxes = {1}
  Registered0 = {}
  MaxCancels = 0
  MaxRestarts = 0
PROPERTY CheckpointKept
CHECK_DEADLOCK FALSE
