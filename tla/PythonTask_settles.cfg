SPECIFICATION FairSpec
CONSTANTS
  Mailboxes = {1}
  Registered0 = {1}
  MaxCancels = 1
  MaxRestarts = 1
PROPERTY Settles
CHECK_DEADLOCK FALSE
