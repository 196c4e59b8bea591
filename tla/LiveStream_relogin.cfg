SPECIFICATION LiveSpec
CONSTANTS
  None = None
  Source = {e1, e2}
  MaxSession = 2
  MaxFaults = 1
  MaxRestarts = 0
PROPERTY ReconnectsAutomatically
CHECK_DEADLOCK FALSE
