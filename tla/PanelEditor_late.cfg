SPECIFICATION LiveSpec
CONSTANTS
  None = None
  Bad = Bad
  v0 = v0
  v1 = v1
  Value <- MCValue
  Initial = v0
  Elsewhere <- MCElsewhere
  MaxSession = 1
  MaxEdits = 2
  MaxWrites = 1
  MaxFaults = 1
PROPERTY
  StaleEditorIsRefused
CHECK_DEADLOCK FALSE
