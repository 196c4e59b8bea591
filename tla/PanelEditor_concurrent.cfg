SPECIFICATION LiveSpec
CONSTANTS
  None = None
  Bad = Bad
  v0 = v0
  v1 = v1
  Value <- MCValue
  Initial = v0
  Elsewhere <- MCElsewhere
  MaxSession = 2
  MaxEdits = 2
  MaxWrites = 1
  MaxFaults = 1
INVARIANTS
  TypeOK
  UnsavedIsFlagged
  EditorIsOfItsRevision
PROPERTIES
  ReadOnlyPagesCatchUp
  SyncSparesEdits
  AppliedWasShown
  SavesReplaceWhatWasEdited
CHECK_DEADLOCK FALSE
