SPECIFICATION LiveSpec
CONSTANTS
  None = None
  Source = {e1, e2, e3}
  MaxSession = 2
  MaxFaults = 2
  MaxRestarts = 1
INVARIANTS OneConnection LiveIsWatched NeverGivesUp
PROPERTIES Recovers EndedSessionIsLeft
CHECK_DEADLOCK FALSE
