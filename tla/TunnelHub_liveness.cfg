SPECIFICATION FairSpec
CONSTANTS
  None = None
  Agent = {a}
  Stream = {s1}
  Session = {n1}
  Slots = 1
  AgentLimit = 1
  MaxToken = 2
  MayStop = TRUE
  MaxActors = 4
  MaxPairs = 1
CHECK_DEADLOCK FALSE
INVARIANTS StoppedIsSilent OnlyTheCurrentToken
PROPERTIES EveryConnectionSettles SlotsComeBack LocksAreReleased
