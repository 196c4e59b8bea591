SPECIFICATION BoundedSpec
CONSTANTS
  None = None
  Agent = {a, b}
  Stream = {s1, s2, s3}
  Session = {n1, n2}
  Slots = 2
  AgentLimit = 1
  MaxToken = 2
  MayStop = FALSE
  MaxActors = 5
  MaxPairs = 3
SYMMETRY Symmetric
CHECK_DEADLOCK FALSE
INVARIANTS TypeOK SlotsAccounted StreamsDieWithTheirSession
PROPERTY SuccessorsStay
