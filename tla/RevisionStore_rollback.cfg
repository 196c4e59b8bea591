SPECIFICATION Spec
CONSTANTS
  home = home
  shop = shop
  broken = broken
  NoConfig = NoConfig
  Config <- MCConfig
  Good <- MCGood
  Default = home
  MaxHistory = 1
  Deadline = 5
  StableProbes = 2
  OverlapProbes = 1
  MaxRequests = 3
  MaxVersion = 1
  MaxFaults = 1
  MaxGen = 5
INVARIANT VerifiedRollbackIsSettled
