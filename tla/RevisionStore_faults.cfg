SPECIFICATION Spec
CONSTANTS
  home = home
  shop = shop
  broken = broken
  NoConfig = NoConfig
  Config <- MCConfig
  Good <- MCGood
  Default = home
  MaxHistory = 2
  Deadline = 7
  StableProbes = 3
  OverlapProbes = 2
  MaxRequests = 3
  MaxVersion = 2
  MaxFaults = 2
  MaxGen = 7
INVARIANTS TypeOK ActiveIsComplete OnlyAppliedServes ConfirmedIsSettled LeftoversBounded 
PROPERTIES  KeepsPromise
