SPECIFICATION PagesSpec
CONSTANTS
  None = None
  v0 = v0
  v1 = v1
  Value <- MCValue
  Initial = v0
  a1 = a1
  a2 = a2
  Unset = Unset
  Address <- MCAddress
  Http = {a1}
  e1 = e1
  e2 = e2
  r1 = r1
  r2 = r2
  Lists <- MCLists
  Offered <- MCOffered
  Published <- MCPublished
  Route <- MCRoute
  Limit = 2
  MaxSession = 2
  MaxOps = 2
  DockerOps = 3
  MaxEvents = 1
INVARIANTS ChosenIsMeant
PROPERTIES AgentsChangedAsShown HttpWasAgreed ListsCatchUp TargetsLandWhereMeant
CHECK_DEADLOCK FALSE
