SPECIFICATION FairSpec
CONSTANTS
  None = None
  Connection = {c1, c2, c3}
  Address = {proxy, x}
  Trusted = {proxy}
  Limit <- MCLimit
  ClientLimit = 1
  ProxyLimit = 2
INVARIANTS TypeOK PermitsAccounted LimitsHold
PROPERTY PendingEnds
