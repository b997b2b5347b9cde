CONSTANTS
  a = a
  r = r
  Callers = {c1, c2}
  Addrs = {a}
  Cidrs = {r}
  Covers <- MCCovers
  PruneInterval = 1
  MaxTime = 3
  NoReply = NoReply
  Handlers = {h1, h2}
  Ips = {i1, i2}
  Windows = {1, 2}
  MaxSteady = 4
  MaxRequests = 3
  NoCall = NoCall
SPECIFICATION MCSpec
INVARIANT IInv
INVARIANT RateWithinLag
INVARIANT IdleIpsAreSwept
PROPERTY NoPileUp
PROPERTY ImplementsBlockList
CHECK_DEADLOCK FALSE
