CONSTANTS
  a = a
  c1 = c1
  c2 = c2
  Conns = {c1, c2}
  Ips = {a}
  IpOf <- MCIpOf
  Requests <- MCOtherRequests
  Configs <- MCConfigs
  MaxTracked = 1
  IntMin <- MCIntMin
  IntMax = 3
  MaxRequests = 2
  MaxChanges = 1
SPECIFICATION FairSpec
PROPERTY EveryRequestEnds
