CONSTANTS
  a = a
  c1 = c1
  c2 = c2
  Conns = {c1, c2}
  Ips = {a}
  IpOf <- MCIpOf
  Requests <- MCRequests
  Configs <- MCConfigs
  MaxTracked = 1
  IntMin <- MCIntMin
  IntMax = 3
  MaxRequests = 3
  MaxChanges = 1
SPECIFICATION Spec
INVARIANT ThresholdMeansBan
INVARIANT RefusalsBiteWithinOneRequest
INVARIANT ResponsesAreRecorded
