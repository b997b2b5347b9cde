CONSTANTS
  Ips = {a, b, c, d}
  MaxTracked = 3
  IntMin <- MCIntMin
  IntMax = 2
  Callers = {c1, c2}
  Keys = {k1, k2}
  MaxEntries = 2
  Ttl = 2
  MaxTime = 3
  MaxStarts = 4
  Logins = {l1, l2}
  Inputs <- LoginInputs
  Counts <- MCCounts
  Refused <- MCRefused
  MaxPasskeys = 2
  MaxAccepted = 2
  MaxRestarts = 1
SPECIFICATION MCSpec
INVARIANT IInv
PROPERTY ScoreNeverFalls
PROPERTY OldestIsEvicted
INVARIANT BoundedAndStamped
PROPERTY NewerCeremoniesSurvive
PROPERTY ImplementsChallengeMap
INVARIANT CountersRise
INVARIANT StoredAsAttested
CHECK_DEADLOCK FALSE
