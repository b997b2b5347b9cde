CONSTANTS
  IntMin <- MCIntMin
  IntMax = 5
  PortMax = 3
  MaxBanHours = 3
  MaxLat = 1
  MaxLon = 2
  CodeMin = 1
  CodeMax = 3
  Checks = {"check"}
  r1 = r1
  Fetches = {r1}
  Scenarios <- MCScenarios
  MaxSites = 2
  MaxPages = 2
SPECIFICATION Spec
INVARIANT ConfigIsUsable
INVARIANT RestartKeepsConfig
PROPERTY ListsChangeByRequest
PROPERTY ImportIsAnswered
