CONSTANTS
  Values = {v1, v2}
  Modes = {private, shared}
  Size = 2
  NoFile = NoFile
  Conns = {c1, c2}
  Listener = listener
  site = site
  SiteOrder <- MCSiteOrder
  Pairs = {p}
  Limits = {1, 2}
  MaxConfigs = 2
  MaxVersion = 2
  NoPair = NoPair
SPECIFICATION MCSpec
INVARIANT ReplacedOrUntouched
INVARIANT NeverMorePermissive
INVARIANT FingerprintIsHonest
INVARIANT ServedFromSnapshot
PROPERTY ImplementsAtomicReplace
PROPERTY ListenerKeepsServing
