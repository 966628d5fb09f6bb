\* pm_ovsdb_update with one failing commit: the cleared module_info_changed flags are not restored
CONSTANTS
  p1 = p1
  p2 = p2
  p3 = p3
  s1 = s1
  q1 = q1
  q2 = q2
  Ports = {p1}
  Modules = {s1, q1}
  NoModule = NoModule
  NoPort = NoPort
  Filler = Filler
  Connector <- MCConnector
  Family <- MCFamily
  PageOf <- MCPageOf
  ZeroPage <- MCZeroPage
  GarbledPages <- MCGarbledPages
  RetryCount = 2
  MaxFaults = 1
  AsBuilt = FALSE
  MaxRowGen = 2
  MaxCommitFailures = 1
  YamlMayFail = FALSE
  MaxLockLosses = 0
SPECIFICATION OvsSpec
PROPERTY PublishedConverges
