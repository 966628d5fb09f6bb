\* pm_read_yaml_files may fail on the first sight of the subsystem: one SFP+ port, its row present from the start
CONSTANTS
  p1 = p1
  p2 = p2
  p3 = p3
  s1 = s1
  q1 = q1
  q2 = q2
  Ports = {p1}
  Modules = {s1}
  NoModule = NoModule
  NoPort = NoPort
  Filler = Filler
  Connector <- MCConnector
  Family <- MCFamily
  PageOf <- MCPageOf
  ZeroPage <- MCZeroPage
  GarbledPages <- MCGarbledPages
  RetryCount = 2
  MaxFaults = 0
  AsBuilt = FALSE
  MaxRowGen = 1
  MaxCommitFailures = 0
  YamlMayFail = TRUE
  MaxLockLosses = 0
SPECIFICATION OvsSpec
PROPERTY RowsTracked
