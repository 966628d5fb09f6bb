\* pmd_run end to end: an SFP+ port and a port of another connector; rows added, deleted and re-added; the lock granted late and lost once
CONSTANTS
  p1 = p1
  p2 = p2
  p3 = p3
  s1 = s1
  q1 = q1
  q2 = q2
  Ports = {p1, p3}
  Modules = {s1}
  NoModule = NoModule
  NoPort = NoPort
  Filler = Filler
  Connector <- MCConnector
  Family <- MCFamily
  PageOf <- MCPageOf
  ZeroPage <- MCZeroPage
  GarbledPages <- MCGarbledPages
  RetryCount = 2
  MaxFaults = 0
  AsBuilt = FALSE
  MaxRowGen = 2
  MaxCommitFailures = 0
  YamlMayFail = FALSE
  MaxLockLosses = 1
SPECIFICATION OvsSpec
INVARIANTS PublishedMatchesRecord
PROPERTY RowsTracked
