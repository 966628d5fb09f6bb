\* The written logic of pm_read_module_state (short-circuits removed)
CONSTANTS
  p1 = p1
  p2 = p2
  s1 = s1
  q1 = q1
  p3 = p3
  q2 = q2
  Ports = {p1, p2, p3}
  Modules = {s1, q1, q2}
  NoModule = NoModule
  NoPort = NoPort
  Filler = Filler
  Connector <- MCConnector
  Family <- MCFamily
  PageOf <- MCPageOf
  ZeroPage <- MCZeroPage
  GarbledPages <- MCGarbledPages
  RetryCount = 2
  MaxFaults = 2
  AsBuilt = FALSE
SPECIFICATION Spec
INVARIANTS TypeOK IdentityIsGenuine DomRequestServiced
