\* Written logic, no bus faults: is a disabled port's transmitter off once its module is acquired?
CONSTANTS
  p1 = p1
  p2 = p2
  s1 = s1
  q1 = q1
  q2 = q2
  p3 = p3
  Ports = {p1, p2}
  Modules = {s1, q1}
  NoModule = NoModule
  NoPort = NoPort
  Filler = Filler
  Connector <- MCConnector
  Family <- MCFamily
  PageOf <- MCPageOf
  ZeroPage <- MCZeroPage
  GarbledPages <- MCGarbledPages
  RetryCount = 2
  MaxFaults = 0
  AsBuilt = FALSE
INIT EnableInit
NEXT EnableNext
INVARIANT DisabledPortIsDark
