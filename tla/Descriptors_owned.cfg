SPECIFICATION Spec
CONSTANTS
  Workers = {w1, w2}
  Acceptor = a
  Addresses = 2
  Timeout = 2
  TicksPerMs = 2
  MaxFds = 3
INVARIANTS
  OneOwner
  ConnectKeepsItsWord
PROPERTIES
  WaitsItsTimeout
  ConnectEnds
