SPECIFICATION Safety
CONSTANTS
  Commands <- TwoFaults
  Setters = {s1, s2}
  Readers = {r1}
  Environments <- NoEnvironment
  Peers = {"b"}
  MaxCommands = 3
INVARIANTS
  GateTruthful
