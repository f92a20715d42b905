SPECIFICATION Spec
CONSTANTS
  Commands <- HangsAndCuts
  Setters = {s1, s2}
  Readers = {r1}
  Environments <- NoEnvironment
  Peers = {"b"}
  MaxCommands = 3
INVARIANTS
  FlagTruthful
PROPERTIES
  ChecksReturn
