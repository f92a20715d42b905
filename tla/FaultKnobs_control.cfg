SPECIFICATION Safety
CONSTANTS
  Commands <- AllCommands
  Setters = {s1}
  Readers = {r1}
  Environments <- SomeEnvironments
  Peers = {"b"}
  MaxCommands = 3
INVARIANTS
  TypeOK
  GateTruthful
  ChecksAnswerByAConfiguration
  WaitsAsAsked
  ServesItsEnvironment
PROPERTIES
  ConfigSpec
