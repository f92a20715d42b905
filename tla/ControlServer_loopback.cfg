SPECIFICATION Spec
CONSTANTS
  Operators = {o1, o2}
  OnLoopback = TRUE
  CallsMayFail = TRUE
  Window = 3
  MaxLines = 2
INVARIANTS
  LinesObeyedOnce
PROPERTIES
  NoLineIsDropped
  TheThreadComesBack
