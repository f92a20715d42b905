SPECIFICATION Spec
CONSTANTS
  Payload = 2
  BufferPieces = 3
  Window = 2
  Requests = 3
  MayRepeat = TRUE
INVARIANTS
  RepliesAreOwn
PROPERTIES
  ReusedClean
  BothSidesEnd
