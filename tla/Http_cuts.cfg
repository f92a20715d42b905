SPECIFICATION HttpSpec
CONSTANTS
  Places <- MCPlaces
  Responses <- MCResponses
  MaxHead = 14
  Chunk = 6
  SizeMax = 31
  Requests = 3
INVARIANTS
  FramedByTheAnswer
  KeptInStep
PROPERTIES
  EveryExchangeEnds
CHECK_DEADLOCK FALSE
