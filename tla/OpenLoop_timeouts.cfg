SPECIFICATION Safety
CONSTANTS
  Connections = 1
  Warmup = 1
  Duration = 2
  RateSlots = 1
  RateTicks = 1
  ConnectTimeout = 1
  IoTimeout = 1
  MaxReply = 2
  ReconnectDelay = 1
  Outcomes <- ClassOutcomes
  SetTimeoutsMayFail = TRUE
  Persistent = 1
  MaxStolen <- StolenTicks
  Horizon = 12
  SubBucketBits = 0
  MaxValue = 3
INVARIANTS
  ExchangesBounded
