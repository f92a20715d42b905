SPECIFICATION Spec
CONSTANTS
  Connections = 2
  Warmup = 1
  Duration = 2
  ConnectTimeout = 1
  IoTimeout = 1
  MaxReply = 1
  ReconnectDelay = 1
  Outcomes <- ClassOutcomes
  SetTimeoutsMayFail = TRUE
  SecondTicks = 1
  WantSeries = TRUE
  MaxTurns = 2
  MaxStalls = 1
  Horizon = 7
INVARIANTS
  AccountsBalance
  SeriesIsTheHistogram
  NothingIsLeftBehind
PROPERTIES
  NothingFromTheWarmup
  Returns
