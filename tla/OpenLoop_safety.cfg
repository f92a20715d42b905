SPECIFICATION Spec
CONSTANTS
  Connections = 2
  Warmup = 1
  Duration = 2
  RateSlots = 4
  RateTicks = 3
  ConnectTimeout = 1
  IoTimeout = 1
  MaxReply = 1
  ReconnectDelay = 2
  Outcomes <- ClassOutcomes
  SetTimeoutsMayFail = TRUE
  Persistent = 3
  MaxStolen <- StolenTicks
  Horizon = 12
  SubBucketBits = 0
  MaxValue = 3
INVARIANTS
  TypeOK
  SlotsConserved
  AccountsBalance
  RigLagIsTheRigs
  VoidOnlyByRig
  EndLedger
PROPERTIES
  SentOnSchedule
  LatencyNeverFlatters
  LedgerSafety
  Returns
  LedgerSpec
