SPECIFICATION Spec
CONSTANTS
  SubBucketBits = 2
  MaxValue = 21
  Workers = 1
  Values = {1, 20}
  Batches = {1, 999}
  MaxBatches = 2
  RoundsUp = {999}
INVARIANTS
  WithinTheBound
CHECK_DEADLOCK FALSE
