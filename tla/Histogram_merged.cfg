SPECIFICATION Spec
CONSTANTS
  SubBucketBits = 2
  MaxValue = 21
  Workers = 2
  Values = {0, 3, 4, 9, 15, 16, 20, 21, 22, 40}
  Batches = {1, 9, 99}
  MaxBatches = 3
  RoundsUp = {999}
INVARIANTS
  RunIsTheUnion
  NeverUnderReports
  WithinTheBound
CHECK_DEADLOCK FALSE
