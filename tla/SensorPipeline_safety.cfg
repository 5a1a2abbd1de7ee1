\* Three samples per sensor through lists of two and a pipe of one: both kinds
\* of overflow, stamps that cross and meet, a first sample of the accelerometer
\* that is discarded.
SPECIFICATION Spec
CONSTANTS
  MaxSamples = 3
  MaxFlushes = 0
  ListCap = 2
  PipeCap = 1
  PollCount = 2
  SecTicks = 3
  AllocFails = FALSE
  Stamp <- Crossing
INVARIANTS TypeOK LockDiscipline NoLostWakeup SampleAccounting InOrder MergedByTime
PROPERTIES LossOnlyWhenFull
