\* A flush answered while samples are still queued.
SPECIFICATION Spec
CONSTANTS
  MaxSamples = 2
  MaxFlushes = 1
  ListCap = 2
  PipeCap = 1
  PollCount = 2
  SecTicks = 1
  AllocFails = FALSE
  Stamp <- SameRate
INVARIANT FlushAfterData
